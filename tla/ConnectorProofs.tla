--------------------------- MODULE ConnectorProofs ---------------------------
(***************************************************************************)
(* Proofs about the queue of MsgQueue.h and the connect thread that reads  *)
(* it, for any number of requests, sockets and sizes of the fdset.         *)
(***************************************************************************)
EXTENDS Connector, SequenceFacts

(* The queue. *)

MqTypes ==
    /\ mWriteList \in Seq(Nat) /\ mSharedList \in Seq(Nat) /\ mReadList \in Seq(Nat)
    /\ mqPopped \in Seq(Nat) /\ mqPushed \in Nat

Rising(q) == \A i, j \in 1..Len(q) : i < j => q[i] < q[j]
Before(A, B) == \A a \in A : \A b \in B : a < b

\* The reader's list, what is behind it, and what was popped: each message is in
\* one of them, and the batches are in push order.
Intact(read, rest, popped, n) ==
    /\ Rising(read) /\ Rising(rest)
    /\ Before(Elements(read) \cup Elements(popped), Elements(rest))
    /\ Elements(popped) \cup Elements(read) \cup Elements(rest) = 1..n
    /\ Elements(popped) \cap Elements(read) = {}
    /\ Len(popped) + Len(read) + Len(rest) = n

mqRest == mSharedList \o mWriteList

MqInv == MqTypes /\ Intact(mReadList, mqRest, mqPopped, mqPushed)

\* Appending adds one element.
LEMMA ElementsOfAppend ==
    ASSUME NEW q \in Seq(Nat), NEW e \in Nat
    PROVE  Elements(Append(q, e)) = Elements(q) \cup {e}
<1> DEFINE r == Append(q, e)
<1>1. r \in Seq(Nat) /\ Len(r) = Len(q) + 1 /\ Len(q) \in Nat /\ r[Len(q) + 1] = e
      /\ \A i \in 1..Len(q) : r[i] = q[i]
  OBVIOUS
<1> HIDE DEF r
<1>2. ASSUME NEW x \in Elements(r) PROVE x \in Elements(q) \cup {e}
  <2>1. PICK i \in 1..Len(r) : x = r[i]
    BY DEF Elements
  <2>2. i \in 1..Len(q) \/ i = Len(q) + 1
    BY <1>1
  <2> QED BY <1>1, <2>1, <2>2 DEF Elements
<1>3. ASSUME NEW x \in Elements(q) PROVE x \in Elements(r)
  <2>1. PICK i \in 1..Len(q) : x = q[i]
    BY DEF Elements
  <2>2. i \in 1..Len(r)
    BY <1>1
  <2> QED BY <1>1, <2>1, <2>2 DEF Elements
<1>4. e \in Elements(r)
  <2>1. Len(q) + 1 \in 1..Len(r)
    BY <1>1
  <2> QED BY <1>1, <2>1 DEF Elements
<1> QED BY <1>2, <1>3, <1>4 DEF r

\* A concatenation has the elements of both.
LEMMA ElementsOfConcat ==
    ASSUME NEW p \in Seq(Nat), NEW q \in Seq(Nat)
    PROVE  Elements(p \o q) = Elements(p) \cup Elements(q)
<1> DEFINE r == p \o q
<1>1. r \in Seq(Nat) /\ Len(p) \in Nat /\ Len(q) \in Nat /\ Len(r) = Len(p) + Len(q)
      /\ \A i \in 1..(Len(p) + Len(q)) : r[i] = IF i <= Len(p) THEN p[i] ELSE q[i - Len(p)]
  BY ConcatProperties
<1> HIDE DEF r
<1>2. ASSUME NEW x \in Elements(r) PROVE x \in Elements(p) \cup Elements(q)
  <2>1. PICK i \in 1..Len(r) : x = r[i]
    BY DEF Elements
  <2>2. i \in 1..(Len(p) + Len(q))
    BY <1>1
  <2>3. CASE i <= Len(p)
    <3>1. i \in 1..Len(p) /\ x = p[i]
      BY <1>1, <2>1, <2>2, <2>3
    <3> QED BY <3>1 DEF Elements
  <2>4. CASE ~ (i <= Len(p))
    <3>1. i - Len(p) \in 1..Len(q) /\ x = q[i - Len(p)]
      BY <1>1, <2>1, <2>2, <2>4
    <3> QED BY <3>1 DEF Elements
  <2> QED BY <2>3, <2>4
<1>3. ASSUME NEW x \in Elements(p) PROVE x \in Elements(r)
  <2>1. PICK i \in 1..Len(p) : x = p[i]
    BY DEF Elements
  <2>2. i \in 1..Len(r) /\ i <= Len(p) /\ i \in 1..(Len(p) + Len(q))
    BY <1>1
  <2> QED BY <1>1, <2>1, <2>2 DEF Elements
<1>4. ASSUME NEW x \in Elements(q) PROVE x \in Elements(r)
  <2>1. PICK i \in 1..Len(q) : x = q[i]
    BY DEF Elements
  <2>2. /\ i + Len(p) \in 1..Len(r) /\ i + Len(p) \in 1..(Len(p) + Len(q))
        /\ ~ (i + Len(p) <= Len(p)) /\ i + Len(p) - Len(p) = i
    BY <1>1
  <2>3. r[i + Len(p)] = q[i]
    BY SMTT(40), <1>1, <2>2
  <2> QED BY <2>1, <2>2, <2>3 DEF Elements
<1> QED BY <1>2, <1>3, <1>4 DEF r

\* Taking one message out of a rising list takes out that message only.
LEMMA ElementsOfWithout ==
    ASSUME NEW p \in Seq(Nat), NEW q \in Seq(Nat), NEW k \in 1..Len(p), IsWithout(p, q, k),
           Rising(p)
    PROVE  /\ Rising(q)
           /\ Elements(p) = Elements(q) \cup {p[k]} /\ p[k] \notin Elements(q)
<1>1. /\ \A i \in 1..Len(q) : \E j \in 1..Len(p) : j # k /\ q[i] = p[j]
      /\ \A j \in 1..Len(p) : j # k => \E i \in 1..Len(q) : q[i] = p[j]
      /\ \A i, j \in 1..Len(q) : i < j =>
             \E f, g \in 1..Len(p) : f < g /\ f # k /\ g # k /\ q[i] = p[f] /\ q[j] = p[g]
  <2>1. StaysIn(p, q, k)
    BY WithoutStays
  <2> QED BY ONLY <2>1 DEF StaysIn
<1>2. Rising(q)
  BY <1>1 DEF Rising
<1>3. Elements(p) = Elements(q) \cup {p[k]}
  <2>1. ASSUME NEW x \in Elements(p) PROVE x \in Elements(q) \cup {p[k]}
    <3>1. PICK j \in 1..Len(p) : x = p[j]
      BY DEF Elements
    <3> QED BY <1>1, <3>1 DEF Elements
  <2>2. ASSUME NEW x \in Elements(q) PROVE x \in Elements(p)
    <3>1. PICK i \in 1..Len(q) : x = q[i]
      BY DEF Elements
    <3> QED BY <1>1, <3>1 DEF Elements
  <2>3. p[k] \in Elements(p)
    BY DEF Elements
  <2> QED BY <2>1, <2>2, <2>3
<1>4. \A j \in 1..Len(p) : j # k => p[j] # p[k]
  <2>1. ASSUME NEW j \in 1..Len(p), j # k PROVE p[j] # p[k]
    <3>1. p[j] \in Nat /\ p[k] \in Nat /\ (j < k \/ k < j)
      BY <2>1
    <3>2. p[j] < p[k] \/ p[k] < p[j]
      BY <3>1 DEF Rising
    <3> QED BY <3>1, <3>2
  <2> QED BY <2>1
<1>5. ASSUME p[k] \in Elements(q) PROVE FALSE
  <2>1. PICK i \in 1..Len(q) : p[k] = q[i]
    BY <1>5 DEF Elements
  <2>2. PICK j \in 1..Len(p) : j # k /\ q[i] = p[j]
    BY <1>1
  <2> QED BY <1>4, <2>1, <2>2
<1> QED BY <1>2, <1>3, <1>5

\* A push goes behind everything.
LEMMA IntactPush ==
    ASSUME NEW read \in Seq(Nat), NEW rest \in Seq(Nat), NEW popped \in Seq(Nat), NEW n \in Nat,
           Intact(read, rest, popped, n)
    PROVE  Intact(read, Append(rest, n + 1), popped, n + 1)
<1> DEFINE r == Append(rest, n + 1)
           m == n + 1
<1>1. m \in Nat /\ Elements(r) = Elements(rest) \cup {m} /\ Len(r) = Len(rest) + 1
  BY ElementsOfAppend
<1>2. \A x \in Elements(popped) \cup Elements(read) \cup Elements(rest) : x \in 1..n /\ x < m
  BY DEF Intact
<1>3. 1..m = 1..n \cup {m} /\ m \in Nat
  OBVIOUS
<1>4. Rising(r)
  <2>1. ASSUME NEW i \in 1..Len(r), NEW j \in 1..Len(r), i < j PROVE r[i] < r[j]
    <3>0. Len(rest) \in Nat /\ Len(r) = Len(rest) + 1
      OBVIOUS
    <3>1. i \in 1..Len(rest) /\ r[i] = rest[i]
      BY <2>1
    <3>2. CASE j = Len(r)
      <4>1. r[j] = m /\ rest[i] \in Elements(rest)
        BY <3>0, <3>1, <3>2 DEF Elements
      <4> QED BY <1>2, <3>1, <4>1
    <3>3. CASE j # Len(r)
      <4> HIDE DEF r
      <4>1. j \in 1..Len(rest)
        BY <3>0, <3>3
      <4>2. r[j] = rest[j]
        BY <4>1 DEF r
      <4> QED BY <2>1, <3>1, <4>1, <4>2 DEF Intact, Rising
    <3> QED BY <3>2, <3>3
  <2> QED BY <2>1 DEF Rising
<1> HIDE DEF r, m
<1>5. Before(Elements(read) \cup Elements(popped), Elements(r))
  BY <1>1, <1>2 DEF Intact, Before
<1>6. Elements(popped) \cup Elements(read) \cup Elements(r) = 1..m
  BY <1>1, <1>3 DEF Intact
<1>7. Len(popped) + Len(read) + Len(r) = m
  BY <1>1 DEF Intact, m
<1> QED BY <1>4, <1>5, <1>6, <1>7 DEF Intact, r, m

\* The reader takes a batch when it has none.
LEMMA IntactBatch ==
    ASSUME NEW s \in Seq(Nat), NEW w \in Seq(Nat), NEW popped \in Seq(Nat), NEW n \in Nat,
           Intact(<<>>, s \o w, popped, n)
    PROVE  Intact(s, w, popped, n)
<1> DEFINE r == s \o w
<1>1. r \in Seq(Nat) /\ Len(s) \in Nat /\ Len(w) \in Nat /\ Len(r) = Len(s) + Len(w)
      /\ \A i \in 1..(Len(s) + Len(w)) : r[i] = IF i <= Len(s) THEN s[i] ELSE w[i - Len(s)]
  BY ConcatProperties
<1>2. Elements(r) = Elements(s) \cup Elements(w) /\ Elements(<<>>) = {}
  <2>1. Elements(<<>>) = {}
    BY DEF Elements
  <2> QED BY <2>1, ElementsOfConcat
<1> HIDE DEF r
<1>3. Intact(<<>>, r, popped, n)
  BY DEF r
<1>4. ASSUME NEW i \in 1..Len(s) PROVE i \in 1..Len(r) /\ r[i] = s[i]
  BY SMTT(40), <1>1
<1>5. ASSUME NEW i \in 1..Len(w)
      PROVE  i + Len(s) \in 1..Len(r) /\ r[i + Len(s)] = w[i]
  <2>1. i + Len(s) \in 1..(Len(s) + Len(w)) /\ ~ (i + Len(s) <= Len(s)) /\ i + Len(s) - Len(s) = i
    BY <1>1
  <2> QED BY SMTT(40), <1>1, <2>1
<1>6. Rising(s)
  BY <1>3, <1>4 DEF Intact, Rising
<1>7. Rising(w)
  <2>1. ASSUME NEW i \in 1..Len(w), NEW j \in 1..Len(w), i < j PROVE w[i] < w[j]
    <3>1. i + Len(s) < j + Len(s)
      BY <1>1, <2>1
    <3> QED BY <1>3, <1>5, <3>1 DEF Intact, Rising
  <2> QED BY <2>1 DEF Rising
<1>8. Before(Elements(s), Elements(w))
  <2>1. ASSUME NEW i \in 1..Len(s), NEW j \in 1..Len(w) PROVE s[i] < w[j]
    <3>1. i < j + Len(s)
      BY <1>1
    <3> QED BY <1>3, <1>4, <1>5, <3>1 DEF Intact, Rising
  <2> QED BY <2>1 DEF Before, Elements
<1>9. Before(Elements(s) \cup Elements(popped), Elements(w))
  BY <1>2, <1>3, <1>8 DEF Intact, Before
<1>10. Elements(popped) \cap Elements(s) = {}
  <2>1. ASSUME NEW x \in Elements(popped), x \in Elements(s) PROVE FALSE
    <3>1. x \in 1..n /\ x < x
      BY <1>2, <1>3, <2>1 DEF Intact, Before
    <3> QED BY <3>1
  <2> QED BY <2>1
<1>11. Elements(popped) \cup Elements(s) \cup Elements(w) = 1..n
  BY <1>2, <1>3 DEF Intact
<1>12. Len(popped) + Len(s) + Len(w) = n
  <2>1. Len(popped) \in Nat /\ Len(<<>>) = 0
    OBVIOUS
  <2> QED BY <1>1, <1>3, <2>1 DEF Intact
<1> QED BY <1>6, <1>7, <1>9, <1>10, <1>11, <1>12 DEF Intact

\* The reader pops one of its batch.
LEMMA IntactPop ==
    ASSUME NEW read \in Seq(Nat), NEW rest \in Seq(Nat), NEW popped \in Seq(Nat), NEW n \in Nat,
           Intact(read, rest, popped, n),
           NEW k \in 1..Len(read), NEW left \in Seq(Nat), IsWithout(read, left, k)
    PROVE  /\ Intact(left, rest, Append(popped, read[k]), n)
           /\ read[k] \in 1..n /\ read[k] \notin Elements(popped)
<1> DEFINE e == read[k]
           q == Append(popped, e)
<1>1. e \in Nat /\ e \in Elements(read)
  BY DEF Elements
<1>2. Rising(left) /\ Elements(read) = Elements(left) \cup {e} /\ e \notin Elements(left)
  BY ElementsOfWithout DEF Intact
<1>3. Elements(q) = Elements(popped) \cup {e} /\ Len(q) = Len(popped) + 1
  BY <1>1, ElementsOfAppend
<1>4. Len(left) = Len(read) - 1 /\ Len(read) \in Nat /\ Len(popped) \in Nat /\ Len(rest) \in Nat
  BY DEF IsWithout
<1> HIDE DEF e, q
<1>5. Before(Elements(left) \cup Elements(q), Elements(rest))
  BY <1>2, <1>3 DEF Intact, Before
<1>6. Elements(q) \cup Elements(left) \cup Elements(rest) = 1..n
  BY <1>2, <1>3 DEF Intact
<1>7. Elements(q) \cap Elements(left) = {}
  BY <1>2, <1>3 DEF Intact
<1>8. Len(q) + Len(left) + Len(rest) = n
  <2>1. Len(popped) + Len(read) + Len(rest) = n
    BY DEF Intact
  <2>2. ASSUME NEW a \in Nat, NEW b \in Nat, NEW c \in Nat PROVE a + 1 + (b - 1) + c = a + b + c
    OBVIOUS
  <2>3. Len(q) = Len(popped) + 1
    BY <1>3
  <2>4. Len(left) = Len(read) - 1
    BY <1>4
  <2>5. Len(popped) + 1 + (Len(read) - 1) + Len(rest) = Len(popped) + Len(read) + Len(rest)
    BY <1>4, <2>2
  <2> QED BY ONLY <2>1, <2>3, <2>4, <2>5
<1>9. e \in 1..n /\ e \notin Elements(popped)
  BY <1>1 DEF Intact
<1>10. Intact(left, rest, q, n)
  BY <1>2, <1>5, <1>6, <1>7, <1>8 DEF Intact
<1> QED BY <1>9, <1>10 DEF e, q

\* What is pending is the reader's list and what is behind it.
LEMMA PendingSplit ==
    ASSUME MqTypes
    PROVE  mqPending = mReadList \o mqRest /\ mqRest \in Seq(Nat) /\ mqPending \in Seq(Nat)
<1>1. mWriteList \in Seq(Nat) /\ mSharedList \in Seq(Nat) /\ mReadList \in Seq(Nat)
  BY DEF MqTypes
<1>2. mqPending = mReadList \o mqRest
  BY SMTT(40), <1>1, ConcatAssociative DEF mqPending, mqRest
<1>3. mqRest \in Seq(Nat) /\ mReadList \o mqRest \in Seq(Nat)
  BY <1>1 DEF mqRest
<1> QED BY <1>2, <1>3

\* Every step of writer and reader keeps MqInv.
LEMMA MqStep == MqInv /\ [MsgQueueNext]_mqVars => MqInv'
<1> SUFFICES ASSUME MqInv, [MsgQueueNext]_mqVars PROVE MqInv'
  OBVIOUS
<1>t. /\ mWriteList \in Seq(Nat) /\ mSharedList \in Seq(Nat) /\ mReadList \in Seq(Nat)
      /\ mqPopped \in Seq(Nat) /\ mqPushed \in Nat /\ <<>> \in Seq(Nat)
  BY DEF MqInv, MqTypes
<1>r. mqRest \in Seq(Nat) /\ Intact(mReadList, mqRest, mqPopped, mqPushed)
  BY <1>t DEF MqInv, mqRest
<1>1. CASE mqPush
  <2>1. mWriteList' \in Seq(Nat) /\ mqPushed' \in Nat
    BY <1>t, <1>1 DEF mqPush
  <2>2. mqRest' = Append(mqRest, mqPushed + 1)
    <3>1. mqRest' = mSharedList \o Append(mWriteList, mqPushed + 1) /\ mqPushed + 1 \in Nat
      BY <1>t, <1>1 DEF mqPush, mqRest
    <3> QED BY SMTT(40), <1>t, <3>1, ConcatAppend DEF mqRest
  <2>3. Intact(mReadList, Append(mqRest, mqPushed + 1), mqPopped, mqPushed + 1)
    BY <1>t, <1>r, IntactPush
  <2> QED BY <1>t, <1>1, <2>1, <2>2, <2>3 DEF mqPush, MqInv, MqTypes
<1>2. CASE trySyncWrite \/ forceSyncWrite
  BY <1>2 DEF trySyncWrite, forceSyncWrite, MqInv, MqTypes, mqRest
<1>3. CASE trySyncWriteLocked
  <2>1. CASE mWriteList # <<>> /\ mSharedList = <<>>
    <3>1. mSharedList' = mWriteList /\ mWriteList' = <<>> /\ mSharedList = <<>>
      BY <1>3, <2>1 DEF trySyncWriteLocked
    <3>2. mqRest' = mqRest
      BY <1>t, <3>1, ConcatEmptySeq DEF mqRest
    <3> QED BY <1>t, <1>3, <1>r, <3>1, <3>2 DEF trySyncWriteLocked, MqInv, MqTypes
  <2>2. CASE ~ (mWriteList # <<>> /\ mSharedList = <<>>)
    BY <1>3, <2>2 DEF trySyncWriteLocked, MqInv, MqTypes, mqRest
  <2> QED BY <2>1, <2>2
<1>4. CASE forceSyncWriteLocked
  <2>1. mSharedList' = mSharedList \o mWriteList /\ mWriteList' = <<>>
    BY <1>4 DEF forceSyncWriteLocked, forceMerge
  <2>2. mSharedList' = mqRest /\ mqRest' = mqRest
    BY <1>r, <2>1, ConcatEmptySeq DEF mqRest
  <2> QED BY <1>t, <1>4, <1>r, <2>1, <2>2 DEF forceSyncWriteLocked, MqInv, MqTypes
<1>5. CASE syncRead
  <2>1. mReadList = <<>> /\ mReadList' = mSharedList /\ mSharedList' = <<>>
        /\ mWriteList' = mWriteList
    BY <1>5 DEF syncRead
  <2>2. mqRest' = mWriteList
    BY <1>t, <2>1, ConcatEmptySeq DEF mqRest
  <2>3. Intact(<<>>, mSharedList \o mWriteList, mqPopped, mqPushed)
    BY <1>r, <2>1 DEF mqRest
  <2>4. Intact(mSharedList, mWriteList, mqPopped, mqPushed)
    BY <1>t, <2>3, IntactBatch
  <2> QED BY <1>t, <1>5, <2>1, <2>2, <2>4 DEF syncRead, MqInv, MqTypes
<1>6. CASE popFront
  <2>1. mReadList # <<>> /\ mReadList' = Tail(mReadList) /\ mqPopped' = Append(mqPopped, Head(mReadList))
    BY <1>6 DEF popFront
  <2>2. /\ Tail(mReadList) \in Seq(Nat) /\ IsWithout(mReadList, Tail(mReadList), 1)
        /\ Head(mReadList) = mReadList[1] /\ 1 \in 1..Len(mReadList)
    BY <1>t, <2>1, TailWithout
  <2>3. Intact(mReadList', mqRest, mqPopped', mqPushed)
    BY <1>t, <1>r, <2>1, <2>2, IntactPop
  <2>4. mReadList' \in Seq(Nat) /\ mqPopped' \in Seq(Nat)
    BY <1>t, <2>1, <2>2
  <2> QED BY <1>t, <1>6, <2>3, <2>4 DEF popFront, MqInv, MqTypes, mqRest
<1>7. CASE popBack
  <2> DEFINE k == Len(mReadList)
             left == SubSeq(mReadList, 1, k - 1)
  <2>1. mReadList # <<>> /\ mReadList' = left /\ mqPopped' = Append(mqPopped, mReadList[k])
    BY <1>7 DEF popBack
  <2>2. left \in Seq(Nat) /\ IsWithout(mReadList, left, k) /\ k \in 1..Len(mReadList)
    BY <1>t, <2>1, FrontWithout
  <2> HIDE DEF k, left
  <2>3. Intact(mReadList', mqRest, mqPopped', mqPushed)
    BY <1>t, <1>r, <2>1, <2>2, IntactPop
  <2>4. mReadList' \in Seq(Nat) /\ mqPopped' \in Seq(Nat)
    BY <1>t, <2>1, <2>2
  <2> QED BY <1>t, <1>7, <2>3, <2>4 DEF popBack, MqInv, MqTypes, mqRest
<1>8. CASE UNCHANGED mqVars
  BY <1>8 DEF mqVars, MqInv, MqTypes, mqRest
<1> QED BY <1>1, <1>2, <1>3, <1>4, <1>5, <1>6, <1>7, <1>8 DEF MsgQueueNext

\* MqInv holds for a new queue.
LEMMA MqStart == MsgQueueInit => MqInv
<1> SUFFICES ASSUME MsgQueueInit PROVE MqInv
  OBVIOUS
<1>1. <<>> \in Seq(Nat) /\ Len(<<>>) = 0 /\ Elements(<<>>) = {} /\ 1..0 = {}
  BY DEF Elements
<1>2. mqRest = <<>>
  BY <1>1, ConcatEmptySeq DEF mqRest, MsgQueueInit
<1>3. Intact(<<>>, <<>>, <<>>, 0)
  BY <1>1 DEF Intact, Rising, Before
<1> QED BY <1>1, <1>2, <1>3 DEF MqInv, MqTypes, MsgQueueInit

\* MqInv is more than QueueIntact says.
LEMMA MqImplies == MqInv => QueueIntact
<1> SUFFICES ASSUME MqInv PROVE QueueIntact
  OBVIOUS
<1> DEFINE r == mReadList
           b == mqRest
           p == r \o b
<1>t. /\ r \in Seq(Nat) /\ b \in Seq(Nat) /\ mqPopped \in Seq(Nat) /\ mqPushed \in Nat
      /\ mqPending = p /\ Intact(r, b, mqPopped, mqPushed)
  BY PendingSplit DEF MqInv, MqTypes
<1>s. mqRest = mSharedList \o mWriteList
  BY DEF mqRest
<1> HIDE DEF r, b
<1>1. p \in Seq(Nat) /\ Len(r) \in Nat /\ Len(b) \in Nat /\ Len(p) = Len(r) + Len(b)
      /\ \A i \in 1..(Len(r) + Len(b)) : p[i] = IF i <= Len(r) THEN r[i] ELSE b[i - Len(r)]
  BY <1>t, ConcatProperties
<1>2. Elements(p) = Elements(r) \cup Elements(b)
  BY <1>t, ElementsOfConcat
<1> HIDE DEF p
<1>3. ASSUME NEW i \in 1..Len(p), NEW j \in 1..Len(p), i < j PROVE p[i] < p[j]
  <2>0. i \in 1..(Len(r) + Len(b)) /\ j \in 1..(Len(r) + Len(b)) /\ i \in Nat /\ j \in Nat
    BY <1>1
  <2>1. CASE j <= Len(r)
    <3>1. i \in 1..Len(r) /\ j \in 1..Len(r) /\ i <= Len(r)
      BY <1>1, <1>3, <2>0, <2>1
    <3>2. p[i] = r[i] /\ p[j] = r[j]
      BY <1>1, <2>0, <2>1, <3>1
    <3> QED BY <1>t, <1>3, <3>1, <3>2 DEF Intact, Rising
  <2>2. CASE i <= Len(r) /\ ~ (j <= Len(r))
    <3>1. i \in 1..Len(r) /\ j - Len(r) \in 1..Len(b)
      BY <1>1, <2>0, <2>2
    <3>2. p[i] = r[i] /\ p[j] = b[j - Len(r)]
      BY <1>1, <2>0, <2>2
    <3>3. p[i] \in Elements(r) /\ p[j] \in Elements(b)
      BY <3>1, <3>2 DEF Elements
    <3> QED BY <1>t, <3>3 DEF Intact, Before
  <2>3. CASE ~ (i <= Len(r))
    <3>1. i - Len(r) \in 1..Len(b) /\ j - Len(r) \in 1..Len(b) /\ i - Len(r) < j - Len(r)
          /\ ~ (j <= Len(r))
      BY SMTT(40), <1>1, <1>3, <2>0, <2>3
    <3>2. p[i] = b[i - Len(r)] /\ p[j] = b[j - Len(r)]
      BY <1>1, <2>0, <2>3, <3>1
    <3> QED BY <1>t, <3>1, <3>2 DEF Intact, Rising
  <2> QED BY <2>1, <2>2, <2>3
<1>4. Elements(mqPopped) \cup Elements(p) = 1..mqPushed
  BY <1>t, <1>2 DEF Intact
<1>5. Len(mqPopped) + Len(p) = mqPushed
  <2>1. Len(mqPopped) + Len(r) + Len(b) = mqPushed /\ Len(mqPopped) \in Nat
    BY <1>t DEF Intact
  <2>2. Len(p) = Len(r) + Len(b) /\ Len(r) \in Nat /\ Len(b) \in Nat
    BY <1>1
  <2> QED BY <2>1, <2>2
<1>6. BatchOrder
  BY <1>t, <1>s DEF Intact, Before, BatchOrder, b
<1> QED BY <1>t, <1>3, <1>4, <1>5, <1>6 DEF QueueIntact

(***************************************************************************)
(* MsgQueue.h loses nothing, delivers nothing twice and keeps push order   *)
(* between batches, for any number of messages: what trySyncWrite and      *)
(* forceSyncWrite saw of mSharedList without the lock cannot mislead them. *)
(***************************************************************************)
THEOREM MsgQueueIntact == MsgQueueSpec => []QueueIntact
<1>1. MqInv /\ [MsgQueueNext]_mqVars => MqInv'
  BY MqStep
<1> QED BY MqStart, MqImplies, <1>1, PTL DEF MsgQueueSpec
-----------------------------------------------------------------------------
(* The tables of the connect thread. *)

Entries == [fd : Fds, events : SUBSET {"Write"}, revents : SUBSET {"Write", "Error"}]

\* The poll array has one entry for each fd of F.
Polls(p, F) ==
    /\ p \in Seq(Entries)
    /\ {p[i].fd : i \in 1..Len(p)} = F
    /\ \A i, j \in 1..Len(p) : p[i].fd = p[j].fd => i = j

ConnTypes ==
    /\ fdOwner \in [Fds -> {"free", "connector", "user"}]
    /\ fdState \in [Fds -> {"pending", "ok", "err"}]
    /\ answers \in Seq([fd : Int, uid : Nat])
    /\ \A fd \in DOMAIN mConnectingInfos : mConnectingInfos[fd] \in Nat

Tables ==
    /\ DOMAIN mConnectingInfos = mConnectingFds /\ mConnectingFds \subseteq Fds
    /\ Polls(pollFds, mConnectingFds)
    /\ limitSize \in Nat /\ Len(pollFds) <= limitSize
    /\ \A fd \in Fds : fdOwner[fd] = "connector" <=> fd \in mConnectingFds

\* What the thread keeps between its steps names sockets that are connecting,
\* and it works through one list at a time.
Phases ==
    /\ mThread \/ connPc = "none"
    /\ connPc # "complete" => completeFds = {}
    /\ connPc # "timeout" => dueFds = {}
    /\ completeFds \subseteq mConnectingFds /\ dueFds \subseteq mConnectingFds
    /\ overdue \subseteq mConnectingFds

\* What checkConnectStatus found connected is still connected when its turn comes.
Ready == \A fd \in completeFds \ failedFds : fdState[fd] = "ok"

TablesInv == ConnTypes /\ Tables /\ Phases /\ Ready

\* A poll array without one entry polls the other sockets.
LEMMA PollsWithout ==
    ASSUME NEW p, NEW F, Polls(p, F), NEW k \in 1..Len(p), NEW q \in Seq(Entries),
           IsWithout(p, q, k)
    PROVE  Polls(q, F \ {p[k].fd})
<1>0. p \in Seq(Entries) /\ {p[i].fd : i \in 1..Len(p)} = F
      /\ \A i, j \in 1..Len(p) : p[i].fd = p[j].fd => i = j
  BY DEF Polls
<1>1. /\ \A i \in 1..Len(q) : \E j \in 1..Len(p) : j # k /\ q[i] = p[j]
      /\ \A j \in 1..Len(p) : j # k => \E i \in 1..Len(q) : q[i] = p[j]
      /\ \A i, j \in 1..Len(q) : i < j =>
             \E f, g \in 1..Len(p) : f < g /\ f # k /\ g # k /\ q[i] = p[f] /\ q[j] = p[g]
  <2>1. StaysIn(p, q, k)
    BY <1>0, WithoutStays
  <2> QED BY ONLY <2>1 DEF StaysIn
<1>2. ASSUME NEW i \in 1..Len(q) PROVE q[i].fd \in F \ {p[k].fd}
  <2>1. PICK j \in 1..Len(p) : j # k /\ q[i] = p[j]
    BY <1>1
  <2> QED BY <1>0, <2>1
<1>3. ASSUME NEW x \in F \ {p[k].fd} PROVE \E i \in 1..Len(q) : q[i].fd = x
  <2>1. PICK j \in 1..Len(p) : x = p[j].fd
    BY <1>0
  <2>2. PICK i \in 1..Len(q) : q[i] = p[j]
    BY <1>1, <1>3, <2>1
  <2> QED BY <2>1, <2>2
<1>4. ASSUME NEW i \in 1..Len(q), NEW j \in 1..Len(q), i < j PROVE q[i].fd # q[j].fd
  <2>1. PICK f \in 1..Len(p), g \in 1..Len(p) : f < g /\ q[i] = p[f] /\ q[j] = p[g]
    BY <1>1, <1>4
  <2>2. f # g
    BY <2>1
  <2> QED BY <1>0, <2>1, <2>2
<1>5. ASSUME NEW i \in 1..Len(q), NEW j \in 1..Len(q), q[i].fd = q[j].fd PROVE i = j
  <2>1. i < j \/ j < i \/ i = j
    OBVIOUS
  <2> QED BY <1>4, <1>5, <2>1
<1> QED BY SMTT(40), <1>2, <1>3, <1>5 DEF Polls

\* A poll array with one more entry polls one more socket.
LEMMA PollsWith ==
    ASSUME NEW p, NEW F, Polls(p, F), NEW e \in Entries, e.fd \notin F
    PROVE  Polls(Append(p, e), F \cup {e.fd})
<1> DEFINE q == Append(p, e)
<1>0. p \in Seq(Entries) /\ {p[i].fd : i \in 1..Len(p)} = F
      /\ \A i, j \in 1..Len(p) : p[i].fd = p[j].fd => i = j
  BY DEF Polls
<1>1. q \in Seq(Entries) /\ Len(q) = Len(p) + 1 /\ Len(p) \in Nat /\ q[Len(p) + 1] = e
  BY <1>0
<1>2. \A i \in 1..Len(p) : q[i] = p[i]
  BY <1>0
<1> HIDE DEF q
<1>3. 1..Len(q) = 1..Len(p) \cup {Len(p) + 1}
  BY <1>1
<1>4. \A i \in 1..Len(p) : p[i].fd \in F
  BY <1>0
<1>5. {q[i].fd : i \in 1..Len(q)} = F \cup {e.fd}
  <2>1. ASSUME NEW x \in F PROVE \E i \in 1..Len(q) : q[i].fd = x
    <3>1. PICK i \in 1..Len(p) : p[i].fd = x
      BY <1>0
    <3> QED BY <1>2, <1>3, <3>1
  <2>2. \E i \in 1..Len(q) : q[i].fd = e.fd
    BY <1>1, <1>3
  <2>3. ASSUME NEW i \in 1..Len(q) PROVE q[i].fd \in F \cup {e.fd}
    BY <1>1, <1>2, <1>3, <1>4
  <2> QED BY <2>1, <2>2, <2>3
<1>6. ASSUME NEW i \in 1..Len(q), NEW j \in 1..Len(q), q[i].fd = q[j].fd PROVE i = j
  BY <1>0, <1>1, <1>2, <1>3, <1>4, <1>6
<1> QED BY <1>1, <1>5, <1>6 DEF Polls, q

\* findPollfd finds the one entry.
LEMMA PollfdFound ==
    ASSUME NEW F, Polls(pollFds, F), NEW fd
    PROVE  IF fd \in F THEN findPollfd(fd) \in 1..Len(pollFds) /\ pollFds[findPollfd(fd)].fd = fd
           ELSE findPollfd(fd) = 0
<1> DEFINE at == {i \in 1..Len(pollFds) : pollFds[i].fd = fd}
<1>1. CASE fd \in F
  <2>1. PICK k \in 1..Len(pollFds) : pollFds[k].fd = fd
    BY <1>1 DEF Polls
  <2>2. k \in at /\ \A j \in at : k <= j
    <3>1. \A j \in at : j = k
      BY <2>1 DEF Polls
    <3> QED BY <2>1, <3>1
  <2>3. findPollfd(fd) \in at
    BY <2>2 DEF findPollfd
  <2> QED BY <1>1, <2>3
<1>2. CASE fd \notin F
  <2>1. at = {}
    BY <1>2 DEF Polls
  <2> QED BY <1>2, <2>1 DEF findPollfd
<1> QED BY <1>1, <1>2

\* ox_fdset_del takes the entry of a connecting socket out.
LEMMA EntryDeleted ==
    ASSUME Tables, NEW fd \in mConnectingFds, ox_fdset_del(fd, {"Write", "Error"})
    PROVE  Polls(pollFds', mConnectingFds \ {fd}) /\ Len(pollFds') <= limitSize'
           /\ limitSize' = limitSize
<1> DEFINE k == findPollfd(fd)
<1>1. k \in 1..Len(pollFds) /\ pollFds[k].fd = fd /\ pollFds \in Seq(Entries)
  BY PollfdFound DEF Tables, Polls
<1>2. k # 0 /\ pollFds[k].events \ {"Write", "Error"} = {}
  <2>1. pollFds[k] \in Entries
    BY <1>1, ElementOfSeq
  <2> QED BY <1>1, <2>1 DEF Entries
<1>3. pollFds' = RemoveAt(pollFds, k) /\ limitSize' = limitSize
  BY <1>2 DEF ox_fdset_del
<1> HIDE DEF k
<1>4. pollFds' \in Seq(Entries) /\ IsWithout(pollFds, pollFds', k)
  BY <1>1, <1>3, CutWithout DEF RemoveAt
<1>5. Polls(pollFds', mConnectingFds \ {fd})
  BY <1>1, <1>4, PollsWithout DEF Tables
<1>6. Len(pollFds) \in Nat /\ Len(pollFds') = Len(pollFds) - 1 /\ Len(pollFds) <= limitSize
      /\ limitSize \in Nat
  BY <1>1, <1>4 DEF IsWithout, Tables
<1>7. Len(pollFds') <= limitSize'
  BY <1>3, <1>6
<1> QED BY <1>3, <1>5, <1>7

\* ox_fdset_add appends an entry, and grows a full array first.
LEMMA EntryAdded ==
    ASSUME Tables, NEW fd \in Fds, fd \notin mConnectingFds, ox_fdset_add(fd, {"Write", "Error"})
    PROVE  Polls(pollFds', mConnectingFds \cup {fd}) /\ Len(pollFds') <= limitSize'
           /\ limitSize' \in Nat
<1>1. findPollfd(fd) = 0 /\ pollFds \in Seq(Entries)
  BY PollfdFound DEF Tables, Polls
<1>2. PICK garbage \in SUBSET {"Write", "Error"} :
          pollFds' = Append(pollFds, [fd |-> fd, events |-> {"Write", "Error"} \ {"Error"},
                                      revents |-> garbage])
  BY <1>1 DEF ox_fdset_add
<1> DEFINE e == [fd |-> fd, events |-> {"Write", "Error"} \ {"Error"}, revents |-> garbage]
<1>3. e \in Entries /\ e.fd = fd
  BY DEF Entries
<1>4. pollFds' = Append(pollFds, e)
  BY <1>2
<1> HIDE DEF e
<1>5. Polls(pollFds', mConnectingFds \cup {fd})
  BY <1>3, <1>4, PollsWith DEF Tables
<1>6. Len(pollFds') = Len(pollFds) + 1 /\ Len(pollFds) \in Nat
  BY <1>1, <1>3, <1>4
<1>7. Len(pollFds) <= limitSize /\ limitSize \in Nat
      /\ limitSize' = IF limitSize = Len(pollFds) THEN limitSize + FdsetStep ELSE limitSize
  BY DEF Tables, ox_fdset_add, fdsetLimit
<1>8. FdsetStep \in Nat \ {0}
  BY ConnectorAssumption
<1>9. Len(pollFds') <= limitSize' /\ limitSize' \in Nat
  BY <1>6, <1>7, <1>8
<1> QED BY <1>5, <1>9

\* What an entry of the polled array says of its socket.
LEMMA PolledSays ==
    ASSUME ConnTypes, Tables, NEW rev \in [Fds -> SUBSET {"Write", "Error"}],
           \A fd \in Fds : rev[fd] \in Reports(fd)
    PROVE  /\ Polls(Polled(rev), mConnectingFds) /\ Len(Polled(rev)) = Len(pollFds)
           /\ \A fd \in mConnectingFds : isConnectSuccess(Polled(rev), fd) => fdState[fd] = "ok"
<1> DEFINE q == Polled(rev)
           n == Len(pollFds)
<1>0. pollFds \in Seq(Entries) /\ n \in Nat /\ \A i \in 1..n : pollFds[i] \in Entries
  BY DEF Tables, Polls
<1>1. q = [i \in 1..n |-> [pollFds[i] EXCEPT !.revents = rev[pollFds[i].fd]]]
  BY DEF Polled
<1> HIDE DEF q, n
<1>2. ASSUME NEW i \in 1..n
      PROVE  q[i] \in Entries /\ q[i].fd = pollFds[i].fd /\ q[i].revents = rev[pollFds[i].fd]
  <2>1. pollFds[i] \in Entries /\ q[i] = [pollFds[i] EXCEPT !.revents = rev[pollFds[i].fd]]
    BY <1>0, <1>1
  <2>2. rev[pollFds[i].fd] \in SUBSET {"Write", "Error"}
    BY <2>1 DEF Entries
  <2> QED BY <2>1, <2>2 DEF Entries
<1>3. q \in [1..n -> Entries]
  BY <1>1, <1>2
<1>4. q \in Seq(Entries) /\ Len(q) = n
  BY <1>0, <1>3
<1>5. Polls(q, mConnectingFds)
  <2>1. Polls(pollFds, mConnectingFds)
    BY DEF Tables
  <2>2. {q[i].fd : i \in 1..n} = {pollFds[i].fd : i \in 1..n}
    BY <1>2
  <2>3. ASSUME NEW i \in 1..n, NEW j \in 1..n, q[i].fd = q[j].fd PROVE i = j
    BY <1>2, <2>1, <2>3 DEF Polls, n
  <2> QED BY <1>4, <2>1, <2>2, <2>3 DEF Polls, n
<1>6. ASSUME NEW fd \in mConnectingFds, isConnectSuccess(q, fd) PROVE fdState[fd] = "ok"
  <2>1. fd \in Fds /\ fdState[fd] \in {"pending", "ok", "err"} /\ fdState[fd] # "err"
    BY <1>6 DEF ConnTypes, Tables, isConnectSuccess
  <2>2. PICK i \in 1..n : q[i].fd = fd /\ "Write" \in q[i].revents
    BY <1>4, <1>6 DEF isConnectSuccess, ox_fdset_check
  <2>3. "Write" \in rev[fd]
    BY <1>2, <2>2
  <2>4. rev[fd] \in Reports(fd)
    BY <2>1
  <2>5. CASE fdState[fd] = "pending"
    <3>1. Reports(fd) = {{}}
      BY <2>5 DEF Reports
    <3> QED BY <2>3, <2>4, <3>1
  <2> QED BY <2>1, <2>5
<1> QED BY <1>4, <1>5, <1>6 DEF q, n

\* The state every step that leaves the tables alone keeps.
LEMMA TablesKept ==
    ASSUME TablesInv, UNCHANGED <<tableVars, localVars, kernelVars>>,
           answers' \in Seq([fd : Int, uid : Nat]),
           mThread' \/ connPc' = "none",
           connPc' # "complete" => connPc # "complete", connPc' # "timeout" => connPc # "timeout"
    PROVE  TablesInv'
<1> USE DEF tableVars, fdsetVars, localVars, kernelVars
<1>1. ConnTypes' /\ Tables'
  BY DEF TablesInv, ConnTypes, Tables
<1>2. Phases' /\ Ready'
  BY DEF TablesInv, Phases, Ready
<1> QED BY <1>1, <1>2 DEF TablesInv

\* A socket leaves every table at once.
LEMMA SocketLeaves ==
    ASSUME TablesInv, NEW fd \in mConnectingFds, NEW to \in {"free", "user"},
           ox_fdset_del(fd, {"Write", "Error"}), Forget(fd),
           fdOwner' = [fdOwner EXCEPT ![fd] = to]
    PROVE  Tables' /\ fdOwner' \in [Fds -> {"free", "connector", "user"}]
<1>1. Polls(pollFds', mConnectingFds \ {fd}) /\ Len(pollFds') <= limitSize'
      /\ limitSize' = limitSize
  BY EntryDeleted DEF TablesInv
<1>2. DOMAIN mConnectingInfos' = mConnectingFds' /\ mConnectingFds' = mConnectingFds \ {fd}
  BY DEF Forget, TablesInv, Tables
<1>3. fd \in Fds /\ mConnectingFds \subseteq Fds
  BY DEF TablesInv, Tables
<1>4. \A f \in Fds : fdOwner'[f] = IF f = fd THEN to ELSE fdOwner[f]
  BY DEF TablesInv, ConnTypes
<1>5. \A f \in Fds : fdOwner'[f] = "connector" <=> f \in mConnectingFds'
  BY <1>2, <1>4 DEF TablesInv, Tables
<1>6. fdOwner' \in [Fds -> {"free", "connector", "user"}]
  BY DEF TablesInv, ConnTypes
<1>7. limitSize' \in Nat /\ Polls(pollFds', mConnectingFds') /\ mConnectingFds' \subseteq Fds
  BY <1>1, <1>2, <1>3 DEF TablesInv, Tables
<1> QED BY <1>1, <1>2, <1>5, <1>6, <1>7 DEF Tables

\* Every step of Connector keeps TablesInv.
LEMMA TablesStep ==
    ASSUME MqInv, TablesInv, [ConnectorNext]_connVars PROVE TablesInv'
<1>t. /\ answers \in Seq([fd : Int, uid : Nat])
      /\ fdOwner \in [Fds -> {"free", "connector", "user"}]
      /\ fdState \in [Fds -> {"pending", "ok", "err"}]
      /\ mConnectingFds \subseteq Fds /\ DOMAIN mConnectingInfos = mConnectingFds
  BY DEF TablesInv, ConnTypes, Tables
<1>p. Phases /\ Ready /\ Tables /\ ConnTypes
  BY DEF TablesInv
<1>1. CASE startThread
  <2>1. mThread' /\ connPc = "none" /\ connPc' = "round" /\ answers' = answers
        /\ UNCHANGED <<tableVars, localVars, kernelVars>>
    BY <1>1, <1>p DEF startThread, Phases
  <2> QED BY <1>t, <2>1, TablesKept
<1>2. CASE asyncConnect \/ asyncConnectSync
  <2>1. UNCHANGED <<mThread, connPc, tableVars, localVars, kernelVars, answers>>
    BY <1>2 DEF asyncConnect, asyncConnectSync
  <2> QED BY <1>t, <1>p, <2>1, TablesKept DEF Phases
<1>3. CASE destroy
  <2>1. UNCHANGED <<mThread, tableVars, localVars, kernelVars, answers>> /\ mThread
    BY <1>3 DEF destroy
  <2>2. connPc' = connPc \/ (connPc = "ended" /\ connPc' = "joined")
    BY <1>3 DEF destroy
  <2> QED BY <1>t, <2>1, <2>2, TablesKept
<1>4. CASE runRound
  <2>1. UNCHANGED <<mThread, tableVars, localVars, kernelVars, answers>>
        /\ connPc = "round" /\ connPc' \in {"status", "ended"}
    BY <1>4 DEF runRound
  <2>2. mThread'
    BY <1>p, <2>1 DEF Phases
  <2> QED BY <1>t, <2>1, <2>2, TablesKept
<1>5. CASE checkConnectStatus
  <2>1. PICK rev \in [Fds -> SUBSET {"Write", "Error"}] :
        /\ \A fd \in Fds : rev[fd] \in Reports(fd)
        /\ LET polled == Polled(rev)
               failed == {fd \in mConnectingFds : ox_fdset_check(polled, fd, "Error")}
               writable == {fd \in mConnectingFds : ox_fdset_check(polled, fd, "Write")}
           IN  /\ pollFds' = polled
               /\ IF \A i \in 1..Len(polled) : polled[i].revents = {}
                  THEN UNCHANGED <<completeFds, failedFds>> /\ connPc' = "sync"
                  ELSE /\ completeFds' = failed \cup writable
                       /\ failedFds' = failed \cup {fd \in writable \ failed :
                                                      ~ isConnectSuccess(polled, fd)}
                       /\ connPc' = "complete"
    BY <1>5 DEF checkConnectStatus
  <2> DEFINE polled == Polled(rev)
             failed == {fd \in mConnectingFds : ox_fdset_check(polled, fd, "Error")}
             writable == {fd \in mConnectingFds : ox_fdset_check(polled, fd, "Write")}
  <2>2. /\ Polls(polled, mConnectingFds) /\ Len(polled) = Len(pollFds)
        /\ \A fd \in mConnectingFds : isConnectSuccess(polled, fd) => fdState[fd] = "ok"
    BY <1>p, <2>1, PolledSays
  <2>3. pollFds' = polled /\ UNCHANGED <<mThread, mConnectingInfos, mConnectingFds, limitSize,
                                         overdue, dueFds, kernelVars, answers>>
        /\ connPc = "status"
    BY <1>5, <2>1 DEF checkConnectStatus
  <2>4. ConnTypes' /\ Tables'
    BY <1>p, <2>2, <2>3 DEF ConnTypes, Tables, kernelVars
  <2>5. \/ UNCHANGED <<completeFds, failedFds>> /\ connPc' = "sync"
        \/ /\ completeFds' = failed \cup writable
           /\ failedFds' = failed \cup {fd \in writable \ failed : ~ isConnectSuccess(polled, fd)}
           /\ connPc' = "complete"
    BY <2>1
  <2>6. CASE UNCHANGED <<completeFds, failedFds>> /\ connPc' = "sync"
    BY <1>p, <2>3, <2>4, <2>6 DEF TablesInv, Phases, Ready, kernelVars
  <2>7. CASE /\ completeFds' = failed \cup writable
             /\ failedFds' = failed \cup {fd \in writable \ failed :
                                            ~ isConnectSuccess(polled, fd)}
             /\ connPc' = "complete"
    <3>1. \A fd \in completeFds' \ failedFds' :
              fd \in mConnectingFds /\ isConnectSuccess(polled, fd)
      BY <2>7
    <3>2. Ready'
      BY <2>2, <2>3, <3>1 DEF Ready, kernelVars
    <3>3. completeFds' \subseteq mConnectingFds
      BY <2>7
    <3>4. Phases'
      BY <1>p, <2>3, <2>7, <3>3 DEF Phases
    <3> QED BY <2>4, <3>2, <3>4 DEF TablesInv
  <2> QED BY <2>5, <2>6, <2>7
<1>6. ASSUME NEW fd \in Fds, completeFd(fd) PROVE TablesInv'
  <2>1. /\ connPc = "complete" /\ fd \in completeFds /\ completeFds' = completeFds \ {fd}
        /\ ox_fdset_del(fd, {"Write", "Error"}) /\ Forget(fd)
        /\ UNCHANGED <<mThread, connPc, failedFds, dueFds, fdState>>
    BY <1>6 DEF completeFd
  <2>2. fd \in mConnectingFds /\ dueFds = {}
    BY <1>p, <2>1 DEF Phases
  <2>3. /\ fdOwner' = [fdOwner EXCEPT ![fd] = IF fd \in failedFds THEN "free" ELSE "user"]
        /\ mCallback(IF fd \in failedFds THEN SOCKET_ERROR ELSE fd, mConnectingInfos[fd])
    BY <1>6, <1>t, <2>2 DEF completeFd
  <2>4. Tables' /\ fdOwner' \in [Fds -> {"free", "connector", "user"}]
    BY <2>1, <2>2, <2>3, SocketLeaves
  <2>5. Phases'
    BY <1>p, <2>1, <2>2 DEF Phases, Forget
  <2>6. Ready'
    BY <1>p, <2>1 DEF Ready
  <2>7. answers' \in Seq([fd : Int, uid : Nat])
    <3>1. mConnectingInfos[fd] \in Nat /\ SOCKET_ERROR \in Int /\ fd \in Int
      BY <1>p, <1>t, <2>2, ConnectorAssumption DEF ConnTypes, SOCKET_ERROR
    <3> QED BY <1>t, <2>3, <3>1 DEF mCallback
  <2>8. \A f \in DOMAIN mConnectingInfos' : mConnectingInfos'[f] \in Nat
    BY <1>p, <2>1 DEF ConnTypes, Forget
  <2> QED BY <1>t, <2>1, <2>4, <2>5, <2>6, <2>7, <2>8 DEF TablesInv, ConnTypes
<1>7. CASE completeDone
  <2>1. /\ connPc = "complete" /\ completeFds = {} /\ connPc' = "sync" /\ failedFds' = {}
        /\ UNCHANGED <<mThread, completeFds, dueFds, tableVars, kernelVars, answers>>
    BY <1>7 DEF completeDone
  <2>2. ConnTypes' /\ Tables'
    BY <1>p, <2>1 DEF ConnTypes, Tables, tableVars, fdsetVars, kernelVars
  <2>3. Phases' /\ Ready'
    BY <1>p, <2>1 DEF Phases, Ready, tableVars, fdsetVars, kernelVars
  <2> QED BY <2>2, <2>3 DEF TablesInv
<1>8. CASE syncRequests
  <2>1. UNCHANGED <<mThread, tableVars, localVars, kernelVars, answers>>
        /\ connPc = "sync" /\ connPc' = "request"
    BY <1>8 DEF syncRequests
  <2>2. mThread'
    BY <1>p, <2>1 DEF Phases
  <2> QED BY <1>t, <2>1, <2>2, TablesKept
<1>9. CASE pollConnectRequest
  <2> DEFINE uid == mReadList[Len(mReadList)]
  <2>0. uid \in Nat
    BY <1>9, ElementOfSeq DEF MqInv, MqTypes, pollConnectRequest, popBack
  <2>1. connPc = "request" /\ UNCHANGED <<mThread, connPc, localVars>>
    BY <1>9 DEF pollConnectRequest
  <2>2. completeFds = {} /\ mThread'
    BY <1>p, <2>1 DEF Phases
  <2>3. \/ mCallback(SOCKET_ERROR, uid) /\ UNCHANGED <<tableVars, kernelVars>>
        \/ \E fd \in Fds :
            /\ fdOwner[fd] = "free"
            /\ fdOwner' = [fdOwner EXCEPT ![fd] = "user"]
            /\ fdState' = [fdState EXCEPT ![fd] = "ok"]
            /\ mCallback(fd, uid)
            /\ UNCHANGED tableVars
        \/ \E fd \in Fds : fdOwner[fd] = "free" /\ startConnecting(fd, uid)
    BY <1>9 DEF pollConnectRequest
  <2> HIDE DEF uid
  <2>4. CASE mCallback(SOCKET_ERROR, uid) /\ UNCHANGED <<tableVars, kernelVars>>
    <3>1. answers' \in Seq([fd : Int, uid : Nat])
      BY <1>t, <2>0, <2>4 DEF mCallback, SOCKET_ERROR
    <3> QED BY <2>1, <2>2, <2>4, <3>1, TablesKept
  <2>5. ASSUME NEW fd \in Fds, fdOwner[fd] = "free",
               fdOwner' = [fdOwner EXCEPT ![fd] = "user"],
               fdState' = [fdState EXCEPT ![fd] = "ok"],
               mCallback(fd, uid), UNCHANGED tableVars
        PROVE  TablesInv'
    <3>1. answers' \in Seq([fd : Int, uid : Nat])
      BY <1>t, <2>0, <2>5, ConnectorAssumption DEF mCallback
    <3>2. ConnTypes' /\ Tables'
      BY <1>p, <2>5, <3>1 DEF ConnTypes, Tables, tableVars, fdsetVars
    <3>3. Phases' /\ Ready'
      BY <1>p, <2>1, <2>2, <2>5 DEF Phases, Ready, tableVars, fdsetVars, localVars
    <3> QED BY <3>2, <3>3 DEF TablesInv
  <2>6. ASSUME NEW fd \in Fds, fdOwner[fd] = "free", startConnecting(fd, uid)
        PROVE  TablesInv'
    <3>1. fd \notin mConnectingFds
      BY <1>p, <2>6 DEF Tables
    <3>2. Polls(pollFds', mConnectingFds \cup {fd}) /\ Len(pollFds') <= limitSize'
          /\ limitSize' \in Nat
      BY <1>p, <2>6, <3>1, EntryAdded DEF startConnecting
    <3>3. /\ mConnectingFds' = mConnectingFds \cup {fd}
          /\ DOMAIN mConnectingInfos' = mConnectingFds'
          /\ \A f \in DOMAIN mConnectingInfos' : mConnectingInfos'[f] \in Nat
      BY <1>p, <1>t, <2>0, <2>6 DEF startConnecting, ConnTypes
    <3>4. /\ fdOwner' = [fdOwner EXCEPT ![fd] = "connector"]
          /\ fdState' = [fdState EXCEPT ![fd] = "pending"]
          /\ UNCHANGED <<overdue, answers>>
      BY <2>6 DEF startConnecting
    <3>5. Tables'
      <4>1. \A f \in Fds : fdOwner'[f] = "connector" <=> f \in mConnectingFds'
        BY <1>p, <1>t, <3>3, <3>4 DEF Tables
      <4> QED BY <1>t, <3>2, <3>3, <4>1 DEF Tables
    <3>6. ConnTypes'
      BY <1>t, <3>3, <3>4 DEF ConnTypes
    <3>7. Phases' /\ Ready'
      BY <1>p, <2>1, <2>2, <3>3, <3>4 DEF Phases, Ready, localVars
    <3> QED BY <3>5, <3>6, <3>7 DEF TablesInv
  <2> QED BY <2>3, <2>4, <2>5, <2>6
<1>10. CASE requestsDone
  <2>1. /\ connPc = "request" /\ dueFds' = overdue /\ connPc' = "timeout"
        /\ UNCHANGED <<mThread, completeFds, failedFds, tableVars, kernelVars, answers>>
    BY <1>10 DEF requestsDone
  <2>2. ConnTypes' /\ Tables'
    BY <1>p, <2>1 DEF ConnTypes, Tables, tableVars, fdsetVars, kernelVars
  <2>3. Phases' /\ Ready'
    BY <1>p, <2>1 DEF Phases, Ready, tableVars, fdsetVars, kernelVars
  <2> QED BY <2>2, <2>3 DEF TablesInv
<1>11. ASSUME NEW fd \in Fds, checkTimeout(fd) PROVE TablesInv'
  <2>1. /\ connPc = "timeout" /\ fd \in dueFds /\ dueFds' = dueFds \ {fd}
        /\ ox_fdset_del(fd, {"Write", "Error"}) /\ Forget(fd)
        /\ UNCHANGED <<mThread, connPc, completeFds, failedFds, fdState>>
    BY <1>11 DEF checkTimeout
  <2>2. fd \in mConnectingFds /\ completeFds = {}
    BY <1>p, <2>1 DEF Phases
  <2>3. /\ fdOwner' = [fdOwner EXCEPT ![fd] = "free"]
        /\ mCallback(SOCKET_ERROR, mConnectingInfos[fd])
    BY <1>11 DEF checkTimeout
  <2>4. Tables' /\ fdOwner' \in [Fds -> {"free", "connector", "user"}]
    BY <2>1, <2>2, <2>3, SocketLeaves
  <2>5. Phases' /\ Ready'
    BY <1>p, <2>1, <2>2 DEF Phases, Ready, Forget
  <2>6. answers' \in Seq([fd : Int, uid : Nat])
    <3>1. mConnectingInfos[fd] \in Nat /\ SOCKET_ERROR \in Int
      BY <1>p, <1>t, <2>2 DEF ConnTypes, SOCKET_ERROR
    <3> QED BY <1>t, <2>3, <3>1 DEF mCallback
  <2>7. \A f \in DOMAIN mConnectingInfos' : mConnectingInfos'[f] \in Nat
    BY <1>p, <2>1 DEF ConnTypes, Forget
  <2> QED BY <1>t, <2>1, <2>4, <2>5, <2>6, <2>7 DEF TablesInv, ConnTypes
<1>12. CASE timeoutsDone
  <2>1. /\ connPc = "timeout" /\ dueFds = {} /\ connPc' = "round"
        /\ UNCHANGED <<mThread, localVars, tableVars, kernelVars, answers>>
    BY <1>12 DEF timeoutsDone
  <2>2. ConnTypes' /\ Tables'
    BY <1>p, <2>1 DEF ConnTypes, Tables, tableVars, fdsetVars, kernelVars
  <2>3. Phases' /\ Ready'
    BY <1>p, <2>1 DEF Phases, Ready, tableVars, fdsetVars, kernelVars, localVars
  <2> QED BY <2>2, <2>3 DEF TablesInv
<1>13. ASSUME NEW fd \in Fds, connectEnds(fd) PROVE TablesInv'
  <2>1. PICK s \in {"ok", "err"} : fdState' = [fdState EXCEPT ![fd] = s]
    BY <1>13 DEF connectEnds
  <2>2. fdState[fd] = "pending"
        /\ UNCHANGED <<mThread, connPc, tableVars, localVars, fdOwner, answers>>
    BY <1>13 DEF connectEnds
  <2>3. ConnTypes' /\ Tables'
    BY <1>p, <2>1, <2>2 DEF ConnTypes, Tables, tableVars, fdsetVars
  <2>4. Phases'
    BY <1>p, <2>2 DEF Phases, tableVars, fdsetVars, localVars
  <2>5. \A f \in Fds : fdState'[f] = IF f = fd THEN s ELSE fdState[f]
    BY <1>t, <2>1
  <2>6. Ready'
    BY <1>p, <1>t, <2>2, <2>5 DEF Phases, Ready, localVars
  <2> QED BY <2>3, <2>4, <2>6 DEF TablesInv
<1>14. ASSUME NEW fd \in Fds, timePasses(fd) PROVE TablesInv'
  <2>1. /\ fd \in DOMAIN mConnectingInfos /\ overdue' = overdue \cup {fd}
        /\ UNCHANGED <<mThread, connPc, mConnectingInfos, mConnectingFds, fdsetVars, localVars,
                       kernelVars, answers>>
    BY <1>14 DEF timePasses
  <2>2. ConnTypes' /\ Tables'
    BY <1>p, <2>1 DEF ConnTypes, Tables, fdsetVars, kernelVars
  <2>3. Phases' /\ Ready'
    BY <1>p, <1>t, <2>1 DEF Phases, Ready, kernelVars, localVars
  <2> QED BY <2>2, <2>3 DEF TablesInv
<1>15. ASSUME NEW fd \in Fds, userOpensOrCloses(fd) PROVE TablesInv'
  <2>1. /\ fdOwner[fd] \in {"free", "user"}
        /\ fdOwner' = [fdOwner EXCEPT ![fd] = IF @ = "free" THEN "user" ELSE "free"]
        /\ fdState' = [fdState EXCEPT ![fd] = "pending"]
        /\ UNCHANGED <<mThread, connPc, tableVars, localVars, answers>>
    BY <1>15 DEF userOpensOrCloses
  <2>2. fd \notin mConnectingFds
    BY <1>p, <2>1 DEF Tables
  <2>3. ConnTypes' /\ Tables'
    BY <1>p, <2>1, <2>2 DEF ConnTypes, Tables, tableVars, fdsetVars
  <2>4. \A f \in Fds \ {fd} : fdState'[f] = fdState[f]
    BY <1>t, <2>1
  <2>5. Phases' /\ Ready'
    BY <1>p, <1>t, <2>1, <2>2, <2>4 DEF Phases, Ready, tableVars, fdsetVars, localVars
  <2> QED BY <2>3, <2>5 DEF TablesInv
<1>16. CASE UNCHANGED connVars
  <2>1. UNCHANGED <<mThread, connPc, tableVars, localVars, kernelVars, answers>>
    BY <1>16 DEF connVars
  <2> QED BY <1>t, <1>p, <2>1, TablesKept DEF Phases
<1> QED
  BY <1>1, <1>2, <1>3, <1>4, <1>5, <1>6, <1>7, <1>8, <1>9, <1>10, <1>11, <1>12, <1>13, <1>14,
     <1>15, <1>16 DEF ConnectorNext, ConnectorThread
-----------------------------------------------------------------------------
(* Requests and answers. *)

\* Each popped request is connecting under one fd or answered once, not both.
OnePlace(infos, ans, popped) ==
    /\ \A f \in DOMAIN infos : infos[f] \in popped
    /\ \A i \in 1..Len(ans) : ans[i].uid \in popped
    /\ \A f, g \in DOMAIN infos : infos[f] = infos[g] => f = g
    /\ \A i, j \in 1..Len(ans) : ans[i].uid = ans[j].uid => i = j
    /\ \A f \in DOMAIN infos : \A i \in 1..Len(ans) : infos[f] # ans[i].uid
    /\ \A m \in popped : \/ \E f \in DOMAIN infos : infos[f] = m
                         \/ \E i \in 1..Len(ans) : ans[i].uid = m

Placed == OnePlace(mConnectingInfos, answers, Elements(mqPopped))

Answer == [fd : Int, uid : Nat]

\* A callback adds one answer behind the others.
LEMMA AnswerAppended ==
    ASSUME NEW ans \in Seq(Answer), NEW a \in Answer
    PROVE  /\ Append(ans, a) \in Seq(Answer)
           /\ 1..Len(Append(ans, a)) = 1..Len(ans) \cup {Len(ans) + 1}
           /\ Len(ans) + 1 \notin 1..Len(ans)
           /\ \A i \in 1..Len(ans) : Append(ans, a)[i] = ans[i]
           /\ Append(ans, a)[Len(ans) + 1] = a
<1>1. Len(ans) \in Nat /\ Len(Append(ans, a)) = Len(ans) + 1 /\ Append(ans, a) \in Seq(Answer)
  OBVIOUS
<1>2. 1..Len(Append(ans, a)) = 1..Len(ans) \cup {Len(ans) + 1} /\ Len(ans) + 1 \notin 1..Len(ans)
  BY <1>1
<1>3. (\A i \in 1..Len(ans) : Append(ans, a)[i] = ans[i]) /\ Append(ans, a)[Len(ans) + 1] = a
  OBVIOUS
<1> QED BY <1>1, <1>2, <1>3

\* A request that is popped and answered.
LEMMA PlacedAnswered ==
    ASSUME NEW infos, NEW ans \in Seq(Answer), NEW P, NEW a \in Answer, a.uid \notin P,
           OnePlace(infos, ans, P)
    PROVE  OnePlace(infos, Append(ans, a), P \cup {a.uid})
<1> DEFINE b == Append(ans, a)
           n == Len(ans) + 1
<1>1. /\ 1..Len(b) = 1..Len(ans) \cup {n} /\ n \notin 1..Len(ans)
      /\ (\A i \in 1..Len(ans) : b[i] = ans[i]) /\ b[n] = a
  BY AnswerAppended
<1> HIDE DEF b, n
<1>2. \A i \in 1..Len(b) : b[i].uid \in P \cup {a.uid}
  BY <1>1 DEF OnePlace
<1>3. \A i, j \in 1..Len(b) : b[i].uid = b[j].uid => i = j
  BY <1>1 DEF OnePlace
<1>4. \A f \in DOMAIN infos : \A i \in 1..Len(b) : infos[f] # b[i].uid
  BY <1>1 DEF OnePlace
<1>5. \A m \in P \cup {a.uid} : \/ \E f \in DOMAIN infos : infos[f] = m
                                \/ \E i \in 1..Len(b) : b[i].uid = m
  BY <1>1 DEF OnePlace
<1>6. (\A f \in DOMAIN infos : infos[f] \in P \cup {a.uid})
      /\ \A f, g \in DOMAIN infos : infos[f] = infos[g] => f = g
  BY DEF OnePlace
<1> QED BY <1>2, <1>3, <1>4, <1>5, <1>6 DEF OnePlace, b

\* A request that is popped and starts to connect.
LEMMA PlacedConnecting ==
    ASSUME NEW infos, NEW ans, NEW P, NEW u, u \notin P, NEW fd, fd \notin DOMAIN infos,
           OnePlace(infos, ans, P),
           NEW g, DOMAIN g = DOMAIN infos \cup {fd}, g[fd] = u,
           \A f \in DOMAIN infos : g[f] = infos[f]
    PROVE  OnePlace(g, ans, P \cup {u})
<1>1. DOMAIN g = DOMAIN infos \cup {fd} /\ g[fd] = u /\ \A f \in DOMAIN infos : g[f] = infos[f]
  OBVIOUS
<1>2. (\A f \in DOMAIN g : g[f] \in P \cup {u}) /\ \A i \in 1..Len(ans) : ans[i].uid \in P \cup {u}
  BY <1>1 DEF OnePlace
<1>3. \A f, h \in DOMAIN g : g[f] = g[h] => f = h
  BY <1>1 DEF OnePlace
<1>4. \A f \in DOMAIN g : \A i \in 1..Len(ans) : g[f] # ans[i].uid
  BY <1>1 DEF OnePlace
<1>5. \A m \in P \cup {u} : \/ \E f \in DOMAIN g : g[f] = m
                            \/ \E i \in 1..Len(ans) : ans[i].uid = m
  BY <1>1 DEF OnePlace
<1>6. \A i, j \in 1..Len(ans) : ans[i].uid = ans[j].uid => i = j
  BY DEF OnePlace
<1> QED BY <1>2, <1>3, <1>4, <1>5, <1>6 DEF OnePlace

\* A request that was connecting and is answered.
LEMMA PlacedEnds ==
    ASSUME NEW infos, NEW ans \in Seq(Answer), NEW P, NEW fd \in DOMAIN infos,
           NEW a \in Answer, a.uid = infos[fd], OnePlace(infos, ans, P)
    PROVE  OnePlace([f \in DOMAIN infos \ {fd} |-> infos[f]], Append(ans, a), P)
<1> DEFINE g == [f \in DOMAIN infos \ {fd} |-> infos[f]]
           b == Append(ans, a)
           n == Len(ans) + 1
<1>1. DOMAIN g = DOMAIN infos \ {fd} /\ \A f \in DOMAIN infos \ {fd} : g[f] = infos[f]
  OBVIOUS
<1>2. /\ 1..Len(b) = 1..Len(ans) \cup {n} /\ n \notin 1..Len(ans)
      /\ (\A i \in 1..Len(ans) : b[i] = ans[i]) /\ b[n] = a
  BY AnswerAppended
<1> HIDE DEF g, b, n
<1>3. (\A f \in DOMAIN g : g[f] \in P) /\ \A i \in 1..Len(b) : b[i].uid \in P
  BY <1>1, <1>2 DEF OnePlace
<1>4. \A f, h \in DOMAIN g : g[f] = g[h] => f = h
  BY <1>1 DEF OnePlace
<1>5. \A i, j \in 1..Len(b) : b[i].uid = b[j].uid => i = j
  BY <1>2 DEF OnePlace
<1>6. \A f \in DOMAIN g : \A i \in 1..Len(b) : g[f] # b[i].uid
  BY <1>1, <1>2 DEF OnePlace
<1>7. ASSUME NEW m \in P
      PROVE  (\E f \in DOMAIN g : g[f] = m) \/ (\E i \in 1..Len(b) : b[i].uid = m)
  <2>1. CASE \E f \in DOMAIN infos : infos[f] = m
    BY <1>1, <1>2, <2>1
  <2>2. CASE \E i \in 1..Len(ans) : ans[i].uid = m
    BY <1>2, <2>2
  <2> QED BY <2>1, <2>2 DEF OnePlace
<1> QED BY <1>3, <1>4, <1>5, <1>6, <1>7 DEF OnePlace, g, b

\* popBack takes a request nobody has taken before.
LEMMA PopTakes ==
    ASSUME MqInv, popBack
    PROVE  LET uid == mReadList[Len(mReadList)] IN
           /\ uid \in Nat /\ uid \notin Elements(mqPopped)
           /\ Elements(mqPopped') = Elements(mqPopped) \cup {uid}
<1> DEFINE k == Len(mReadList)
           left == SubSeq(mReadList, 1, k - 1)
           uid == mReadList[k]
<1>t. /\ mReadList \in Seq(Nat) /\ mqPopped \in Seq(Nat) /\ mqPushed \in Nat /\ mqRest \in Seq(Nat)
      /\ Intact(mReadList, mqRest, mqPopped, mqPushed)
  BY PendingSplit DEF MqInv, MqTypes
<1>1. mReadList # <<>> /\ mqPopped' = Append(mqPopped, uid)
  BY DEF popBack
<1>2. left \in Seq(Nat) /\ IsWithout(mReadList, left, k) /\ k \in 1..Len(mReadList)
  BY <1>t, <1>1, FrontWithout
<1> HIDE DEF k, left
<1>3. uid \in 1..mqPushed /\ uid \notin Elements(mqPopped)
  BY <1>t, <1>2, IntactPop
<1>4. uid \in Nat
  BY <1>t, <1>3
<1>5. Elements(mqPopped') = Elements(mqPopped) \cup {uid}
  BY <1>t, <1>1, <1>4, ElementsOfAppend
<1> QED BY <1>3, <1>4, <1>5 DEF k

\* The connect thread and its callers use the queue as MsgQueue.h allows.
LEMMA ConnectorUsesQueue ==
    ASSUME [ConnectorNext]_connVars PROVE [MsgQueueNext]_mqVars
<1> USE DEF MsgQueueNext
<1>1. CASE asyncConnect
  BY <1>1 DEF asyncConnect
<1>2. CASE asyncConnectSync
  BY <1>2 DEF asyncConnectSync
<1>3. CASE syncRequests
  BY <1>3 DEF syncRequests
<1>4. CASE pollConnectRequest
  BY <1>4 DEF pollConnectRequest
<1>5. CASE startThread \/ destroy \/ runRound \/ checkConnectStatus \/ completeDone
           \/ requestsDone \/ timeoutsDone
  BY <1>5 DEF startThread, destroy, runRound, checkConnectStatus, completeDone, requestsDone,
              timeoutsDone
<1>6. CASE \E fd \in Fds : completeFd(fd) \/ checkTimeout(fd) \/ connectEnds(fd)
                           \/ timePasses(fd) \/ userOpensOrCloses(fd)
  BY <1>6 DEF completeFd, checkTimeout, connectEnds, timePasses, userOpensOrCloses
<1>7. CASE UNCHANGED connVars
  BY <1>7 DEF connVars
<1> QED BY <1>1, <1>2, <1>3, <1>4, <1>5, <1>6, <1>7 DEF ConnectorNext, ConnectorThread

\* Every new answer carries an fd that is connected, or SOCKET_ERROR.
NewAnswersConnected ==
    \A i \in 1..Len(answers') :
        i > Len(answers) /\ answers'[i].fd # SOCKET_ERROR => fdState'[answers'[i].fd] = "ok"

\* One callback, with a socket that is connected or none, adds a correct answer.
LEMMA OneAnswer ==
    ASSUME ConnTypes, NEW x \in Int, NEW u \in Nat, mCallback(x, u),
           x # SOCKET_ERROR => fdState'[x] = "ok"
    PROVE  NewAnswersConnected
<1> DEFINE a == [fd |-> x, uid |-> u]
           n == Len(answers) + 1
<1>1. answers \in Seq(Answer) /\ a \in Answer /\ answers' = Append(answers, a) /\ a.fd = x
  BY DEF ConnTypes, Answer, mCallback
<1> HIDE DEF a
<1>2. /\ 1..Len(answers') = 1..Len(answers) \cup {n}
      /\ answers'[n] = a
  BY <1>1, AnswerAppended
<1>3. ASSUME NEW i \in 1..Len(answers'), i > Len(answers) PROVE i = n
  <2>1. Len(answers) \in Nat
    BY <1>1
  <2> QED BY <1>2, <1>3, <2>1
<1> QED BY <1>1, <1>2, <1>3 DEF NewAnswersConnected

\* Without a callback there is no new answer.
LEMMA NoAnswer ==
    ASSUME ConnTypes, answers' = answers PROVE NewAnswersConnected
<1>1. Len(answers) \in Nat
  BY DEF ConnTypes
<1>2. \A i \in 1..Len(answers) : ~ (i > Len(answers))
  BY <1>1
<1> QED BY <1>2 DEF NewAnswersConnected

\* Every step keeps the requests in their places and hands over connected sockets.
LEMMA AnswersStep ==
    ASSUME MqInv, TablesInv, Placed, [ConnectorNext]_connVars
    PROVE  Placed' /\ NewAnswersConnected
<1>t. /\ answers \in Seq(Answer) /\ ConnTypes
      /\ mConnectingFds \subseteq Fds /\ DOMAIN mConnectingInfos = mConnectingFds
      /\ \A fd \in mConnectingFds : mConnectingInfos[fd] \in Nat
      /\ completeFds \subseteq mConnectingFds /\ dueFds \subseteq mConnectingFds
  BY DEF TablesInv, ConnTypes, Tables, Phases, Answer
<1>e. SOCKET_ERROR \in Int /\ \A fd \in Fds : fd \in Int
  BY ConnectorAssumption DEF SOCKET_ERROR
<1>1. ASSUME UNCHANGED <<mConnectingInfos, answers, mqPopped>> PROVE Placed' /\ NewAnswersConnected
  BY <1>t, <1>1, NoAnswer DEF Placed, Elements
<1>2. ASSUME NEW fd \in mConnectingFds, NEW x \in Int, mCallback(x, mConnectingInfos[fd]),
             Forget(fd), mqPopped' = mqPopped, x # SOCKET_ERROR => fdState'[x] = "ok"
      PROVE  Placed' /\ NewAnswersConnected
  <2> DEFINE a == [fd |-> x, uid |-> mConnectingInfos[fd]]
  <2>1. a \in Answer /\ a.uid = mConnectingInfos[fd] /\ answers' = Append(answers, a)
    BY <1>t, <1>2 DEF Answer, mCallback
  <2> HIDE DEF a
  <2>2. OnePlace([f \in DOMAIN mConnectingInfos \ {fd} |-> mConnectingInfos[f]],
                 Append(answers, a), Elements(mqPopped))
    BY <1>t, <2>1, PlacedEnds DEF Placed
  <2>3. Placed'
    BY <1>2, <2>1, <2>2 DEF Placed, Forget, Elements
  <2> QED BY <1>t, <1>2, <2>3, OneAnswer
<1>3. CASE startThread \/ asyncConnect \/ asyncConnectSync \/ destroy \/ runRound
           \/ checkConnectStatus \/ completeDone \/ syncRequests \/ requestsDone \/ timeoutsDone
  <2>1. UNCHANGED <<mConnectingInfos, answers, mqPopped>>
    BY <1>3 DEF startThread, asyncConnect, asyncConnectSync, destroy, runRound,
                checkConnectStatus, completeDone, syncRequests, requestsDone, timeoutsDone,
                mqPush, forceSyncWrite, trySyncWriteLocked, forceSyncWriteLocked, syncRead,
                mqVars, tableVars
  <2> QED BY <1>1, <2>1
<1>4. CASE \E fd \in Fds : connectEnds(fd) \/ timePasses(fd) \/ userOpensOrCloses(fd)
  <2>1. UNCHANGED <<mConnectingInfos, answers, mqPopped>>
    BY <1>4 DEF connectEnds, timePasses, userOpensOrCloses, mqVars, tableVars
  <2> QED BY <1>1, <2>1
<1>5. ASSUME NEW fd \in Fds, completeFd(fd) PROVE Placed' /\ NewAnswersConnected
  <2>1. fd \in completeFds /\ Forget(fd) /\ mqPopped' = mqPopped /\ fdState' = fdState
    BY <1>5 DEF completeFd, mqVars
  <2>2. fd \in mConnectingFds
    BY <1>t, <2>1
  <2> DEFINE x == IF fd \in failedFds THEN SOCKET_ERROR ELSE fd
  <2>3. mCallback(x, mConnectingInfos[fd])
    BY <1>5, <1>t, <2>2 DEF completeFd
  <2>4. x \in Int /\ (x # SOCKET_ERROR => fdState'[x] = "ok")
    BY <1>e, <2>1 DEF TablesInv, Ready
  <2> HIDE DEF x
  <2> QED BY <1>2, <2>1, <2>2, <2>3, <2>4
<1>6. ASSUME NEW fd \in Fds, checkTimeout(fd) PROVE Placed' /\ NewAnswersConnected
  <2>1. fd \in dueFds /\ Forget(fd) /\ mqPopped' = mqPopped
        /\ mCallback(SOCKET_ERROR, mConnectingInfos[fd])
    BY <1>6 DEF checkTimeout, mqVars
  <2>2. fd \in mConnectingFds
    BY <1>t, <2>1
  <2> QED BY <1>2, <1>e, <2>1, <2>2
<1>7. CASE pollConnectRequest
  <2> DEFINE uid == mReadList[Len(mReadList)]
  <2>1. /\ uid \in Nat /\ uid \notin Elements(mqPopped)
        /\ Elements(mqPopped') = Elements(mqPopped) \cup {uid}
    BY <1>7, PopTakes DEF pollConnectRequest
  <2>2. \/ mCallback(SOCKET_ERROR, uid) /\ UNCHANGED <<tableVars, kernelVars>>
        \/ \E fd \in Fds :
            /\ fdOwner[fd] = "free"
            /\ fdOwner' = [fdOwner EXCEPT ![fd] = "user"]
            /\ fdState' = [fdState EXCEPT ![fd] = "ok"]
            /\ mCallback(fd, uid)
            /\ UNCHANGED tableVars
        \/ \E fd \in Fds : fdOwner[fd] = "free" /\ startConnecting(fd, uid)
    BY <1>7 DEF pollConnectRequest
  <2> HIDE DEF uid
  <2>3. ASSUME NEW x \in Int, mCallback(x, uid), mConnectingInfos' = mConnectingInfos,
               x # SOCKET_ERROR => fdState'[x] = "ok"
        PROVE  Placed' /\ NewAnswersConnected
    <3> DEFINE a == [fd |-> x, uid |-> uid]
    <3>1. a \in Answer /\ a.uid = uid /\ answers' = Append(answers, a)
      BY <2>1, <2>3 DEF Answer, mCallback
    <3> HIDE DEF a
    <3>2. OnePlace(mConnectingInfos, Append(answers, a), Elements(mqPopped) \cup {a.uid})
      BY <1>t, <2>1, <3>1, PlacedAnswered DEF Placed
    <3>3. OnePlace(mConnectingInfos', answers', Elements(mqPopped'))
      BY <2>1, <2>3, <3>1, <3>2
    <3>4. Placed'
      BY <3>3 DEF Placed, Elements
    <3> QED BY <1>t, <2>1, <2>3, <3>4, OneAnswer
  <2>4. CASE mCallback(SOCKET_ERROR, uid) /\ UNCHANGED <<tableVars, kernelVars>>
    BY <1>e, <2>3, <2>4 DEF tableVars
  <2>5. ASSUME NEW fd \in Fds, fdState' = [fdState EXCEPT ![fd] = "ok"], mCallback(fd, uid),
               UNCHANGED tableVars
        PROVE  Placed' /\ NewAnswersConnected
    <3>1. fdState'[fd] = "ok" /\ mConnectingInfos' = mConnectingInfos
      BY <1>t, <2>5 DEF ConnTypes, tableVars
    <3> QED BY <1>e, <2>3, <2>5, <3>1
  <2>6. ASSUME NEW fd \in Fds, fdOwner[fd] = "free", startConnecting(fd, uid)
        PROVE  Placed' /\ NewAnswersConnected
    <3>1. fd \notin DOMAIN mConnectingInfos
      BY <1>t, <2>6 DEF TablesInv, Tables
    <3>2. mConnectingInfos' = [f \in DOMAIN mConnectingInfos \cup {fd} |->
                                   IF f = fd THEN uid ELSE mConnectingInfos[f]]
          /\ answers' = answers
      BY <2>6 DEF startConnecting
    <3> DEFINE g == mConnectingInfos'
    <3>3. /\ DOMAIN g = DOMAIN mConnectingInfos \cup {fd} /\ g[fd] = uid
          /\ \A f \in DOMAIN mConnectingInfos : g[f] = mConnectingInfos[f]
      BY <3>1, <3>2
    <3> HIDE DEF g
    <3>4. OnePlace(g, answers, Elements(mqPopped) \cup {uid})
      BY <2>1, <3>1, <3>3, PlacedConnecting DEF Placed
    <3>5. OnePlace(mConnectingInfos', answers', Elements(mqPopped'))
      BY <2>1, <3>2, <3>4 DEF g
    <3>6. Placed'
      BY <3>5 DEF Placed, Elements
    <3> QED BY <1>t, <2>6, <3>6, NoAnswer DEF startConnecting
  <2> QED BY <2>2, <2>4, <2>5, <2>6
<1>8. CASE UNCHANGED connVars
  BY <1>1, <1>8 DEF connVars, tableVars, mqVars
<1> QED
  BY <1>3, <1>4, <1>5, <1>6, <1>7, <1>8 DEF ConnectorNext, ConnectorThread

ConnInv == MqInv /\ TablesInv /\ Placed

\* ConnInv holds for a new Connector.
LEMMA ConnStart == ConnectorInit => ConnInv
<1> SUFFICES ASSUME ConnectorInit PROVE ConnInv
  OBVIOUS
<1>1. MqInv
  BY MqStart DEF ConnectorInit
<1>2. <<>> \in Seq(Entries) /\ <<>> \in Seq([fd : Int, uid : Nat]) /\ Len(<<>>) = 0 /\ 1..0 = {}
      /\ DOMAIN <<>> = {}
  OBVIOUS
<1>3. FdsetSize \in Nat
  BY ConnectorAssumption
<1>4. Polls(pollFds, {})
  BY <1>2 DEF ConnectorInit, Polls
<1>5. Tables
  BY <1>2, <1>3, <1>4 DEF ConnectorInit, Tables
<1>6. ConnTypes /\ Phases /\ Ready
  BY <1>2 DEF ConnectorInit, ConnTypes, Phases, Ready
<1>7. Placed
  <2>1. Elements(mqPopped) = {}
    BY <1>2 DEF ConnectorInit, MsgQueueInit, Elements
  <2> QED BY <1>2, <2>1 DEF ConnectorInit, Placed, OnePlace
<1> QED BY <1>1, <1>5, <1>6, <1>7 DEF ConnInv, TablesInv

\* Every step of Connector keeps ConnInv.
LEMMA ConnStep ==
    ConnInv /\ [ConnectorNext]_connVars => ConnInv' /\ NewAnswersConnected
<1> SUFFICES ASSUME ConnInv, [ConnectorNext]_connVars PROVE ConnInv' /\ NewAnswersConnected
  OBVIOUS
<1>1. MqInv'
  BY ConnectorUsesQueue, MqStep DEF ConnInv
<1>2. TablesInv'
  BY TablesStep DEF ConnInv
<1>3. Placed' /\ NewAnswersConnected
  BY AnswersStep DEF ConnInv
<1> QED BY <1>1, <1>2, <1>3 DEF ConnInv

\* ConnInv holds at all times.
LEMMA ConnInvariant == ConnectorSpec => []ConnInv
<1>1. ConnInv /\ [ConnectorNext]_connVars => ConnInv'
  BY ConnStep
<1> QED BY ConnStart, <1>1, PTL DEF ConnectorSpec

\* ConnInv is more than RequestInOnePlace says.
LEMMA PlacedImplies == ConnInv => RequestInOnePlace
<1> SUFFICES ASSUME ConnInv, NEW uid \in 1..mqPushed
             PROVE  LET queued == IF uid \in Elements(mqPending) THEN 1 ELSE 0
                        connecting == IF Connecting(uid) = {} THEN 0 ELSE 1
                    IN  /\ \A f, g \in Connecting(uid) : f = g
                        /\ \A i, j \in Answered(uid) : i = j
                        /\ queued + connecting + (IF Answered(uid) = {} THEN 0 ELSE 1) = 1
  BY DEF RequestInOnePlace
<1> DEFINE P == Elements(mqPopped)
<1>1. /\ mReadList \in Seq(Nat) /\ mqRest \in Seq(Nat) /\ mqPending = mReadList \o mqRest
      /\ Intact(mReadList, mqRest, mqPopped, mqPushed)
  BY PendingSplit DEF ConnInv, MqInv, MqTypes
<1>2. Elements(mqPending) = Elements(mReadList) \cup Elements(mqRest)
  BY <1>1, ElementsOfConcat
<1>3. P \cup Elements(mqPending) = 1..mqPushed
  BY <1>1, <1>2 DEF Intact
<1>4. P \cap Elements(mqPending) = {}
  <2>1. ASSUME NEW x \in P, x \in Elements(mqRest) PROVE FALSE
    <3>1. x \in 1..mqPushed /\ x < x
      BY <1>1, <2>1 DEF Intact, Before
    <3> QED BY <3>1
  <2> QED BY <1>1, <1>2, <2>1 DEF Intact
<1> HIDE DEF P
<1>5. OnePlace(mConnectingInfos, answers, P)
  BY DEF ConnInv, Placed, P
<1>6. \A f, g \in Connecting(uid) : f = g
  BY <1>5 DEF OnePlace, Connecting
<1>7. \A i, j \in Answered(uid) : i = j
  BY <1>5 DEF OnePlace, Answered
<1>8. CASE uid \in P
  <2>1. uid \notin Elements(mqPending)
    BY <1>4, <1>8
  <2>2. Connecting(uid) # {} \/ Answered(uid) # {}
    BY <1>5, <1>8 DEF OnePlace, Connecting, Answered
  <2>3. Connecting(uid) = {} \/ Answered(uid) = {}
    BY <1>5 DEF OnePlace, Connecting, Answered
  <2> QED BY <1>6, <1>7, <2>1, <2>2, <2>3
<1>9. CASE uid \notin P
  <2>1. uid \in Elements(mqPending)
    BY <1>3, <1>9
  <2>2. Connecting(uid) = {} /\ Answered(uid) = {}
    BY <1>5, <1>9 DEF OnePlace, Connecting, Answered
  <2> QED BY <1>6, <1>7, <2>1, <2>2
<1> QED BY <1>8, <1>9

(***************************************************************************)
(* A connect request is queued, connecting under one fd or answered once,  *)
(* whatever the order in which connects end, timeouts pass and requests    *)
(* arrive (Connector.cpp, checkConnectStatus, checkTimeout and             *)
(* pollConnectRequest), for any number of requests and sockets.            *)
(***************************************************************************)
THEOREM RequestsInOnePlace == ConnectorSpec => []RequestInOnePlace
  BY ConnInvariant, PlacedImplies, PTL

(***************************************************************************)
(* mConnectingInfos, mConnectingFds and the poll array of mFDSet name the  *)
(* same sockets, all of them the connector's, at every step and for every  *)
(* first size and growth of the fdset.                                     *)
(***************************************************************************)
THEOREM ConnectingTables == ConnectorSpec => []ConnectingTablesAgree
<1>1. ConnInv => ConnectingTablesAgree
  BY DEF ConnInv, TablesInv, Tables, Phases, Polls, ConnectingTablesAgree
<1> QED BY ConnInvariant, <1>1, PTL

(***************************************************************************)
(* The callback gets an fd only if its connect succeeded: what             *)
(* checkConnectStatus noted of a socket in its first loop still holds when *)
(* its second loop hands the socket over.                                  *)
(***************************************************************************)
THEOREM OnlyConnectedHandedOver == ConnectorSpec => HandsOverConnected
<1>1. ConnInv /\ [ConnectorNext]_connVars
        => [\A i \in 1..Len(answers') :
               i > Len(answers) /\ answers'[i].fd # SOCKET_ERROR
                   => fdState'[answers'[i].fd] = "ok"]_connVars
  BY ConnStep DEF NewAnswersConnected
<1> QED BY ConnInvariant, <1>1, PTL DEF ConnectorSpec, HandsOverConnected
=============================================================================
