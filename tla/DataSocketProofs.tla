-------------------------- MODULE DataSocketProofs --------------------------
(***************************************************************************)
(* Proofs about DataSocket, for any number of packets and timers and any   *)
(* sizes of packets and buffers.                                           *)
(***************************************************************************)
EXTENDS DataSocket, SequenceFacts

(* SumLeft is defined by recursion over the send list. *)

SumUpTo(list, f, n) == f = [i \in 0..n |-> IF i = 0 THEN 0 ELSE f[i - 1] + list[i].left]

\* The recursion of SumLeft has a solution up to every n.
LEMMA SumExists ==
    ASSUME NEW list, NEW n \in Nat
    PROVE  \E f : SumUpTo(list, f, n)
<1> DEFINE S == {i \in Nat : \E f : SumUpTo(list, f, i)}
<1>1. 0 \in S
  <2> DEFINE f == [i \in 0..0 |-> 0]
  <2>1. f = [i \in 0..0 |-> IF i = 0 THEN 0 ELSE f[i - 1] + list[i].left]
    OBVIOUS
  <2> HIDE DEF f
  <2> QED BY <2>1 DEF SumUpTo
<1>2. ASSUME NEW k \in Nat, k \in S PROVE k + 1 \in S
  <2>1. PICK f : SumUpTo(list, f, k)
    BY <1>2
  <2> DEFINE last == f[k] + list[k + 1].left
             g == [i \in 0..(k + 1) |-> IF i <= k THEN f[i] ELSE last]
  <2>2. ASSUME NEW i \in 0..(k + 1)
        PROVE  g[i] = IF i = 0 THEN 0 ELSE g[i - 1] + list[i].left
    <3> HIDE DEF last
    <3>1. CASE i = k + 1
      BY <3>1 DEF last
    <3>2. CASE i \in 0..k
      <4>1. g[i] = f[i] /\ (i # 0 => g[i - 1] = f[i - 1])
        BY <3>2
      <4> QED BY <2>1, <3>2, <4>1 DEF SumUpTo
    <3> QED BY <3>1, <3>2
  <2> HIDE DEF last
  <2>3. g = [i \in 0..(k + 1) |-> g[i]]
    OBVIOUS
  <2> HIDE DEF g
  <2>4. SumUpTo(list, g, k + 1)
    BY <2>2, <2>3 DEF SumUpTo
  <2> QED BY <2>4
<1> HIDE DEF S
<1>3. Nat \subseteq S
  BY <1>1, <1>2, NatSetInduction
<1> QED BY <1>3 DEF S

\* The function SumLeft chooses is such a solution.
LEMMA SumDef ==
    ASSUME NEW list, NEW n \in Nat
    PROVE  \E f : SumUpTo(list, f, n) /\ SumLeft(list, n) = f[n]
<1> DEFINE h == CHOOSE f : SumUpTo(list, f, n)
<1>1. SumUpTo(list, h, n)
  BY SumExists
<1>2. SumLeft(list, n) = h[n]
  BY DEF SumLeft, SumUpTo
<1> HIDE DEF h
<1> QED BY <1>1, <1>2

\* What the sum is does not depend on how far it is carried.
LEMMA SumAgrees ==
    ASSUME NEW list, NEW n \in Nat, NEW m \in Nat, n <= m, NEW f, NEW g,
           SumUpTo(list, f, n), SumUpTo(list, g, m)
    PROVE  \A i \in 0..n : f[i] = g[i]
<1> DEFINE S == {i \in 0..n : f[i] = g[i]}
<1>1. 0 \in S
  <2>1. f[0] = 0 /\ g[0] = 0
    BY DEF SumUpTo
  <2> QED BY <2>1
<1>2. ASSUME NEW i \in 0..(n - 1), i \in S PROVE i + 1 \in S
  <2>1. i + 1 \in 0..n /\ i + 1 \in 0..m /\ i + 1 # 0 /\ i + 1 - 1 = i
    OBVIOUS
  <2>2. f[i + 1] = f[i + 1 - 1] + list[i + 1].left
    BY <2>1 DEF SumUpTo
  <2>3. g[i + 1] = g[i + 1 - 1] + list[i + 1].left
    BY <2>1 DEF SumUpTo
  <2> QED BY <1>2, <2>1, <2>2, <2>3
<1> HIDE DEF S
<1>3. 0..n \subseteq S
  BY <1>1, <1>2, UpToInduction
<1> QED BY <1>3 DEF S

\* SumLeft unfolds by one packet.
LEMMA SumStep ==
    ASSUME NEW list, NEW n \in Nat
    PROVE  /\ SumLeft(list, 0) = 0
           /\ SumLeft(list, n + 1) = SumLeft(list, n) + list[n + 1].left
<1>1. PICK z : SumUpTo(list, z, 0) /\ SumLeft(list, 0) = z[0]
  BY SumDef
<1>2. z[0] = 0
  BY <1>1 DEF SumUpTo
<1>3. PICK f : SumUpTo(list, f, n) /\ SumLeft(list, n) = f[n]
  BY SumDef
<1>4. n + 1 \in Nat /\ n <= n + 1 /\ n \in 0..n
  OBVIOUS
<1>5. PICK g : SumUpTo(list, g, n + 1) /\ SumLeft(list, n + 1) = g[n + 1]
  BY <1>4, SumDef
<1>6. f[n] = g[n]
  BY <1>3, <1>4, <1>5, SumAgrees
<1>7. n + 1 \in 0..(n + 1) /\ n + 1 # 0 /\ n + 1 - 1 = n
  OBVIOUS
<1>8. g[n + 1] = g[n + 1 - 1] + list[n + 1].left
  BY <1>5, <1>7 DEF SumUpTo
<1> QED BY <1>1, <1>2, <1>3, <1>5, <1>6, <1>7, <1>8

\* The lefts of the first n packets are numbers.
Counted(list, n) == n \in Nat /\ \A i \in 1..n : list[i].left \in Nat

\* The bytes left in the first packets are a natural number.
LEMMA SumInNat ==
    ASSUME NEW list, NEW n, Counted(list, n)
    PROVE  /\ \A i \in 0..n : SumLeft(list, i) \in Nat
           /\ \A i \in 1..n : SumLeft(list, i) = SumLeft(list, i - 1) + list[i].left
<1> DEFINE S == {i \in 0..n : SumLeft(list, i) \in Nat}
<1>0. n \in Nat
  BY DEF Counted
<1>1. 0 \in S
  BY <1>0, SumStep
<1>2. ASSUME NEW i \in 0..(n - 1), i \in S PROVE i + 1 \in S
  <2>1. i \in Nat /\ i + 1 \in 1..n /\ i + 1 \in 0..n
    BY <1>0
  <2>2. SumLeft(list, i + 1) = SumLeft(list, i) + list[i + 1].left
    BY <2>1, SumStep
  <2>3. list[i + 1].left \in Nat /\ SumLeft(list, i) \in Nat
    BY <1>2, <2>1 DEF Counted
  <2> QED BY <2>1, <2>2, <2>3
<1> HIDE DEF S
<1>3. 0..n \subseteq S
  BY <1>0, <1>1, <1>2, UpToInduction
<1>4. ASSUME NEW i \in 1..n PROVE SumLeft(list, i) = SumLeft(list, i - 1) + list[i].left
  <2>1. i - 1 \in Nat /\ i - 1 + 1 = i
    BY <1>0
  <2> QED BY <2>1, SumStep
<1> QED BY <1>3, <1>4 DEF S

\* More packets have no fewer bytes left.
LEMMA SumGrows ==
    ASSUME NEW list, NEW n, Counted(list, n), NEW i \in 0..n, NEW j \in 0..n, i <= j
    PROVE  SumLeft(list, i) <= SumLeft(list, j)
<1> DEFINE S == {m \in 0..n : i <= m => SumLeft(list, i) <= SumLeft(list, m)}
<1>0. /\ n \in Nat
      /\ \A m \in 0..n : SumLeft(list, m) \in Nat
      /\ \A m \in 1..n : list[m].left \in Nat
      /\ \A m \in 1..n : SumLeft(list, m) = SumLeft(list, m - 1) + list[m].left
  BY SumInNat DEF Counted
<1>1. 0 \in S
  <2>1. i <= 0 => i = 0
    OBVIOUS
  <2>2. SumLeft(list, i) \in Nat
    BY <1>0
  <2> QED BY <1>0, <2>1, <2>2
<1>2. ASSUME NEW m \in 0..(n - 1), m \in S PROVE m + 1 \in S
  <2>1. m \in 0..n /\ m + 1 \in 1..n /\ m + 1 \in 0..n /\ m + 1 - 1 = m
    BY <1>0
  <2>2. SumLeft(list, m + 1) = SumLeft(list, m) + list[m + 1].left
    BY <1>0, <2>1
  <2>3. SumLeft(list, m) \in Nat /\ list[m + 1].left \in Nat /\ SumLeft(list, i) \in Nat
        /\ SumLeft(list, m + 1) \in Nat
    BY <1>0, <2>1
  <2>4. CASE i <= m
    <3>1. SumLeft(list, i) <= SumLeft(list, m)
      BY <1>2, <2>4
    <3> QED BY <2>1, <2>2, <2>3, <3>1
  <2>5. CASE ~ (i <= m)
    <3>1. i <= m + 1 => i = m + 1
      BY <2>1, <2>5
    <3> QED BY <2>1, <2>3, <3>1
  <2> QED BY <2>4, <2>5
<1> HIDE DEF S
<1>3. 0..n \subseteq S
  BY <1>0, <1>1, <1>2, UpToInduction
<1> QED BY <1>3 DEF S

\* The packet that holds the b-th byte.
LEMMA SumReaches ==
    ASSUME NEW list, NEW n, Counted(list, n), NEW b \in Nat \ {0}, b <= SumLeft(list, n)
    PROVE  \E j \in 1..n : SumLeft(list, j - 1) < b /\ b <= SumLeft(list, j)
<1> DEFINE S == {m \in 0..n : SumLeft(list, m) < b}
<1>0. /\ n \in Nat
      /\ \A m \in 0..n : SumLeft(list, m) \in Nat
  BY SumInNat DEF Counted
<1>1. SUFFICES ASSUME \A j \in 1..n : SumLeft(list, j - 1) < b => ~ (b <= SumLeft(list, j))
               PROVE  FALSE
  OBVIOUS
<1>2. 0 \in S
  BY <1>0, SumStep
<1>3. ASSUME NEW m \in 0..(n - 1), m \in S PROVE m + 1 \in S
  <2>1. m + 1 \in 1..n /\ m + 1 \in 0..n /\ m + 1 - 1 = m
    BY <1>0
  <2>2. ~ (b <= SumLeft(list, m + 1)) /\ SumLeft(list, m + 1) \in Nat
    BY <1>0, <1>1, <1>3, <2>1
  <2> QED BY <2>1, <2>2
<1> HIDE DEF S
<1>4. 0..n \subseteq S
  BY <1>0, <1>2, <1>3, UpToInduction
<1>5. n \in 0..n /\ SumLeft(list, n) \in Nat
  BY <1>0
<1> QED BY <1>4, <1>5 DEF S

\* A write of k bytes finishes the longest prefix of the list that k covers.
LEMMA FinishedIs ==
    ASSUME NEW list, Counted(list, Len(list)), NEW k \in Nat
    PROVE  LET n == Finished(list, k) IN
           /\ n \in 0..Len(list) /\ SumLeft(list, n) <= k
           /\ \A m \in 0..Len(list) : SumLeft(list, m) <= k => m <= n
<1> DEFINE T == {n \in 0..Len(list) : SumLeft(list, n) <= k}
<1>0. Len(list) \in Nat /\ SumLeft(list, 0) = 0
  BY SumStep DEF Counted
<1>1. T \subseteq 0..Len(list) /\ T # {}
  <2>1. 0 \in T
    BY <1>0
  <2> QED BY <2>1
<1>2. \E m \in T : \A i \in T : i <= m
  <2> HIDE DEF T
  <2> QED BY <1>0, <1>1, LargestExists
<1>3. \E x \in 0..Len(list) :
          SumLeft(list, x) <= k /\ \A m \in 0..Len(list) : SumLeft(list, m) <= k => m <= x
  BY <1>2
<1> QED BY <1>3 DEF Finished

\* A write covers bytes of the list.
LEMMA BatchIs ==
    ASSUME NEW list, Counted(list, Len(list))
    PROVE  BatchLen(list) \in 0..Len(list) /\ SumLeft(list, BatchLen(list)) \in Nat
           /\ SumLeft(list, BatchLen(list)) <= SumLeft(list, Len(list))
<1> DEFINE fits == IF ds.mSSL
                   THEN {n \in 0..Len(list) : n = 1 \/ SumLeft(list, n) <= SendBufSize}
                   ELSE {n \in 0..Len(list) : n <= MaxIovec}
<1>0. Len(list) \in Nat /\ SumLeft(list, 0) = 0 /\ SendBufSize \in Nat /\ MaxIovec \in Nat
  BY SumStep, DataSocketAssumption DEF Counted
<1>1. fits \subseteq 0..Len(list) /\ 0 \in fits
  BY <1>0
<1>2. \E m \in fits : \A i \in fits : i <= m
  <2> HIDE DEF fits
  <2>1. fits # {}
    BY <1>1
  <2> QED BY <1>0, <1>1, <2>1, LargestExists
<1>3. BatchLen(list) \in fits
  <2>1. BatchLen(list) = CHOOSE n \in fits : \A m \in fits : m <= n
    BY DEF BatchLen
  <2> HIDE DEF fits
  <2> QED BY <1>2, <2>1
<1>4. BatchLen(list) \in 0..Len(list)
  BY <1>1, <1>3
<1>5. Len(list) \in 0..Len(list) /\ BatchLen(list) <= Len(list)
  BY <1>0, <1>4
<1> QED BY <1>4, <1>5, SumInNat, SumGrows
-----------------------------------------------------------------------------
(* StreamOf is defined by recursion over the sizes. *)

Bytes == Nat \X Nat
BytesOf(i, size) == [b \in 1..size |-> <<i, b>>]

StreamUpTo(list, f, n) ==
    f = [i \in 0..n |-> IF i = 0 THEN <<>> ELSE f[i - 1] \o BytesOf(i, list[i])]

\* The recursion of StreamOf has a solution up to every n.
LEMMA StreamExists ==
    ASSUME NEW list, NEW n \in Nat
    PROVE  \E f : StreamUpTo(list, f, n)
<1> DEFINE S == {i \in Nat : \E f : StreamUpTo(list, f, i)}
<1>1. 0 \in S
  <2> DEFINE f == [i \in 0..0 |-> <<>>]
  <2>1. f = [i \in 0..0 |-> IF i = 0 THEN <<>> ELSE f[i - 1] \o BytesOf(i, list[i])]
    OBVIOUS
  <2> HIDE DEF f
  <2> QED BY <2>1 DEF StreamUpTo
<1>2. ASSUME NEW k \in Nat, k \in S PROVE k + 1 \in S
  <2>1. PICK f : StreamUpTo(list, f, k)
    BY <1>2
  <2> DEFINE last == f[k] \o BytesOf(k + 1, list[k + 1])
             g == [i \in 0..(k + 1) |-> IF i <= k THEN f[i] ELSE last]
  <2>2. ASSUME NEW i \in 0..(k + 1)
        PROVE  g[i] = IF i = 0 THEN <<>> ELSE g[i - 1] \o BytesOf(i, list[i])
    <3> HIDE DEF last
    <3>1. CASE i = k + 1
      BY <3>1 DEF last
    <3>2. CASE i \in 0..k
      <4>1. g[i] = f[i] /\ (i # 0 => g[i - 1] = f[i - 1])
        BY <3>2
      <4> QED BY <2>1, <3>2, <4>1 DEF StreamUpTo
    <3> QED BY <3>1, <3>2
  <2> HIDE DEF last
  <2>3. g = [i \in 0..(k + 1) |-> g[i]]
    OBVIOUS
  <2> HIDE DEF g
  <2>4. StreamUpTo(list, g, k + 1)
    BY <2>2, <2>3 DEF StreamUpTo
  <2> QED BY <2>4
<1> HIDE DEF S
<1>3. Nat \subseteq S
  BY <1>1, <1>2, NatSetInduction
<1> QED BY <1>3 DEF S

\* The function StreamOf chooses is such a solution.
LEMMA StreamDef ==
    ASSUME NEW list, NEW n \in Nat
    PROVE  \E f : StreamUpTo(list, f, n) /\ StreamOf(list, n) = f[n]
<1> DEFINE h == CHOOSE f : StreamUpTo(list, f, n)
<1>1. StreamUpTo(list, h, n)
  BY StreamExists
<1>2. StreamOf(list, n) = h[n]
  BY DEF StreamOf, StreamUpTo, BytesOf
<1> HIDE DEF h
<1> QED BY <1>1, <1>2

\* Such a solution adds the bytes of one packet at a time.
LEMMA StreamUnfolds ==
    ASSUME NEW list, NEW f, NEW n \in Nat, StreamUpTo(list, f, n)
    PROVE  \A j \in 1..n : f[j] = f[j - 1] \o BytesOf(j, list[j])
<1> TAKE j \in 1..n
<1>1. j \in 0..n /\ j # 0
  OBVIOUS
<1> DEFINE e(i) == IF i = 0 THEN <<>> ELSE f[i - 1] \o BytesOf(i, list[i])
<1>2. f = [i \in 0..n |-> e(i)]
  BY DEF StreamUpTo
<1>3. f[j] = e(j)
  <2> HIDE DEF e
  <2> QED BY <1>1, <1>2
<1> QED BY <1>1, <1>3

\* The stream of the first packets depends on their sizes only.
LEMMA StreamAgrees ==
    ASSUME NEW list, NEW more, NEW n \in Nat, NEW m \in Nat, n <= m, NEW f, NEW g,
           StreamUpTo(list, f, n), StreamUpTo(more, g, m),
           \A i \in 1..n : list[i] = more[i]
    PROVE  \A i \in 0..n : f[i] = g[i]
<1> DEFINE S == {i \in 0..n : f[i] = g[i]}
<1>1. 0 \in S
  <2>1. f[0] = <<>> /\ g[0] = <<>>
    BY DEF StreamUpTo
  <2> QED BY <2>1
<1>2. ASSUME NEW i \in 0..(n - 1), i \in S PROVE i + 1 \in S
  <2> DEFINE k == i + 1
  <2>1. k \in 0..n /\ k \in 1..n /\ k \in 1..m /\ k - 1 = i
    OBVIOUS
  <2>2. \A j \in 1..n : f[j] = f[j - 1] \o BytesOf(j, list[j])
    BY StreamUnfolds
  <2>3. \A j \in 1..m : g[j] = g[j - 1] \o BytesOf(j, more[j])
    BY StreamUnfolds
  <2>4. f[i] = g[i]
    BY <1>2
  <2> HIDE DEF k
  <2>5. list[k] = more[k]
    BY <2>1
  <2>6. f[k] = f[i] \o BytesOf(k, list[k])
    BY <2>1, <2>2
  <2>7. g[k] = g[i] \o BytesOf(k, more[k])
    BY <2>1, <2>3
  <2>8. f[k] = g[k]
    BY <2>4, <2>5, <2>6, <2>7
  <2>9. k \in S
    BY <2>1, <2>8
  <2> QED BY <2>9 DEF k
<1> HIDE DEF S
<1>3. 0..n \subseteq S
  BY <1>1, <1>2, UpToInduction
<1> QED BY <1>3 DEF S

\* StreamOf unfolds by one packet.
LEMMA StreamStep ==
    ASSUME NEW list, NEW n \in Nat
    PROVE  /\ StreamOf(list, 0) = <<>>
           /\ StreamOf(list, n + 1) = StreamOf(list, n) \o BytesOf(n + 1, list[n + 1])
<1> DEFINE m == n + 1
<1>1. PICK z : StreamUpTo(list, z, 0) /\ StreamOf(list, 0) = z[0]
  BY StreamDef
<1>2. z[0] = <<>>
  BY <1>1 DEF StreamUpTo
<1>3. PICK f : StreamUpTo(list, f, n) /\ StreamOf(list, n) = f[n]
  BY StreamDef
<1>4. m \in Nat /\ n <= m /\ n \in 0..n /\ m \in 1..m /\ m - 1 = n
  OBVIOUS
<1> HIDE DEF m
<1>5. PICK g : StreamUpTo(list, g, m) /\ StreamOf(list, m) = g[m]
  BY <1>4, StreamDef
<1>6. \A i \in 0..n : f[i] = g[i]
  <2>1. PICK more : more = list
    OBVIOUS
  <2>2. \A i \in 1..n : list[i] = more[i]
    BY <2>1
  <2>3. StreamUpTo(list, f, n) /\ StreamUpTo(more, g, m) /\ m \in Nat /\ n <= m
    BY <1>3, <1>4, <1>5, <2>1
  <2> QED BY ONLY n \in Nat, <2>2, <2>3, StreamAgrees
<1>7. \A j \in 1..m : g[j] = g[j - 1] \o BytesOf(j, list[j])
  BY <1>4, <1>5, StreamUnfolds
<1>8. StreamOf(list, m) = StreamOf(list, n) \o BytesOf(m, list[m])
  BY <1>3, <1>4, <1>5, <1>6, <1>7
<1> QED BY <1>1, <1>2, <1>8 DEF m

\* The stream of n packets depends on their sizes only.
LEMMA StreamSame ==
    ASSUME NEW list, NEW more, NEW n \in Nat, \A i \in 1..n : list[i] = more[i]
    PROVE  StreamOf(list, n) = StreamOf(more, n)
<1>1. PICK f : StreamUpTo(list, f, n) /\ StreamOf(list, n) = f[n]
  BY StreamDef
<1>2. PICK g : StreamUpTo(more, g, n) /\ StreamOf(more, n) = g[n]
  BY StreamDef
<1>3. n <= n /\ n \in 0..n
  OBVIOUS
<1>4. f[n] = g[n]
  <2>1. \A i \in 0..n : f[i] = g[i]
    BY <1>1, <1>2, <1>3, StreamAgrees
  <2> QED BY <1>3, <2>1
<1> QED BY <1>1, <1>2, <1>4

\* It is a sequence of bytes, and each packet has its place in it.
LEMMA StreamGrows ==
    ASSUME NEW list, NEW n \in Nat, StreamOf(list, n) \in Seq(Bytes), list[n + 1] \in Nat
    PROVE  /\ StreamOf(list, n + 1) \in Seq(Bytes)
           /\ Len(StreamOf(list, n + 1)) = Len(StreamOf(list, n)) + list[n + 1]
           /\ \A i \in 1..Len(StreamOf(list, n)) :
                  StreamOf(list, n + 1)[i] = StreamOf(list, n)[i]
           /\ \A b \in 1..list[n + 1] :
                  StreamOf(list, n + 1)[Len(StreamOf(list, n)) + b] = <<n + 1, b>>
<1> DEFINE s == StreamOf(list, n)
           t == BytesOf(n + 1, list[n + 1])
           u == StreamOf(list, n + 1)
           k == list[n + 1]
<1>1. u = s \o t
  BY StreamStep
<1>2. t \in [1..k -> Bytes] /\ \A b \in 1..k : t[b] = <<n + 1, b>>
  BY DEF BytesOf, Bytes
<1>3. t \in Seq(Bytes) /\ Len(t) = k /\ k \in Nat
  BY SMTT(40), <1>2
<1> HIDE DEF s, t, u, k
<1>4. s \in Seq(Bytes) /\ Len(s) \in Nat
  BY DEF s
<1>5. u \in Seq(Bytes) /\ Len(u) = Len(s) + k
      /\ \A i \in 1..(Len(s) + Len(t)) : u[i] = IF i <= Len(s) THEN s[i] ELSE t[i - Len(s)]
  BY <1>1, <1>3, <1>4, ConcatProperties
<1>6. ASSUME NEW i \in 1..Len(s) PROVE u[i] = s[i]
  <2>1. i \in 1..(Len(s) + Len(t)) /\ i <= Len(s)
    BY <1>3, <1>4
  <2> QED BY <1>5, <2>1
<1>7. ASSUME NEW b \in 1..k PROVE u[Len(s) + b] = <<n + 1, b>>
  <2>1. Len(s) + b \in 1..(Len(s) + Len(t)) /\ ~ (Len(s) + b <= Len(s)) /\ Len(s) + b - Len(s) = b
    BY <1>3, <1>4
  <2>2. u[Len(s) + b] = t[Len(s) + b - Len(s)]
    BY <1>5, <2>1
  <2> QED BY <1>2, <2>1, <2>2
<1> QED BY <1>5, <1>6, <1>7 DEF s, t, u, k

\* Where packet i starts in the stream.
Start(list, i) == Len(StreamOf(list, i - 1))

\* The stream has byte b of packet i where packet i starts, plus b.
LEMMA StreamIs ==
    ASSUME NEW list \in Seq(Nat), NEW n \in 0..Len(list)
    PROVE  /\ StreamOf(list, n) \in Seq(Bytes)
           /\ \A i \in 1..n :
                  /\ StreamOf(list, i - 1) \in Seq(Bytes)
                  /\ Len(StreamOf(list, i)) = Start(list, i) + list[i]
                  /\ Len(StreamOf(list, i)) <= Len(StreamOf(list, n))
                  /\ \A b \in 1..list[i] : StreamOf(list, n)[Start(list, i) + b] = <<i, b>>
<1> DEFINE Good(m) ==
             /\ StreamOf(list, m) \in Seq(Bytes)
             /\ \A i \in 1..m :
                  /\ StreamOf(list, i - 1) \in Seq(Bytes)
                  /\ Len(StreamOf(list, i)) = Start(list, i) + list[i]
                  /\ Len(StreamOf(list, i)) <= Len(StreamOf(list, m))
                  /\ \A b \in 1..list[i] : StreamOf(list, m)[Start(list, i) + b] = <<i, b>>
           S == {m \in 0..n : Good(m)}
<1>0. n \in Nat /\ Len(list) \in Nat /\ n <= Len(list)
  OBVIOUS
<1>1. 0 \in S
  <2>1. StreamOf(list, 0) = <<>> /\ 1..0 = {} /\ <<>> \in Seq(Bytes)
    BY StreamStep
  <2>2. Good(0)
    BY <2>1
  <2> HIDE DEF Good
  <2> QED BY <1>0, <2>2
<1>2. ASSUME NEW m \in 0..(n - 1), m \in S PROVE m + 1 \in S
  <2> DEFINE s == StreamOf(list, m)
             u == StreamOf(list, m + 1)
             k == list[m + 1]
  <2>0. m \in Nat /\ m + 1 \in 0..n /\ m + 1 \in 1..Len(list) /\ m + 1 - 1 = m
    BY <1>0
  <2>1. Good(m)
    BY <1>2
  <2>2. k \in Nat
    BY <2>0
  <2>3. /\ u \in Seq(Bytes) /\ Len(u) = Len(s) + k
        /\ \A i \in 1..Len(s) : u[i] = s[i]
        /\ \A b \in 1..k : u[Len(s) + b] = <<m + 1, b>>
    BY <2>0, <2>1, <2>2, StreamGrows
  <2>4. s \in Seq(Bytes) /\ Len(s) \in Nat /\ Len(s) <= Len(u) /\ Len(u) \in Nat
    BY SMTT(40), <2>1, <2>2, <2>3
  <2>5. ASSUME NEW i \in 1..(m + 1)
        PROVE  /\ StreamOf(list, i - 1) \in Seq(Bytes)
               /\ Len(StreamOf(list, i)) = Start(list, i) + list[i]
               /\ Len(StreamOf(list, i)) <= Len(u)
               /\ \A b \in 1..list[i] : u[Start(list, i) + b] = <<i, b>>
    <3>1. CASE i = m + 1
      <4>1. Start(list, i) = Len(s) /\ StreamOf(list, i) = u /\ StreamOf(list, i - 1) = s
            /\ list[i] = k
        BY <2>0, <3>1 DEF Start
      <4> HIDE DEF s, u, k
      <4>2. Len(StreamOf(list, i)) = Start(list, i) + list[i] /\ Len(StreamOf(list, i)) <= Len(u)
        BY <2>3, <2>4, <4>1
      <4>3. \A b \in 1..list[i] : u[Start(list, i) + b] = <<i, b>>
        BY <2>3, <3>1, <4>1
      <4> QED BY <2>4, <4>1, <4>2, <4>3
    <3>2. CASE i # m + 1
      <4>1. i \in 1..m /\ i \in 1..Len(list)
        BY <2>0, <3>2
      <4> DEFINE a == StreamOf(list, i - 1)
                 e == StreamOf(list, i)
                 z == list[i]
      <4>2. /\ a \in Seq(Bytes) /\ Len(e) = Len(a) + z /\ Len(e) <= Len(s)
            /\ \A b \in 1..z : s[Len(a) + b] = <<i, b>>
        BY <2>1, <4>1 DEF Start
      <4>3. z \in Nat
        BY <4>1
      <4> HIDE DEF s, u, k, a, e, z
      <4>4. Len(a) \in Nat /\ Len(e) \in Nat
        BY <4>2, <4>3
      <4>5. ASSUME NEW b \in 1..z PROVE u[Len(a) + b] = <<i, b>>
        <5>1. Len(a) + b \in 1..Len(s)
          BY <2>4, <4>2, <4>3, <4>4
        <5> QED BY <2>3, <4>2, <5>1
      <4>6. Len(e) <= Len(u)
        BY <2>4, <4>2, <4>4, NatOrder
      <4> QED BY <4>2, <4>5, <4>6 DEF Start, a, e, z
    <3> QED BY <3>1, <3>2
  <2>6. Good(m + 1)
    <3>1. u \in Seq(Bytes)
      BY <2>3
    <3> QED BY <2>5, <3>1
  <2> QED BY <2>0, <2>6
<1> HIDE DEF S
<1>3. 0..n \subseteq S
  BY <1>0, <1>1, <1>2, UpToInduction
<1>4. Good(n)
  <2> HIDE DEF Good
  <2> QED BY <1>0, <1>3 DEF S
<1> QED BY <1>4
-----------------------------------------------------------------------------
(* The inductive invariant.  First the data. *)

\* What the send list is after c packets of these sizes are complete: the
\* packets that follow, in order, of which only the first may be shortened.
Queued(list, sz, c) ==
    /\ c + Len(list) = Len(sz)
    /\ \A i \in 1..Len(list) :
          /\ list[i].id = c + i
          /\ list[i].left <= sz[c + i]
          /\ i # 1 => list[i].left = sz[c + i]

\* The kernel has the bytes up to the first that is left.
Written(list, sz, c, w) ==
    /\ Len(w) = IF list = <<>> THEN Len(StreamOf(sz, c))
                ELSE Len(StreamOf(sz, c + 1)) - list[1].left
    /\ \A b \in 1..Len(w) : w[b] = StreamOf(sz, Len(sz))[b]

Streams ==
    /\ Len(sizes) <= MaxSends
    /\ \A i \in 1..Len(completed) : completed[i] = i
    /\ Queued(ds.mSendList, sizes, Len(completed))
    /\ Written(ds.mSendList, sizes, Len(completed), wire)

Counters == ds.recvLen <= ds.recvSize /\ net.incoming <= net.peerSent

DataInv == TypeOK /\ Counters /\ Streams

(* Then the control. *)

Writes == {"flush", "sent", "partial", "stuck"}

\* Where in the loop the calls and the procs of the socket are made.
LoopState ==
    /\ call = "recv" => phase = "dispatch"
    /\ call \in Writes => phase = "after"
    /\ calls # <<>> => phase = "dispatch"
    /\ copyAfter # <<>> => phase = "after"

\* A disconnect is posted when the socket is closed, and nothing behind it.
DisconnectLast ==
    /\ ds.mIsPostFinalClose => ~ ds.mFD
    /\ life = "entered" /\ ~ ds.mFD => ds.mIsPostFinalClose
    /\ \A i \in 1..Len(ds.after) :
          ds.after[i] = "disconnect" => i = Len(ds.after) /\ ds.mIsPostFinalClose
    /\ \A i \in 1..Len(copyAfter) :
          copyAfter[i] = "disconnect" =>
              i = Len(copyAfter) /\ ds.after = <<>> /\ ds.mIsPostFinalClose

\* Nothing happens to a socket that is not in the loop yet.
NotEntered ==
    life = "queued" =>
        /\ ds.mFD /\ ~ ds.mIsPostFinalClose /\ ds.mCanWrite /\ ~ ds.callbacks
        /\ ds.after = <<>> /\ copyAfter = <<>> /\ calls = <<>> /\ call = "none"
        /\ ~ net.onList /\ ds.mTimer = 0

\* mTimer is the one timer that may still fire.
OneTimer == \A i \in 1..MaxTimers : timers[i] = "active" => i = ds.mTimer

LifeInv == LoopState /\ DisconnectLast /\ NotEntered /\ OneTimer /\ NoUseAfterDelete

\* Nothing is sent before the enter callback, which the handshake precedes.
EnteredFirst ==
    /\ ~ ds.callbacks => ds.mSendList = <<>>
    /\ Handshaking(ds) /\ ds.mFD => ~ ds.callbacks

\* mIsPostFlush stands for a flush in one of the vectors.
FlushPosted == ds.mIsPostFlush => In("flush", ds.after) \/ In("flush", copyAfter)

\* mCanWrite is false while EPOLLOUT is awaited, and the event is not lost.
AwaitsWrite ==
    ds.mFD /\ ~ net.shut /\ ~ ds.mCanWrite =>
        /\ net.epollout
        /\ net.space => net.onList \/ In("canSend", calls) \/ In("onClose", calls)

\* A packet in the send list has someone to send it.
HasSender ==
    ds.mFD /\ ~ net.shut /\ ds.mSendList # <<>> =>
        \/ ds.mIsPostFlush
        \/ call \in Writes
        \/ ~ ds.mCanWrite
        \/ ds.mSSL /\ ReadySendLen = 0

SendInv == EnteredFirst /\ FlushPosted /\ AwaitsWrite /\ HasSender

\* Bytes and closes that arrive without TLS have an event, or the call for it.
RecvInv ==
    ds.mFD /\ Linked /\ ~ ds.mSSL =>
        /\ net.incoming > 0 => \/ net.onList \/ In("canRecv", calls)
                               \/ call = "recv" \/ ds.recvLen = ds.recvSize
        /\ net.peer # "open" => net.onList \/ In("onClose", calls)
-----------------------------------------------------------------------------
(* What a write of k bytes does to the send list and to the stream. *)

LEMMA ListIsCounted ==
    ASSUME NEW list \in Seq(Packets)
    PROVE  Counted(list, Len(list)) /\ \A i \in 1..Len(list) : list[i].left \in Nat
<1>1. ASSUME NEW i \in 1..Len(list) PROVE list[i].left \in Nat
  <2>1. list[i] \in Packets
    BY ElementOfSeq
  <2> QED BY <2>1 DEF Packets
<1> QED BY <1>1 DEF Counted

\* Sizes of packets are natural numbers.
LEMMA SizesAre == Sizes \subseteq Nat
  BY DataSocketAssumption

\* So are those of a sequence of packets.
LEMMA SizeSeq ==
    ASSUME NEW sz \in Seq(Sizes)
    PROVE  sz \in Seq(Nat)
  BY SizesAre, SeqMonotonic

\* What precedes the end of a packet in the stream: what is written, and the
\* bytes left up to there.
LEMMA LengthsAre ==
    ASSUME NEW list \in Seq(Packets), NEW sz \in Seq(Nat), NEW c \in Nat, NEW w,
           Queued(list, sz, c), Written(list, sz, c, w)
    PROVE  \A j \in 1..Len(list) :
               /\ Len(StreamOf(sz, c + j)) \in Nat
               /\ Len(StreamOf(sz, c + j)) = Len(w) + SumLeft(list, j)
<1> DEFINE l == Len(list)
           E(j) == Len(StreamOf(sz, c + j))
           S == {j \in 0..l : j >= 1 => E(j) = Len(w) + SumLeft(list, j)}
<1>0. l \in Nat /\ c + l = Len(sz) /\ Len(sz) \in Nat
  BY DEF Queued
<1>1. /\ \A j \in 0..l : SumLeft(list, j) \in Nat
      /\ \A j \in 1..l : SumLeft(list, j) = SumLeft(list, j - 1) + list[j].left
      /\ \A j \in 1..l : list[j].left \in Nat
      /\ SumLeft(list, 0) = 0
  BY ListIsCounted, SumInNat, SumStep, <1>0
<1>2. ASSUME NEW j \in 1..l
      PROVE  /\ E(j) \in Nat /\ E(j - 1) \in Nat /\ E(j) = E(j - 1) + sz[c + j]
             /\ sz[c + j] \in Nat
  <2> DEFINE k == c + j
  <2>1. k \in 1..Len(sz) /\ Len(sz) \in 0..Len(sz) /\ k \in 0..Len(sz) /\ k - 1 = c + (j - 1)
    BY <1>0
  <2> HIDE DEF k
  <2>2. /\ StreamOf(sz, k - 1) \in Seq(Bytes)
        /\ Len(StreamOf(sz, k)) = Len(StreamOf(sz, k - 1)) + sz[k]
        /\ StreamOf(sz, k) \in Seq(Bytes) /\ sz[k] \in Nat
    <3>1. StreamOf(sz, k) \in Seq(Bytes)
      BY <2>1, StreamIs
    <3>2. /\ StreamOf(sz, k - 1) \in Seq(Bytes)
          /\ Len(StreamOf(sz, k)) = Len(StreamOf(sz, k - 1)) + sz[k]
      BY <2>1, StreamIs DEF Start
    <3>3. sz[k] \in Nat
      BY <2>1
    <3> QED BY <3>1, <3>2, <3>3
  <2>3. Len(StreamOf(sz, k - 1)) \in Nat /\ Len(StreamOf(sz, k)) \in Nat
    BY <2>2
  <2> QED BY <2>1, <2>2, <2>3 DEF k
<1>3. 0 \in S
  BY <1>0
<1>6. l > 0 => Len(w) = E(1) - list[1].left
  BY <1>0 DEF Written
<1> HIDE DEF E
<1>4. ASSUME NEW j \in 0..(l - 1), j \in S PROVE j + 1 \in S
  <2>1. j + 1 \in 1..l /\ j + 1 \in 0..l /\ j + 1 - 1 = j /\ j \in 0..l
    BY <1>0
  <2>2. SumLeft(list, j + 1) = SumLeft(list, j) + list[j + 1].left
        /\ SumLeft(list, j) \in Nat /\ list[j + 1].left \in Nat
    BY <1>1, <2>1
  <2>3. E(j + 1) \in Nat /\ E(j) \in Nat /\ E(j + 1) = E(j) + sz[c + (j + 1)]
        /\ sz[c + (j + 1)] \in Nat
    BY <1>2, <2>1
  <2>4. CASE j = 0
    <3>1. Len(w) = E(1) - list[1].left
      BY <1>0, <1>6, <2>1, <2>4
    <3>2. SumLeft(list, 1) = list[1].left
      BY <1>1, <2>2, <2>4
    <3>3. E(1) \in Nat /\ list[1].left \in Nat
      BY <2>2, <2>3, <2>4
    <3>4. E(1) = Len(w) + SumLeft(list, 1)
      BY <3>1, <3>2, <3>3
    <3> QED BY <2>1, <2>4, <3>4
  <2>5. CASE j # 0
    <3>1. E(j) = Len(w) + SumLeft(list, j)
      BY <1>4, <2>1, <2>5
    <3>2. list[j + 1].left = sz[c + (j + 1)]
      BY <2>1, <2>5 DEF Queued
    <3>3. Len(w) \in Int
      <4>1. l > 0 /\ 1 \in 1..l
        BY <1>0, <2>1
      <4>2. E(1) \in Nat /\ list[1].left \in Nat
        BY <1>1, <1>2, <4>1
      <4> QED BY <1>6, <4>1, <4>2
    <3>4. E(j + 1) = Len(w) + SumLeft(list, j + 1)
      BY SMTT(40), <2>2, <2>3, <3>1, <3>2, <3>3
    <3> QED BY <2>1, <3>4
  <2> QED BY <2>4, <2>5
<1> HIDE DEF S
<1>5. 0..l \subseteq S
  BY <1>0, <1>3, <1>4, UpToInduction
<1>7. ASSUME NEW j \in 1..l PROVE E(j) \in Nat /\ E(j) = Len(w) + SumLeft(list, j)
  <2>1. j \in 0..l /\ j >= 1
    BY <1>0
  <2> QED BY <1>2, <1>5, <2>1 DEF S
<1> QED BY <1>7 DEF E

\* The bytes that a write takes are the next ones of the stream.
PacketOf(list, b) ==
    CHOOSE n \in 1..Len(list) : SumLeft(list, n - 1) < b /\ b <= SumLeft(list, n)

Byte(list, sz, b) ==
    LET p == PacketOf(list, b) IN
    <<list[p].id, sz[list[p].id] - list[p].left + b - SumLeft(list, p - 1)>>

\* Where byte b of what is left stands: in its packet, and in the stream.
LEMMA OffsetIs ==
    ASSUME NEW w \in Nat, NEW b \in Nat, NEW before \in Nat, NEW left \in Nat, NEW size \in Nat,
           NEW at \in Nat, before < b, b <= before + left, left <= size,
           w + (before + left) = at + size
    PROVE  /\ size - left + b - before \in 1..size
           /\ w + b = at + (size - left + b - before)
  OBVIOUS

\* Byte b of what the list has left is the byte of the stream that is b behind the
\* bytes written so far.
LEMMA ByteIs ==
    ASSUME NEW list \in Seq(Packets), NEW sz \in Seq(Nat), NEW c \in Nat, NEW w \in Seq(Bytes),
           Queued(list, sz, c), Written(list, sz, c, w),
           NEW b \in Nat \ {0}, b <= SumLeft(list, Len(list))
    PROVE  /\ Byte(list, sz, b) = StreamOf(sz, Len(sz))[Len(w) + b]
           /\ Byte(list, sz, b) \in (1..Len(sz)) \X Nat
<1> DEFINE l == Len(list)
           p == PacketOf(list, b)
           before == SumLeft(list, p - 1)
           left == list[p].left
           id == c + p
           at == Len(StreamOf(sz, id - 1))
           off == sz[id] - left + b - before
<1>0. l \in Nat /\ c + l = Len(sz) /\ Len(sz) \in Nat /\ Len(w) \in Nat
  BY DEF Queued
<1>1. p \in 1..l /\ before < b /\ b <= SumLeft(list, p)
  <2>1. \E n \in 1..l : SumLeft(list, n - 1) < b /\ b <= SumLeft(list, n)
    BY ListIsCounted, SumReaches
  <2> QED BY <2>1 DEF PacketOf
<1> HIDE DEF p
<1>2. SumLeft(list, p) \in Nat /\ before \in Nat /\ left \in Nat
      /\ SumLeft(list, p) = before + left
  <2>1. p \in 0..l /\ p - 1 \in 0..l
    BY <1>0, <1>1
  <2>2. Counted(list, l) /\ left \in Nat
    BY <1>1, ListIsCounted
  <2>3. SumLeft(list, p) = SumLeft(list, p - 1) + list[p].left
    BY <1>1, <2>2, SumInNat
  <2>4. SumLeft(list, p) \in Nat /\ SumLeft(list, p - 1) \in Nat
    BY <2>1, <2>2, SumInNat
  <2> QED BY <2>2, <2>3, <2>4
<1>3. list[p].id = id /\ left <= sz[id]
  BY <1>1 DEF Queued
<1>4. id \in 1..Len(sz) /\ sz[id] \in Nat
  BY SMTT(40), <1>0, <1>1
<1>5. Len(StreamOf(sz, id)) = Len(w) + SumLeft(list, p)
  BY <1>1, LengthsAre
<1>6. /\ StreamOf(sz, id - 1) \in Seq(Bytes)
      /\ Len(StreamOf(sz, id)) = at + sz[id]
      /\ \A i \in 1..sz[id] : StreamOf(sz, Len(sz))[at + i] = <<id, i>>
  <2>1. Len(sz) \in 0..Len(sz)
    BY <1>0
  <2> QED BY <1>4, <2>1, StreamIs DEF Start
<1>7. at \in Nat
  BY <1>6
<1>8. Byte(list, sz, b) = <<id, off>>
  BY <1>3 DEF Byte, p
<1> HIDE DEF id, before, left, at, l
<1>9. off \in 1..sz[id] /\ Len(w) + b = at + off
  <2>1. b <= before + left /\ Len(w) + (before + left) = at + sz[id]
    BY <1>1, <1>2, <1>5, <1>6
  <2> DEFINE x == Len(w)
             y == sz[id]
  <2>2. /\ x \in Nat /\ b \in Nat /\ before \in Nat /\ left \in Nat /\ y \in Nat /\ at \in Nat
        /\ before < b /\ b <= before + left /\ left <= y /\ x + (before + left) = at + y
    BY <1>0, <1>1, <1>2, <1>3, <1>4, <1>7, <2>1
  <2> HIDE DEF x, y
  <2>3. y - left + b - before \in 1..y /\ x + b = at + (y - left + b - before)
    BY ONLY <2>2, OffsetIs
  <2> QED BY <2>3 DEF x, y
<1> HIDE DEF off
<1>10. StreamOf(sz, Len(sz))[at + off] = <<id, off>>
  BY <1>6, <1>9
<1>11. off \in Nat
  BY <1>4, <1>9
<1> QED BY <1>4, <1>8, <1>9, <1>10, <1>11

\* What a write of k bytes takes continues the stream.
LEMMA TakenIs ==
    ASSUME NEW list \in Seq(Packets), sizes \in Seq(Nat), NEW c \in Nat, NEW w \in Seq(Bytes),
           Queued(list, sizes, c), Written(list, sizes, c, w),
           NEW k \in Nat, k <= SumLeft(list, Len(list))
    PROVE  /\ Taken(list, k) \in Seq((1..Len(sizes)) \X Nat)
           /\ Len(Taken(list, k)) = k
           /\ \A b \in 1..k : Taken(list, k)[b] = StreamOf(sizes, Len(sizes))[Len(w) + b]
<1> DEFINE t == Taken(list, k)
           T == (1..Len(sizes)) \X Nat
<1>1. t = [b \in 1..k |-> Byte(list, sizes, b)]
  BY DEF Taken, Byte, PacketOf
<1>2. ASSUME NEW b \in 1..k
      PROVE  Byte(list, sizes, b) = StreamOf(sizes, Len(sizes))[Len(w) + b]
             /\ Byte(list, sizes, b) \in T
  <2>1. SumLeft(list, Len(list)) \in Nat
    <3>1. Len(list) \in 0..Len(list)
      OBVIOUS
    <3> QED BY <3>1, ListIsCounted, SumInNat
  <2>2. b \in Nat \ {0} /\ b <= SumLeft(list, Len(list))
    BY <2>1
  <2> QED BY <2>2, ByteIs
<1> HIDE DEF t, T
<1>3. t \in [1..k -> T]
  BY <1>1, <1>2
<1>4. t \in Seq(T) /\ Len(t) = k
  BY <1>3
<1>5. \A b \in 1..k : t[b] = StreamOf(sizes, Len(sizes))[Len(w) + b]
  BY <1>1, <1>2
<1> QED BY <1>4, <1>5 DEF t, T

\* What stays in the send list.
LEMMA UnsentIs ==
    ASSUME NEW list \in Seq(Packets), NEW k \in Nat, k <= SumLeft(list, Len(list)),
           NEW n, n = Finished(list, k), NEW u, u = Unsent(list, k)
    PROVE  /\ n \in 0..Len(list) /\ u \in Seq(Packets) /\ Len(u) = Len(list) - n
           /\ \A i \in 1..Len(u) : u[i].id = list[n + i].id
           /\ \A i \in 1..Len(u) : i # 1 => u[i].left = list[n + i].left
           /\ n < Len(list) => /\ SumLeft(list, n + 1) \in Nat
                               /\ u[1].left = SumLeft(list, n + 1) - k
                               /\ u[1].left <= list[n + 1].left
           /\ n = Len(list) => k = SumLeft(list, Len(list))
<1> DEFINE l == Len(list)
           rest == SubSeq(list, n + 1, l)
           gone == SumLeft(list, n)
<1>0. l \in Nat /\ Counted(list, l) /\ \A i \in 1..l : list[i].left \in Nat
  BY ListIsCounted
<1>1. /\ n \in 0..l /\ gone <= k
      /\ \A m \in 0..l : SumLeft(list, m) <= k => m <= n
  BY <1>0, FinishedIs
<1>2. gone \in Nat /\ SumLeft(list, l) \in Nat
  <2>1. l \in 0..l
    BY <1>0
  <2> QED BY <1>0, <1>1, <2>1, SumInNat
<1>3. n + 1 \in Nat \ {0} /\ n \in Nat /\ n + 1 \in 1..(l + 1)
  BY <1>0, <1>1
<1>4. rest \in Seq(Packets) /\ Len(rest) = l - n /\ \A i \in 1..(l - n) : rest[i] = list[n + i]
  <2>1. /\ rest \in Seq(Packets)
        /\ Len(rest) = IF n + 1 <= l THEN l - (n + 1) + 1 ELSE 0
        /\ \A i \in 1..(l - (n + 1) + 1) : rest[i] = list[(n + 1) + i - 1]
    <3>1. \A i \in (n + 1)..l : list[i] \in Packets
      BY <1>0, <1>3, ElementOfSeq
    <3> QED BY <1>0, <1>3, <3>1, SubSeqProperties
  <2>2. l - (n + 1) + 1 = l - n /\ (~ (n + 1 <= l) => l - n = 0)
        /\ \A i \in 1..(l - n) : (n + 1) + i - 1 = n + i
    <3> HIDE DEF l, rest, gone
    <3>1. n \in Int /\ l \in Int /\ n <= l
      BY <1>0, <1>1
    <3> QED BY <3>1
  <2> QED BY <2>1, <2>2
<1>5. CASE n = l
  <2>1. u = rest /\ rest = <<>>
    <3>1. Len(rest) = 0
      BY <1>0, <1>4, <1>5
    <3>2. rest = <<>>
      BY <1>4, <3>1
    <3> HIDE DEF rest
    <3> QED BY <3>2 DEF Unsent, rest
  <2>2. k = SumLeft(list, l)
    BY <1>1, <1>2, <1>5
  <2> QED BY <1>0, <1>1, <1>4, <1>5, <2>1, <2>2
<1>6. CASE n < l
  <2> DEFINE m == n + 1
             cut == list[m].left - (k - gone)
             e == [rest[1] EXCEPT !.left = cut]
  <2>1. m \in 1..l /\ m \in 0..l /\ ~ (m <= n) /\ m - 1 = n /\ 1 \in 1..(l - n)
    BY <1>0, <1>1, <1>6
  <2>2. SumLeft(list, m) \in Nat /\ SumLeft(list, m) = gone + list[m].left /\ list[m].left \in Nat
    BY <1>0, <2>1, SumInNat
  <2>3. k < SumLeft(list, m)
    BY <1>1, <2>1, <2>2
  <2>4. cut \in Nat /\ cut = SumLeft(list, m) - k /\ cut <= list[m].left
    BY SMTT(40), <1>1, <1>2, <2>2, <2>3
  <2>5. rest[1] = list[m] /\ rest # <<>> /\ list[m] \in Packets
    <3>1. rest[1] = list[m]
      BY <1>4, <2>1
    <3>2. Len(rest) # 0
      BY <1>0, <1>1, <1>4, <1>6
    <3>3. list[m] \in Packets
      BY <2>1, ElementOfSeq
    <3> HIDE DEF rest
    <3>4. rest # <<>>
      BY <3>2
    <3> QED BY <3>1, <3>3, <3>4
  <2> HIDE DEF cut
  <2>6. e \in Packets /\ e.left = cut /\ e.id = list[m].id
    BY <2>4, <2>5 DEF Packets
  <2>7. u = [rest EXCEPT ![1] = e]
    <3>1. u = [rest EXCEPT ![1].left = @ - (k - gone)]
      BY <2>5 DEF Unsent
    <3>2. rest[1].left = list[m].left
      BY <2>5
    <3> QED BY <2>5, <3>1, <3>2 DEF cut
  <2> HIDE DEF e, rest, m
  <2>8. /\ u \in Seq(Packets) /\ Len(u) = l - n
        /\ \A i \in 1..(l - n) : u[i] = IF i = 1 THEN e ELSE rest[i]
    BY <1>4, <2>6, <2>7, ExceptInSeq
  <2>9. ASSUME NEW i \in 1..(l - n)
        PROVE  u[i].id = list[n + i].id /\ (i # 1 => u[i].left = list[n + i].left)
    <3>1. CASE i = 1
      BY <2>6, <2>8, <3>1 DEF m
    <3>2. CASE i # 1
      BY <1>4, <2>8, <3>2
    <3> QED BY <3>1, <3>2
  <2>10. u[1].left = SumLeft(list, m) - k /\ u[1].left <= list[m].left
    BY <2>1, <2>4, <2>6, <2>8
  <2>11. n # l
    BY <1>0, <1>1, <1>6
  <2> QED BY <1>1, <2>2, <2>8, <2>9, <2>10, <2>11 DEF m
<1> QED BY <1>0, <1>1, <1>5, <1>6

\* A write leaves the send list and the stream in step.
LEMMA WriteKeeps ==
    ASSUME NEW list \in Seq(Packets), NEW sz \in Seq(Nat), NEW c \in Nat, NEW w \in Seq(Bytes),
           Queued(list, sz, c), Written(list, sz, c, w), list # <<>>,
           NEW k \in Nat, k <= SumLeft(list, Len(list)),
           NEW t \in Seq(Bytes), Len(t) = k,
           \A b \in 1..k : t[b] = StreamOf(sz, Len(sz))[Len(w) + b],
           NEW n, n = Finished(list, k), NEW u, u = Unsent(list, k)
    PROVE  Queued(u, sz, c + n) /\ Written(u, sz, c + n, w \o t)
<1> DEFINE l == Len(list)
<1>0. l \in Nat /\ l # 0 /\ c + l = Len(sz) /\ Len(w) \in Nat
  BY DEF Queued
<1>1. /\ n \in 0..l /\ u \in Seq(Packets) /\ Len(u) = l - n
      /\ \A i \in 1..Len(u) : u[i].id = list[n + i].id
      /\ \A i \in 1..Len(u) : i # 1 => u[i].left = list[n + i].left
      /\ n < l => /\ SumLeft(list, n + 1) \in Nat
                  /\ u[1].left = SumLeft(list, n + 1) - k
                  /\ u[1].left <= list[n + 1].left
      /\ n = l => k = SumLeft(list, l)
  BY ONLY SMTT(40), list \in Seq(Packets), k \in Nat, k <= SumLeft(list, Len(list)),
          n = Finished(list, k), u = Unsent(list, k), UnsentIs
<1>2. \A j \in 1..l : /\ Len(StreamOf(sz, c + j)) \in Nat
                      /\ Len(StreamOf(sz, c + j)) = Len(w) + SumLeft(list, j)
  BY ONLY list \in Seq(Packets), sz \in Seq(Nat), c \in Nat, Queued(list, sz, c),
          Written(list, sz, c, w), LengthsAre
<1>3. Queued(u, sz, c + n)
  <2>0. l \in Nat /\ n \in 0..l /\ c + l = Len(sz) /\ Len(u) = l - n
    BY <1>0, <1>1
  <2>1. (c + n) + Len(u) = Len(sz)
    <3> HIDE DEF l
    <3>1. n \in Nat /\ c \in Nat
      BY ONLY <2>0, c \in Nat
    <3>2. (c + n) + (l - n) = c + l
      BY ONLY <2>0, <3>1
    <3> QED BY ONLY <2>0, <3>2
  <2>2. ASSUME NEW i \in 1..Len(u)
        PROVE  /\ u[i].id = (c + n) + i /\ u[i].left <= sz[(c + n) + i]
               /\ i # 1 => u[i].left = sz[(c + n) + i]
    <3> DEFINE j == n + i
    <3>1. j \in 1..l /\ (c + n) + i = c + j /\ (i # 1 => j # 1) /\ n < l
      <4> HIDE DEF l
      <4>1. l \in Nat /\ c \in Nat /\ n \in 0..l /\ i \in 1..(l - n)
        BY <1>0, <1>1
      <4> QED BY ONLY <4>1
    <3> HIDE DEF j
    <3>2. list[j].id = c + j /\ list[j].left <= sz[c + j] /\ (j # 1 => list[j].left = sz[c + j])
      BY <3>1 DEF Queued
    <3>3. list[j].left \in Nat /\ sz[c + j] \in Nat
      <4>1. c + j \in 1..Len(sz)
        BY <1>0, <3>1
      <4> QED BY <3>1, <4>1, ListIsCounted
    <3>4. u[i].id = list[j].id /\ (i # 1 => u[i].left = list[j].left)
      BY <1>1 DEF j
    <3>5. CASE i = 1
      <4>1. u[1].left <= list[j].left
        BY <1>1, <3>1, <3>5 DEF j
      <4>2. u[1].left \in Nat
        BY <1>1, <3>5, ListIsCounted
      <4> QED BY SMTT(40), <3>1, <3>2, <3>3, <3>4, <3>5, <4>1, <4>2
    <3>6. CASE i # 1
      BY <3>1, <3>2, <3>3, <3>4, <3>6
    <3> QED BY <3>5, <3>6
  <2> QED BY <2>1, <2>2 DEF Queued
<1>4. w \o t \in Seq(Bytes) /\ Len(w \o t) = Len(w) + k
      /\ \A b \in 1..(Len(w) + Len(t)) : (w \o t)[b] = IF b <= Len(w) THEN w[b] ELSE t[b - Len(w)]
  BY ConcatProperties
<1>5. Len(w \o t) = IF u = <<>> THEN Len(StreamOf(sz, c + n))
                    ELSE Len(StreamOf(sz, (c + n) + 1)) - u[1].left
  <2>1. CASE n = l
    <3>1. u = <<>>
      BY <1>0, <1>1, <2>1
    <3>2. l \in 1..l
      BY <1>0
    <3>3. Len(StreamOf(sz, c + n)) = Len(w) + k
      BY <1>1, <1>2, <2>1, <3>2
    <3> QED BY <1>4, <3>1, <3>3
  <2>2. CASE n < l
    <3> DEFINE m == n + 1
    <3>1. m \in 1..l /\ (c + n) + 1 = c + m /\ Len(u) # 0
      <4> HIDE DEF l
      <4>1. l \in Nat /\ c \in Nat /\ n \in 0..l /\ n < l /\ Len(u) = l - n
        BY <1>0, <1>1, <2>2
      <4> QED BY ONLY <4>1
    <3>2. u # <<>>
      BY <1>1, <3>1
    <3> HIDE DEF m
    <3>3. Len(StreamOf(sz, c + m)) = Len(w) + SumLeft(list, m)
      BY <1>2, <3>1
    <3>4. SumLeft(list, m) \in Nat /\ u[1].left = SumLeft(list, m) - k
      BY <1>1, <2>2 DEF m
    <3>5. Len(StreamOf(sz, c + m)) - u[1].left = Len(w) + k
      BY <1>0, <3>3, <3>4
    <3> QED BY <1>4, <3>1, <3>2, <3>5
  <2> QED BY <1>0, <1>1, <2>1, <2>2
<1>6. ASSUME NEW b \in 1..Len(w \o t) PROVE (w \o t)[b] = StreamOf(sz, Len(sz))[b]
  <2> DEFINE d == b - Len(w)
  <2>1. b \in 1..(Len(w) + Len(t)) /\ b \in Nat
        /\ (b <= Len(w) => b \in 1..Len(w))
        /\ (~ (b <= Len(w)) => d \in 1..k /\ Len(w) + d = b)
    BY <1>0, <1>4
  <2> HIDE DEF d
  <2>2. CASE b <= Len(w)
    BY <1>4, <2>1, <2>2 DEF Written
  <2>3. CASE ~ (b <= Len(w))
    <3>1. (w \o t)[b] = t[d]
      BY <1>4, <2>1, <2>3 DEF d
    <3> QED BY <2>1, <2>3, <3>1
  <2> QED BY <2>2, <2>3
<1> QED BY <1>3, <1>5, <1>6 DEF Written

\* What was written is no longer than the stream and has the completed packets.
LEMMA WireFits ==
    ASSUME NEW list \in Seq(Packets), NEW sz \in Seq(Nat), NEW c \in Nat, NEW w \in Seq(Bytes),
           Queued(list, sz, c), Written(list, sz, c, w)
    PROVE  /\ StreamOf(sz, Len(sz)) \in Seq(Bytes)
           /\ Len(w) <= Len(StreamOf(sz, Len(sz)))
           /\ Len(StreamOf(sz, c)) <= Len(w)
<1> DEFINE l == Len(list)
<1>0. l \in Nat /\ c + l = Len(sz) /\ Len(sz) \in Nat /\ Len(w) \in Nat /\ c \in 0..Len(sz)
      /\ Len(sz) \in 0..Len(sz)
  BY DEF Queued
<1>1. StreamOf(sz, Len(sz)) \in Seq(Bytes) /\ StreamOf(sz, c) \in Seq(Bytes)
  BY <1>0, StreamIs
<1>2. CASE l = 0
  <2>1. list = <<>> /\ c = Len(sz)
    BY <1>0, <1>2
  <2>2. Len(w) = Len(StreamOf(sz, c))
    BY <2>1 DEF Written
  <2> QED BY <1>0, <1>1, <2>1, <2>2
<1>3. CASE l # 0
  <2>1. l \in 1..l /\ 1 \in 1..l /\ c + 1 \in 1..Len(sz) /\ (c + 1) - 1 = c /\ l \in 0..l
    BY <1>0, <1>3
  <2>2. Len(StreamOf(sz, c + l)) = Len(w) + SumLeft(list, l)
    BY <2>1, LengthsAre
  <2>3. SumLeft(list, l) \in Nat
    BY <2>1, ListIsCounted, SumInNat
  <2>4. Len(w) = Len(StreamOf(sz, c + 1)) - list[1].left
    BY <1>3 DEF Written
  <2>5. list[1].left <= sz[c + 1] /\ list[1].left \in Nat /\ sz[c + 1] \in Nat
    BY <2>1, ListIsCounted DEF Queued
  <2>6. Len(StreamOf(sz, c + 1)) = Len(StreamOf(sz, c)) + sz[c + 1]
    <3> DEFINE d == c + 1
    <3>1. d \in 1..Len(sz) /\ d - 1 = c
      BY <2>1
    <3> HIDE DEF d
    <3>2. Len(StreamOf(sz, d)) = Len(StreamOf(sz, d - 1)) + sz[d]
      BY <1>0, <3>1, StreamIs DEF Start
    <3> QED BY <3>1, <3>2 DEF d
  <2>7. Len(StreamOf(sz, c)) \in Nat
    BY <1>1
  <2>8. Len(StreamOf(sz, Len(sz))) = Len(w) + SumLeft(list, l)
    BY <1>0, <2>2
  <2>9. Len(w) <= Len(StreamOf(sz, Len(sz)))
    BY <1>0, <2>3, <2>8
  <2>10. Len(StreamOf(sz, c)) <= Len(w)
    <3> DEFINE a == Len(StreamOf(sz, c))
               e == Len(StreamOf(sz, c + 1))
               left == list[1].left
               y == sz[c + 1]
    <3>1. a \in Nat /\ e = a + y /\ left <= y /\ left \in Nat /\ y \in Nat /\ Len(w) = e - left
      BY <2>4, <2>5, <2>6, <2>7
    <3> HIDE DEF a, e, left, y
    <3>2. a <= Len(w)
      BY ONLY <3>1
    <3> QED BY <3>2 DEF a
  <2> QED BY <1>1, <2>9, <2>10
<1> QED BY <1>2, <1>3

\* A packet that is sent joins the send list and the stream.
LEMMA SendKeeps ==
    ASSUME NEW list \in Seq(Packets), NEW sz \in Seq(Nat), NEW c \in Nat, NEW w \in Seq(Bytes),
           Queued(list, sz, c), Written(list, sz, c, w), NEW x \in Nat,
           NEW p \in Packets, p.id = Len(sz) + 1, p.left = x
    PROVE  Queued(Append(list, p), Append(sz, x), c) /\ Written(Append(list, p), Append(sz, x), c, w)
<1> DEFINE l == Len(list)
           m == Len(sz)
           more == Append(list, p)
           sy == Append(sz, x)
<1>0. l \in Nat /\ c + l = m /\ m \in Nat /\ Len(w) \in Nat
  BY DEF Queued
<1>1. more \in Seq(Packets) /\ Len(more) = l + 1 /\ more[l + 1] = p
      /\ \A i \in 1..l : more[i] = list[i]
  BY AppendProperties
<1>2. sy \in Seq(Nat) /\ Len(sy) = m + 1 /\ sy[m + 1] = x /\ \A i \in 1..m : sy[i] = sz[i]
  BY AppendProperties
<1> HIDE DEF more, sy
<1>3. Queued(more, sy, c)
  <2>1. c + Len(more) = Len(sy)
    BY <1>0, <1>1, <1>2
  <2>2. ASSUME NEW i \in 1..Len(more)
        PROVE  /\ more[i].id = c + i /\ more[i].left <= sy[c + i]
               /\ i # 1 => more[i].left = sy[c + i]
    <3>1. CASE i = l + 1
      <4>1. c + i = m + 1
        <5> HIDE DEF l, m
        <5> QED BY ONLY <1>0, <3>1, c \in Nat
      <4> QED BY <1>1, <1>2, <3>1, <4>1
    <3>2. CASE i \in 1..l
      <4>1. c + i \in 1..m
        BY <1>0, <3>2
      <4>2. more[i] = list[i] /\ sy[c + i] = sz[c + i]
        BY <1>1, <1>2, <3>2, <4>1
      <4> QED BY <3>2, <4>2 DEF Queued
    <3> QED BY <1>0, <1>1, <3>1, <3>2
  <2> QED BY <2>1, <2>2 DEF Queued
<1>4. \A n \in 0..m : StreamOf(sy, n) = StreamOf(sz, n)
  <2> SUFFICES ASSUME NEW n \in 0..m PROVE StreamOf(sy, n) = StreamOf(sz, n)
    OBVIOUS
  <2>1. n \in Nat /\ \A i \in 1..n : sy[i] = sz[i]
    BY <1>0, <1>2
  <2> QED BY <2>1, StreamSame
<1>5. StreamOf(sz, m) \in Seq(Bytes) /\ Len(w) <= Len(StreamOf(sz, m))
  BY ONLY list \in Seq(Packets), sz \in Seq(Nat), c \in Nat, w \in Seq(Bytes),
          Queued(list, sz, c), Written(list, sz, c, w), WireFits
<1>6. /\ Len(StreamOf(sy, m + 1)) = Len(StreamOf(sz, m)) + x
      /\ \A i \in 1..Len(StreamOf(sz, m)) : StreamOf(sy, m + 1)[i] = StreamOf(sz, m)[i]
  <2>1. StreamOf(sy, m) = StreamOf(sz, m) /\ sy[m + 1] \in Nat
    BY <1>0, <1>2, <1>4
  <2>2. /\ Len(StreamOf(sy, m + 1)) = Len(StreamOf(sy, m)) + sy[m + 1]
        /\ \A i \in 1..Len(StreamOf(sy, m)) : StreamOf(sy, m + 1)[i] = StreamOf(sy, m)[i]
    BY <1>0, <1>5, <2>1, StreamGrows
  <2> QED BY <1>2, <2>1, <2>2
<1>7. Len(w) = Len(StreamOf(sy, c + 1)) - more[1].left
  <2>1. CASE l = 0
    <3>1. list = <<>> /\ c = m /\ more[1].left = x
      BY <1>0, <1>1, <2>1
    <3>2. Len(w) = Len(StreamOf(sz, m))
      BY <3>1 DEF Written
    <3> QED BY <1>0, <1>6, <3>1, <3>2
  <2>2. CASE l # 0
    <3>1. more[1] = list[1] /\ c + 1 \in 0..m /\ list # <<>>
      BY <1>0, <1>1, <2>2
    <3>2. Len(w) = Len(StreamOf(sz, c + 1)) - list[1].left
      BY <3>1 DEF Written
    <3> QED BY <1>4, <3>1, <3>2
  <2> QED BY <2>1, <2>2
<1>8. ASSUME NEW b \in 1..Len(w) PROVE w[b] = StreamOf(sy, Len(sy))[b]
  <2>1. b \in 1..Len(StreamOf(sz, m))
    BY <1>0, <1>5
  <2>2. w[b] = StreamOf(sz, m)[b]
    BY DEF Written
  <2> QED BY <1>2, <1>6, <2>1, <2>2
<1>9. more # <<>>
  BY <1>0, <1>1
<1> QED BY <1>3, <1>7, <1>8, <1>9 DEF Written, more, sy
-----------------------------------------------------------------------------
(* What the functions of DataSocket make of its members. *)

SocketOK(d) == d \in DataSockets /\ d.recvLen <= d.recvSize
NetOK(n) == n \in Nets /\ n.incoming <= n.peerSent

\* Members no close and no flush changes.
Kept(d, e) ==
    /\ e.mSendList = d.mSendList /\ e.mSSL = d.mSSL /\ e.mIsHandsharked = d.mIsHandsharked
    /\ e.recvLen = d.recvLen /\ e.recvSize = d.recvSize
    /\ e.mTimer = d.mTimer /\ e.callbacks = d.callbacks

\* closeSocket drops the fd and posts nothing.
LEMMA closeSocketIs ==
    ASSUME NEW d, SocketOK(d), NEW e, e = closeSocket(d)
    PROVE  /\ SocketOK(e) /\ Kept(d, e) /\ ~ e.mFD /\ e.after = d.after
           /\ e.mIsPostFinalClose = d.mIsPostFinalClose /\ e.mIsPostFlush = d.mIsPostFlush
  BY DEF closeSocket, SocketOK, DataSockets, Kept

\* pushAfterLoopProc appends.
LEMMA Posts ==
    ASSUME NEW d, SocketOK(d), NEW p \in AfterProcs
    PROVE  /\ d.after \in Seq(AfterProcs) /\ Append(d.after, p) \in Seq(AfterProcs)
           /\ Len(d.after) \in Nat /\ Len(Append(d.after, p)) = Len(d.after) + 1
           /\ Append(d.after, p)[Len(d.after) + 1] = p
           /\ \A i \in 1..Len(d.after) : Append(d.after, p)[i] = d.after[i]
<1>1. d.after \in Seq(AfterProcs)
  BY DEF SocketOK, DataSockets
<1> DEFINE a == d.after
<1> HIDE DEF a
<1>2. a \in Seq(AfterProcs)
  BY <1>1 DEF a
<1>3. /\ Append(a, p) \in Seq(AfterProcs)
      /\ Len(a) \in Nat /\ Len(Append(a, p)) = Len(a) + 1
      /\ Append(a, p)[Len(a) + 1] = p
      /\ \A i \in 1..Len(a) : Append(a, p)[i] = a[i]
  BY <1>2, AppendProperties
<1> QED BY <1>2, <1>3 DEF a

\* The first onClose closes and posts the disconnect, another one does nothing.
LEMMA onCloseIs ==
    ASSUME NEW d, SocketOK(d), NEW e, e = onClose(d)
    PROVE  /\ SocketOK(e) /\ Kept(d, e) /\ e.mIsPostFlush = d.mIsPostFlush
           /\ d.mIsPostFinalClose => e = d
           /\ ~ d.mIsPostFinalClose => /\ ~ e.mFD /\ e.mIsPostFinalClose
                                       /\ e.after = Append(d.after, "disconnect")
<1>1. CASE d.mIsPostFinalClose
  BY <1>1 DEF onClose, Kept
<1>2. CASE ~ d.mIsPostFinalClose
  <2> DEFINE f == closeSocket(d)
  <2>1. /\ SocketOK(f) /\ Kept(d, f) /\ ~ f.mFD /\ f.after = d.after
        /\ f.mIsPostFlush = d.mIsPostFlush
    BY closeSocketIs
  <2> HIDE DEF f
  <2>2. e = [f EXCEPT !.after = Append(@, "disconnect"), !.mIsPostFinalClose = TRUE]
    BY <1>2 DEF onClose, f
  <2> DEFINE x == Append(f.after, "disconnect")
  <2>3. x \in Seq(AfterProcs) /\ x = Append(d.after, "disconnect")
    BY <2>1, Posts DEF AfterProcs
  <2>4. e = [f EXCEPT !.after = x, !.mIsPostFinalClose = TRUE]
    BY <2>2
  <2> HIDE DEF x
  <2> QED BY ZenonT(40), <1>2, <2>1, <2>3, <2>4 DEF SocketOK, DataSockets, Kept
<1> QED BY <1>1, <1>2

\* A socket that is open and not closed for good is closed; any other stays.
LEMMA procCloseIs ==
    ASSUME NEW d, SocketOK(d), NEW e, e = procCloseInLoop(d)
    PROVE  /\ SocketOK(e) /\ Kept(d, e) /\ e.mIsPostFlush = d.mIsPostFlush
           /\ ~ d.mFD \/ d.mIsPostFinalClose => e = d
           /\ d.mFD /\ ~ d.mIsPostFinalClose =>
                 /\ ~ e.mFD /\ e.mIsPostFinalClose
                 /\ e.after = Append(d.after, "disconnect")
<1>1. CASE d.mFD
  <2>1. e = onClose(d)
    BY <1>1 DEF procCloseInLoop
  <2> QED BY <1>1, <2>1, onCloseIs
<1>2. CASE ~ d.mFD
  BY <1>2 DEF procCloseInLoop, Kept
<1> QED BY <1>1, <1>2

\* runAfterFlush posts a flush, or there is one, or there is nothing to send.
LEMMA runAfterFlushIs ==
    ASSUME NEW d, SocketOK(d), NEW e, e = runAfterFlush(d)
    PROVE  /\ SocketOK(e) /\ Kept(d, e) /\ e.mFD = d.mFD /\ e.mCanWrite = d.mCanWrite
           /\ e.mIsPostFinalClose = d.mIsPostFinalClose
           /\ \/ e = d /\ (d.mSendList # <<>> /\ d.mFD => d.mIsPostFlush)
              \/ /\ e.mIsPostFlush /\ d.mFD
                 /\ e.after = Append(d.after, "flush")
<1> DEFINE x == Append(d.after, "flush")
<1>1. x \in Seq(AfterProcs)
  BY Posts DEF AfterProcs
<1>2. CASE ~ d.mIsPostFlush /\ d.mSendList # <<>> /\ d.mFD
  <2>1. e = [d EXCEPT !.after = x, !.mIsPostFlush = TRUE]
    BY <1>2 DEF runAfterFlush
  <2> HIDE DEF x
  <2>2. /\ SocketOK(e) /\ Kept(d, e) /\ e.mFD = d.mFD /\ e.mCanWrite = d.mCanWrite
        /\ e.mIsPostFinalClose = d.mIsPostFinalClose /\ e.mIsPostFlush /\ e.after = x
    BY <1>1, <2>1 DEF SocketOK, DataSockets, Kept
  <2> QED BY <1>2, <2>2 DEF x
<1>3. CASE ~ (~ d.mIsPostFlush /\ d.mSendList # <<>> /\ d.mFD)
  <2>1. e = d
    BY <1>3 DEF runAfterFlush
  <2> QED BY <1>3, <2>1 DEF Kept
<1> QED BY <1>2, <1>3

\* postShutdown posts a shutdown for an open socket, and changes nothing else.
LEMMA postShutdownIs ==
    ASSUME NEW d, SocketOK(d), NEW e, e = postShutdown(d)
    PROVE  /\ SocketOK(e) /\ Kept(d, e) /\ e.mFD = d.mFD /\ e.mCanWrite = d.mCanWrite
           /\ e.mIsPostFinalClose = d.mIsPostFinalClose /\ e.mIsPostFlush = d.mIsPostFlush
           /\ e = d \/ (d.mFD /\ e.after = Append(d.after, "shutdown"))
<1> DEFINE x == Append(d.after, "shutdown")
<1>1. x \in Seq(AfterProcs)
  BY Posts DEF AfterProcs
<1>2. CASE d.mFD
  <2>1. e = [d EXCEPT !.after = x]
    BY <1>2 DEF postShutdown
  <2> HIDE DEF x
  <2>2. /\ SocketOK(e) /\ Kept(d, e) /\ e.mFD = d.mFD /\ e.mCanWrite = d.mCanWrite
        /\ e.mIsPostFinalClose = d.mIsPostFinalClose /\ e.mIsPostFlush = d.mIsPostFlush
        /\ e.after = x
    BY <1>1, <2>1 DEF SocketOK, DataSockets, Kept
  <2> QED BY <1>2, <2>2 DEF x
<1>3. CASE ~ d.mFD
  BY <1>3 DEF postShutdown, Kept
<1> QED BY <1>2, <1>3

\* epoll_ctl queues a socket that polls as ready and takes none off the ready list.
LEMMA EpollCtlIs ==
    ASSUME NEW n, NetOK(n)
    PROVE  LET m == EpollCtl(n) IN
           /\ NetOK(m) /\ m.epollout = n.epollout /\ m.incoming = n.incoming
           /\ m.peer = n.peer /\ m.space = n.space /\ m.shut = n.shut
           /\ n.onList => m.onList
           /\ n.incoming > 0 \/ n.peer # "open" \/ (n.epollout /\ n.space) => m.onList
<1>1. n.incoming > 0 \/ n.peer # "open" \/ (n.epollout /\ n.space) => Ready(n) # {}
  BY DEF Ready
<1> QED BY <1>1 DEF EpollCtl, NetOK, Nets

\* The enter callback sets the callbacks and leaves the rest alone.
LEMMA enteredIs ==
    ASSUME NEW d, SocketOK(d)
    PROVE  LET e == entered(d) IN
           /\ SocketOK(e) /\ e.callbacks /\ e.mFD = d.mFD /\ e.mCanWrite = d.mCanWrite
           /\ e.mIsPostFinalClose = d.mIsPostFinalClose /\ e.mIsPostFlush = d.mIsPostFlush
           /\ e.mSendList = d.mSendList /\ e.mSSL = d.mSSL /\ e.recvLen = d.recvLen
           /\ e.recvSize = d.recvSize /\ e.mTimer = d.mTimer /\ e.after = d.after
           /\ e.mIsHandsharked = d.mIsHandsharked
  BY DEF entered, SocketOK, DataSockets

\* The handshake ends, goes on, or fails: then the socket is entered and closed.
LEMMA handshakeIs ==
    ASSUME NEW d, NEW n, SocketOK(d), NetOK(n), processSSLHandshake(d, n)
    PROVE  /\ SocketOK(ds') /\ NetOK(net')
           /\ ds'.mSendList = d.mSendList /\ ds'.mSSL = d.mSSL /\ ds'.mTimer = d.mTimer
           /\ ds'.mIsPostFlush = d.mIsPostFlush
           /\ net'.onList = n.onList /\ net'.epollout = n.epollout /\ net'.peer = n.peer
           /\ net'.shut = n.shut /\ (net'.space => n.space)
           /\ \/ /\ ds'.mFD = d.mFD /\ ds'.mCanWrite = d.mCanWrite /\ ds'.after = d.after
                 /\ ds'.mIsPostFinalClose = d.mIsPostFinalClose
                 /\ \/ ds'.callbacks /\ ds'.mIsHandsharked
                    \/ ds'.callbacks = d.callbacks /\ ds'.mIsHandsharked = d.mIsHandsharked
              \/ /\ d.mFD /\ ~ d.mIsPostFinalClose /\ ~ ds'.mFD /\ ds'.mIsPostFinalClose
                 /\ ds'.after = Append(d.after, "disconnect") /\ ds'.callbacks
              \/ /\ ~ d.mFD \/ d.mIsPostFinalClose
                 /\ ds'.mFD = d.mFD /\ ds'.mCanWrite = d.mCanWrite /\ ds'.after = d.after
                 /\ ds'.mIsPostFinalClose = d.mIsPostFinalClose /\ ds'.callbacks
<1> DEFINE lower == \E k \in 0..n.incoming : net' = [n EXCEPT !.incoming = k]
           full == \E k \in 0..n.incoming : net' = [n EXCEPT !.incoming = k, !.space = FALSE]
           NetPart == /\ NetOK(net')
                      /\ net'.onList = n.onList /\ net'.epollout = n.epollout
                      /\ net'.peer = n.peer /\ net'.shut = n.shut /\ (net'.space => n.space)
<1>0. n.incoming \in Nat /\ n.peerSent \in Nat /\ n.incoming <= n.peerSent
      /\ n.incoming \in 0..MaxIncoming /\ MaxIncoming \in Nat
  BY DataSocketAssumption DEF NetOK, Nets
<1>1. ASSUME lower \/ full \/ net' = n PROVE NetPart
  <2>1. CASE lower
    <3>1. PICK k \in 0..n.incoming : net' = [n EXCEPT !.incoming = k]
      BY <2>1
    <3>2. k \in 0..MaxIncoming /\ k <= n.peerSent
      BY <1>0
    <3> QED BY <3>1, <3>2 DEF NetOK, Nets
  <2>2. CASE full
    <3>1. PICK k \in 0..n.incoming : net' = [n EXCEPT !.incoming = k, !.space = FALSE]
      BY <2>2
    <3>2. k \in 0..MaxIncoming /\ k <= n.peerSent
      BY <1>0
    <3> QED BY <3>1, <3>2 DEF NetOK, Nets
  <2>3. CASE net' = n
    BY <2>3
  <2> QED BY <1>1, <2>1, <2>2, <2>3
<1>2. CASE ds' = entered([d EXCEPT !.mIsHandsharked = TRUE]) /\ lower
  <2> DEFINE h == [d EXCEPT !.mIsHandsharked = TRUE]
  <2>1. /\ SocketOK(h) /\ h.mIsHandsharked
        /\ h.mFD = d.mFD /\ h.mCanWrite = d.mCanWrite
        /\ h.mIsPostFinalClose = d.mIsPostFinalClose /\ h.mIsPostFlush = d.mIsPostFlush
        /\ h.mSendList = d.mSendList /\ h.mSSL = d.mSSL
        /\ h.mTimer = d.mTimer /\ h.after = d.after
    BY DEF SocketOK, DataSockets
  <2>2. ds' = entered(h)
    BY <1>2
  <2> HIDE DEF h, NetPart
  <2>3. /\ SocketOK(ds') /\ ds'.mIsHandsharked /\ ds'.callbacks
        /\ ds'.mFD = d.mFD /\ ds'.mCanWrite = d.mCanWrite
        /\ ds'.mIsPostFinalClose = d.mIsPostFinalClose /\ ds'.mIsPostFlush = d.mIsPostFlush
        /\ ds'.mSendList = d.mSendList /\ ds'.mSSL = d.mSSL
        /\ ds'.mTimer = d.mTimer /\ ds'.after = d.after
    BY <2>1, <2>2, enteredIs
  <2>4. NetPart
    BY <1>1, <1>2
  <2> HIDE DEF lower, full
  <2> QED BY <2>3, <2>4 DEF NetPart
<1>3. CASE ds' = d /\ net' = [n EXCEPT !.incoming = 0]
  <2>1. lower
    BY <1>0, <1>3
  <2> HIDE DEF lower, full
  <2> QED BY <1>1, <1>3, <2>1
<1>4. CASE ds' = d /\ full
  <2> HIDE DEF lower, full
  <2> QED BY <1>1, <1>4
<1>5. CASE ds' = procCloseInLoop(entered(d)) /\ net' = n
  <2> DEFINE h == entered(d)
  <2>1. /\ SocketOK(h) /\ h.callbacks /\ h.mIsHandsharked = d.mIsHandsharked
        /\ h.mFD = d.mFD /\ h.mCanWrite = d.mCanWrite
        /\ h.mIsPostFinalClose = d.mIsPostFinalClose /\ h.mIsPostFlush = d.mIsPostFlush
        /\ h.mSendList = d.mSendList /\ h.mSSL = d.mSSL
        /\ h.mTimer = d.mTimer /\ h.after = d.after
    BY enteredIs
  <2>2. ds' = procCloseInLoop(h)
    BY <1>5
  <2> HIDE DEF h, NetPart
  <2>3. /\ SocketOK(ds') /\ Kept(h, ds') /\ ds'.mIsPostFlush = h.mIsPostFlush
        /\ ~ h.mFD \/ h.mIsPostFinalClose => ds' = h
        /\ h.mFD /\ ~ h.mIsPostFinalClose =>
              /\ ~ ds'.mFD /\ ds'.mIsPostFinalClose
              /\ ds'.after = Append(h.after, "disconnect")
    BY <2>1, <2>2, procCloseIs
  <2>4. NetPart
    BY <1>1, <1>5
  <2> HIDE DEF lower, full
  <2> QED BY <2>1, <2>3, <2>4 DEF NetPart, Kept
<1> HIDE DEF lower, full
<1>6. \/ ds' = entered([d EXCEPT !.mIsHandsharked = TRUE]) /\ lower
      \/ ds' = d /\ net' = [n EXCEPT !.incoming = 0]
      \/ ds' = d /\ full
      \/ ds' = procCloseInLoop(entered(d)) /\ net' = n
  BY DEF processSSLHandshake, lower, full
<1> QED BY <1>2, <1>3, <1>4, <1>5, <1>6

TimerStates == {"unused", "active", "cancelled", "gone"}
Heaps == [1..MaxTimers -> TimerStates]

\* startPingCheckTimer arms one timer, unless mTimer can still be locked.
LEMMA startPingIs ==
    ASSUME NEW d, SocketOK(d), NEW heap \in Heaps, startPingCheckTimer(d, heap)
    PROVE  /\ SocketOK(ds') /\ timers' \in Heaps
           /\ \/ ds' = d /\ timers' = heap
              \/ /\ ~ Locked(d)
                 /\ \E i \in 1..MaxTimers : /\ ds' = [d EXCEPT !.mTimer = i]
                                            /\ timers' = [heap EXCEPT ![i] = "active"]
<1>1. CASE ~ Locked(d) /\ d.mCheckTime
  <2>1. PICK i \in FreeTimers : /\ timers' = [heap EXCEPT ![i] = "active"]
                                /\ ds' = [d EXCEPT !.mTimer = i]
    BY <1>1 DEF startPingCheckTimer
  <2>2. i \in 1..MaxTimers /\ i \in 0..MaxTimers
    BY DataSocketAssumption DEF FreeTimers
  <2>3. SocketOK(ds')
    BY <2>1, <2>2 DEF SocketOK, DataSockets
  <2>4. timers' \in Heaps
    BY <2>1, <2>2 DEF Heaps, TimerStates
  <2> QED BY <1>1, <2>1, <2>2, <2>3, <2>4
<1>2. CASE ~ (~ Locked(d) /\ d.mCheckTime)
  BY <1>2 DEF startPingCheckTimer
<1> QED BY <1>1, <1>2
-----------------------------------------------------------------------------
(* Types and streams. *)

OthersOK ==
    /\ life \in {"queued", "entered", "deleted"}
    /\ copyAfter \in Seq(AfterProcs)
    /\ timers \in Heaps
    /\ phase \in Phases
    /\ calls \in Seq(ChannelCalls)
    /\ call \in {"none", "recv", "flush", "sent", "partial", "stuck"}

HistoryOK ==
    /\ sizes \in Seq(Sizes)
    /\ wire \in Seq((1..MaxSends) \X Nat)
    /\ completed \in Seq(1..MaxSends)

\* DataInv, grouped by what the actions change together.
LEMMA DataInvParts ==
    DataInv <=> SocketOK(ds) /\ NetOK(net) /\ OthersOK /\ HistoryOK /\ Streams
  BY DEF DataInv, TypeOK, Counters, SocketOK, NetOK, OthersOK, HistoryOK, Heaps, TimerStates

\* The same after a step.
LEMMA DataInvPartsPrime ==
    DataInv' <=> SocketOK(ds') /\ NetOK(net') /\ OthersOK' /\ HistoryOK' /\ Streams'
  BY DEF DataInv, TypeOK, Counters, SocketOK, NetOK, OthersOK, HistoryOK, Heaps, TimerStates

\* Most steps send nothing and write nothing.
Quiet ==
    /\ SocketOK(ds') /\ NetOK(net') /\ OthersOK'
    /\ ds'.mSendList = ds.mSendList /\ UNCHANGED history

\* Steps that leave the streams alone and keep the types keep DataInv.
LEMMA QuietSteps ==
    ASSUME DataInv, Quiet
    PROVE  DataInv'
<1>1. HistoryOK' /\ Streams'
  BY DataInvParts DEF Quiet, history, HistoryOK, Streams
<1> QED BY <1>1, DataInvPartsPrime DEF Quiet

\* It holds for a new DataSocket.
LEMMA DataInvInit ==
    ASSUME Init
    PROVE  DataInv
<1>0. /\ InitRecvSize \in 0..RecvLimit /\ 0 \in 0..RecvLimit /\ 0 <= InitRecvSize
      /\ 0 \in 0..MaxIncoming /\ 0 \in 0..MaxTimers
  BY DataSocketAssumption DEF RecvLimit
<1>1. SocketOK(ds)
  BY <1>0 DEF Init, SocketOK, DataSockets
<1>2. NetOK(net)
  BY <1>0 DEF Init, NetOK, Nets
<1>3. OthersOK /\ HistoryOK
  BY DEF Init, OthersOK, HistoryOK, Heaps, TimerStates, Phases
<1>4. Streams
  <2>1. Len(sizes) = 0 /\ Len(completed) = 0 /\ ds.mSendList = <<>> /\ Len(ds.mSendList) = 0
        /\ Len(wire) = 0 /\ MaxSends \in Nat
    BY DataSocketAssumption DEF Init
  <2>2. Len(StreamOf(sizes, 0)) = 0
    BY StreamStep
  <2> QED BY <2>1, <2>2 DEF Streams, Queued, Written
<1> QED BY <1>1, <1>2, <1>3, <1>4, DataInvParts

\* The kernel's and the peer's steps.
LEMMA KernelQuiet ==
    ASSUME DataInv, Kernel
    PROVE  Quiet
<1>0. SocketOK(ds) /\ NetOK(net) /\ OthersOK
  BY DataInvParts
<1>1. OthersOK' /\ UNCHANGED history /\ ds' = ds
  BY <1>0 DEF Kernel, peerSends, peerCloses, drain, history, OthersOK
<1>2. NetOK(net')
  <2>1. CASE peerSends
    <3>1. net.incoming + 1 \in 0..MaxIncoming /\ net.peerSent + 1 \in 0..MaxIncoming
          /\ net.incoming + 1 <= net.peerSent + 1
      BY <1>0, <2>1, DataSocketAssumption DEF peerSends, NetOK, Nets
    <3>2. Linked \in BOOLEAN
      BY DEF Linked
    <3> QED BY <1>0, <2>1, <3>1, <3>2 DEF peerSends, NetOK, Nets
  <2>2. CASE peerCloses
    <3>1. Linked \in BOOLEAN /\ 0 \in 0..MaxIncoming /\ 0 <= net.peerSent
      BY <1>0, DataSocketAssumption DEF Linked, NetOK, Nets
    <3> QED BY <1>0, <2>2, <3>1 DEF peerCloses, NetOK, Nets
  <2>3. CASE drain
    BY <1>0, <2>3 DEF drain, Linked, NetOK, Nets
  <2> QED BY <2>1, <2>2, <2>3 DEF Kernel
<1> QED BY <1>0, <1>1, <1>2 DEF Quiet

\* The calls of the user but send.
LEMMA UserQuiet ==
    ASSUME DataInv, userClose \/ \E on \in BOOLEAN : setCheckTime(on)
    PROVE  Quiet
<1>0. SocketOK(ds) /\ NetOK(net) /\ OthersOK
  BY DataInvParts
<1>1. CASE userClose
  <2>1. SocketOK(ds') /\ ds'.mSendList = ds.mSendList
    BY <1>0, <1>1, procCloseIs, postShutdownIs DEF userClose, Kept
  <2> QED BY <1>0, <1>1, <2>1 DEF userClose, Quiet, OthersOK, history
<1>2. ASSUME NEW on \in BOOLEAN, setCheckTime(on) PROVE Quiet
  <2> DEFINE d == [ds EXCEPT !.mCheckTime = on]
  <2>1. SocketOK(d) /\ d.mSendList = ds.mSendList
    BY <1>0 DEF SocketOK, DataSockets
  <2>2. timers \in Heaps
    BY <1>0 DEF OthersOK
  <2>3. SocketOK(ds') /\ ds'.mSendList = ds.mSendList /\ timers' \in Heaps
    <3>1. CASE on
      <4>1. startPingCheckTimer(d, timers)
        BY <1>2, <3>1 DEF setCheckTime
      <4> HIDE DEF d
      <4>2. SocketOK(ds') /\ timers' \in Heaps
            /\ (ds' = d \/ \E i \in 1..MaxTimers : ds' = [d EXCEPT !.mTimer = i])
        BY <2>1, <2>2, <4>1, startPingIs
      <4>3. ds'.mSendList = d.mSendList
        BY <2>1, <4>2 DEF SocketOK, DataSockets
      <4> QED BY <2>1, <4>2, <4>3
    <3>2. CASE ~ on
      <4>1. cancelTimer(ds) /\ ds' = d
        BY <1>2, <3>2 DEF setCheckTime
      <4>2. timers' \in Heaps
        BY <2>2, <4>1 DEF cancelTimer, Heaps, TimerStates
      <4> HIDE DEF d
      <4> QED BY <2>1, <4>1, <4>2
    <3> QED BY <3>1, <3>2
  <2>4. UNCHANGED <<life, copyAfter, phase, calls, call, net, history>>
    BY <1>2 DEF setCheckTime
  <2> HIDE DEF d
  <2> QED BY <1>0, <2>3, <2>4 DEF Quiet, OthersOK
<1> QED BY <1>1, <1>2

\* An event leads to calls of the channel.
LEMMA CallsAre ==
    ASSUME NEW events
    PROVE  CallsFor(events) \in Seq(ChannelCalls)
<1> DEFINE a == IF "IN" \in events THEN <<"canRecv">> ELSE <<>>
           b == IF "OUT" \in events THEN <<"canSend">> ELSE <<>>
<1>1. a \in Seq(ChannelCalls) /\ b \in Seq(ChannelCalls)
      /\ <<"canRecv", "onClose">> \in Seq(ChannelCalls)
  <2>1. <<"canRecv">> \in Seq(ChannelCalls) /\ <<"canSend">> \in Seq(ChannelCalls)
    BY DEF ChannelCalls
  <2>2. <<>> \in Seq(ChannelCalls) /\ <<"canRecv", "onClose">> \in Seq(ChannelCalls)
    BY DEF ChannelCalls
  <2> QED BY <2>1, <2>2
<1>2. CallsFor(events) = IF "RDHUP" \in events THEN <<"canRecv", "onClose">> ELSE a \o b
  BY DEF CallsFor
<1> HIDE DEF a, b
<1>3. a \o b \in Seq(ChannelCalls)
  BY <1>1
<1> QED BY <1>1, <1>2, <1>3

\* What is left of a sequence without its first element.
LEMMA PopIs ==
    ASSUME NEW S, NEW q \in Seq(S), q # <<>>
    PROVE  /\ Tail(q) \in Seq(S) /\ Len(q) \in Nat \ {0} /\ Len(Tail(q)) = Len(q) - 1
           /\ \A i \in 1..Len(Tail(q)) : Tail(q)[i] = q[i + 1]
           /\ Head(q) = q[1]
           /\ \A x : In(x, q) => x = Head(q) \/ In(x, Tail(q))
<1>1. /\ Tail(q) \in Seq(S) /\ Len(q) \in Nat \ {0} /\ Len(Tail(q)) = Len(q) - 1
      /\ \A i \in 1..Len(Tail(q)) : Tail(q)[i] = q[i + 1]
      /\ Head(q) = q[1]
  BY HeadTailProperties
<1>2. ASSUME NEW x, In(x, q), x # Head(q) PROVE In(x, Tail(q))
  <2>1. PICK i \in 1..Len(q) : q[i] = x
    BY <1>2 DEF In
  <2>2. i # 1
    BY <1>1, <1>2, <2>1
  <2> DEFINE j == i - 1
  <2>3. j \in 1..Len(Tail(q)) /\ j + 1 = i
    BY <1>1, <2>2
  <2> HIDE DEF j
  <2>4. Tail(q)[j] = x
    BY <1>1, <2>1, <2>3
  <2> QED BY <2>3, <2>4 DEF In
<1> QED BY <1>1, <1>2

\* The dispatch takes one call, the others wait.
LEMMA CallingIs ==
    ASSUME OthersOK, NEW c, Calling(c)
    PROVE  /\ calls' \in Seq(ChannelCalls) /\ call = "none" /\ phase = "dispatch"
           /\ calls # <<>>
           /\ \A x : In(x, calls) => x = c \/ In(x, calls')
<1>1. calls \in Seq(ChannelCalls) /\ calls # <<>> /\ calls' = Tail(calls) /\ Head(calls) = c
  BY DEF OthersOK, Calling
<1>2. Tail(calls) \in Seq(ChannelCalls) /\ \A x : In(x, calls) => x = c \/ In(x, Tail(calls))
  BY <1>1, PopIs
<1> QED BY <1>1, <1>2 DEF Calling, In

\* removeCheckWrite loses no event.
LEMMA removeCheckWriteIs ==
    ASSUME NetOK(net)
    PROVE  /\ NetOK(removeCheckWrite) /\ removeCheckWrite.incoming = net.incoming
           /\ removeCheckWrite.peer = net.peer /\ removeCheckWrite.shut = net.shut
           /\ net.onList => removeCheckWrite.onList
<1> DEFINE n == [net EXCEPT !.epollout = FALSE]
<1>1. NetOK(n) /\ n.incoming = net.incoming /\ n.peer = net.peer /\ n.shut = net.shut
      /\ n.onList = net.onList
  BY DEF NetOK, Nets
<1>2. removeCheckWrite = IF ds.mFD THEN EpollCtl(n) ELSE net
  BY DEF removeCheckWrite
<1> HIDE DEF n
<1> QED BY <1>1, <1>2, EpollCtlIs

\* epoll_wait and the dispatch of its event.
LEMMA DispatchQuiet ==
    ASSUME DataInv, epollWait \/ Dispatch
    PROVE  Quiet
<1>0. SocketOK(ds) /\ NetOK(net) /\ OthersOK
  BY DataInvParts
<1>1. CASE epollWait
  <2>1. NetOK(net') /\ UNCHANGED <<ds, life, copyAfter, timers, call, history>>
    BY <1>0, <1>1 DEF epollWait, NetOK, Nets
  <2>2. phase' \in Phases /\ calls' \in Seq(ChannelCalls)
    <3>1. <<>> \in Seq(ChannelCalls)
      OBVIOUS
    <3> QED BY <1>1, <3>1, CallsAre DEF epollWait, Phases
  <2> QED BY <1>0, <2>1, <2>2 DEF Quiet, OthersOK
<1>2. CASE canRecv
  <2>1. calls' \in Seq(ChannelCalls)
    BY <1>0, <1>2, CallingIs DEF canRecv
  <2>2. SocketOK(ds') /\ NetOK(net') /\ ds'.mSendList = ds.mSendList
        /\ call' \in {"none", "recv", "flush", "sent", "partial", "stuck"}
    <3>1. CASE Handshaking(ds)
      <4>1. processSSLHandshake(ds, net) /\ UNCHANGED call
        BY <1>2, <3>1 DEF canRecv
      <4> QED BY <1>0, <4>1, handshakeIs DEF OthersOK
    <3>2. CASE ~ Handshaking(ds)
      BY <1>0, <1>2, <3>2 DEF canRecv
    <3> QED BY <3>1, <3>2
  <2>3. UNCHANGED <<life, copyAfter, timers, phase, history>>
    BY <1>2 DEF canRecv
  <2> QED BY <1>0, <2>1, <2>2, <2>3 DEF Quiet, OthersOK
<1>3. CASE canSend
  <2> DEFINE d == [ds EXCEPT !.mCanWrite = TRUE]
  <2>1. calls' \in Seq(ChannelCalls)
    BY <1>0, <1>3, CallingIs DEF canSend
  <2>2. SocketOK(d) /\ d.mSendList = ds.mSendList /\ NetOK(removeCheckWrite)
    BY <1>0, removeCheckWriteIs DEF SocketOK, DataSockets
  <2>3. SocketOK(ds') /\ NetOK(net') /\ ds'.mSendList = ds.mSendList
    <3>1. CASE Handshaking(ds)
      <4>1. processSSLHandshake(d, removeCheckWrite)
        BY <1>3, <3>1 DEF canSend
      <4> HIDE DEF d
      <4> QED BY <2>2, <4>1, handshakeIs
    <3>2. CASE ~ Handshaking(ds)
      <4>1. ds' = runAfterFlush(d) /\ net' = removeCheckWrite
        BY <1>3, <3>2 DEF canSend
      <4> HIDE DEF d
      <4> QED BY <2>2, <4>1, runAfterFlushIs DEF Kept
    <3> QED BY <3>1, <3>2
  <2>4. UNCHANGED <<life, copyAfter, timers, phase, call, history>>
    BY <1>3 DEF canSend
  <2> HIDE DEF d
  <2> QED BY <1>0, <2>1, <2>3, <2>4 DEF Quiet, OthersOK
<1>4. CASE channelClose
  <2>1. calls' \in Seq(ChannelCalls)
    BY <1>0, <1>4, CallingIs DEF channelClose
  <2>2. SocketOK(ds') /\ ds'.mSendList = ds.mSendList
    BY <1>0, <1>4, onCloseIs DEF channelClose, Kept
  <2>3. UNCHANGED <<life, copyAfter, timers, phase, call, net, history>>
    BY <1>4 DEF channelClose
  <2> QED BY <1>0, <2>1, <2>2, <2>3 DEF Quiet, OthersOK
<1>5. CASE dispatchEnd
  BY <1>0, <1>5 DEF dispatchEnd, Quiet, OthersOK, Phases
<1> QED BY <1>1, <1>2, <1>3, <1>4, <1>5 DEF Dispatch

\* The receive buffer grows up to its limit and never shrinks.
LEMMA GrowIs ==
    ASSUME NEW d, SocketOK(d), NEW len \in 0..d.recvSize
    PROVE  growRecvBuffer(d, len) \in 0..RecvLimit /\ d.recvSize <= growRecvBuffer(d, len)
<1>1. d.recvSize \in 0..RecvLimit /\ GrowSize \in Nat /\ MaxRecvSize \in Nat /\ RecvLimit \in Nat
      /\ MaxRecvSize <= RecvLimit
  BY DataSocketAssumption DEF SocketOK, DataSockets, RecvLimit
<1> QED BY <1>1 DEF growRecvBuffer

\* The iterations of recv.
LEMMA RecvQuiet ==
    ASSUME DataInv, Recv
    PROVE  Quiet
<1>0. SocketOK(ds) /\ NetOK(net) /\ OthersOK
  BY DataInvParts
<1>1. ASSUME NEW n, NEW m, recvSome(n, m) PROVE Quiet
  <2> DEFINE len == ds.recvLen + n
             size == growRecvBuffer(ds, len)
             left == net.incoming - n
  <2>1. /\ ds.recvLen \in Nat /\ ds.recvSize \in 0..RecvLimit /\ RecvLimit \in Nat
        /\ n \in 1..net.incoming /\ len <= ds.recvSize /\ m \in 0..len
        /\ net.incoming \in 0..MaxIncoming /\ net.peerSent \in Nat /\ MaxIncoming \in Nat
        /\ net.incoming <= net.peerSent
    BY <1>0, <1>1, DataSocketAssumption
    DEF recvSome, SocketOK, DataSockets, NetOK, Nets, RecvLimit
  <2>2. len \in 0..ds.recvSize
    BY <2>1
  <2>3. size \in 0..RecvLimit /\ ds.recvSize <= size
    BY <1>0, <2>2, GrowIs
  <2>4. len - m \in 0..RecvLimit /\ len - m <= size /\ left \in 0..MaxIncoming
        /\ left <= net.peerSent
    <3> HIDE DEF size
    <3> QED BY <2>1, <2>3
  <2>5. ds' = [ds EXCEPT !.recvSize = size, !.recvLen = @ + n - m, !.mRecvData = TRUE]
        /\ net' = [net EXCEPT !.incoming = left]
    <3>1. net' = [net EXCEPT !.incoming = @ - n]
          /\ ds' = [ds EXCEPT !.recvSize = size, !.recvLen = @ + n - m, !.mRecvData = TRUE]
      BY <1>1 DEF recvSome
    <3>2. net' = [net EXCEPT !.incoming = left]
      BY <1>0, <3>1 DEF NetOK, Nets
    <3> QED BY <3>1, <3>2
  <2>6. UNCHANGED <<life, copyAfter, timers, phase, calls, call, history>>
    BY <1>1 DEF recvSome
  <2> HIDE DEF size, left
  <2>7. SocketOK(ds') /\ ds'.mSendList = ds.mSendList
    <3>1. ds \in DataSockets
      BY <1>0 DEF SocketOK
    <3>2. /\ ds'.recvLen = len - m /\ ds'.recvSize = size /\ ds'.mSendList = ds.mSendList
          /\ ds'.mFD = ds.mFD
      BY <2>1, <2>5, <3>1 DEF DataSockets
    <3>3. ds' \in DataSockets
      BY <2>1, <2>3, <2>4, <2>5, <3>1, <3>2 DEF DataSockets
    <3> HIDE DEF len
    <3> QED BY <2>4, <3>2, <3>3 DEF SocketOK
  <2>8. NetOK(net')
    BY <1>0, <2>4, <2>5 DEF NetOK, Nets
  <2> QED BY <1>0, <2>6, <2>7, <2>8 DEF Quiet, OthersOK
<1>2. CASE recvReturn
  BY <1>0, <1>2 DEF recvReturn, Quiet, OthersOK
<1>3. CASE recvClose
  <2>1. SocketOK(ds') /\ ds'.mSendList = ds.mSendList
    BY <1>0, <1>3, procCloseIs DEF recvClose, Kept
  <2> QED BY <1>0, <1>3, <2>1 DEF recvClose, Quiet, OthersOK
<1> QED BY <1>1, <1>2, <1>3 DEF Recv

\* checkWrite asks for EPOLLOUT, and has the event if there is room already.
LEMMA checkWriteIs ==
    ASSUME SocketOK(ds), NetOK(net), checkWrite
    PROVE  /\ SocketOK(ds') /\ Kept(ds, ds') /\ ~ ds'.mCanWrite /\ ds'.mFD = ds.mFD
           /\ ds'.after = ds.after /\ ds'.mIsPostFlush = ds.mIsPostFlush
           /\ ds'.mIsPostFinalClose = ds.mIsPostFinalClose
           /\ NetOK(net') /\ net'.incoming = net.incoming /\ net'.peer = net.peer
           /\ net'.shut = net.shut /\ (net.onList => net'.onList)
           /\ ds.mFD => net'.epollout /\ (net'.space => net'.onList)
<1>1. /\ SocketOK(ds') /\ Kept(ds, ds') /\ ~ ds'.mCanWrite /\ ds'.mFD = ds.mFD
      /\ ds'.after = ds.after /\ ds'.mIsPostFlush = ds.mIsPostFlush
      /\ ds'.mIsPostFinalClose = ds.mIsPostFinalClose
  BY DEF checkWrite, SocketOK, DataSockets, Kept
<1> DEFINE n == [net EXCEPT !.epollout = TRUE]
<1>2. NetOK(n) /\ n.incoming = net.incoming /\ n.peer = net.peer /\ n.shut = net.shut
      /\ n.onList = net.onList /\ n.epollout
  BY DEF NetOK, Nets
<1>3. net' = IF ds.mFD THEN EpollCtl(n) ELSE net
  BY DEF checkWrite
<1> HIDE DEF n
<1> QED BY <1>1, <1>2, <1>3, EpollCtlIs

\* The procs other threads posted.
LEMMA EnterQuiet ==
    ASSUME DataInv, onEnterEventLoop \/ asyncEnd
    PROVE  Quiet
<1>0. SocketOK(ds) /\ NetOK(net) /\ OthersOK
  BY DataInvParts
<1>1. CASE onEnterEventLoop
  <2>1. UNCHANGED <<copyAfter, timers, phase, calls, call, history>>
        /\ life' \in {"queued", "entered", "deleted"}
    BY <1>1 DEF onEnterEventLoop
  <2>2. SocketOK(ds') /\ NetOK(net') /\ ds'.mSendList = ds.mSendList
    <3>1. NetOK(EpollCtl(net))
      BY <1>0, EpollCtlIs
    <3>2. CASE processSSLHandshake(ds, EpollCtl(net))
      BY <1>0, <3>1, <3>2, handshakeIs
    <3>3. CASE ds' = entered(ds) /\ net' = EpollCtl(net)
      BY <1>0, <3>1, <3>3, enteredIs
    <3>4. CASE ds' = closeSocket(ds) /\ UNCHANGED net
      BY <1>0, <3>4, closeSocketIs DEF Kept
    <3> QED BY <1>1, <3>2, <3>3, <3>4 DEF onEnterEventLoop
  <2> QED BY <1>0, <2>1, <2>2 DEF Quiet, OthersOK
<1>2. CASE asyncEnd
  <2>1. ds.after \in Seq(AfterProcs) /\ <<>> \in Seq(AfterProcs)
    BY <1>0 DEF SocketOK, DataSockets
  <2>2. SocketOK(ds') /\ ds'.mSendList = ds.mSendList
    BY <1>0, <1>2, <2>1 DEF asyncEnd, SocketOK, DataSockets
  <2> QED BY <1>0, <1>2, <2>1, <2>2 DEF asyncEnd, Quiet, OthersOK, Phases
<1> QED BY <1>1, <1>2

\* The steps of flush that write nothing.
LEMMA FlushQuiet ==
    ASSUME DataInv, flushMore \/ flushPartial \/ writeBlocked \/ writeError \/ writeNothing
    PROVE  Quiet
<1>0. SocketOK(ds) /\ NetOK(net) /\ OthersOK
  BY DataInvParts
<1>1. CASE flushMore \/ writeNothing
  BY <1>0, <1>1 DEF flushMore, writeNothing, Quiet, OthersOK
<1>2. CASE flushPartial \/ writeBlocked
  <2>1. checkWrite /\ call' = "none" /\ UNCHANGED <<life, copyAfter, timers, phase, calls, history>>
    BY <1>2 DEF flushPartial, writeBlocked
  <2>2. SocketOK(ds') /\ NetOK(net') /\ ds'.mSendList = ds.mSendList
    BY <1>0, <2>1, checkWriteIs DEF Kept
  <2> QED BY <1>0, <2>1, <2>2 DEF Quiet, OthersOK
<1>3. CASE writeError
  <2>1. SocketOK(ds') /\ ds'.mSendList = ds.mSendList
    BY <1>0, <1>3, procCloseIs DEF writeError, Kept
  <2> QED BY <1>0, <1>3, <2>1 DEF writeError, Quiet, OthersOK
<1> QED BY <1>1, <1>2, <1>3

\* The loop takes one after-loop proc, the others wait.
LEMMA AfterProcIs ==
    ASSUME OthersOK, NEW p, AfterProc(p)
    PROVE  /\ copyAfter' \in Seq(AfterProcs) /\ call = "none" /\ phase = "after"
           /\ copyAfter # <<>> /\ Len(copyAfter) \in Nat \ {0} /\ copyAfter[1] = p
           /\ Len(copyAfter') = Len(copyAfter) - 1
           /\ \A i \in 1..Len(copyAfter') : copyAfter'[i] = copyAfter[i + 1]
           /\ \A x : In(x, copyAfter) => x = p \/ In(x, copyAfter')
<1> DEFINE q == copyAfter
<1>1. /\ q \in Seq(AfterProcs) /\ q # <<>> /\ copyAfter' = Tail(q) /\ Head(q) = p
      /\ call = "none" /\ phase = "after"
  BY DEF OthersOK, AfterProc
<1>2. /\ Tail(q) \in Seq(AfterProcs) /\ Len(q) \in Nat \ {0} /\ Len(Tail(q)) = Len(q) - 1
      /\ \A i \in 1..Len(Tail(q)) : Tail(q)[i] = q[i + 1]
      /\ Head(q) = q[1]
      /\ \A x : In(x, q) => x = Head(q) \/ In(x, Tail(q))
  BY <1>1, PopIs
<1> QED BY <1>1, <1>2 DEF In

\* The after-loop procs.
LEMMA AfterQuiet ==
    ASSUME DataInv, After
    PROVE  Quiet
<1>0. SocketOK(ds) /\ NetOK(net) /\ OthersOK
  BY DataInvParts
<1>1. CASE flush
  <2>1. copyAfter' \in Seq(AfterProcs)
    BY <1>0, <1>1, AfterProcIs DEF flush
  <2>2. SocketOK(ds') /\ ds'.mSendList = ds.mSendList
    BY <1>0, <1>1 DEF flush, SocketOK, DataSockets
  <2> QED BY <1>0, <1>1, <2>1, <2>2 DEF flush, Quiet, OthersOK
<1>2. CASE shutdownProc
  <2>1. copyAfter' \in Seq(AfterProcs)
    BY <1>0, <1>2, AfterProcIs DEF shutdownProc
  <2>2. SocketOK(ds') /\ ds'.mSendList = ds.mSendList
    BY <1>0, <1>2 DEF shutdownProc, procShutdownInLoop, SocketOK, DataSockets
  <2>3. NetOK(net')
    BY <1>0, <1>2 DEF shutdownProc, NetOK, Nets
  <2> QED BY <1>0, <1>2, <2>1, <2>2, <2>3 DEF shutdownProc, Quiet, OthersOK
<1>3. CASE disconnectProc
  <2>1. copyAfter' \in Seq(AfterProcs)
    BY <1>0, <1>3, AfterProcIs DEF disconnectProc
  <2>2. timers' \in Heaps
    BY <1>0, <1>3 DEF disconnectProc, cancelTimer, OthersOK, Heaps, TimerStates
  <2>3. life' \in {"queued", "entered", "deleted"}
    BY <1>0, <1>3 DEF disconnectProc, OthersOK
  <2> QED BY <1>0, <1>3, <2>1, <2>2, <2>3 DEF disconnectProc, Quiet, OthersOK
<1>4. CASE afterEnd
  BY <1>0, <1>4 DEF afterEnd, Quiet, OthersOK, Phases
<1> QED BY <1>1, <1>2, <1>3, <1>4 DEF After

\* The timers.
LEMMA TimersQuiet ==
    ASSUME DataInv, Timers
    PROVE  Quiet
<1>0. SocketOK(ds) /\ NetOK(net) /\ OthersOK
  BY DataInvParts
<1>1. CASE loopEnd
  BY <1>0, <1>1 DEF loopEnd, Quiet, OthersOK, Phases
<1>2. ASSUME NEW i \in 1..MaxTimers, PingCheck(i) PROVE Quiet
  <2> DEFINE heap == [timers EXCEPT ![i] = "gone"]
             d == [ds EXCEPT !.mRecvData = FALSE]
  <2>1. heap \in Heaps /\ SocketOK(d) /\ d.mSendList = ds.mSendList
    BY <1>0 DEF OthersOK, Heaps, TimerStates, SocketOK, DataSockets
  <2>2. SocketOK(ds') /\ timers' \in Heaps /\ ds'.mSendList = ds.mSendList
    <3>1. CASE ds.mRecvData
      <4>1. startPingCheckTimer(d, heap)
        BY <1>2, <3>1 DEF PingCheck
      <4> HIDE DEF d, heap
      <4>2. SocketOK(ds') /\ timers' \in Heaps
            /\ (ds' = d \/ \E j \in 1..MaxTimers : ds' = [d EXCEPT !.mTimer = j])
        BY <2>1, <4>1, startPingIs
      <4>3. ds'.mSendList = d.mSendList
        BY <2>1, <4>2 DEF SocketOK, DataSockets
      <4> QED BY <2>1, <4>2, <4>3
    <3>2. CASE ~ ds.mRecvData
      <4>1. ds' = procCloseInLoop(ds) /\ timers' = heap
        BY <1>2, <3>2 DEF PingCheck
      <4> HIDE DEF d, heap
      <4> QED BY <1>0, <2>1, <4>1, procCloseIs DEF Kept
    <3> QED BY <3>1, <3>2
  <2>3. UNCHANGED <<life, copyAfter, phase, calls, call, net, history>>
    BY <1>2 DEF PingCheck
  <2> HIDE DEF d, heap
  <2> QED BY <1>0, <2>2, <2>3 DEF Quiet, OthersOK
<1>3. ASSUME NEW i \in 1..MaxTimers, popCancelled(i) PROVE Quiet
  <2>1. timers' \in Heaps
    BY <1>0, <1>3 DEF popCancelled, OthersOK, Heaps, TimerStates
  <2> QED BY <1>0, <1>3, <2>1 DEF popCancelled, Quiet, OthersOK
<1> QED BY <1>1, <1>2, <1>3 DEF Timers

\* Bytes of numbered packets are bytes.
LEMMA WireSeq ==
    ASSUME NEW w \in Seq((1..MaxSends) \X Nat)
    PROVE  w \in Seq(Bytes)
<1>1. (1..MaxSends) \X Nat \subseteq Bytes
  BY DataSocketAssumption DEF Bytes
<1> QED BY <1>1, SeqMonotonic

\* What DataInv says of the send list and the bytes written.
LEMMA StreamFacts ==
    ASSUME DataInv
    PROVE  /\ ds.mSendList \in Seq(Packets) /\ sizes \in Seq(Nat) /\ wire \in Seq(Bytes)
           /\ Len(completed) \in Nat /\ Len(sizes) \in Nat /\ Len(sizes) <= MaxSends
           /\ Queued(ds.mSendList, sizes, Len(completed))
           /\ Written(ds.mSendList, sizes, Len(completed), wire)
<1>1. SocketOK(ds) /\ HistoryOK /\ Streams
  BY DataInvParts
<1>2. ds.mSendList \in Seq(Packets)
  BY <1>1 DEF SocketOK, DataSockets
<1>3. sizes \in Seq(Nat) /\ wire \in Seq(Bytes)
  BY <1>1, SizeSeq, WireSeq DEF HistoryOK
<1>4. Len(completed) \in Nat /\ Len(sizes) \in Nat
  BY <1>1 DEF HistoryOK
<1> QED BY <1>1, <1>2, <1>3, <1>4 DEF Streams

\* send puts its packet behind the others.
LEMMA userSendKeeps ==
    ASSUME DataInv, NEW size \in Sizes, userSend(size)
    PROVE  DataInv'
<1> DEFINE p == [id |-> Len(sizes) + 1, left |-> size]
           list == Append(ds.mSendList, p)
           d == [ds EXCEPT !.mSendList = list]
           c == Len(completed)
<1>0. SocketOK(ds) /\ NetOK(net) /\ OthersOK /\ HistoryOK /\ Streams
  BY DataInvParts
<1>1. /\ ds.mSendList \in Seq(Packets) /\ sizes \in Seq(Nat) /\ wire \in Seq(Bytes)
      /\ c \in Nat /\ Len(sizes) \in Nat
      /\ Queued(ds.mSendList, sizes, c) /\ Written(ds.mSendList, sizes, c, wire)
  BY StreamFacts
<1>2. size \in Nat /\ Len(sizes) < MaxSends /\ MaxSends \in Nat
  BY SizesAre, DataSocketAssumption DEF userSend
<1>3. p \in Packets /\ p.id = Len(sizes) + 1 /\ p.left = size
  BY <1>1, <1>2 DEF Packets
<1>4. /\ sizes' = Append(sizes, size) /\ ds' = sendPacketInLoop(ds, p)
      /\ UNCHANGED <<life, copyAfter, timers, phase, calls, call, net, wire, completed>>
  BY DEF userSend
<1> HIDE DEF p
<1>5. list \in Seq(Packets)
  BY <1>1, <1>3
<1>6. sizes' \in Seq(Sizes) /\ Len(sizes') = Len(sizes) + 1 /\ Len(sizes') <= MaxSends
  BY <1>0, <1>1, <1>2, <1>4 DEF HistoryOK
<1>7. ds' = runAfterFlush(d)
  BY <1>4 DEF sendPacketInLoop
<1>8. Queued(list, sizes', c) /\ Written(list, sizes', c, wire)
  BY ONLY <1>1, <1>2, <1>3, <1>4, SendKeeps
<1> HIDE DEF list
<1>9. SocketOK(d) /\ d.mSendList = list
  BY <1>0, <1>5 DEF SocketOK, DataSockets
<1> HIDE DEF d
<1>10. SocketOK(ds') /\ ds'.mSendList = list
  BY <1>7, <1>9, runAfterFlushIs DEF Kept
<1>11. HistoryOK' /\ OthersOK' /\ NetOK(net')
  BY <1>0, <1>4, <1>6 DEF HistoryOK, OthersOK
<1>12. Streams'
  BY <1>0, <1>4, <1>6, <1>8, <1>10 DEF Streams
<1> QED BY <1>10, <1>11, <1>12, DataInvPartsPrime

\* A write of k bytes moves them from the list to the wire.
LEMMA writeSomeKeeps ==
    ASSUME DataInv, NEW k, writeSome(k)
    PROVE  DataInv'
<1> DEFINE list == ds.mSendList
           n == Finished(list, k)
           u == Unsent(list, k)
           t == Taken(list, k)
           c == Len(completed)
           ids == [i \in 1..n |-> list[i].id]
<1>0. SocketOK(ds) /\ NetOK(net) /\ OthersOK /\ HistoryOK /\ Streams
  BY DataInvParts
<1>1. /\ list \in Seq(Packets) /\ sizes \in Seq(Nat) /\ wire \in Seq(Bytes)
      /\ c \in Nat /\ Len(sizes) \in Nat /\ Len(sizes) <= MaxSends
      /\ Queued(list, sizes, c) /\ Written(list, sizes, c, wire)
  BY StreamFacts
<1>2. /\ list # <<>> /\ k \in 1..ReadySendLen
      /\ wire' = wire \o t /\ completed' = completed \o ids
      /\ ds' = [ds EXCEPT !.mSendList = Unsent(@, k)]
      /\ call' = IF k = ReadySendLen THEN "sent" ELSE IF n > 0 THEN "partial" ELSE "stuck"
      /\ \E room \in BOOLEAN : net' = [net EXCEPT !.space = room]
      /\ UNCHANGED <<life, copyAfter, timers, phase, calls, sizes>>
  BY DEF writeSome
<1>3. k \in Nat /\ k <= SumLeft(list, Len(list))
  <2>1. Counted(list, Len(list)) /\ Len(list) \in 0..Len(list)
    BY <1>1, ListIsCounted
  <2>2. ReadySendLen \in Nat /\ ReadySendLen <= SumLeft(list, Len(list))
    BY <2>1, BatchIs DEF ReadySendLen
  <2>3. SumLeft(list, Len(list)) \in Nat
    BY <2>1, SumInNat
  <2> HIDE DEF list
  <2> QED BY <1>2, <2>2, <2>3
<1>4. /\ t \in Seq((1..Len(sizes)) \X Nat) /\ Len(t) = k
      /\ \A b \in 1..k : t[b] = StreamOf(sizes, Len(sizes))[Len(wire) + b]
  BY ONLY <1>1, <1>3, TakenIs
<1>5. t \in Seq((1..MaxSends) \X Nat)
  <2> DEFINE A == (1..Len(sizes)) \X Nat
             B == (1..MaxSends) \X Nat
  <2>1. A \subseteq B
    BY <1>1, DataSocketAssumption
  <2>2. t \in [1..k -> A] /\ k \in Nat
    BY <1>3, <1>4
  <2> HIDE DEF A, B, t
  <2>3. t \in [1..k -> B]
    BY <2>1, <2>2
  <2>4. t \in Seq(B)
    BY <2>2, <2>3
  <2> QED BY <2>4 DEF B
<1>6. n \in 0..Len(list) /\ u \in Seq(Packets)
  BY ONLY <1>1, <1>3, UnsentIs
<1>7. Queued(u, sizes, c + n) /\ Written(u, sizes, c + n, wire \o t)
  <2>1. t \in Seq(Bytes)
    BY <1>5, WireSeq
  <2> HIDE DEF t, u, n
  <2> QED BY ONLY <1>1, <1>2, <1>3, <1>4, <2>1, WriteKeeps DEF t, u, n
<1>8. /\ ids \in Seq(1..MaxSends) /\ Len(ids) = n
      /\ \A i \in 1..n : ids[i] = c + i
  <2>1. Len(list) \in Nat /\ n \in Nat /\ c + Len(list) = Len(sizes)
    BY <1>1, <1>6 DEF Queued
  <2> HIDE DEF n
  <2>2. ASSUME NEW i \in 1..n PROVE list[i].id = c + i /\ c + i \in 1..MaxSends
    <3>1. i \in 1..Len(list)
      BY <1>6, <2>1
    <3>2. list[i].id = c + i
      BY <1>1, <3>1 DEF Queued
    <3> QED BY SMTT(40), <1>1, <2>1, <3>1, <3>2, DataSocketAssumption
  <2>3. ids \in [1..n -> 1..MaxSends]
    BY <2>2
  <2>4. \A i \in 1..n : ids[i] = c + i
    BY <2>2
  <2>5. Len(ids) = n /\ ids \in Seq(1..MaxSends)
    <3> HIDE DEF ids
    <3>1. ASSUME NEW S, NEW q, q \in [1..n -> S] PROVE Len(q) = n /\ q \in Seq(S)
      BY <2>1, <3>1
    <3> QED BY ONLY <2>3, <3>1
  <2> QED BY ONLY <2>4, <2>5
<1> HIDE DEF list, n, u, t, ids
<1>9. /\ completed' \in Seq(1..MaxSends) /\ Len(completed') = c + n
      /\ \A i \in 1..Len(completed') : completed'[i] = i
  <2>1. completed \in Seq(1..MaxSends) /\ n \in Nat /\ \A i \in 1..c : completed[i] = i
    BY <1>0, <1>6 DEF HistoryOK, Streams
  <2>2. /\ completed \o ids \in Seq(1..MaxSends) /\ Len(completed \o ids) = c + n
        /\ \A i \in 1..(c + n) : (completed \o ids)[i] = IF i <= c THEN completed[i] ELSE ids[i - c]
    BY <1>8, <2>1, ConcatProperties
  <2>3. ASSUME NEW i \in 1..(c + n) PROVE (completed \o ids)[i] = i
    <3>1. i <= c => i \in 1..c
      BY <1>1
    <3>2. ~ (i <= c) => i - c \in 1..n /\ c + (i - c) = i
      BY <1>1, <2>1
    <3> QED BY <1>8, <2>1, <2>2, <3>1, <3>2
  <2> QED BY <1>2, <2>2, <2>3
<1>10. wire' \in Seq((1..MaxSends) \X Nat)
  BY <1>0, <1>2, <1>5 DEF HistoryOK
<1>11. ds' = [ds EXCEPT !.mSendList = u]
  BY <1>2 DEF u, list
<1>12. SocketOK(ds') /\ ds'.mSendList = u
  BY <1>0, <1>6, <1>11 DEF SocketOK, DataSockets
<1>13. NetOK(net')
  BY <1>0, <1>2 DEF NetOK, Nets
<1>14. OthersOK' /\ HistoryOK'
  BY <1>0, <1>2, <1>9, <1>10 DEF OthersOK, HistoryOK
<1>15. Streams'
  BY <1>1, <1>2, <1>7, <1>9, <1>12 DEF Streams
<1> QED BY <1>12, <1>13, <1>14, <1>15, DataInvPartsPrime

\* Every step keeps DataInv.
LEMMA DataInvNext ==
    ASSUME DataInv, [Next]_vars
    PROVE  DataInv'
<1>1. ASSUME Quiet PROVE DataInv'
  BY <1>1, QuietSteps
<1>2. CASE User
  <2>1. CASE \E size \in Sizes : userSend(size)
    BY <2>1, userSendKeeps
  <2>2. CASE userClose \/ \E on \in BOOLEAN : setCheckTime(on)
    BY <1>1, <2>2, UserQuiet
  <2> QED BY <1>2, <2>1, <2>2 DEF User
<1>3. CASE Kernel
  BY <1>1, <1>3, KernelQuiet
<1>4. CASE Write
  <2>1. CASE \E k \in 1..ReadySendLen : writeSome(k)
    BY <2>1, writeSomeKeeps
  <2>2. CASE flushMore \/ flushPartial \/ writeBlocked \/ writeError \/ writeNothing
    BY <1>1, <2>2, FlushQuiet
  <2> QED BY <1>4, <2>1, <2>2 DEF Write
<1>5. CASE epollWait \/ Dispatch
  BY <1>1, <1>5, DispatchQuiet
<1>6. CASE Recv
  BY <1>1, <1>6, RecvQuiet
<1>7. CASE onEnterEventLoop \/ asyncEnd
  BY <1>1, <1>7, EnterQuiet
<1>8. CASE After
  BY <1>1, <1>8, AfterQuiet
<1>9. CASE Timers
  BY <1>1, <1>9, TimersQuiet
<1>10. CASE UNCHANGED vars
  BY <1>10, DataInvParts, DataInvPartsPrime
  DEF vars, history, SocketOK, NetOK, OthersOK, HistoryOK, Streams
<1> QED BY <1>2, <1>3, <1>4, <1>5, <1>6, <1>7, <1>8, <1>9, <1>10 DEF Next, Loop

\* DataInv holds at all times.
LEMMA DataAlways == Spec => []DataInv
<1>1. Init => DataInv
  BY DataInvInit
<1>2. DataInv /\ [Next]_vars => DataInv'
  BY DataInvNext
<1> QED BY <1>1, <1>2, PTL DEF Spec

(***************************************************************************)
(* DataSocket keeps its types, for any sizes of packets and buffers: the   *)
(* receive buffer never outgrows mMaxRecvBufferSize or its first size      *)
(* (growRecvBuffer), what is left of a packet is never negative, and a     *)
(* write never reaches in front of a packet (data + size - left).          *)
(***************************************************************************)
THEOREM TypeCorrect == Spec => []TypeOK
<1>1. DataInv => TypeOK
  BY DEF DataInv
<1> QED BY <1>1, DataAlways, PTL

(***************************************************************************)
(* However many packets of whatever sizes are sent, and however writev and *)
(* SSL_write cut them: the kernel has a prefix of the byte stream of the   *)
(* sends, the complete callbacks came in order and after the last byte,    *)
(* and mSendList holds what is not complete.                               *)
(***************************************************************************)
THEOREM StreamsIntact == Spec => []StreamIntact
<1>1. ASSUME DataInv PROVE StreamIntact
  <2> DEFINE c == Len(completed)
             list == ds.mSendList
             all == StreamOf(sizes, Len(sizes))
  <2>1. /\ list \in Seq(Packets) /\ sizes \in Seq(Nat) /\ wire \in Seq(Bytes)
        /\ c \in Nat /\ Len(sizes) \in Nat
        /\ Queued(list, sizes, c) /\ Written(list, sizes, c, wire)
    BY <1>1, StreamFacts
  <2>2. HistoryOK /\ Streams
    BY <1>1, DataInvParts
  <2>3. /\ all \in Seq(Bytes) /\ Len(wire) <= Len(all) /\ Len(StreamOf(sizes, c)) <= Len(wire)
    BY ONLY <2>1, WireFits
  <2>4. wire = SubSeq(all, 1, Len(wire))
    <3>1. \A b \in 1..Len(wire) : wire[b] = all[b]
      BY <2>1 DEF Written
    <3> HIDE DEF all
    <3> DEFINE n == Len(wire)
    <3>2. n \in Nat /\ Len(all) \in Nat /\ n <= Len(all) /\ wire = [b \in 1..n |-> wire[b]]
      BY <2>1, <2>3
    <3>3. SubSeq(all, 1, n) \in Seq(Bytes) /\ Len(SubSeq(all, 1, n)) = n
          /\ \A b \in 1..n : SubSeq(all, 1, n)[b] = all[b]
      BY <2>3, <3>2
    <3> QED BY <2>1, <3>1, <3>2, <3>3
  <2>5. completed = [i \in 1..c |-> i]
    BY <2>2 DEF HistoryOK, Streams
  <2>6. Len(list) = Len(sizes) - c /\ \A i \in 1..Len(list) : list[i].id = c + i
    BY <2>1 DEF Queued
  <2>7. [i \in 1..Len(list) |-> list[i].id] = [i \in 1..(Len(sizes) - c) |-> c + i]
    BY <2>6
  <2> QED BY <2>3, <2>4, <2>5, <2>7 DEF StreamIntact
<1> QED BY <1>1, DataAlways, PTL
-----------------------------------------------------------------------------
(* The life of the socket. *)

\* The part of DisconnectLast about the members d and the swapped vector q.
ClosesLast(d, q) ==
    /\ d.mIsPostFinalClose => ~ d.mFD
    /\ \A i \in 1..Len(d.after) :
          d.after[i] = "disconnect" => i = Len(d.after) /\ d.mIsPostFinalClose
    /\ \A i \in 1..Len(q) :
          q[i] = "disconnect" => i = Len(q) /\ d.after = <<>> /\ d.mIsPostFinalClose

\* What a step may do to the procs: nothing, post one for an open socket, or
\* close the socket and post the disconnect.
Steps(d, e) ==
    \/ e.mFD = d.mFD /\ e.mIsPostFinalClose = d.mIsPostFinalClose /\ e.after = d.after
    \/ /\ d.mFD /\ e.mFD = d.mFD /\ e.mIsPostFinalClose = d.mIsPostFinalClose
       /\ \E p \in {"flush", "shutdown"} : e.after = Append(d.after, p)
    \/ /\ ~ d.mIsPostFinalClose /\ ~ e.mFD /\ e.mIsPostFinalClose
       /\ e.after = Append(d.after, "disconnect")

\* Posting as the member functions do keeps the disconnect last.
LEMMA StepsKeepLast ==
    ASSUME NEW d, NEW e, NEW q, SocketOK(d), SocketOK(e), Steps(d, e), ClosesLast(d, q)
    PROVE  ClosesLast(e, q)
<1>1. CASE e.mFD = d.mFD /\ e.mIsPostFinalClose = d.mIsPostFinalClose /\ e.after = d.after
  BY <1>1 DEF ClosesLast
<1>2. ASSUME NEW p \in AfterProcs, ~ d.mIsPostFinalClose, e.after = Append(d.after, p),
             p = "disconnect" => e.mIsPostFinalClose, e.mIsPostFinalClose => ~ e.mFD
      PROVE  ClosesLast(e, q)
  <2>1. /\ \A i \in 1..Len(d.after) : d.after[i] # "disconnect"
        /\ \A i \in 1..Len(q) : q[i] # "disconnect"
    BY <1>2 DEF ClosesLast
  <2>2. /\ Len(d.after) \in Nat /\ Len(e.after) = Len(d.after) + 1
        /\ e.after[Len(d.after) + 1] = p
        /\ \A i \in 1..Len(d.after) : e.after[i] = d.after[i]
    BY <1>2, Posts
  <2>3. ASSUME NEW i \in 1..Len(e.after), e.after[i] = "disconnect"
        PROVE  i = Len(e.after) /\ e.mIsPostFinalClose
    <3>1. i \in 1..Len(d.after) \/ i = Len(d.after) + 1
      BY <2>2
    <3>2. i \notin 1..Len(d.after)
      BY <2>1, <2>2, <2>3
    <3> QED BY <1>2, <2>2, <2>3, <3>1, <3>2
  <2> QED BY <1>2, <2>1, <2>3 DEF ClosesLast
<1>3. CASE /\ d.mFD /\ e.mFD = d.mFD /\ e.mIsPostFinalClose = d.mIsPostFinalClose
           /\ \E p \in {"flush", "shutdown"} : e.after = Append(d.after, p)
  <2>1. ~ d.mIsPostFinalClose /\ ~ e.mIsPostFinalClose
    BY <1>3 DEF ClosesLast
  <2> QED BY <1>2, <1>3, <2>1 DEF AfterProcs
<1>4. CASE /\ ~ d.mIsPostFinalClose /\ ~ e.mFD /\ e.mIsPostFinalClose
           /\ e.after = Append(d.after, "disconnect")
  BY <1>2, <1>4 DEF AfterProcs
<1> QED BY <1>1, <1>3, <1>4 DEF Steps

\* Only a socket in the loop is called.
LEMMA Alive ==
    ASSUME DataInv, LifeInv,
           \/ calls # <<>> \/ call # "none" \/ copyAfter # <<>> \/ Reachable
           \/ \E i \in 1..MaxTimers : timers[i] = "active"
    PROVE  life = "entered"
<1>1. life \in {"queued", "entered", "deleted"}
  BY DataInvParts DEF OthersOK
<1>2. CASE life = "queued"
  <2>1. \A i \in 1..MaxTimers : timers[i] # "active"
    BY <1>2, DataSocketAssumption DEF LifeInv, OneTimer, NotEntered
  <2> QED BY <1>2, <2>1 DEF LifeInv, NotEntered, Reachable
<1>3. CASE life = "deleted"
  BY <1>3 DEF LifeInv, NoUseAfterDelete, Reachable
<1> QED BY <1>1, <1>2, <1>3

\* A step of a socket that is in the loop and stays there.
LEMMA BusySteps ==
    ASSUME DataInv, LifeInv, SocketOK(ds'), life = "entered", life' = "entered",
           Steps(ds, ds'), copyAfter' = copyAfter, LoopState', OneTimer'
    PROVE  LifeInv'
<1>1. SocketOK(ds) /\ ClosesLast(ds, copyAfter)
  BY DataInvParts DEF LifeInv, DisconnectLast, ClosesLast
<1>2. ClosesLast(ds', copyAfter)
  BY <1>1, StepsKeepLast
<1>3. ~ ds'.mFD => ds'.mIsPostFinalClose
  <2>1. ~ ds.mFD => ds.mIsPostFinalClose
    BY DEF LifeInv, DisconnectLast
  <2> QED BY <2>1 DEF Steps
<1>4. DisconnectLast'
  BY <1>2, <1>3 DEF DisconnectLast, ClosesLast
<1> QED BY <1>4 DEF LifeInv, NotEntered, NoUseAfterDelete

\* Steps that touch no timer keep OneTimer.
LEMMA SameTimers ==
    ASSUME OneTimer, ds'.mTimer = ds.mTimer, timers' = timers
    PROVE  OneTimer'
  BY DEF OneTimer

\* The kernel's and the peer's steps keep LifeInv.
LEMMA LifeKernel ==
    ASSUME DataInv, LifeInv, Kernel
    PROVE  LifeInv'
<1>1. UNCHANGED <<ds, life, copyAfter, timers, phase, calls, call>>
  BY DEF Kernel, peerSends, peerCloses, drain
<1>2. life = "queued" => ~ net'.onList
  <2>1. net \in Nets
    BY DataInvParts DEF NetOK
  <2> QED BY <2>1 DEF Kernel, peerSends, peerCloses, drain, Linked, Nets, LifeInv, NotEntered
<1> QED BY <1>1, <1>2
        DEF LifeInv, LoopState, DisconnectLast, NotEntered, OneTimer, NoUseAfterDelete

\* Calls of user code keep LifeInv.
LEMMA LifeUser ==
    ASSUME DataInv, DataInv', LifeInv, User
    PROVE  LifeInv'
<1>0. SocketOK(ds) /\ SocketOK(ds') /\ OneTimer /\ LoopState
  BY DataInvParts, DataInvPartsPrime DEF LifeInv
<1>1. Reachable /\ UNCHANGED <<life, copyAfter, phase, calls, call>>
  BY DEF User, userSend, userClose, setCheckTime, InUserCode
<1>2. life = "entered" /\ life' = "entered" /\ LoopState'
  BY <1>0, <1>1, Alive DEF LoopState
<1>3. ASSUME NEW size \in Sizes, userSend(size) PROVE Steps(ds, ds') /\ OneTimer'
  <2> DEFINE d == [ds EXCEPT !.mSendList = Append(@, [id |-> Len(sizes) + 1, left |-> size])]
  <2>1. ds' = runAfterFlush(d) /\ timers' = timers
    BY <1>3 DEF userSend, sendPacketInLoop
  <2>2. /\ d.mFD = ds.mFD /\ d.mIsPostFinalClose = ds.mIsPostFinalClose
        /\ d.after = ds.after /\ d.mTimer = ds.mTimer
    BY <1>0 DEF SocketOK, DataSockets
  <2> HIDE DEF d
  <2>3. SocketOK(d)
    <3>1. ds.mSendList \in Seq(Packets) /\ [id |-> Len(sizes) + 1, left |-> size] \in Packets
      <4>1. Len(sizes) \in Nat /\ Len(sizes) < MaxSends /\ MaxSends \in Nat /\ size \in Nat
        BY <1>3, StreamFacts, SizesAre, DataSocketAssumption DEF userSend
      <4> QED BY <4>1, StreamFacts DEF Packets
    <3> DEFINE list == Append(ds.mSendList, [id |-> Len(sizes) + 1, left |-> size])
    <3>2. list \in Seq(Packets) /\ d = [ds EXCEPT !.mSendList = list]
      BY <3>1 DEF d
    <3> HIDE DEF list
    <3> QED BY <1>0, <3>2 DEF SocketOK, DataSockets
  <2>4. /\ ds'.mFD = d.mFD /\ ds'.mIsPostFinalClose = d.mIsPostFinalClose /\ Kept(d, ds')
        /\ ds' = d \/ (d.mFD /\ ds'.after = Append(d.after, "flush"))
    BY <2>1, <2>3, runAfterFlushIs
  <2>5. Steps(ds, ds')
    BY <2>2, <2>4 DEF Steps
  <2>6. ds'.mTimer = ds.mTimer
    BY <2>2, <2>4 DEF Kept
  <2> QED BY <1>0, <2>1, <2>5, <2>6, SameTimers
<1>4. ASSUME userClose PROVE Steps(ds, ds') /\ OneTimer'
  <2>1. timers' = timers /\ (ds' = procCloseInLoop(ds) \/ ds' = postShutdown(ds))
    BY <1>4 DEF userClose
  <2>2. CASE ds' = procCloseInLoop(ds)
    BY <1>0, <2>1, <2>2, procCloseIs, SameTimers DEF Steps, Kept
  <2>3. CASE ds' = postShutdown(ds)
    BY <1>0, <2>1, <2>3, postShutdownIs, SameTimers DEF Steps, Kept
  <2> QED BY <2>1, <2>2, <2>3
<1>5. ASSUME NEW on \in BOOLEAN, setCheckTime(on) PROVE Steps(ds, ds') /\ OneTimer'
  <2> DEFINE d == [ds EXCEPT !.mCheckTime = on]
  <2>1. /\ SocketOK(d) /\ d.mFD = ds.mFD /\ d.mIsPostFinalClose = ds.mIsPostFinalClose
        /\ d.after = ds.after /\ d.mTimer = ds.mTimer
    BY <1>0 DEF SocketOK, DataSockets
  <2>2. timers \in Heaps
    BY DataInvParts DEF OthersOK
  <2>3. CASE on
    <3>1. startPingCheckTimer(d, timers)
      BY <1>5, <2>3 DEF setCheckTime
    <3> HIDE DEF d
    <3>2. \/ ds' = d /\ timers' = timers
          \/ /\ ~ Locked(d)
             /\ \E i \in 1..MaxTimers : /\ ds' = [d EXCEPT !.mTimer = i]
                                        /\ timers' = [timers EXCEPT ![i] = "active"]
      BY <2>1, <2>2, <3>1, startPingIs
    <3>3. CASE ds' = d /\ timers' = timers
      BY <1>0, <2>1, <3>3, SameTimers DEF Steps
    <3>4. ASSUME ~ Locked(d), NEW i \in 1..MaxTimers, ds' = [d EXCEPT !.mTimer = i],
                 timers' = [timers EXCEPT ![i] = "active"]
          PROVE  Steps(ds, ds') /\ OneTimer'
      <4>1. ds'.mFD = d.mFD /\ ds'.mIsPostFinalClose = d.mIsPostFinalClose
            /\ ds'.after = d.after /\ ds'.mTimer = i
        BY <2>1, <3>4 DEF SocketOK, DataSockets
      <4>2. \A j \in 1..MaxTimers : timers[j] # "active"
        <5>1. ASSUME NEW j \in 1..MaxTimers, timers[j] = "active" PROVE FALSE
          <6>1. j = ds.mTimer /\ j # 0
            BY <1>0, <5>1 DEF OneTimer
          <6> QED BY <2>1, <3>4, <5>1, <6>1 DEF Locked
        <5> QED BY <5>1
      <4>3. OneTimer'
        BY <2>2, <3>4, <4>1, <4>2 DEF OneTimer, Heaps
      <4> QED BY <2>1, <4>1, <4>3 DEF Steps
    <3> QED BY <3>2, <3>3, <3>4
  <2>4. CASE ~ on
    <3>1. cancelTimer(ds) /\ ds' = d
      BY <1>5, <2>4 DEF setCheckTime
    <3> HIDE DEF d
    <3>2. OneTimer'
      BY <1>0, <2>1, <2>2, <3>1 DEF cancelTimer, OneTimer, Heaps
    <3> QED BY <2>1, <3>1, <3>2 DEF Steps
  <2> QED BY <2>3, <2>4
<1>6. Steps(ds, ds') /\ OneTimer'
  BY <1>3, <1>4, <1>5 DEF User
<1> QED BY <1>0, <1>1, <1>2, <1>6, BusySteps

\* epoll_wait and the dispatch keep LifeInv.
LEMMA LifeDispatch ==
    ASSUME DataInv, DataInv', LifeInv, epollWait \/ Dispatch
    PROVE  LifeInv'
<1>0. SocketOK(ds) /\ SocketOK(ds') /\ NetOK(net) /\ OthersOK /\ OneTimer /\ LoopState
  BY DataInvParts, DataInvPartsPrime DEF LifeInv
<1>1. CASE epollWait
  <2>1. /\ UNCHANGED <<ds, life, copyAfter, timers, call>> /\ phase = "wait" /\ phase' = "dispatch"
        /\ ~ net'.onList /\ (~ net.onList \/ ~ ds.mFD => calls' = <<>>)
    BY <1>0, <1>1 DEF epollWait, NetOK, Nets
  <2>2. LoopState'
    BY <1>0, <2>1 DEF LoopState
  <2>3. NotEntered' /\ NoUseAfterDelete' /\ DisconnectLast' /\ OneTimer'
    BY <2>1 DEF LifeInv, NotEntered, NoUseAfterDelete, DisconnectLast, OneTimer
  <2> QED BY <2>2, <2>3 DEF LifeInv
<1>2. CASE dispatchEnd
  <2>1. UNCHANGED <<ds, life, copyAfter, timers, calls, call, net>> /\ call = "none" /\ calls = <<>>
        /\ phase = "dispatch"
    BY <1>2 DEF dispatchEnd, Idle
  <2>2. LoopState'
    BY <1>0, <2>1 DEF LoopState, Writes
  <2>3. NotEntered' /\ NoUseAfterDelete' /\ DisconnectLast' /\ OneTimer'
    BY <2>1 DEF LifeInv, NotEntered, NoUseAfterDelete, DisconnectLast, OneTimer
  <2> QED BY <2>2, <2>3 DEF LifeInv
<1>3. ASSUME NEW c, Calling(c), UNCHANGED <<life, copyAfter, timers, phase>>,
             call' \in {"none", "recv"}, Steps(ds, ds'), ds'.mTimer = ds.mTimer
      PROVE  LifeInv'
  <2>1. calls # <<>> /\ phase = "dispatch"
    BY <1>3 DEF Calling
  <2>2. life = "entered"
    BY <2>1, Alive
  <2>3. LoopState'
    BY <1>0, <1>3, <2>1 DEF LoopState, Writes
  <2> QED BY <1>0, <1>3, <2>2, <2>3, SameTimers, BusySteps
<1>4. ASSUME NEW d, NEW n, SocketOK(d), NetOK(n), processSSLHandshake(d, n), d.mFD = ds.mFD,
             d.mIsPostFinalClose = ds.mIsPostFinalClose, d.after = ds.after, d.mTimer = ds.mTimer
      PROVE  Steps(ds, ds') /\ ds'.mTimer = ds.mTimer
  BY <1>4, handshakeIs DEF Steps
<1>5. CASE canRecv
  <2>1. Calling("canRecv") /\ UNCHANGED <<life, copyAfter, timers, phase>> /\ call = "none"
    BY <1>5 DEF canRecv, Calling
  <2>2. call' \in {"none", "recv"} /\ Steps(ds, ds') /\ ds'.mTimer = ds.mTimer
    <3>1. CASE Handshaking(ds)
      <4>1. processSSLHandshake(ds, net) /\ UNCHANGED call
        BY <1>5, <3>1 DEF canRecv
      <4> QED BY <1>0, <1>4, <2>1, <4>1
    <3>2. CASE ~ Handshaking(ds)
      BY <1>5, <3>2 DEF canRecv, Steps
    <3> QED BY <3>1, <3>2
  <2> QED BY <1>3, <2>1, <2>2
<1>6. CASE canSend
  <2> DEFINE d == [ds EXCEPT !.mCanWrite = TRUE]
  <2>1. Calling("canSend") /\ UNCHANGED <<life, copyAfter, timers, phase, call>> /\ call = "none"
    BY <1>6 DEF canSend, Calling
  <2>2. /\ SocketOK(d) /\ d.mFD = ds.mFD /\ d.mIsPostFinalClose = ds.mIsPostFinalClose
        /\ d.after = ds.after /\ d.mTimer = ds.mTimer
    BY <1>0 DEF SocketOK, DataSockets
  <2>3. Steps(ds, ds') /\ ds'.mTimer = ds.mTimer
    <3>1. CASE Handshaking(ds)
      <4>1. processSSLHandshake(d, removeCheckWrite) /\ NetOK(removeCheckWrite)
        BY <1>0, <1>6, <3>1, removeCheckWriteIs DEF canSend
      <4> HIDE DEF d
      <4> QED BY <1>4, <2>2, <4>1
    <3>2. CASE ~ Handshaking(ds)
      <4>1. ds' = runAfterFlush(d)
        BY <1>6, <3>2 DEF canSend
      <4> HIDE DEF d
      <4>2. /\ Kept(d, ds') /\ ds'.mFD = d.mFD /\ ds'.mIsPostFinalClose = d.mIsPostFinalClose
            /\ ds' = d \/ (d.mFD /\ ds'.after = Append(d.after, "flush"))
        BY <2>2, <4>1, runAfterFlushIs
      <4> QED BY <2>2, <4>2 DEF Steps, Kept
    <3> QED BY <3>1, <3>2
  <2> HIDE DEF d
  <2> QED BY <1>3, <2>1, <2>3
<1>7. CASE channelClose
  <2>1. /\ Calling("onClose") /\ UNCHANGED <<life, copyAfter, timers, phase, call>>
        /\ call = "none" /\ ds' = onClose(ds)
    BY <1>7 DEF channelClose, Calling
  <2>2. Steps(ds, ds') /\ ds'.mTimer = ds.mTimer
    BY <1>0, <2>1, onCloseIs DEF Steps, Kept
  <2> QED BY <1>3, <2>1, <2>2
<1> QED BY <1>1, <1>2, <1>5, <1>6, <1>7 DEF Dispatch

\* recv and flush keep LifeInv.
LEMMA LifeRecvWrite ==
    ASSUME DataInv, DataInv', LifeInv, Recv \/ Write
    PROVE  LifeInv'
<1>0. SocketOK(ds) /\ SocketOK(ds') /\ NetOK(net) /\ OthersOK /\ OneTimer /\ LoopState
  BY DataInvParts, DataInvPartsPrime DEF LifeInv
<1>1. UNCHANGED <<life, copyAfter, timers, phase, calls>> /\ call # "none"
      /\ (call = "recv" => call' \in {"none", "recv"})
      /\ (call # "recv" => call \in Writes /\ call' \in Writes \cup {"none"})
  BY DEF Recv, Write, recvSome, recvReturn, recvClose, writeSome, flushMore, flushPartial,
         writeBlocked, writeError, writeNothing, Writes
<1>2. life = "entered" /\ LoopState'
  BY <1>0, <1>1, Alive DEF LoopState, Writes
<1>3. Steps(ds, ds') /\ ds'.mTimer = ds.mTimer
  <2>1. ASSUME NEW n, NEW m, recvSome(n, m) PROVE Steps(ds, ds') /\ ds'.mTimer = ds.mTimer
    <3>1. ds \in DataSockets
      BY <1>0 DEF SocketOK
    <3> DEFINE size == growRecvBuffer(ds, ds.recvLen + n)
    <3>2. ds' = [ds EXCEPT !.recvSize = size, !.recvLen = @ + n - m, !.mRecvData = TRUE]
      BY <2>1 DEF recvSome
    <3> HIDE DEF size
    <3> QED BY <3>1, <3>2 DEF DataSockets, Steps
  <2>2. ASSUME NEW k, writeSome(k) PROVE Steps(ds, ds') /\ ds'.mTimer = ds.mTimer
    BY <1>0, <2>2 DEF writeSome, SocketOK, DataSockets, Steps
  <2>3. CASE recvReturn \/ flushMore \/ writeNothing
    BY <2>3 DEF recvReturn, flushMore, writeNothing, Steps
  <2>4. CASE recvClose \/ writeError
    <3>1. ds' = procCloseInLoop(ds)
      BY <2>4 DEF recvClose, writeError
    <3> QED BY <1>0, <3>1, procCloseIs DEF Steps, Kept
  <2>5. CASE flushPartial \/ writeBlocked
    <3>1. checkWrite
      BY <2>5 DEF flushPartial, writeBlocked
    <3> QED BY <1>0, <3>1, checkWriteIs DEF Steps, Kept
  <2> QED BY <2>1, <2>2, <2>3, <2>4, <2>5 DEF Recv, Write
<1> QED BY <1>0, <1>1, <1>2, <1>3, SameTimers, BusySteps

\* The procs other threads posted keep LifeInv.
LEMMA LifeEnter ==
    ASSUME DataInv, DataInv', LifeInv, onEnterEventLoop \/ asyncEnd
    PROVE  LifeInv'
<1>0. SocketOK(ds) /\ SocketOK(ds') /\ NetOK(net) /\ OthersOK /\ OneTimer /\ LoopState
  BY DataInvParts, DataInvPartsPrime DEF LifeInv
<1>1. CASE onEnterEventLoop
  <2>1. UNCHANGED <<copyAfter, timers, phase, calls, call>> /\ life = "queued"
    BY <1>1 DEF onEnterEventLoop
  <2>2. /\ ds.mFD /\ ~ ds.mIsPostFinalClose /\ ds.after = <<>> /\ copyAfter = <<>>
        /\ calls = <<>> /\ call = "none" /\ ds.mTimer = 0
    BY <2>1 DEF LifeInv, NotEntered
  <2>3. LoopState' /\ \A i \in 1..MaxTimers : timers'[i] # "active"
    BY <1>0, <2>1, <2>2, DataSocketAssumption DEF LoopState, OneTimer
  <2>4. OneTimer'
    BY <2>3 DEF OneTimer
  <2>5. ClosesLast(ds, copyAfter)
    BY DEF LifeInv, DisconnectLast, ClosesLast
  <2>6. CASE /\ life' = "entered"
             /\ \/ processSSLHandshake(ds, EpollCtl(net))
                \/ ds' = entered(ds) /\ net' = EpollCtl(net)
    <3>1. NetOK(EpollCtl(net))
      BY <1>0, EpollCtlIs
    <3>2. Steps(ds, ds')
      BY <1>0, <2>6, <3>1, handshakeIs, enteredIs DEF Steps
    <3>3. ClosesLast(ds', copyAfter)
      BY <1>0, <2>5, <3>2, StepsKeepLast
    <3>4. ~ ds'.mFD => ds'.mIsPostFinalClose
      BY <2>2, <3>2 DEF Steps
    <3>5. DisconnectLast'
      BY <2>1, <3>3, <3>4 DEF DisconnectLast, ClosesLast
    <3> QED BY <2>3, <2>4, <2>6, <3>5 DEF LifeInv, NotEntered, NoUseAfterDelete
  <2>7. CASE life' = "deleted" /\ ds' = closeSocket(ds)
    <3>1. /\ ~ ds'.mFD /\ ds'.after = <<>> /\ ds'.mIsPostFinalClose = ds.mIsPostFinalClose
      BY <1>0, <2>2, <2>7, closeSocketIs
    <3>2. DisconnectLast'
      BY <2>1, <2>2, <2>7, <3>1 DEF DisconnectLast
    <3>3. NoUseAfterDelete'
      BY <2>1, <2>2, <2>3, <3>1 DEF NoUseAfterDelete
    <3> QED BY <2>3, <2>4, <2>7, <3>2, <3>3 DEF LifeInv, NotEntered
  <2> QED BY <1>1, <2>6, <2>7 DEF onEnterEventLoop
<1>2. CASE asyncEnd
  <2>1. /\ phase = "async" /\ phase' = "after" /\ copyAfter' = ds.after
        /\ UNCHANGED <<life, timers, calls, call, net>>
    BY <1>2 DEF asyncEnd
  <2>2. /\ ds'.after = <<>> /\ ds'.mFD = ds.mFD /\ ds'.mIsPostFinalClose = ds.mIsPostFinalClose
        /\ ds'.mTimer = ds.mTimer /\ ds'.mCanWrite = ds.mCanWrite /\ ds'.callbacks = ds.callbacks
    BY <1>0, <1>2 DEF asyncEnd, SocketOK, DataSockets
  <2>3. calls = <<>> /\ call = "none"
    BY <1>0, <2>1 DEF LoopState, Writes, OthersOK
  <2>4. LoopState'
    BY <2>1, <2>3 DEF LoopState, Writes
  <2>5. DisconnectLast'
    <3>1. Len(ds'.after) = 0
      BY <2>2
    <3> QED BY <2>1, <2>2, <3>1 DEF LifeInv, DisconnectLast
  <2>6. NotEntered' /\ NoUseAfterDelete' /\ OneTimer'
    BY <2>1, <2>2 DEF LifeInv, NotEntered, NoUseAfterDelete, OneTimer
  <2> QED BY <2>4, <2>5, <2>6 DEF LifeInv
<1> QED BY <1>1, <1>2

\* The after-loop procs keep LifeInv: the one that deletes is the last.
LEMMA LifeAfter ==
    ASSUME DataInv, DataInv', LifeInv, After
    PROVE  LifeInv'
<1>0. SocketOK(ds) /\ SocketOK(ds') /\ NetOK(net) /\ OthersOK /\ OneTimer /\ LoopState
  BY DataInvParts, DataInvPartsPrime DEF LifeInv
<1>1. CASE afterEnd
  <2>1. /\ UNCHANGED <<ds, life, copyAfter, timers, calls, call, net>> /\ call = "none"
        /\ copyAfter = <<>> /\ phase = "after"
    BY <1>1 DEF afterEnd
  <2>2. LoopState'
    BY <1>0, <2>1 DEF LoopState, Writes
  <2>3. NotEntered' /\ NoUseAfterDelete' /\ DisconnectLast' /\ OneTimer'
    BY <2>1 DEF LifeInv, NotEntered, NoUseAfterDelete, DisconnectLast, OneTimer
  <2> QED BY <2>2, <2>3 DEF LifeInv
<1>2. ASSUME NEW p, AfterProc(p)
      PROVE  /\ life = "entered" /\ calls = <<>> /\ ClosesLast(ds, copyAfter')
             /\ p = "disconnect" =>
                   copyAfter' = <<>> /\ ds.after = <<>> /\ ds.mIsPostFinalClose /\ ~ ds.mFD
  <2>1. /\ copyAfter' \in Seq(AfterProcs) /\ phase = "after"
        /\ copyAfter # <<>> /\ Len(copyAfter) \in Nat \ {0} /\ copyAfter[1] = p
        /\ Len(copyAfter') = Len(copyAfter) - 1
        /\ \A i \in 1..Len(copyAfter') : copyAfter'[i] = copyAfter[i + 1]
    BY <1>0, <1>2, AfterProcIs
  <2>2. life = "entered" /\ calls = <<>>
    BY <1>0, <2>1, Alive DEF LoopState
  <2>3. ClosesLast(ds, copyAfter)
    BY DEF LifeInv, DisconnectLast, ClosesLast
  <2>4. ASSUME NEW i \in 1..Len(copyAfter'), copyAfter'[i] = "disconnect"
        PROVE  i = Len(copyAfter') /\ ds.after = <<>> /\ ds.mIsPostFinalClose
    <3>1. i + 1 \in 1..Len(copyAfter)
      BY <2>1
    <3>2. copyAfter[i + 1] = "disconnect"
      BY <2>1, <2>4
    <3>3. i + 1 = Len(copyAfter) /\ ds.after = <<>> /\ ds.mIsPostFinalClose
      BY <2>3, <3>1, <3>2 DEF ClosesLast
    <3> QED BY <2>1, <3>3
  <2>5. ClosesLast(ds, copyAfter')
    BY <2>3, <2>4 DEF ClosesLast
  <2>6. ASSUME p = "disconnect"
        PROVE  copyAfter' = <<>> /\ ds.after = <<>> /\ ds.mIsPostFinalClose /\ ~ ds.mFD
    <3>1. 1 \in 1..Len(copyAfter)
      BY <2>1
    <3>2. Len(copyAfter) = 1 /\ ds.after = <<>> /\ ds.mIsPostFinalClose /\ ~ ds.mFD
      BY <2>1, <2>3, <2>6, <3>1 DEF ClosesLast
    <3>3. Len(copyAfter') = 0
      <4>1. Len(copyAfter') = Len(copyAfter) - 1
        BY <2>1
      <4> QED BY ONLY <3>2, <4>1
    <3> QED BY <2>1, <3>2, <3>3
  <2> QED BY <2>2, <2>5, <2>6
<1>3. ASSUME NEW p, AfterProc(p), UNCHANGED <<timers, phase, calls>>, life' = life,
             call' \in {"none", "flush"}, ds'.mTimer = ds.mTimer, ds'.mFD = ds.mFD,
             ds'.after = ds.after, ds'.mIsPostFinalClose = ds.mIsPostFinalClose
      PROVE  LifeInv'
  <2>1. life = "entered" /\ calls = <<>> /\ ClosesLast(ds, copyAfter') /\ phase = "after"
    BY <1>2, <1>3 DEF AfterProc
  <2>2. LoopState'
    BY <1>3, <2>1 DEF LoopState
  <2>3. ~ ds.mFD => ds.mIsPostFinalClose
    BY <2>1 DEF LifeInv, DisconnectLast
  <2>4. DisconnectLast'
    BY <1>3, <2>1, <2>3 DEF DisconnectLast, ClosesLast
  <2>5. OneTimer'
    BY <1>0, <1>3, SameTimers
  <2> QED BY <1>3, <2>1, <2>2, <2>4, <2>5 DEF LifeInv, NotEntered, NoUseAfterDelete
<1>4. CASE flush
  <2>1. /\ ds'.mTimer = ds.mTimer /\ ds'.mFD = ds.mFD
        /\ ds'.after = ds.after /\ ds'.mIsPostFinalClose = ds.mIsPostFinalClose
    BY <1>0, <1>4 DEF flush, SocketOK, DataSockets
  <2> QED BY <1>3, <1>4, <2>1 DEF flush
<1>5. CASE shutdownProc
  <2>1. /\ ds'.mTimer = ds.mTimer /\ ds'.mFD = ds.mFD
        /\ ds'.after = ds.after /\ ds'.mIsPostFinalClose = ds.mIsPostFinalClose
    BY <1>0, <1>5 DEF shutdownProc, procShutdownInLoop, SocketOK, DataSockets
  <2> QED BY <1>3, <1>5, <2>1 DEF shutdownProc, AfterProc
<1>6. CASE disconnectProc
  <2>1. /\ AfterProc("disconnect") /\ UNCHANGED <<ds, phase, calls, call>>
        /\ call = "none" /\ phase = "after"
    BY <1>6 DEF disconnectProc, AfterProc
  <2>2. CASE ds.callbacks
    <3>1. life' = "deleted" /\ cancelTimer(ds)
      BY <1>6, <2>2 DEF disconnectProc
    <3>2. /\ calls = <<>> /\ copyAfter' = <<>> /\ ds.after = <<>>
          /\ ds.mIsPostFinalClose /\ ~ ds.mFD /\ ClosesLast(ds, copyAfter')
      BY <1>2, <2>1
    <3>3. ASSUME NEW i \in 1..MaxTimers PROVE timers'[i] # "active"
      <4>1. timers \in Heaps
        BY <1>0 DEF OthersOK
      <4>2. timers[i] = "active" => i = ds.mTimer /\ i # 0
        BY <1>0 DEF OneTimer
      <4> QED BY <3>1, <4>1, <4>2 DEF cancelTimer, Locked, Heaps
    <3>4. LoopState' /\ OneTimer'
      BY <2>1, <3>2, <3>3 DEF LoopState, OneTimer
    <3>5. DisconnectLast'
      BY <2>1, <3>1, <3>2 DEF DisconnectLast, ClosesLast
    <3> QED BY <2>1, <3>1, <3>2, <3>3, <3>4, <3>5 DEF LifeInv, NotEntered, NoUseAfterDelete
  <2>3. CASE ~ ds.callbacks
    BY <1>3, <1>6, <2>1, <2>3 DEF disconnectProc
  <2> QED BY <2>2, <2>3
<1> QED BY <1>1, <1>4, <1>5, <1>6 DEF After

\* The timers keep LifeInv: one that fires is the socket's, which is not deleted.
LEMMA LifeTimers ==
    ASSUME DataInv, DataInv', LifeInv, Timers
    PROVE  LifeInv'
<1>0. SocketOK(ds) /\ SocketOK(ds') /\ NetOK(net) /\ OthersOK /\ OneTimer /\ LoopState
  BY DataInvParts, DataInvPartsPrime DEF LifeInv
<1>1. CASE loopEnd
  <2>1. /\ UNCHANGED <<ds, life, copyAfter, timers, calls, call, net>> /\ phase = "timers"
    BY <1>1 DEF loopEnd
  <2>2. LoopState'
    BY <1>0, <2>1 DEF LoopState, Writes
  <2>3. NotEntered' /\ NoUseAfterDelete' /\ DisconnectLast' /\ OneTimer'
    BY <2>1 DEF LifeInv, NotEntered, NoUseAfterDelete, DisconnectLast, OneTimer
  <2> QED BY <2>2, <2>3 DEF LifeInv
<1>2. ASSUME NEW i \in 1..MaxTimers, popCancelled(i) PROVE LifeInv'
  <2>1. /\ UNCHANGED <<ds, life, copyAfter, phase, calls, call, net>>
        /\ \A j \in 1..MaxTimers : timers'[j] = "active" => timers[j] = "active"
    BY <1>0, <1>2 DEF popCancelled, OthersOK, Heaps
  <2> QED BY <1>0, <2>1
          DEF LifeInv, LoopState, NotEntered, NoUseAfterDelete, DisconnectLast, OneTimer
<1>3. ASSUME NEW i \in 1..MaxTimers, PingCheck(i) PROVE LifeInv'
  <2> DEFINE heap == [timers EXCEPT ![i] = "gone"]
             d == [ds EXCEPT !.mRecvData = FALSE]
  <2>1. UNCHANGED <<life, copyAfter, phase, calls, call, net>> /\ timers[i] = "active"
    BY <1>3 DEF PingCheck
  <2>2. life = "entered" /\ LoopState'
    BY <1>0, <2>1, Alive DEF LoopState
  <2>3. i = ds.mTimer /\ i # 0
    BY <1>0, <2>1 DEF OneTimer
  <2>4. /\ heap \in Heaps
        /\ \A j \in 1..MaxTimers : heap[j] # "active"
    BY <1>0, <2>3 DEF OthersOK, Heaps, TimerStates, OneTimer
  <2>5. Steps(ds, ds') /\ timers' = heap
    <3>1. CASE ds.mRecvData
      <4>1. startPingCheckTimer(d, heap)
        BY <1>3, <3>1 DEF PingCheck
      <4>2. /\ SocketOK(d) /\ d.mTimer = ds.mTimer /\ d.mFD = ds.mFD /\ d.after = ds.after
            /\ d.mIsPostFinalClose = ds.mIsPostFinalClose
        BY <1>0 DEF SocketOK, DataSockets
      <4> HIDE DEF d, heap
      <4>3. Locked(d)
        BY <2>1, <2>3, <4>2 DEF Locked
      <4>4. ds' = d /\ timers' = heap
        BY <2>4, <4>1, <4>2, <4>3, startPingIs
      <4> QED BY <4>2, <4>4 DEF Steps
    <3>2. CASE ~ ds.mRecvData
      <4>1. ds' = procCloseInLoop(ds) /\ timers' = heap
        BY <1>3, <3>2 DEF PingCheck
      <4> HIDE DEF d, heap
      <4> QED BY <1>0, <4>1, procCloseIs DEF Steps
    <3> QED BY <3>1, <3>2
  <2> HIDE DEF d, heap
  <2>6. OneTimer'
    BY <2>4, <2>5 DEF OneTimer
  <2> QED BY <1>0, <2>1, <2>2, <2>5, <2>6, BusySteps
<1> QED BY <1>1, <1>2, <1>3 DEF Timers

\* LifeInv holds for a new DataSocket.
LEMMA LifeInit ==
    ASSUME Init
    PROVE  LifeInv
<1>1. /\ ds.mFD /\ ~ ds.mIsPostFinalClose /\ ds.mCanWrite /\ ~ ds.callbacks
      /\ ds.after = <<>> /\ Len(ds.after) = 0 /\ ds.mTimer = 0
  BY DEF Init
<1>2. /\ life = "queued" /\ copyAfter = <<>> /\ Len(copyAfter) = 0 /\ calls = <<>>
      /\ call = "none" /\ ~ net.onList /\ timers = [i \in 1..MaxTimers |-> "unused"]
  BY DEF Init
<1> QED BY <1>1, <1>2
        DEF LifeInv, LoopState, Writes, NotEntered, NoUseAfterDelete, DisconnectLast, OneTimer

\* Every step keeps LifeInv.
LEMMA LifeNext ==
    ASSUME DataInv, DataInv', LifeInv, [Next]_vars
    PROVE  LifeInv'
<1>1. CASE UNCHANGED vars
  BY <1>1
  DEF vars, LifeInv, LoopState, NotEntered, NoUseAfterDelete, DisconnectLast, OneTimer
<1> QED BY <1>1, LifeKernel, LifeUser, LifeDispatch, LifeRecvWrite, LifeEnter, LifeAfter, LifeTimers
        DEF Next, Loop

\* LifeInv holds at all times.
LEMMA LifeAlways == Spec => []LifeInv
<1>1. Init => LifeInv
  BY LifeInit
<1>2. DataInv /\ DataInv' /\ LifeInv /\ [Next]_vars => LifeInv'
  BY LifeNext
<1> QED BY <1>1, <1>2, DataAlways, PTL DEF Spec

(***************************************************************************)
(* Nothing refers to a DataSocket once it is deleted, however many timers  *)
(* were started and packets sent: the disconnect is the last proc posted,  *)
(* so that the vector being executed ends with it, and mTimer is the only  *)
(* timer that may still fire.                                              *)
(***************************************************************************)
THEOREM NothingUsedAfterDelete == Spec => []NoUseAfterDelete
<1>1. LifeInv => NoUseAfterDelete
  BY DEF LifeInv
<1> QED BY <1>1, LifeAlways, PTL
-----------------------------------------------------------------------------
(* What waits to be sent and to be received. *)

LEMMA AppendHas ==
    ASSUME NEW S, NEW q \in Seq(S), NEW p \in S
    PROVE  In(p, Append(q, p)) /\ \A x : In(x, q) => In(x, Append(q, p))
<1>1. /\ Len(q) \in Nat /\ Len(Append(q, p)) = Len(q) + 1 /\ Append(q, p)[Len(q) + 1] = p
      /\ \A i \in 1..Len(q) : Append(q, p)[i] = q[i]
  BY AppendProperties
<1>2. Len(q) + 1 \in 1..Len(Append(q, p)) /\ \A i \in 1..Len(q) : i \in 1..Len(Append(q, p))
  BY <1>1
<1> QED BY <1>1, <1>2 DEF In

\* The member functions take no flush out of the after-loop vector.
LEMMA StepsKeepFlush ==
    ASSUME NEW d, NEW e, SocketOK(d), Steps(d, e), In("flush", d.after)
    PROVE  In("flush", e.after)
<1>1. d.after \in Seq(AfterProcs)
  BY DEF SocketOK, DataSockets
<1>2. ASSUME NEW p \in AfterProcs PROVE In("flush", Append(d.after, p))
  BY <1>1, AppendHas
<1> QED BY <1>2 DEF Steps, AfterProcs

\* What normalFlush can gather depends on the list only.
LEMMA ReadySame ==
    ASSUME ds'.mSSL = ds.mSSL, ds'.mSendList = ds.mSendList
    PROVE  ReadySendLen' = ReadySendLen
  BY DEF ReadySendLen, BatchLen

\* Steps that neither enter nor send keep EnteredFirst.
LEMMA EnteredStays ==
    ASSUME EnteredFirst, ds'.mSendList = ds.mSendList, ds'.mSSL = ds.mSSL,
           ds'.mIsHandsharked = ds.mIsHandsharked, ds'.callbacks = ds.callbacks, ds'.mFD => ds.mFD
    PROVE  EnteredFirst'
  BY DEF EnteredFirst, Handshaking

\* Steps that add nothing to the send list and take no event and no sender away.
LEMMA SendStays ==
    ASSUME SendInv, EnteredFirst', ds'.mSendList = ds.mSendList, ds'.mSSL = ds.mSSL,
           ds'.mIsPostFlush = ds.mIsPostFlush,
           In("flush", ds.after) => In("flush", ds'.after), copyAfter' = copyAfter,
           ds'.mFD =>
              /\ ds.mFD /\ ds'.mCanWrite = ds.mCanWrite
              /\ net'.shut = net.shut /\ net'.epollout = net.epollout
              /\ net'.space => net.space
              /\ net.onList => net'.onList
              /\ In("canSend", calls) => In("canSend", calls')
              /\ In("onClose", calls) => In("onClose", calls')
              /\ call \in Writes /\ ds.mSendList # <<>> =>
                     call' \in Writes \/ (ds.mSSL /\ ReadySendLen = 0)
    PROVE  SendInv'
<1>1. ReadySendLen' = ReadySendLen
  BY ReadySame
<1>2. FlushPosted'
  BY DEF SendInv, FlushPosted
<1>3. AwaitsWrite'
  BY DEF SendInv, AwaitsWrite
<1>4. HasSender'
  BY <1>1 DEF SendInv, HasSender
<1> QED BY <1>2, <1>3, <1>4 DEF SendInv

\* Steps that read nothing and lose no event keep RecvInv.
LEMMA RecvStays ==
    ASSUME RecvInv,
           ds'.mFD /\ Linked' /\ ~ ds'.mSSL =>
              /\ ds.mFD /\ Linked /\ ~ ds.mSSL
              /\ ds'.recvLen = ds.recvLen /\ ds'.recvSize = ds.recvSize
              /\ net'.incoming = net.incoming /\ net'.peer = net.peer
              /\ net.onList => net'.onList
              /\ In("canRecv", calls) => In("canRecv", calls') \/ call' = "recv"
              /\ In("onClose", calls) => In("onClose", calls')
              /\ call = "recv" => call' = "recv"
    PROVE  RecvInv'
  BY DEF RecvInv

\* Every event has its call.
LEMMA CallsForHas ==
    ASSUME NEW events
    PROVE  /\ "OUT" \in events => \/ In("canSend", CallsFor(events))
                                  \/ In("onClose", CallsFor(events))
           /\ "IN" \in events \/ "RDHUP" \in events => In("canRecv", CallsFor(events))
           /\ "RDHUP" \in events => In("onClose", CallsFor(events))
<1>1. CASE "RDHUP" \in events
  <2>1. CallsFor(events) = <<"canRecv", "onClose">>
    BY <1>1 DEF CallsFor
  <2> DEFINE q == <<"canRecv", "onClose">>
  <2>2. Len(q) = 2 /\ q[1] = "canRecv" /\ q[2] = "onClose"
    OBVIOUS
  <2>3. In("canRecv", q) /\ In("onClose", q)
    <3> HIDE DEF q
    <3>1. 1 \in 1..Len(q) /\ 2 \in 1..Len(q)
      BY <2>2
    <3> QED BY <2>2, <3>1 DEF In
  <2> QED BY <2>1, <2>3
<1>2. CASE "RDHUP" \notin events
  <2> DEFINE a == IF "IN" \in events THEN <<"canRecv">> ELSE <<>>
             b == IF "OUT" \in events THEN <<"canSend">> ELSE <<>>
  <2>1. CallsFor(events) = a \o b
    BY <1>2 DEF CallsFor
  <2>2. CASE "IN" \in events /\ "OUT" \in events
    <3>1. a = <<"canRecv">> /\ b = <<"canSend">>
      BY <2>2
    <3> DEFINE q == <<"canRecv">> \o <<"canSend">>
    <3>2. Len(q) = 2 /\ q[1] = "canRecv" /\ q[2] = "canSend"
      OBVIOUS
    <3>3. CallsFor(events) = q
      BY <2>1, <3>1
    <3> HIDE DEF q
    <3>4. 1 \in 1..Len(q) /\ 2 \in 1..Len(q)
      BY <3>2
    <3> QED BY <1>2, <3>2, <3>3, <3>4 DEF In
  <2>3. CASE "IN" \in events /\ "OUT" \notin events
    <3> DEFINE q == <<"canRecv">> \o <<>>
    <3>1. CallsFor(events) = q
      BY <2>1, <2>3
    <3>2. Len(q) = 1 /\ q[1] = "canRecv"
      OBVIOUS
    <3> HIDE DEF q
    <3>3. 1 \in 1..Len(q)
      BY <3>2
    <3> QED BY <1>2, <2>3, <3>1, <3>2, <3>3 DEF In
  <2>4. CASE "IN" \notin events /\ "OUT" \in events
    <3> DEFINE q == <<>> \o <<"canSend">>
    <3>1. CallsFor(events) = q
      BY <2>1, <2>4
    <3>2. Len(q) = 1 /\ q[1] = "canSend"
      OBVIOUS
    <3> HIDE DEF q
    <3>3. 1 \in 1..Len(q)
      BY <3>2
    <3> QED BY <1>2, <2>4, <3>1, <3>2, <3>3 DEF In
  <2>5. CASE "IN" \notin events /\ "OUT" \notin events
    BY <1>2, <2>5
  <2> QED BY <2>2, <2>3, <2>4, <2>5
<1> QED BY <1>1, <1>2

WaitInv == SendInv /\ RecvInv

\* An open socket that is awaited by an event is in the loop.
LEMMA OpenIsLinked ==
    ASSUME DataInv, LifeInv, ds.mFD, net.onList \/ ~ ds.mCanWrite
    PROVE  Linked
<1>1. life \in {"queued", "entered", "deleted"}
  BY DataInvParts DEF OthersOK
<1> QED BY <1>1 DEF LifeInv, NotEntered, NoUseAfterDelete, Linked

\* The kernel's and the peer's steps keep WaitInv: an edge queues the socket.
LEMMA WaitKernel ==
    ASSUME DataInv, LifeInv, WaitInv, Kernel
    PROVE  WaitInv'
<1>0. net \in Nets /\ EnteredFirst
  BY DataInvParts DEF NetOK, WaitInv, SendInv
<1>1. UNCHANGED <<ds, life, copyAfter, timers, phase, calls, call>>
  BY DEF Kernel, peerSends, peerCloses, drain
<1>2. EnteredFirst'
  BY <1>0, <1>1, EnteredStays
<1>3. CASE peerSends \/ peerCloses
  <2>1. /\ net'.shut = net.shut /\ net'.epollout = net.epollout /\ net'.space = net.space
        /\ net'.onList = Linked
    BY <1>0, <1>3 DEF peerSends, peerCloses, Nets
  <2>2. SendInv'
    BY <1>1, <1>2, <2>1, OpenIsLinked, SendStays DEF WaitInv
  <2>3. RecvInv'
    BY <1>1, <2>1 DEF RecvInv, Linked
  <2> QED BY <2>2, <2>3 DEF WaitInv
<1>4. CASE drain
  <2>1. /\ net'.shut = net.shut /\ net'.epollout = net.epollout /\ net'.incoming = net.incoming
        /\ net'.peer = net.peer /\ (net.onList => net'.onList)
        /\ (Linked /\ net.epollout => net'.onList)
    BY <1>0, <1>4 DEF drain, Nets
  <2>2. AwaitsWrite'
    BY <1>1, <2>1, OpenIsLinked DEF WaitInv, SendInv, AwaitsWrite
  <2>3. FlushPosted'
    BY <1>1 DEF WaitInv, SendInv, FlushPosted
  <2>4. HasSender'
    BY <1>1, <2>1, ReadySame DEF WaitInv, SendInv, HasSender
  <2>5. RecvInv'
    BY <1>1, <2>1, RecvStays DEF WaitInv, Linked
  <2> QED BY <1>2, <2>2, <2>3, <2>4, <2>5 DEF WaitInv, SendInv
<1> QED BY <1>3, <1>4 DEF Kernel

\* Steps that close the socket, post a proc or set members no event depends on.
Members(d, e) ==
    /\ e.mSendList = d.mSendList /\ e.mSSL = d.mSSL /\ e.mIsHandsharked = d.mIsHandsharked
    /\ e.callbacks = d.callbacks /\ e.recvLen = d.recvLen /\ e.recvSize = d.recvSize
    /\ e.mIsPostFlush = d.mIsPostFlush
    /\ e.mFD => d.mFD /\ e.mCanWrite = d.mCanWrite

\* So do steps that only call member functions.
LEMMA MembersStay ==
    ASSUME DataInv, WaitInv, UNCHANGED <<life, copyAfter, calls, net>>,
           Steps(ds, ds'), Members(ds, ds'), ds'.mFD => call' = call
    PROVE  WaitInv'
<1>0. SocketOK(ds) /\ EnteredFirst /\ SendInv /\ RecvInv
  BY DataInvParts DEF WaitInv, SendInv
<1>1. EnteredFirst'
  BY <1>0, EnteredStays DEF Members
<1>2. In("flush", ds.after) => In("flush", ds'.after)
  BY <1>0, StepsKeepFlush
<1>3. SendInv'
  BY <1>0, <1>1, <1>2, SendStays DEF Members
<1>4. RecvInv'
  BY <1>0, RecvStays DEF Members, Linked
<1> QED BY <1>3, <1>4 DEF WaitInv

\* A close of an open socket.
LEMMA procCloseStays ==
    ASSUME DataInv, LifeInv, WaitInv, UNCHANGED <<life, copyAfter, calls, net>>,
           ds' = procCloseInLoop(ds)
    PROVE  WaitInv' /\ ~ ds'.mFD
<1>0. SocketOK(ds) /\ (ds.mIsPostFinalClose => ~ ds.mFD)
  BY DataInvParts DEF LifeInv, DisconnectLast
<1>1. /\ Kept(ds, ds') /\ ds'.mIsPostFlush = ds.mIsPostFlush /\ ~ ds'.mFD
      /\ \/ ds' = ds
         \/ /\ ~ ds.mIsPostFinalClose /\ ~ ds'.mFD /\ ds'.mIsPostFinalClose
            /\ ds'.after = Append(ds.after, "disconnect")
  BY <1>0, procCloseIs
<1>2. Steps(ds, ds') /\ Members(ds, ds')
  BY <1>1 DEF Kept, Steps, Members
<1> QED BY <1>1, <1>2, MembersStay

\* Calls of user code keep WaitInv: a send posts its flush.
LEMMA WaitUser ==
    ASSUME DataInv, DataInv', LifeInv, WaitInv, User
    PROVE  WaitInv'
<1>0. SocketOK(ds) /\ SocketOK(ds') /\ EnteredFirst /\ SendInv /\ RecvInv
  BY DataInvParts, DataInvPartsPrime DEF WaitInv, SendInv
<1>1. ds.callbacks /\ UNCHANGED <<life, copyAfter, phase, calls, call, net>>
  BY DEF User, userSend, userClose, setCheckTime, InUserCode, Reachable
<1>2. ASSUME NEW size \in Sizes, userSend(size) PROVE WaitInv'
  <2> DEFINE p == [id |-> Len(sizes) + 1, left |-> size]
             list == Append(ds.mSendList, p)
             d == [ds EXCEPT !.mSendList = list]
  <2>1. ds' = runAfterFlush(d)
    BY <1>2 DEF userSend, sendPacketInLoop
  <2>2. list \in Seq(Packets) /\ list # <<>>
    <3>1. ds.mSendList \in Seq(Packets) /\ p \in Packets
      <4>1. Len(sizes) \in Nat /\ Len(sizes) < MaxSends /\ MaxSends \in Nat /\ size \in Nat
        BY <1>2, StreamFacts, SizesAre, DataSocketAssumption DEF userSend
      <4> QED BY <4>1, StreamFacts DEF Packets
    <3> HIDE DEF p
    <3> QED BY <3>1
  <2> HIDE DEF list
  <2>3. /\ SocketOK(d) /\ d.mSendList = list /\ d.mFD = ds.mFD /\ d.mCanWrite = ds.mCanWrite
        /\ d.mSSL = ds.mSSL /\ d.mIsHandsharked = ds.mIsHandsharked
        /\ d.callbacks = ds.callbacks /\ d.recvLen = ds.recvLen /\ d.recvSize = ds.recvSize
        /\ d.mIsPostFlush = ds.mIsPostFlush /\ d.after = ds.after
    BY <1>0, <2>2 DEF SocketOK, DataSockets
  <2> HIDE DEF d
  <2>4. /\ Kept(d, ds') /\ ds'.mFD = d.mFD /\ ds'.mCanWrite = d.mCanWrite
        /\ \/ ds' = d /\ (d.mSendList # <<>> /\ d.mFD => d.mIsPostFlush)
           \/ ds'.mIsPostFlush /\ d.mFD /\ ds'.after = Append(d.after, "flush")
    BY <2>1, <2>3, runAfterFlushIs
  <2>5. EnteredFirst'
    BY <1>0, <1>1, <2>3, <2>4 DEF EnteredFirst, Handshaking, Kept
  <2>6. FlushPosted'
    <3>1. In("flush", Append(d.after, "flush"))
      <4>1. d.after \in Seq(AfterProcs) /\ "flush" \in AfterProcs
        BY <2>3 DEF SocketOK, DataSockets, AfterProcs
      <4> QED BY <4>1, AppendHas
    <3> QED BY <1>0, <1>1, <2>3, <2>4, <3>1 DEF SendInv, FlushPosted
  <2>7. AwaitsWrite'
    BY <1>0, <1>1, <2>3, <2>4 DEF SendInv, AwaitsWrite
  <2>8. HasSender'
    BY <2>2, <2>3, <2>4 DEF HasSender
  <2>9. RecvInv'
    BY <1>0, <1>1, <2>3, <2>4, RecvStays DEF Kept, Linked
  <2> QED BY <2>5, <2>6, <2>7, <2>8, <2>9 DEF WaitInv, SendInv
<1>4. CASE userClose
  <2>1. ds' = procCloseInLoop(ds) \/ ds' = postShutdown(ds)
    BY <1>4 DEF userClose
  <2>2. CASE ds' = procCloseInLoop(ds)
    BY <1>1, <2>2, procCloseStays
  <2>3. CASE ds' = postShutdown(ds)
    <3>1. Steps(ds, ds') /\ Members(ds, ds')
      BY <1>0, <2>3, postShutdownIs DEF Kept, Steps, Members
    <3> QED BY <1>1, <3>1, MembersStay
  <2> QED BY <2>1, <2>2, <2>3
<1>5. ASSUME NEW on \in BOOLEAN, setCheckTime(on) PROVE WaitInv'
  <2> DEFINE d == [ds EXCEPT !.mCheckTime = on]
  <2>1. ds' = d \/ \E i : ds' = [d EXCEPT !.mTimer = i]
    BY <1>5 DEF setCheckTime, startPingCheckTimer, cancelTimer
  <2>2. Members(ds, ds') /\ Steps(ds, ds')
    BY <1>0, <2>1 DEF SocketOK, DataSockets, Members, Steps
  <2> QED BY <1>1, <2>2, MembersStay
<1> QED BY <1>2, <1>4, <1>5 DEF User

\* epoll_wait and the dispatch keep WaitInv: what leaves the ready list is called.
LEMMA WaitDispatch ==
    ASSUME DataInv, DataInv', LifeInv, WaitInv, epollWait \/ Dispatch
    PROVE  WaitInv'
<1>0. SocketOK(ds) /\ SocketOK(ds') /\ NetOK(net) /\ OthersOK
      /\ EnteredFirst /\ SendInv /\ RecvInv /\ LoopState
      /\ (ds.mIsPostFinalClose => ~ ds.mFD)
  BY DataInvParts, DataInvPartsPrime DEF WaitInv, SendInv, LifeInv, DisconnectLast
<1>1. CASE epollWait
  <2>1. /\ UNCHANGED <<ds, life, copyAfter, timers, call>> /\ phase = "wait"
        /\ net'.shut = net.shut /\ net'.epollout = net.epollout /\ net'.space = net.space
        /\ net'.incoming = net.incoming /\ net'.peer = net.peer
        /\ (net.onList /\ ds.mFD => calls' = CallsFor(Ready(net)))
    BY <1>0, <1>1 DEF epollWait, NetOK, Nets
  <2>2. calls = <<>> /\ call # "recv" /\ call \notin Writes
    BY <1>0, <2>1 DEF LoopState
  <2>3. \A x : ~ In(x, calls)
    <3>1. Len(calls) = 0
      BY <2>2
    <3> QED BY <3>1 DEF In
  <2>4. EnteredFirst' /\ FlushPosted'
    BY <1>0, <2>1, EnteredStays DEF SendInv, FlushPosted
  <2>5. AwaitsWrite'
    <3>1. ASSUME ds.mFD, ~ net.shut, ~ ds.mCanWrite, net.space
          PROVE  In("canSend", calls') \/ In("onClose", calls')
      <4>1. net.epollout /\ net.onList
        BY <1>0, <2>3, <3>1 DEF SendInv, AwaitsWrite
      <4>2. "OUT" \in Ready(net)
        BY <3>1, <4>1 DEF Ready
      <4> QED BY <2>1, <3>1, <4>1, <4>2, CallsForHas
    <3> QED BY <1>0, <2>1, <3>1 DEF SendInv, AwaitsWrite
  <2>6. HasSender'
    BY <1>0, <2>1, ReadySame DEF SendInv, HasSender
  <2>7. RecvInv'
    <3>1. ASSUME ds.mFD, Linked, ~ ds.mSSL, net.incoming > 0
          PROVE  In("canRecv", calls') \/ ds.recvLen = ds.recvSize
      <4>1. CASE ds.recvLen = ds.recvSize
        BY <4>1
      <4>2. CASE net.onList
        <5>1. "IN" \in Ready(net)
          BY <3>1 DEF Ready
        <5> QED BY <2>1, <3>1, <4>2, <5>1, CallsForHas
      <4> QED BY <1>0, <2>2, <2>3, <3>1, <4>1, <4>2 DEF RecvInv
    <3>2. ASSUME ds.mFD, Linked, ~ ds.mSSL, net.peer # "open" PROVE In("onClose", calls')
      <4>1. net.onList
        BY <1>0, <2>3, <3>2 DEF RecvInv
      <4>2. "RDHUP" \in Ready(net)
        BY <3>2 DEF Ready
      <4> QED BY <2>1, <3>2, <4>1, <4>2, CallsForHas
    <3> QED BY <2>1, <3>1, <3>2 DEF RecvInv, Linked
  <2> QED BY <2>4, <2>5, <2>6, <2>7 DEF WaitInv, SendInv
<1>2. CASE dispatchEnd
  <2>1. UNCHANGED <<ds, life, copyAfter, calls, call, net>>
    BY <1>2 DEF dispatchEnd
  <2> QED BY <2>1, MembersStay DEF Steps, Members
<1>3. CASE canRecv
  <2>1. /\ Calling("canRecv") /\ UNCHANGED <<life, copyAfter, timers, phase>> /\ call = "none"
        /\ In("canSend", calls) => In("canSend", calls')
        /\ In("onClose", calls) => In("onClose", calls')
    BY <1>0, <1>3, CallingIs DEF canRecv
  <2>2. CASE Handshaking(ds)
    <3>1. processSSLHandshake(ds, net) /\ UNCHANGED call /\ ds.mSSL /\ ~ ds.mIsHandsharked
      BY <1>3, <2>2 DEF canRecv, Handshaking
    <3>2. /\ ds'.mSendList = ds.mSendList /\ ds'.mSSL = ds.mSSL
          /\ ds'.mIsPostFlush = ds.mIsPostFlush
          /\ net'.onList = net.onList /\ net'.epollout = net.epollout
          /\ net'.shut = net.shut /\ (net'.space => net.space)
          /\ Steps(ds, ds') /\ (ds'.mFD => ds.mFD /\ ds'.mCanWrite = ds.mCanWrite)
          /\ (ds'.mFD => \/ ds'.callbacks /\ ds'.mIsHandsharked
                         \/ ds'.callbacks = ds.callbacks /\ ds'.mIsHandsharked = ds.mIsHandsharked)
          /\ (ds'.callbacks \/ ds'.callbacks = ds.callbacks)
      BY <1>0, <3>1, handshakeIs DEF Steps
    <3>3. EnteredFirst'
      BY <1>0, <3>2 DEF EnteredFirst, Handshaking
    <3>4. SendInv'
      BY <1>0, <2>1, <3>1, <3>2, <3>3, StepsKeepFlush, SendStays
    <3>5. RecvInv'
      BY <3>1, <3>2 DEF RecvInv
    <3> QED BY <3>4, <3>5 DEF WaitInv
  <2>3. CASE ~ Handshaking(ds)
    <3>1. call' = "recv" /\ UNCHANGED <<ds, net>>
      BY <1>3, <2>3 DEF canRecv
    <3>2. EnteredFirst'
      BY <1>0, <3>1, EnteredStays
    <3>3. SendInv'
      BY <1>0, <2>1, <3>1, <3>2, SendStays DEF Writes
    <3>4. RecvInv'
      BY <1>0, <2>1, <3>1, RecvStays DEF Linked
    <3> QED BY <3>3, <3>4 DEF WaitInv
  <2> QED BY <2>2, <2>3
<1>4. CASE canSend
  <2> DEFINE d == [ds EXCEPT !.mCanWrite = TRUE]
             n == removeCheckWrite
  <2>1. /\ Calling("canSend") /\ UNCHANGED <<life, copyAfter, timers, phase, call>>
        /\ call = "none"
        /\ In("canRecv", calls) => In("canRecv", calls')
        /\ In("onClose", calls) => In("onClose", calls')
    BY <1>0, <1>4, CallingIs DEF canSend
  <2>2. /\ SocketOK(d) /\ d.mSendList = ds.mSendList /\ d.mFD = ds.mFD /\ d.mCanWrite
        /\ d.mSSL = ds.mSSL /\ d.mIsHandsharked = ds.mIsHandsharked
        /\ d.callbacks = ds.callbacks /\ d.recvLen = ds.recvLen /\ d.recvSize = ds.recvSize
        /\ d.mIsPostFlush = ds.mIsPostFlush /\ d.after = ds.after
        /\ d.mIsPostFinalClose = ds.mIsPostFinalClose
    BY <1>0 DEF SocketOK, DataSockets
  <2>3. NetOK(n) /\ n.incoming = net.incoming /\ n.peer = net.peer /\ (net.onList => n.onList)
    BY <1>0, removeCheckWriteIs
  <2>4. CASE Handshaking(ds)
    <3>1. processSSLHandshake(d, n) /\ ds.mSSL /\ ~ ds.mIsHandsharked
      BY <1>4, <2>4 DEF canSend, Handshaking
    <3> HIDE DEF d, n
    <3>2. /\ ds'.mSendList = ds.mSendList /\ ds'.mSSL = ds.mSSL
          /\ ds'.mIsPostFlush = ds.mIsPostFlush
          /\ Steps(ds, ds') /\ (ds'.mFD => ds.mFD /\ ds'.mCanWrite)
          /\ (ds'.mFD => \/ ds'.callbacks /\ ds'.mIsHandsharked
                         \/ ds'.callbacks = ds.callbacks /\ ds'.mIsHandsharked = ds.mIsHandsharked)
          /\ (ds'.callbacks \/ ds'.callbacks = ds.callbacks)
      BY ZenonT(40), <1>0, <2>2, <2>3, <3>1, handshakeIs DEF Steps
    <3>3. EnteredFirst'
      BY <1>0, <3>2 DEF EnteredFirst, Handshaking
    <3>4. ds.mFD => ds.mSendList = <<>>
      BY <1>0, <2>4 DEF EnteredFirst
    <3>5. FlushPosted'
      BY <1>0, <2>1, <3>2, StepsKeepFlush DEF SendInv, FlushPosted
    <3>6. AwaitsWrite' /\ HasSender' /\ RecvInv'
      BY <3>1, <3>2, <3>4 DEF AwaitsWrite, HasSender, RecvInv
    <3> QED BY <3>3, <3>5, <3>6 DEF WaitInv, SendInv
  <2>5. CASE ~ Handshaking(ds)
    <3>1. ds' = runAfterFlush(d) /\ net' = n
      BY <1>4, <2>5 DEF canSend
    <3> HIDE DEF d, n
    <3>2. /\ Kept(d, ds') /\ ds'.mFD = d.mFD /\ ds'.mCanWrite = d.mCanWrite
          /\ \/ ds' = d /\ (d.mSendList # <<>> /\ d.mFD => d.mIsPostFlush)
             \/ ds'.mIsPostFlush /\ d.mFD /\ ds'.after = Append(d.after, "flush")
      BY <2>2, <3>1, runAfterFlushIs
    <3>3. EnteredFirst'
      BY <1>0, <2>2, <3>2, EnteredStays DEF Kept
    <3>4. FlushPosted'
      <4>1. In("flush", Append(d.after, "flush"))
        <5>1. d.after \in Seq(AfterProcs) /\ "flush" \in AfterProcs
          BY <2>2 DEF SocketOK, DataSockets, AfterProcs
        <5> QED BY <5>1, AppendHas
      <4> QED BY <1>0, <2>1, <2>2, <3>2, <4>1 DEF SendInv, FlushPosted
    <3>5. AwaitsWrite'
      BY <2>2, <3>2 DEF AwaitsWrite
    <3>6. HasSender'
      BY <2>2, <3>2 DEF HasSender, Kept
    <3>7. RecvInv'
      BY <1>0, <2>1, <2>2, <2>3, <3>1, <3>2, RecvStays DEF Kept, Linked
    <3> QED BY <3>3, <3>4, <3>5, <3>6, <3>7 DEF WaitInv, SendInv
  <2> QED BY <2>4, <2>5
<1>5. CASE channelClose
  <2>1. UNCHANGED <<life, copyAfter, call, net>> /\ ds' = onClose(ds)
    BY <1>5 DEF channelClose
  <2>2. /\ Kept(ds, ds') /\ ds'.mIsPostFlush = ds.mIsPostFlush /\ ~ ds'.mFD /\ Steps(ds, ds')
    BY <1>0, <2>1, onCloseIs DEF Steps
  <2>3. EnteredFirst'
    BY <1>0, <2>2, EnteredStays DEF Kept
  <2>4. SendInv'
    BY <1>0, <2>1, <2>2, <2>3, StepsKeepFlush, SendStays DEF Kept
  <2>5. RecvInv'
    BY <2>2 DEF RecvInv
  <2> QED BY <2>4, <2>5 DEF WaitInv
<1> QED BY <1>1, <1>2, <1>3, <1>4, <1>5 DEF Dispatch

\* recv keeps WaitInv: it ends when nothing is left or the buffer is full.
LEMMA WaitRecv ==
    ASSUME DataInv, DataInv', LifeInv, WaitInv, Recv
    PROVE  WaitInv'
<1>0. SocketOK(ds) /\ SocketOK(ds') /\ NetOK(net) /\ EnteredFirst /\ SendInv /\ RecvInv
  BY DataInvParts, DataInvPartsPrime DEF WaitInv, SendInv
<1>1. ASSUME NEW n, NEW m, recvSome(n, m) PROVE WaitInv'
  <2>1. /\ call = "recv" /\ net' = [net EXCEPT !.incoming = @ - n]
        /\ UNCHANGED <<life, copyAfter, timers, phase, calls, call>>
    BY <1>1 DEF recvSome
  <2>2. /\ ds'.mSendList = ds.mSendList /\ ds'.mSSL = ds.mSSL
        /\ ds'.mIsHandsharked = ds.mIsHandsharked /\ ds'.callbacks = ds.callbacks
        /\ ds'.mIsPostFlush = ds.mIsPostFlush /\ ds'.mFD = ds.mFD
        /\ ds'.mCanWrite = ds.mCanWrite /\ ds'.after = ds.after
    <3>1. ds \in DataSockets
      BY <1>0 DEF SocketOK
    <3> DEFINE size == growRecvBuffer(ds, ds.recvLen + n)
    <3>2. ds' = [ds EXCEPT !.recvSize = size, !.recvLen = @ + n - m, !.mRecvData = TRUE]
      BY <1>1 DEF recvSome
    <3> HIDE DEF size
    <3> QED BY <3>1, <3>2 DEF DataSockets
  <2>3. /\ net'.shut = net.shut /\ net'.epollout = net.epollout /\ net'.space = net.space
        /\ net'.onList = net.onList /\ net'.peer = net.peer
    BY <1>0, <2>1 DEF NetOK, Nets
  <2>4. EnteredFirst'
    BY <1>0, <2>2, EnteredStays
  <2>5. SendInv'
    BY <1>0, <2>1, <2>2, <2>3, <2>4, SendStays
  <2>6. RecvInv'
    BY <1>0, <2>1, <2>2, <2>3 DEF RecvInv, Linked
  <2> QED BY <2>5, <2>6 DEF WaitInv
<1>2. CASE recvReturn
  <2>1. /\ UNCHANGED <<ds, life, copyAfter, calls, net>> /\ call = "recv" /\ call' = "none"
        /\ ~ ds.mFD \/ ds.recvLen = ds.recvSize \/ (net.incoming = 0 /\ net.peer = "open")
    BY <1>2 DEF recvReturn
  <2>2. EnteredFirst'
    BY <1>0, <2>1, EnteredStays
  <2>3. SendInv'
    BY <1>0, <2>1, <2>2, SendStays DEF Writes
  <2>4. RecvInv'
    BY <1>0, <2>1 DEF RecvInv, Linked
  <2> QED BY <2>3, <2>4 DEF WaitInv
<1>3. CASE recvClose
  BY <1>3, procCloseStays DEF recvClose
<1> QED BY <1>1, <1>2, <1>3 DEF Recv

\* flush keeps WaitInv: it ends with an empty list, without room, or closed.
LEMMA WaitWrite ==
    ASSUME DataInv, DataInv', LifeInv, WaitInv, Write
    PROVE  WaitInv'
<1>0. SocketOK(ds) /\ SocketOK(ds') /\ NetOK(net) /\ EnteredFirst /\ SendInv /\ RecvInv
      /\ LoopState
  BY DataInvParts, DataInvPartsPrime DEF WaitInv, SendInv, LifeInv
<1>1. UNCHANGED <<life, copyAfter, timers, phase, calls>> /\ call \in Writes
  BY DEF Write, writeSome, flushMore, flushPartial, writeBlocked, writeError, writeNothing, Writes
<1>2. ASSUME NEW k, writeSome(k) PROVE WaitInv'
  <2>1. /\ ds' = [ds EXCEPT !.mSendList = Unsent(@, k)] /\ ds.mSendList # <<>>
        /\ call' \in Writes /\ net.space
        /\ \E room \in BOOLEAN : net' = [net EXCEPT !.space = room]
    BY <1>2 DEF writeSome, Writes
  <2>2. /\ ds'.mSSL = ds.mSSL /\ ds'.mIsHandsharked = ds.mIsHandsharked
        /\ ds'.callbacks = ds.callbacks /\ ds'.mIsPostFlush = ds.mIsPostFlush
        /\ ds'.mFD = ds.mFD /\ ds'.mCanWrite = ds.mCanWrite /\ ds'.after = ds.after
        /\ ds'.recvLen = ds.recvLen /\ ds'.recvSize = ds.recvSize
    BY <1>0, <2>1 DEF SocketOK, DataSockets
  <2>3. /\ net'.shut = net.shut /\ net'.epollout = net.epollout
        /\ net'.onList = net.onList /\ net'.peer = net.peer /\ net'.incoming = net.incoming
    BY <1>0, <2>1 DEF NetOK, Nets
  <2>4. EnteredFirst'
    BY <1>0, <2>1, <2>2 DEF EnteredFirst, Handshaking
  <2>5. FlushPosted' /\ AwaitsWrite' /\ HasSender'
    BY <1>0, <1>1, <2>1, <2>2, <2>3 DEF SendInv, FlushPosted, AwaitsWrite, HasSender
  <2>6. RecvInv'
    BY <1>0, <1>1, <2>2, <2>3, RecvStays DEF Linked, Writes
  <2> QED BY <2>4, <2>5, <2>6 DEF WaitInv, SendInv
<1>3. CASE flushMore \/ writeNothing
  <2>1. /\ UNCHANGED <<ds, net>>
        /\ ds.mSendList # <<>> => call' \in Writes \/ (ds.mSSL /\ ReadySendLen = 0)
    BY <1>3 DEF flushMore, writeNothing, Writes
  <2>2. EnteredFirst'
    BY <1>0, <2>1, EnteredStays
  <2>3. SendInv'
    BY <1>0, <1>1, <2>1, <2>2, SendStays
  <2>4. RecvInv'
    BY <1>0, <1>1, <2>1, RecvStays DEF Linked, Writes
  <2> QED BY <2>3, <2>4 DEF WaitInv
<1>4. CASE flushPartial \/ writeBlocked
  <2>1. checkWrite
    BY <1>4 DEF flushPartial, writeBlocked
  <2>2. /\ Kept(ds, ds') /\ ~ ds'.mCanWrite /\ ds'.mFD = ds.mFD
        /\ ds'.after = ds.after /\ ds'.mIsPostFlush = ds.mIsPostFlush
        /\ net'.incoming = net.incoming /\ net'.peer = net.peer
        /\ net'.shut = net.shut /\ (net.onList => net'.onList)
        /\ ds.mFD => net'.epollout /\ (net'.space => net'.onList)
    BY <1>0, <2>1, checkWriteIs
  <2>3. EnteredFirst'
    BY <1>0, <2>2, EnteredStays DEF Kept
  <2>4. FlushPosted' /\ AwaitsWrite' /\ HasSender'
    BY <1>0, <1>1, <2>2 DEF SendInv, FlushPosted, AwaitsWrite, HasSender
  <2>5. RecvInv'
    BY <1>0, <1>1, <2>2, RecvStays DEF Linked, Writes, Kept
  <2> QED BY <2>3, <2>4, <2>5 DEF WaitInv, SendInv
<1>5. CASE writeError
  BY <1>5, procCloseStays DEF writeError
<1> QED BY <1>2, <1>3, <1>4, <1>5 DEF Write

\* The procs other threads posted keep WaitInv.
LEMMA WaitEnter ==
    ASSUME DataInv, DataInv', LifeInv, WaitInv, onEnterEventLoop \/ asyncEnd
    PROVE  WaitInv'
<1>0. SocketOK(ds) /\ SocketOK(ds') /\ NetOK(net) /\ OthersOK
      /\ EnteredFirst /\ SendInv /\ RecvInv /\ LoopState
  BY DataInvParts, DataInvPartsPrime DEF WaitInv, SendInv, LifeInv
<1>1. CASE onEnterEventLoop
  <2>1. UNCHANGED <<copyAfter, timers, phase, calls, call>> /\ life = "queued"
    BY <1>1 DEF onEnterEventLoop
  <2>2. /\ ds.mFD /\ ~ ds.mIsPostFinalClose /\ ~ ds.callbacks
    BY <2>1 DEF LifeInv, NotEntered
  <2> DEFINE n == EpollCtl(net)
  <2>3. /\ NetOK(n) /\ n.epollout = net.epollout /\ n.incoming = net.incoming
        /\ n.peer = net.peer /\ n.space = net.space /\ n.shut = net.shut
        /\ (net.onList => n.onList)
        /\ net.incoming > 0 \/ net.peer # "open" => n.onList
    BY <1>0, EpollCtlIs
  <2>4. CASE ds.mSSL /\ processSSLHandshake(ds, n)
    <3> HIDE DEF n
    <3>1. /\ ds'.mSendList = ds.mSendList /\ ds'.mSSL = ds.mSSL
          /\ ds'.mIsPostFlush = ds.mIsPostFlush
          /\ net'.onList = n.onList /\ net'.epollout = n.epollout
          /\ net'.shut = n.shut /\ (net'.space => n.space)
          /\ Steps(ds, ds') /\ (ds'.mFD => ds.mFD /\ ds'.mCanWrite = ds.mCanWrite)
          /\ (ds'.mFD => \/ ds'.callbacks /\ ds'.mIsHandsharked
                         \/ ds'.callbacks = ds.callbacks /\ ds'.mIsHandsharked = ds.mIsHandsharked)
          /\ (ds'.callbacks \/ ds'.callbacks = ds.callbacks)
      BY <1>0, <2>2, <2>3, <2>4, handshakeIs DEF Steps
    <3>2. EnteredFirst'
      BY <1>0, <2>2, <3>1 DEF EnteredFirst, Handshaking
    <3>3. SendInv'
      BY <1>0, <2>1, <2>3, <3>1, <3>2, StepsKeepFlush, SendStays
    <3>4. RecvInv'
      BY <2>4, <3>1 DEF RecvInv
    <3> QED BY <3>3, <3>4 DEF WaitInv
  <2>5. CASE ~ ds.mSSL /\ ds' = entered(ds) /\ net' = n
    <3> HIDE DEF n
    <3>1. /\ ds'.mFD = ds.mFD /\ ds'.mCanWrite = ds.mCanWrite
          /\ ds'.mIsPostFlush = ds.mIsPostFlush /\ ds'.mSendList = ds.mSendList
          /\ ds'.mSSL = ds.mSSL /\ ds'.after = ds.after /\ ds'.callbacks
      BY <1>0, <2>5, enteredIs
    <3>2. EnteredFirst'
      BY <2>5, <3>1 DEF EnteredFirst, Handshaking
    <3>3. SendInv'
      BY <1>0, <2>1, <2>3, <2>5, <3>1, <3>2, SendStays
    <3>4. RecvInv'
      BY <2>3, <2>5 DEF RecvInv
    <3> QED BY <3>3, <3>4 DEF WaitInv
  <2>6. CASE ds' = closeSocket(ds) /\ UNCHANGED net
    <3>1. /\ Kept(ds, ds') /\ ~ ds'.mFD /\ ds'.after = ds.after
          /\ ds'.mIsPostFlush = ds.mIsPostFlush
      BY <1>0, <2>6, closeSocketIs
    <3>2. EnteredFirst'
      BY <1>0, <3>1, EnteredStays DEF Kept
    <3>3. SendInv'
      BY <1>0, <2>1, <3>1, <3>2, SendStays DEF Kept
    <3>4. RecvInv'
      BY <3>1 DEF RecvInv
    <3> QED BY <3>3, <3>4 DEF WaitInv
  <2> QED BY <1>1, <2>4, <2>5, <2>6 DEF onEnterEventLoop
<1>2. CASE asyncEnd
  <2>1. /\ phase = "async" /\ copyAfter' = ds.after
        /\ UNCHANGED <<life, timers, calls, call, net>>
    BY <1>2 DEF asyncEnd
  <2>2. /\ ds'.mSendList = ds.mSendList /\ ds'.mSSL = ds.mSSL
        /\ ds'.mIsHandsharked = ds.mIsHandsharked /\ ds'.callbacks = ds.callbacks
        /\ ds'.mIsPostFlush = ds.mIsPostFlush /\ ds'.mFD = ds.mFD
        /\ ds'.mCanWrite = ds.mCanWrite /\ ds'.recvLen = ds.recvLen /\ ds'.recvSize = ds.recvSize
    BY <1>0, <1>2 DEF asyncEnd, SocketOK, DataSockets
  <2>3. ~ In("flush", copyAfter)
    <3>1. copyAfter = <<>>
      BY <1>0, <2>1 DEF LoopState
    <3>2. Len(copyAfter) = 0
      BY <3>1
    <3> QED BY <3>2 DEF In
  <2>4. EnteredFirst'
    BY <1>0, <2>2, EnteredStays
  <2>5. FlushPosted'
    BY <1>0, <2>1, <2>2, <2>3 DEF SendInv, FlushPosted
  <2>6. AwaitsWrite'
    BY <1>0, <2>1, <2>2 DEF SendInv, AwaitsWrite
  <2>7. HasSender'
    BY <1>0, <2>1, <2>2, ReadySame DEF SendInv, HasSender
  <2>8. RecvInv'
    BY <1>0, <2>1, <2>2, RecvStays DEF Linked
  <2> QED BY <2>4, <2>5, <2>6, <2>7, <2>8 DEF WaitInv, SendInv
<1> QED BY <1>1, <1>2

\* The after-loop procs keep WaitInv.
LEMMA WaitAfter ==
    ASSUME DataInv, DataInv', LifeInv, WaitInv, After
    PROVE  WaitInv'
<1>0. SocketOK(ds) /\ SocketOK(ds') /\ NetOK(net) /\ OthersOK
      /\ EnteredFirst /\ SendInv /\ RecvInv
  BY DataInvParts, DataInvPartsPrime DEF WaitInv, SendInv
<1>1. CASE afterEnd
  <2>1. UNCHANGED <<ds, life, copyAfter, calls, call, net>>
    BY <1>1 DEF afterEnd
  <2> QED BY <2>1, MembersStay DEF Steps, Members
<1>2. CASE flush
  <2>1. /\ call = "none" /\ UNCHANGED <<life, timers, phase, calls, net>>
        /\ call' = IF ds.mCanWrite /\ ds.mFD THEN "flush" ELSE "none"
    BY <1>2 DEF flush, AfterProc
  <2>2. /\ ds'.mSendList = ds.mSendList /\ ds'.mSSL = ds.mSSL
        /\ ds'.mIsHandsharked = ds.mIsHandsharked /\ ds'.callbacks = ds.callbacks
        /\ ~ ds'.mIsPostFlush /\ ds'.mFD = ds.mFD
        /\ ds'.mCanWrite = ds.mCanWrite /\ ds'.recvLen = ds.recvLen /\ ds'.recvSize = ds.recvSize
    BY <1>0, <1>2 DEF flush, SocketOK, DataSockets
  <2>3. EnteredFirst'
    BY <1>0, <2>2, EnteredStays
  <2>4. FlushPosted' /\ AwaitsWrite' /\ HasSender'
    BY <1>0, <2>1, <2>2 DEF SendInv, FlushPosted, AwaitsWrite, HasSender, Writes
  <2>5. RecvInv'
    BY <1>0, <2>1, <2>2, RecvStays DEF Linked
  <2> QED BY <2>3, <2>4, <2>5 DEF WaitInv, SendInv
<1>3. CASE shutdownProc
  <2>1. /\ UNCHANGED <<life, timers, phase, calls, call>>
        /\ net' = IF ds.mFD THEN [net EXCEPT !.shut = TRUE] ELSE net
        /\ In("flush", copyAfter) => In("flush", copyAfter')
    BY <1>0, <1>3, AfterProcIs DEF shutdownProc
  <2>2. /\ ds'.mSendList = ds.mSendList /\ ds'.mSSL = ds.mSSL
        /\ ds'.mIsHandsharked = ds.mIsHandsharked /\ ds'.callbacks = ds.callbacks
        /\ ds'.mIsPostFlush = ds.mIsPostFlush /\ ds'.mFD = ds.mFD /\ ds'.after = ds.after
        /\ ds'.recvLen = ds.recvLen /\ ds'.recvSize = ds.recvSize
    BY <1>0, <1>3 DEF shutdownProc, procShutdownInLoop, SocketOK, DataSockets
  <2>3. /\ net'.incoming = net.incoming /\ net'.peer = net.peer /\ net'.onList = net.onList
        /\ ds.mFD => net'.shut
    BY <1>0, <2>1 DEF NetOK, Nets
  <2>4. EnteredFirst'
    BY <1>0, <2>2, EnteredStays
  <2>5. FlushPosted'
    BY <1>0, <2>1, <2>2 DEF SendInv, FlushPosted
  <2>6. AwaitsWrite' /\ HasSender'
    BY <2>2, <2>3 DEF AwaitsWrite, HasSender
  <2>7. RecvInv'
    BY <1>0, <2>1, <2>2, <2>3, RecvStays DEF Linked
  <2> QED BY <2>4, <2>5, <2>6, <2>7 DEF WaitInv, SendInv
<1>4. CASE disconnectProc
  <2>1. /\ UNCHANGED <<ds, phase, calls, call, net>> /\ life' \in {life, "deleted"}
        /\ In("flush", copyAfter) => In("flush", copyAfter')
    BY <1>0, <1>4, AfterProcIs DEF disconnectProc
  <2>2. EnteredFirst'
    BY <1>0, <2>1, EnteredStays
  <2>3. FlushPosted' /\ AwaitsWrite'
    BY <1>0, <2>1 DEF SendInv, FlushPosted, AwaitsWrite
  <2>4. HasSender'
    BY <1>0, <2>1, ReadySame DEF SendInv, HasSender
  <2>5. RecvInv'
    BY <1>0, <2>1 DEF RecvInv, Linked
  <2> QED BY <2>2, <2>3, <2>4, <2>5 DEF WaitInv, SendInv
<1> QED BY <1>1, <1>2, <1>3, <1>4 DEF After

\* The timers keep WaitInv.
LEMMA WaitTimers ==
    ASSUME DataInv, DataInv', LifeInv, WaitInv, Timers
    PROVE  WaitInv'
<1>0. SocketOK(ds)
  BY DataInvParts
<1>1. UNCHANGED <<life, copyAfter, calls, call, net>>
  BY DEF Timers, loopEnd, PingCheck, popCancelled
<1>2. CASE loopEnd \/ \E i \in 1..MaxTimers : popCancelled(i)
  <2>1. ds' = ds
    BY <1>2 DEF loopEnd, popCancelled
  <2> QED BY <1>1, <2>1, MembersStay DEF Steps, Members
<1>3. ASSUME NEW i \in 1..MaxTimers, PingCheck(i) PROVE WaitInv'
  <2>1. CASE ds.mRecvData
    <3> DEFINE d == [ds EXCEPT !.mRecvData = FALSE]
    <3>1. ds' = d \/ \E j : ds' = [d EXCEPT !.mTimer = j]
      BY <1>3, <2>1 DEF PingCheck, startPingCheckTimer
    <3>2. Members(ds, ds') /\ Steps(ds, ds')
      BY <1>0, <3>1 DEF SocketOK, DataSockets, Members, Steps
    <3> QED BY <1>1, <3>2, MembersStay
  <2>2. CASE ~ ds.mRecvData
    <3>1. ds' = procCloseInLoop(ds)
      BY <1>3, <2>2 DEF PingCheck
    <3> QED BY <1>1, <3>1, procCloseStays
  <2> QED BY <2>1, <2>2
<1> QED BY <1>2, <1>3 DEF Timers

\* WaitInv holds for a new DataSocket.
LEMMA WaitInit ==
    ASSUME Init
    PROVE  WaitInv
<1>1. /\ ds.mFD /\ ds.mCanWrite /\ ~ ds.callbacks /\ ds.mSendList = <<>> /\ ~ ds.mIsPostFlush
      /\ life = "queued"
  BY DEF Init
<1> QED BY <1>1
        DEF WaitInv, SendInv, EnteredFirst, FlushPosted, AwaitsWrite, HasSender, RecvInv, Linked

\* Every step keeps WaitInv.
LEMMA WaitNext ==
    ASSUME DataInv, DataInv', LifeInv, WaitInv, [Next]_vars
    PROVE  WaitInv'
<1>1. CASE UNCHANGED vars
  <2>1. UNCHANGED <<ds, life, copyAfter, calls, call, net>>
    BY <1>1 DEF vars
  <2> QED BY <2>1, MembersStay DEF Steps, Members
<1> QED BY <1>1, WaitKernel, WaitUser, WaitDispatch, WaitRecv, WaitWrite, WaitEnter, WaitAfter,
           WaitTimers DEF Next, Loop

\* The invariants hold together at all times.
LEMMA WaitAlways == Spec => [](LifeInv /\ WaitInv /\ DataInv)
<1>1. Init => WaitInv
  BY WaitInit
<1>2. DataInv /\ DataInv' /\ LifeInv /\ WaitInv /\ [Next]_vars => WaitInv'
  BY WaitNext
<1> QED BY <1>1, <1>2, DataAlways, LifeAlways, PTL DEF Spec

\* When the loop goes to sleep no call is on the stack and no proc left to run.
LEMMA Asleep ==
    ASSUME DataInv, LifeInv, phase = "wait"
    PROVE  call = "none" /\ calls = <<>> /\ copyAfter = <<>>
           /\ \A x : ~ In(x, calls) /\ ~ In(x, copyAfter)
<1>1. call = "none" /\ calls = <<>> /\ copyAfter = <<>>
  BY DataInvParts DEF LifeInv, LoopState, OthersOK, Writes
<1>2. Len(calls) = 0 /\ Len(copyAfter) = 0
  BY <1>1
<1> QED BY <1>1, <1>2 DEF In

(***************************************************************************)
(* Bytes in mSendList of an open socket are never forgotten when the loop  *)
(* sleeps: mIsPostFlush, mCanWrite and the epoll mask agree, in any number *)
(* of writes, partial writes and EPOLLOUT events.                          *)
(***************************************************************************)
THEOREM SendsNeverStall == Spec => []NoStalledSend
<1>1. ASSUME DataInv, LifeInv, WaitInv PROVE NoStalledSend
  <2> SUFFICES ASSUME phase = "wait", ds.mFD, ~ net.shut,
                      SumLeft(ds.mSendList, Len(ds.mSendList)) > 0,
                      ds.mSSL => ReadySendLen > 0
               PROVE  \/ In("flush", ds.after) /\ ds.mIsPostFlush
                      \/ ~ ds.mCanWrite /\ net.epollout /\ (net.space => net.onList)
    BY DEF NoStalledSend
  <2>1. call \notin Writes /\ \A x : ~ In(x, calls) /\ ~ In(x, copyAfter)
    BY <1>1, Asleep DEF Writes
  <2>2. ds.mSendList # <<>>
    <3>1. ASSUME ds.mSendList = <<>> PROVE FALSE
      <4>1. Len(ds.mSendList) = 0
        BY <3>1
      <4>2. SumLeft(ds.mSendList, 0) = 0
        BY SumStep
      <4> QED BY <4>1, <4>2
    <3> QED BY <3>1
  <2>3. ~ (ds.mSSL /\ ReadySendLen = 0)
    OBVIOUS
  <2>4. ds.mIsPostFlush \/ ~ ds.mCanWrite
    BY <1>1, <2>1, <2>2, <2>3 DEF WaitInv, SendInv, HasSender
  <2>5. ds.mIsPostFlush => In("flush", ds.after)
    BY <1>1, <2>1 DEF WaitInv, SendInv, FlushPosted
  <2>6. ~ ds.mCanWrite => net.epollout /\ (net.space => net.onList)
    BY <1>1, <2>1 DEF WaitInv, SendInv, AwaitsWrite
  <2> QED BY <2>4, <2>5, <2>6
<1> QED BY <1>1, WaitAlways, PTL

(***************************************************************************)
(* With edge-triggered epoll no byte and no close that has arrived without *)
(* TLS is left without an event when the loop sleeps, unless mRecvBuffer   *)
(* is full.                                                                *)
(***************************************************************************)
THEOREM RecvsNeverStall == Spec => []NoStalledRecv
<1>1. ASSUME DataInv, LifeInv, WaitInv PROVE NoStalledRecv
  <2> SUFFICES ASSUME phase = "wait", ds.mFD, Linked, ~ ds.mSSL
               PROVE  /\ net.incoming > 0 => net.onList \/ ds.recvLen = ds.recvSize
                      /\ net.peer # "open" => net.onList
    BY DEF NoStalledRecv
  <2>1. call = "none" /\ \A x : ~ In(x, calls)
    BY <1>1, Asleep
  <2> QED BY <1>1, <2>1 DEF WaitInv, RecvInv
<1> QED BY <1>1, WaitAlways, PTL
=============================================================================
