--------------------------- MODULE SequenceFacts ---------------------------
(***************************************************************************)
(* Facts the proofs about the components share: induction over the natural *)
(* numbers for sets, and what the operations on sequences do.              *)
(***************************************************************************)
EXTENDS Integers, Sequences, TLAPS, SequenceTheorems, WellFoundedInduction

(***************************************************************************)
(* A set with 0 and the successors of its members holds all the naturals.  *)
(***************************************************************************)
LEMMA NatSetInduction ==
    ASSUME NEW S, 0 \in S, \A n \in Nat : n \in S => n + 1 \in S
    PROVE  Nat \subseteq S
<1> DEFINE R == OpToRel(<, Nat)
           T == Nat \ S
<1>1. IsWellFoundedOn(R, Nat)
  BY NatLessThanWellFounded DEF OpToRel
<1>2. ASSUME NEW x \in Nat, NEW y \in Nat, x < y PROVE <<x, y>> \in R
  BY <1>2 DEF OpToRel
<1> HIDE DEF R
<1>3. SUFFICES ASSUME T # {} PROVE FALSE
  OBVIOUS
<1>4. PICK x \in T : \A y \in T : ~ (<<y, x>> \in R)
  BY <1>1, <1>3, WFMin
<1>5. x # 0 /\ x - 1 \in Nat /\ x - 1 < x /\ (x - 1) + 1 = x
  OBVIOUS
<1>6. x - 1 \in T
  BY <1>5
<1> QED BY <1>2, <1>4, <1>5, <1>6

(***************************************************************************)
(* The same for the numbers up to n.                                       *)
(***************************************************************************)
LEMMA UpToInduction ==
    ASSUME NEW n \in Nat, NEW S, 0 \in S, \A i \in 0..(n - 1) : i \in S => i + 1 \in S
    PROVE  0..n \subseteq S
<1> DEFINE T == {i \in Nat : i <= n => i \in S}
<1>1. 0 \in T
  OBVIOUS
<1>2. ASSUME NEW i \in Nat, i \in T PROVE i + 1 \in T
  BY <1>2
<1> HIDE DEF T
<1>3. Nat \subseteq T
  BY <1>1, <1>2, NatSetInduction
<1> QED BY <1>3 DEF T

(***************************************************************************)
(* Writing to a place of a sequence, if it has that place.                 *)
(***************************************************************************)
LEMMA ExceptInSeq ==
    ASSUME NEW S, NEW q \in Seq(S), NEW i, NEW e \in S
    PROVE  /\ [q EXCEPT ![i] = e] \in Seq(S)
           /\ Len([q EXCEPT ![i] = e]) = Len(q)
           /\ \A j \in 1..Len(q) : [q EXCEPT ![i] = e][j] = IF j = i THEN e ELSE q[j]
<1> DEFINE r == [q EXCEPT ![i] = e]
<1>1. q \in [1..Len(q) -> S] /\ Len(q) \in Nat
  OBVIOUS
<1>2. r \in [1..Len(q) -> S]
  BY <1>1
<1>3. \A j \in 1..Len(q) : r[j] = IF j = i THEN e ELSE q[j]
  BY <1>1
<1> HIDE DEF r
<1>4. r \in Seq(S) /\ Len(r) = Len(q)
  BY <1>1, <1>2
<1> QED BY <1>3, <1>4 DEF r

(***************************************************************************)
(* Order of natural numbers.                                               *)
(***************************************************************************)
LEMMA NatOrder ==
    ASSUME NEW x \in Nat, NEW y \in Nat, NEW z \in Nat
    PROVE  (x <= y /\ y < z => x < z) /\ (x <= y /\ y <= z => x <= z)
  OBVIOUS

(***************************************************************************)
(* Adding behind a concatenation, and taking from the front of one.        *)
(***************************************************************************)
LEMMA ConcatAppend ==
    ASSUME NEW S, NEW p \in Seq(S), NEW q \in Seq(S), NEW e \in S
    PROVE  p \o Append(q, e) = Append(p \o q, e)
<1> DEFINE l == p \o Append(q, e)
           r == Append(p \o q, e)
<1>1. l \in Seq(S) /\ r \in Seq(S) /\ Len(l) = Len(r)
  OBVIOUS
<1>2. ASSUME NEW i \in 1..Len(l) PROVE l[i] = r[i]
  OBVIOUS
<1> QED BY <1>1, <1>2, SeqEqual

\* The head and the tail of a concatenation are those of its left side.
LEMMA ConcatHeadTail ==
    ASSUME NEW S, NEW p \in Seq(S), NEW q \in Seq(S), p # <<>>
    PROVE  /\ p \o q # <<>>
           /\ Head(p \o q) = Head(p) /\ Tail(p \o q) = Tail(p) \o q
<1> DEFINE c == p \o q
           r == Tail(p) \o q
<1>1. c \in Seq(S) /\ Len(p) \in Nat \ {0} /\ Len(q) \in Nat /\ Len(c) = Len(p) + Len(q)
  OBVIOUS
<1>2. c # <<>> /\ Head(c) = Head(p)
  BY <1>1
<1>3. Tail(c) \in Seq(S) /\ Len(Tail(c)) = Len(c) - 1
      /\ \A i \in 1..Len(Tail(c)) : Tail(c)[i] = c[i + 1]
  BY <1>1, <1>2, HeadTailProperties
<1>4. Tail(p) \in Seq(S) /\ Len(Tail(p)) = Len(p) - 1
      /\ \A i \in 1..Len(Tail(p)) : Tail(p)[i] = p[i + 1]
  BY HeadTailProperties
<1>5. r \in Seq(S) /\ Len(r) = Len(Tail(c))
  BY <1>1, <1>3, <1>4
<1>6. ASSUME NEW i \in 1..Len(r) PROVE Tail(c)[i] = r[i]
  <2>1. Tail(c)[i] = c[i + 1] /\ i \in Nat /\ i + 1 \in 1..(Len(p) + Len(q))
    BY <1>1, <1>3, <1>5
  <2>2. c[i + 1] = IF i + 1 <= Len(p) THEN p[i + 1] ELSE q[i + 1 - Len(p)]
    BY <2>1, ConcatProperties
  <2>3. i \in 1..(Len(Tail(p)) + Len(q))
    BY <1>1, <1>4, <2>1
  <2>4. r[i] = IF i <= Len(Tail(p)) THEN Tail(p)[i] ELSE q[i - Len(Tail(p))]
    BY <1>4, <2>3, ConcatProperties
  <2>5. CASE i + 1 <= Len(p)
    <3>1. i \in 1..Len(Tail(p))
      BY <1>1, <1>4, <2>1, <2>5
    <3> QED BY <1>4, <2>1, <2>2, <2>4, <2>5, <3>1
  <2>6. CASE ~ (i + 1 <= Len(p))
    <3>1. ~ (i <= Len(Tail(p))) /\ i - Len(Tail(p)) = i + 1 - Len(p)
      BY <1>1, <1>4, <2>1, <2>6
    <3> QED BY <2>1, <2>2, <2>4, <2>6, <3>1
  <2> QED BY <2>5, <2>6
<1>7. Tail(c) = r
  BY <1>3, <1>5, <1>6, SeqEqual
<1> QED BY <1>2, <1>7

\* q is p without its k-th element.
IsWithout(p, q, k) ==
    /\ Len(q) = Len(p) - 1
    /\ \A i \in 1..Len(q) : q[i] = IF i < k THEN p[i] ELSE p[i + 1]

(***************************************************************************)
(* The ways to take one element out.                                       *)
(***************************************************************************)
LEMMA TailWithout ==
    ASSUME NEW S, NEW p \in Seq(S), p # <<>>
    PROVE  Tail(p) \in Seq(S) /\ IsWithout(p, Tail(p), 1) /\ Head(p) = p[1] /\ 1 \in 1..Len(p)
<1>1. Tail(p) \in Seq(S) /\ Len(Tail(p)) = Len(p) - 1
      /\ \A i \in 1..Len(Tail(p)) : Tail(p)[i] = p[i + 1]
  BY HeadTailProperties
<1>2. Len(p) \in Nat \ {0} /\ Head(p) = p[1]
  OBVIOUS
<1>3. ASSUME NEW i \in 1..Len(Tail(p))
      PROVE  Tail(p)[i] = IF i < 1 THEN p[i] ELSE p[i + 1]
  BY <1>1, <1>2
<1> QED BY <1>1, <1>2, <1>3 DEF IsWithout

\* A sequence without its last element.
LEMMA FrontWithout ==
    ASSUME NEW S, NEW p \in Seq(S), p # <<>>
    PROVE  LET q == SubSeq(p, 1, Len(p) - 1) IN
           q \in Seq(S) /\ IsWithout(p, q, Len(p)) /\ Len(p) \in 1..Len(p)
<1> DEFINE k == Len(p) - 1
           q == SubSeq(p, 1, k)
<1>1. k \in Nat /\ Len(p) = k + 1 /\ \A i \in 1..k : p[i] \in S
  OBVIOUS
<1> HIDE DEF k
<1>2. q \in Seq(S) /\ Len(q) = (IF 1 <= k THEN k - 1 + 1 ELSE 0)
      /\ \A i \in 1..(k - 1 + 1) : q[i] = p[1 + i - 1]
  BY <1>1, SubSeqProperties
<1>3. Len(q) = k
  BY <1>1, <1>2
<1>4. ASSUME NEW i \in 1..k PROVE q[i] = IF i < Len(p) THEN p[i] ELSE p[i + 1]
  <2>1. i \in 1..(k - 1 + 1) /\ 1 + i - 1 = i /\ i < Len(p)
    BY <1>1
  <2> QED BY <1>2, <2>1
<1>5. q \in Seq(S) /\ IsWithout(p, q, Len(p)) /\ Len(p) \in 1..Len(p)
  BY <1>1, <1>2, <1>3, <1>4 DEF IsWithout
<1> QED BY <1>5 DEF k

\* A sequence cut in two around an element.
LEMMA CutWithout ==
    ASSUME NEW S, NEW p \in Seq(S), NEW k \in 1..Len(p)
    PROVE  LET q == SubSeq(p, 1, k - 1) \o SubSeq(p, k + 1, Len(p)) IN
           q \in Seq(S) /\ IsWithout(p, q, k)
<1> DEFINE n == Len(p)
           a == SubSeq(p, 1, k - 1)
           b == SubSeq(p, k + 1, n)
           q == a \o b
<1>1. n \in Nat /\ k \in Nat \ {0} /\ k <= n /\ k - 1 \in Nat /\ k + 1 \in Int /\ n \in Int
  OBVIOUS
<1>2. (\A i \in 1..(k - 1) : p[i] \in S) /\ (\A i \in (k + 1)..n : p[i] \in S)
  OBVIOUS
<1> HIDE DEF n
<1>3. a \in Seq(S) /\ Len(a) = (IF 1 <= k - 1 THEN k - 1 - 1 + 1 ELSE 0)
      /\ \A i \in 1..(k - 1 - 1 + 1) : a[i] = p[1 + i - 1]
  BY <1>1, <1>2, SubSeqProperties
<1>4. b \in Seq(S) /\ Len(b) = (IF k + 1 <= n THEN n - (k + 1) + 1 ELSE 0)
      /\ \A i \in 1..(n - (k + 1) + 1) : b[i] = p[k + 1 + i - 1]
  BY <1>1, <1>2, SubSeqProperties
<1>5. Len(a) = k - 1 /\ Len(b) = n - k
  BY <1>1, <1>3, <1>4
<1> HIDE DEF a, b
<1>6. q \in Seq(S) /\ Len(q) = Len(a) + Len(b)
      /\ \A i \in 1..(Len(a) + Len(b)) : q[i] = IF i <= Len(a) THEN a[i] ELSE b[i - Len(a)]
  BY <1>3, <1>4, ConcatProperties
<1>7. Len(q) = n - 1
  BY <1>1, <1>5, <1>6
<1>8. ASSUME NEW i \in 1..Len(q) PROVE q[i] = IF i < k THEN p[i] ELSE p[i + 1]
  <2>1. i \in 1..(Len(a) + Len(b)) /\ i \in Nat
    BY <1>1, <1>5, <1>7
  <2>2. CASE i < k
    <3>1. i <= Len(a) /\ i \in 1..(k - 1 - 1 + 1) /\ 1 + i - 1 = i
      BY <1>1, <1>5, <2>1, <2>2
    <3>2. q[i] = a[i]
      BY <1>6, <2>1, <3>1
    <3> QED BY <1>3, <2>2, <3>1, <3>2
  <2>3. CASE ~ (i < k)
    <3>1. ~ (i <= Len(a)) /\ i - Len(a) \in 1..(n - (k + 1) + 1) /\ k + 1 + (i - Len(a)) - 1 = i + 1
      BY <1>1, <1>5, <1>7, <2>1, <2>3
    <3>2. q[i] = b[i - Len(a)]
      BY <1>6, <2>1, <3>1
    <3>3. b[i - Len(a)] = p[k + 1 + (i - Len(a)) - 1]
      BY <1>4, <3>1
    <3> QED BY <2>3, <3>1, <3>2, <3>3
  <2> QED BY <2>2, <2>3
<1>9. IsWithout(p, q, k)
  BY <1>7, <1>8 DEF IsWithout, n
<1> QED BY <1>6, <1>9 DEF a, b, n

(***************************************************************************)
(* What stays, and what goes.                                              *)
(***************************************************************************)
StaysIn(p, q, k) ==
    /\ \A i \in 1..Len(q) : \E j \in 1..Len(p) : j # k /\ q[i] = p[j]
    /\ \A j \in 1..Len(p) : j # k => \E i \in 1..Len(q) : q[i] = p[j]
    /\ \A i, j \in 1..Len(q) : i < j =>
           \E f, g \in 1..Len(p) : f < g /\ f # k /\ g # k /\ q[i] = p[f] /\ q[j] = p[g]

\* Without its k-th element a sequence is in the order it was.
LEMMA WithoutStays ==
    ASSUME NEW S, NEW p \in Seq(S), NEW q \in Seq(S), NEW k \in 1..Len(p), IsWithout(p, q, k)
    PROVE  StaysIn(p, q, k)
<1> DEFINE At(i) == IF i < k THEN i ELSE i + 1
<1>1. Len(p) \in Nat /\ k \in Nat /\ Len(q) = Len(p) - 1 /\ k <= Len(p) /\ k >= 1
  BY DEF IsWithout
<1>2. ASSUME NEW i \in 1..Len(q) PROVE At(i) \in 1..Len(p) /\ At(i) # k /\ q[i] = p[At(i)]
  <2>1. q[i] = p[At(i)]
    BY DEF IsWithout
  <2>2. At(i) \in 1..Len(p) /\ At(i) # k
    BY <1>1
  <2> QED BY <2>1, <2>2
<1>3. ASSUME NEW i \in 1..Len(q), NEW j \in 1..Len(q), i < j PROVE At(i) < At(j)
  BY <1>1, <1>3
<1>4. ASSUME NEW j \in 1..Len(p), j # k PROVE \E i \in 1..Len(q) : At(i) = j
  <2>1. CASE j < k
    <3>1. j \in 1..Len(q) /\ At(j) = j
      BY <1>1, <2>1
    <3> QED BY <3>1
  <2>2. CASE ~ (j < k)
    <3>1. j - 1 \in 1..Len(q) /\ At(j - 1) = j
      BY <1>1, <1>4, <2>2
    <3> QED BY <3>1
  <2> QED BY <2>1, <2>2
<1> HIDE DEF At
<1>5. \A i \in 1..Len(q) : \E j \in 1..Len(p) : j # k /\ q[i] = p[j]
  BY <1>2
<1>6. \A j \in 1..Len(p) : j # k => \E i \in 1..Len(q) : q[i] = p[j]
  BY <1>2, <1>4
<1>7. \A i, j \in 1..Len(q) : i < j =>
          \E f, g \in 1..Len(p) : f < g /\ f # k /\ g # k /\ q[i] = p[f] /\ q[j] = p[g]
  BY <1>2, <1>3
<1> QED BY <1>5, <1>6, <1>7 DEF StaysIn

(***************************************************************************)
(* A set of numbers up to n that is not empty has a largest member.        *)
(***************************************************************************)
LEMMA LargestExists ==
    ASSUME NEW n \in Nat, NEW T, T \subseteq 0..n, T # {}
    PROVE  \E m \in T : \A i \in T : i <= m
<1> DEFINE S == {k \in 0..n : \E i \in T : i >= k}
<1>1. SUFFICES ASSUME \A m \in T : \E i \in T : ~ (i <= m) PROVE FALSE
  OBVIOUS
<1>2. 0 \in S
  <2>1. PICK i : i \in T
    OBVIOUS
  <2>2. i \in 0..n /\ i >= 0 /\ 0 \in 0..n
    BY <2>1
  <2> QED BY <2>1, <2>2
<1>3. ASSUME NEW k \in 0..(n - 1), k \in S PROVE k + 1 \in S
  <2>1. PICK i \in T : i >= k
    BY <1>3
  <2>2. PICK j \in T : ~ (j <= i)
    BY <1>1
  <2>3. i \in 0..n /\ j \in 0..n
    OBVIOUS
  <2>4. j >= k + 1 /\ k + 1 \in 0..n
    BY <2>1, <2>2, <2>3
  <2> QED BY <2>4
<1> HIDE DEF S
<1>4. 0..n \subseteq S
  BY <1>2, <1>3, UpToInduction
<1>5. PICK i \in T : i >= n
  BY <1>4 DEF S
<1>6. PICK j \in T : ~ (j <= i)
  BY <1>1
<1>7. i \in 0..n /\ j \in 0..n
  OBVIOUS
<1> QED BY <1>5, <1>6, <1>7
=============================================================================
