--------------------------- MODULE LibraryProofs ---------------------------
(***************************************************************************)
(* Theorems about the parts of utils/: the receive buffer, the pools, the  *)
(* timers of timeaction.c, the coroutines and the packets; and about rpc/: *)
(* calls and answers between two services.                                 *)
(***************************************************************************)
EXTENDS Buffer, Pools, Timeaction, Coroutine, Rpc, Packet, SequenceFacts, FiniteSetTheorems

-----------------------------------------------------------------------------
(* The receive buffer. *)

\* A struct buffer_s: the positions are in order and within the data.
BufferOK(b) ==
    /\ b \in [data : Seq(Nat), write_pos : Nat, read_pos : Nat]
    /\ b.read_pos <= b.write_pos /\ b.write_pos <= Len(b.data)

\* What is unread in b are the bytes behind number done.
Holds(b, done) ==
    \A i \in Nat : b.read_pos < i /\ i <= b.write_pos => b.data[i] = done + (i - b.read_pos)

BufferInv ==
    /\ BufferOK(recvBuffer) /\ Size(recvBuffer) > 0
    /\ receivedBytes \in Nat /\ doneBytes \in Nat /\ shownBytes \in Seq(Nat)
    /\ receivedBytes = doneBytes + readValid(recvBuffer)
    /\ Holds(recvBuffer, doneBytes)
    /\ \A i \in 1..Len(shownBytes) : shownBytes[i] = receivedBytes - Len(shownBytes) + i
    /\ writeValid(recvBuffer) = 0 =>
         readValid(recvBuffer) = Size(recvBuffer) /\ Size(recvBuffer) + BufferGrow > BufferMax

\* The unread bytes of a buffer, as a sequence.
LEMMA UnreadIs ==
    ASSUME NEW b, BufferOK(b)
    PROVE  /\ readValid(b) \in Nat /\ Size(b) \in Nat /\ writeValid(b) \in Nat
           /\ Unread(b) \in Seq(Nat) /\ Len(Unread(b)) = readValid(b)
           /\ \A i \in 1..readValid(b) : Unread(b)[i] = b.data[b.read_pos + i]
<1> DEFINE d == b.data
           r == b.read_pos
           w == b.write_pos
<1>1. d \in Seq(Nat) /\ r \in Nat /\ w \in Nat /\ r <= w /\ w <= Len(d) /\ Len(d) \in Nat
  BY DEF BufferOK
<1> HIDE DEF d, r, w
<1>2. /\ SubSeq(d, r + 1, w) \in Seq(Nat)
      /\ Len(SubSeq(d, r + 1, w)) = w - r
      /\ \A i \in 1..(w - r) : SubSeq(d, r + 1, w)[i] = d[r + i]
  <2> DEFINE m == r + 1
             s == SubSeq(d, m, w)
  <2>1. m \in 1..(Len(d) + 1) /\ w \in (m - 1)..Len(d) /\ w - m + 1 = w - r
    BY <1>1
  <2> HIDE DEF m
  <2>a. \A i \in m..w : d[i] \in Nat
    BY <1>1, <2>1, ElementOfSeq
  <2>b. m \in Int /\ w \in Int /\ (IF m <= w THEN w - m + 1 ELSE 0) = w - m + 1
    BY <1>1, <2>1
  <2>2. s \in Seq(Nat) /\ Len(s) = w - m + 1 /\ \A i \in 1..(w - m + 1) : s[i] = d[m + i - 1]
    BY <2>a, <2>b, SubSeqProperties
  <2>3. \A i \in 1..(w - r) : s[i] = d[r + i]
    <3> SUFFICES ASSUME NEW i \in 1..(w - r) PROVE s[i] = d[r + i]
      OBVIOUS
    <3>1. m + i - 1 = r + i
      BY <1>1 DEF m
    <3> HIDE DEF s
    <3> QED BY <2>1, <2>2, <3>1
  <2> HIDE DEF s
  <2> QED BY <2>1, <2>2, <2>3 DEF s, m
<1>3. Unread(b) = SubSeq(d, r + 1, w) /\ readValid(b) = w - r /\ Size(b) = Len(d)
      /\ writeValid(b) = Len(d) - w
  BY DEF Unread, readValid, writeValid, Size, d, r, w
<1>4. w - r \in Nat /\ Len(d) - w \in Nat
  BY <1>1
<1> QED BY <1>1, <1>2, <1>3, <1>4 DEF d, r

\* memcpy behind the unread bytes, or over the head of the data.
LEMMA MemcpyIs ==
    ASSUME NEW b, BufferOK(b), NEW at \in Nat, NEW bytes \in Seq(Nat), at + Len(bytes) <= Size(b)
    PROVE  LET c == Memcpy(b, at, bytes) IN
           /\ BufferOK(c) /\ Size(c) = Size(b)
           /\ c.read_pos = b.read_pos /\ c.write_pos = b.write_pos
           /\ \A i \in 1..Len(bytes) : c.data[at + i] = bytes[i]
           /\ \A i \in 1..at : c.data[i] = b.data[i]
<1> DEFINE d == b.data
           e == [i \in 1..Size(b) |-> IF i - at \in DOMAIN bytes THEN bytes[i - at] ELSE d[i]]
           c == Memcpy(b, at, bytes)
<1>1. d \in Seq(Nat) /\ Len(d) \in Nat /\ Size(b) = Len(d) /\ Len(bytes) \in Nat
      /\ DOMAIN bytes = 1..Len(bytes)
      /\ b \in [data : Seq(Nat), write_pos : Nat, read_pos : Nat]
  BY DEF BufferOK, Size
<1>2. c = [b EXCEPT !.data = e]
  BY DEF Memcpy
<1>3. e \in [1..Len(d) -> Nat]
  <2>1. ASSUME NEW i \in 1..Len(d) PROVE d[i] \in Nat
    BY <1>1, ElementOfSeq
  <2>2. ASSUME NEW i \in DOMAIN bytes PROVE bytes[i] \in Nat
    BY <1>1, ElementOfSeq
  <2> QED BY <1>1, <2>1, <2>2
<1>4. e \in Seq(Nat) /\ Len(e) = Len(d)
  BY SMTT(60), <1>1, <1>3
<1>5. /\ \A i \in 1..Len(bytes) : e[at + i] = bytes[i]
      /\ \A i \in 1..at : e[i] = d[i]
  BY <1>1
<1> HIDE DEF e, c
<1>6. c.data = e /\ c.read_pos = b.read_pos /\ c.write_pos = b.write_pos
      /\ c \in [data : Seq(Nat), write_pos : Nat, read_pos : Nat]
  BY <1>1, <1>2, <1>4
<1>7. BufferOK(c) /\ Size(c) = Size(b)
  BY <1>1, <1>4, <1>6 DEF BufferOK, Size
<1> QED BY <1>5, <1>6, <1>7 DEF c

\* Moving the unread bytes to the head keeps them.
LEMMA AdjustIs ==
    ASSUME NEW b, BufferOK(b), NEW done \in Nat, Holds(b, done)
    PROVE  LET c == ox_buffer_adjustto_head(b) IN
           /\ BufferOK(c) /\ Holds(c, done) /\ Size(c) = Size(b)
           /\ c.read_pos = 0 /\ c.write_pos = readValid(b)
<1> DEFINE m == Memcpy(b, 0, Unread(b))
           c == ox_buffer_adjustto_head(b)
<1>0. /\ b.read_pos \in Nat /\ b.write_pos \in Nat /\ b.read_pos <= b.write_pos
      /\ b.write_pos <= Size(b) /\ readValid(b) = b.write_pos - b.read_pos
  BY DEF BufferOK, Size, readValid
<1>1. CASE b.read_pos = 0
  BY <1>0, <1>1 DEF ox_buffer_adjustto_head
<1>2. CASE b.read_pos # 0
  <2>1. /\ readValid(b) \in Nat /\ Size(b) \in Nat /\ readValid(b) <= Size(b)
        /\ Unread(b) \in Seq(Nat) /\ Len(Unread(b)) = readValid(b)
        /\ \A i \in 1..readValid(b) : Unread(b)[i] = b.data[b.read_pos + i]
    BY <1>0, UnreadIs
  <2>2. /\ BufferOK(m) /\ Size(m) = Size(b)
        /\ \A i \in 1..readValid(b) : m.data[0 + i] = Unread(b)[i]
    BY <2>1, MemcpyIs
  <2>3. c = [m EXCEPT !.read_pos = 0, !.write_pos = readValid(b)]
    BY <1>2 DEF ox_buffer_adjustto_head
  <2> HIDE DEF m, c
  <2>4. m \in [data : Seq(Nat), write_pos : Nat, read_pos : Nat]
    BY <2>2 DEF BufferOK
  <2>5. /\ c.data = m.data /\ c.read_pos = 0 /\ c.write_pos = readValid(b)
        /\ c \in [data : Seq(Nat), write_pos : Nat, read_pos : Nat]
    BY <2>1, <2>3, <2>4
  <2>6. BufferOK(c) /\ Size(c) = Size(b)
    BY <2>1, <2>2, <2>5 DEF BufferOK, Size
  <2>7. Holds(c, done)
    <3> SUFFICES ASSUME NEW i \in Nat, 0 < i, i <= readValid(b) PROVE m.data[i] = done + (i - 0)
      BY <2>5 DEF Holds
    <3>1. i \in 1..readValid(b) /\ 0 + i = i
      BY <2>1
    <3>2. m.data[i] = b.data[b.read_pos + i]
      BY <2>1, <2>2, <3>1
    <3>3. /\ b.read_pos + i \in Nat /\ b.read_pos < b.read_pos + i
          /\ b.read_pos + i <= b.write_pos /\ (b.read_pos + i) - b.read_pos = i - 0
      BY <1>0
    <3>4. b.data[b.read_pos + i] = done + ((b.read_pos + i) - b.read_pos)
      BY <3>3 DEF Holds
    <3> QED BY <3>2, <3>3, <3>4
  <2> QED BY <2>5, <2>6, <2>7 DEF c
<1> QED BY <1>1, <1>2

\* Received bytes behind write_pos continue the unread ones.
LEMMA GotIs ==
    ASSUME NEW b, BufferOK(b), NEW done \in Nat, Holds(b, done), NEW n \in Nat, n <= writeValid(b),
           NEW bytes \in Seq(Nat), Len(bytes) = n,
           \A i \in 1..n : bytes[i] = done + readValid(b) + i
    PROVE  LET c == ox_buffer_addwritepos(Memcpy(b, b.write_pos, bytes), n) IN
           /\ BufferOK(c) /\ Holds(c, done) /\ Size(c) = Size(b)
           /\ c.read_pos = b.read_pos /\ c.write_pos = b.write_pos + n
<1> DEFINE m == Memcpy(b, b.write_pos, bytes)
           c == ox_buffer_addwritepos(m, n)
<1>0. /\ b.read_pos \in Nat /\ b.write_pos \in Nat /\ b.read_pos <= b.write_pos
      /\ readValid(b) = b.write_pos - b.read_pos /\ Size(b) \in Nat
      /\ b.write_pos + n <= Size(b)
  BY SMTT(60), UnreadIs DEF BufferOK, readValid, writeValid
<1>1. /\ BufferOK(m) /\ Size(m) = Size(b)
      /\ m.read_pos = b.read_pos /\ m.write_pos = b.write_pos
      /\ \A i \in 1..n : m.data[b.write_pos + i] = bytes[i]
      /\ \A i \in 1..b.write_pos : m.data[i] = b.data[i]
  <2> DEFINE w == b.write_pos
             c2 == Memcpy(b, w, bytes)
  <2>1. w \in Nat /\ bytes \in Seq(Nat) /\ w + Len(bytes) <= Size(b) /\ BufferOK(b)
    BY <1>0
  <2> HIDE DEF w
  <2>2. /\ BufferOK(c2) /\ Size(c2) = Size(b)
        /\ c2.read_pos = b.read_pos /\ c2.write_pos = b.write_pos
        /\ \A i \in 1..Len(bytes) : c2.data[w + i] = bytes[i]
        /\ \A i \in 1..w : c2.data[i] = b.data[i]
    BY ONLY <2>1, MemcpyIs
  <2> QED BY <2>2 DEF w
<1>2. c = [m EXCEPT !.write_pos = b.write_pos + n]
  BY <1>0, <1>1 DEF ox_buffer_addwritepos
<1> HIDE DEF m, c
<1>3. m \in [data : Seq(Nat), write_pos : Nat, read_pos : Nat] /\ b.write_pos + n \in Nat
  BY <1>0, <1>1 DEF BufferOK
<1>4. /\ c.data = m.data /\ c.read_pos = b.read_pos /\ c.write_pos = b.write_pos + n
      /\ c \in [data : Seq(Nat), write_pos : Nat, read_pos : Nat]
  BY ONLY <1>1, <1>2, <1>3
<1>5. BufferOK(c) /\ Size(c) = Size(b)
  BY <1>0, <1>1, <1>4 DEF BufferOK, Size
<1>6. Holds(c, done)
  <2> SUFFICES ASSUME NEW i \in Nat, b.read_pos < i, i <= b.write_pos + n
               PROVE  m.data[i] = done + (i - b.read_pos)
    BY <1>4 DEF Holds
  <2>1. CASE i <= b.write_pos
    BY <1>0, <1>1, <2>1 DEF Holds
  <2>2. CASE ~ (i <= b.write_pos)
    <3> DEFINE j == i - b.write_pos
    <3>0. ASSUME NEW r \in Nat, NEW w \in Nat, r <= w, ~ (i <= w), i <= w + n
          PROVE  /\ i - w \in 1..n /\ w + (i - w) = i
                 /\ done + (w - r) + (i - w) = done + (i - r)
      BY ONLY <3>0, i \in Nat, done \in Nat, n \in Nat
    <3>1. j \in 1..n /\ b.write_pos + j = i /\ done + readValid(b) + j = done + (i - b.read_pos)
      BY SMTT(90), <1>0, <2>2, <3>0
    <3> HIDE DEF j
    <3>2. m.data[b.write_pos + j] = bytes[j]
      BY <1>1, <3>1
    <3> QED BY <3>1, <3>2
  <2> QED BY <2>1, <2>2
<1> QED BY <1>4, <1>5, <1>6 DEF c, m

\* The larger buffer has the unread bytes of the full one.
LEMMA GrownIs ==
    ASSUME NEW b, BufferOK(b), NEW done \in Nat, Holds(b, done)
    PROVE  LET c == growRecvBuffer(b) IN
           /\ BufferOK(c) /\ Holds(c, done) /\ readValid(c) = readValid(b)
           /\ \/ c = b /\ Size(b) + BufferGrow > BufferMax
              \/ Size(c) = Size(b) + BufferGrow /\ c.read_pos = 0 /\ c.write_pos = readValid(b)
<1> DEFINE n == Size(b) + BufferGrow
           e == ox_buffer_new(n)
           c == growRecvBuffer(b)
<1>a. /\ b.read_pos \in Nat /\ b.write_pos \in Nat /\ b.read_pos <= b.write_pos
      /\ readValid(b) = b.write_pos - b.read_pos /\ b.write_pos <= Size(b) /\ Size(b) \in Nat
  BY DEF BufferOK, readValid, Size
<1>0. /\ readValid(b) \in Nat /\ readValid(b) <= Size(b)
      /\ Unread(b) \in Seq(Nat) /\ Len(Unread(b)) = readValid(b)
      /\ \A i \in 1..readValid(b) : Unread(b)[i] = b.data[b.read_pos + i]
  BY <1>a, UnreadIs
<1>1. n \in Nat /\ BufferGrow \in Nat /\ BufferMax \in Nat /\ readValid(b) <= n
  BY <1>a, <1>0, BufferAssumption
<1>2. CASE ~ (n <= BufferMax)
  BY <1>1, <1>2 DEF growRecvBuffer
<1>3. CASE n <= BufferMax
  <2>1. /\ e.data \in Seq(Nat) /\ Len(e.data) = n /\ e.read_pos = 0 /\ e.write_pos = 0
        /\ e \in [data : Seq(Nat), write_pos : Nat, read_pos : Nat]
    BY <1>1 DEF ox_buffer_new
  <2> HIDE DEF e, n
  <2>2. BufferOK(e) /\ Holds(e, done) /\ readValid(e) = 0 /\ writeValid(e) = n /\ Size(e) = n
    BY <1>1, <2>1 DEF BufferOK, Holds, readValid, writeValid, Size
  <2>3. c = ox_buffer_addwritepos(Memcpy(e, e.write_pos, Unread(b)), readValid(b))
    BY <1>0, <1>1, <1>3, <2>2 DEF growRecvBuffer, ox_buffer_write, e, n
  <2>4. \A i \in 1..readValid(b) : Unread(b)[i] = done + readValid(e) + i
    <3> SUFFICES ASSUME NEW i \in 1..readValid(b) PROVE Unread(b)[i] = done + readValid(e) + i
      OBVIOUS
    <3>1. /\ b.read_pos + i \in Nat /\ b.read_pos < b.read_pos + i
          /\ b.read_pos + i <= b.write_pos /\ (b.read_pos + i) - b.read_pos = i
      BY <1>a
    <3>2. b.data[b.read_pos + i] = done + i
      BY <3>1 DEF Holds
    <3>3. done + readValid(e) + i = done + i
      BY <2>2
    <3> QED BY <1>0, <3>2, <3>3
  <2>5. /\ BufferOK(c) /\ Holds(c, done) /\ Size(c) = n
        /\ c.read_pos = 0 /\ c.write_pos = 0 + readValid(b)
    <3> DEFINE g == ox_buffer_addwritepos(Memcpy(e, e.write_pos, Unread(b)), readValid(b))
    <3>1. readValid(b) \in Nat /\ readValid(b) <= writeValid(e)
      BY <1>0, <1>1, <2>2
    <3>2. /\ BufferOK(g) /\ Holds(g, done) /\ Size(g) = Size(e)
          /\ g.read_pos = e.read_pos /\ g.write_pos = e.write_pos + readValid(b)
      BY <1>0, <2>2, <2>4, <3>1, GotIs
    <3> HIDE DEF g
    <3> QED BY <2>1, <2>2, <2>3, <3>2 DEF g
  <2> HIDE DEF c
  <2>6. c.write_pos = readValid(b) /\ readValid(c) = readValid(b)
    <3>1. 0 + readValid(b) = readValid(b) /\ readValid(b) - 0 = readValid(b)
      BY <1>0
    <3> QED BY <2>5, <3>1 DEF readValid
  <2> QED BY <2>5, <2>6 DEF c, n
<1> QED BY <1>2, <1>3

\* The callback is done with k bytes.
LEMMA TakenFrom ==
    ASSUME NEW b, BufferOK(b), NEW done \in Nat, Holds(b, done), NEW k \in Nat, k <= readValid(b)
    PROVE  LET c == ox_buffer_addreadpos(b, k) IN
           /\ BufferOK(c) /\ Holds(c, done + k) /\ Size(c) = Size(b)
           /\ c.read_pos = b.read_pos + k /\ c.write_pos = b.write_pos
<1> DEFINE c == ox_buffer_addreadpos(b, k)
<1>0. /\ b \in [data : Seq(Nat), write_pos : Nat, read_pos : Nat]
      /\ b.read_pos \in Nat /\ b.write_pos \in Nat /\ Size(b) \in Nat /\ b.write_pos <= Size(b)
      /\ b.read_pos + k <= b.write_pos /\ b.read_pos + k <= Size(b)
  BY UnreadIs DEF BufferOK, readValid, Size
<1>1. c = [b EXCEPT !.read_pos = @ + k]
  BY <1>0 DEF ox_buffer_addreadpos
<1> HIDE DEF c
<1>2. /\ c.data = b.data /\ c.read_pos = b.read_pos + k /\ c.write_pos = b.write_pos
      /\ c \in [data : Seq(Nat), write_pos : Nat, read_pos : Nat]
  BY SMTT(40), <1>0, <1>1
<1>3. BufferOK(c) /\ Size(c) = Size(b)
  BY <1>0, <1>2 DEF BufferOK, Size
<1>4. Holds(c, done + k)
  <2> SUFFICES ASSUME NEW i \in Nat, b.read_pos + k < i, i <= b.write_pos
               PROVE  b.data[i] = (done + k) + (i - (b.read_pos + k))
    BY <1>2 DEF Holds
  <2>1. b.read_pos < i /\ (done + k) + (i - (b.read_pos + k)) = done + (i - b.read_pos)
    BY <1>0
  <2>2. b.data[i] = done + (i - b.read_pos)
    BY <2>1 DEF Holds
  <2> QED BY <2>1, <2>2
<1> QED BY <1>2, <1>3, <1>4 DEF c

\* A pass of recv keeps BufferInv.
LEMMA BufferStep == BufferInv /\ [BufferNext]_bufferVars => BufferInv'
<1> SUFFICES ASSUME BufferInv, [BufferNext]_bufferVars PROVE BufferInv'
  OBVIOUS
<1>1. CASE UNCHANGED bufferVars
  BY <1>1 DEF bufferVars, BufferInv, BufferOK, Holds, readValid, writeValid, Size
<1>2. ASSUME NEW n \in 1..MaxBytes, NEW k \in 0..MaxBytes, recvPass(n, k) PROVE BufferInv'
  <2> DEFINE b == recvBuffer
             done == doneBytes
             bytes == [i \in 1..n |-> receivedBytes + i]
             got == ox_buffer_addwritepos(Memcpy(b, b.write_pos, bytes), n)
             grown == IF readValid(got) = Size(got) THEN growRecvBuffer(got) ELSE got
             taken == ox_buffer_addreadpos(grown, k)
             after == IF writeValid(taken) = 0 \/ readValid(taken) = 0
                      THEN ox_buffer_adjustto_head(taken) ELSE taken
  <2>0. /\ n \in Nat /\ k \in Nat /\ n <= writeValid(b) /\ k <= readValid(grown)
        /\ recvBuffer' = after /\ receivedBytes' = receivedBytes + n
        /\ shownBytes' = Unread(grown) /\ doneBytes' = done + k
    <3>1. n \in Nat /\ k \in Nat
      BY BufferAssumption
    <3>2. writeValid(b) \in Nat
      BY UnreadIs DEF BufferInv
    <3> QED BY <1>2, <3>1, <3>2 DEF recvPass
  <2>1. /\ BufferOK(b) /\ Holds(b, done) /\ done \in Nat /\ receivedBytes \in Nat
        /\ readValid(b) \in Nat /\ Size(b) \in Nat /\ Size(b) > 0
        /\ receivedBytes = done + readValid(b)
    BY UnreadIs DEF BufferInv
  <2>2. bytes \in Seq(Nat) /\ Len(bytes) = n /\ \A i \in 1..n : bytes[i] = done + readValid(b) + i
    BY SMTT(40), <2>0, <2>1
  <2>3. /\ BufferOK(got) /\ Holds(got, done) /\ Size(got) = Size(b)
        /\ got.read_pos = b.read_pos /\ got.write_pos = b.write_pos + n
    <3> HIDE DEF bytes
    <3> QED BY SMTT(40), <2>0, <2>1, <2>2, GotIs
  <2> HIDE DEF bytes, got
  <2>4. readValid(got) = readValid(b) + n /\ readValid(got) \in Nat
    <3>1. b.read_pos \in Nat /\ b.write_pos \in Nat
      BY <2>1 DEF BufferOK
    <3>2. readValid(got) = (b.write_pos + n) - b.read_pos /\ readValid(b) = b.write_pos - b.read_pos
      BY <2>3 DEF readValid
    <3> QED BY ONLY <2>1, <3>1, <3>2, n \in 1..MaxBytes
  <2>5. /\ BufferOK(grown) /\ Holds(grown, done) /\ readValid(grown) = readValid(got)
        /\ Size(grown) \in Nat /\ Size(grown) > 0
        /\ readValid(grown) = Size(grown) => Size(grown) + BufferGrow > BufferMax
    <3>1. CASE readValid(got) # Size(got)
      BY <2>1, <2>3, <3>1
    <3>2. CASE readValid(got) = Size(got)
      <4> DEFINE g == growRecvBuffer(got)
      <4>1. /\ BufferOK(g) /\ Holds(g, done) /\ readValid(g) = readValid(got)
            /\ \/ g = got /\ Size(got) + BufferGrow > BufferMax
               \/ Size(g) = Size(got) + BufferGrow
        BY <2>1, <2>3, GrownIs
      <4>2. grown = g
        BY <3>2
      <4> HIDE DEF g, grown
      <4> QED BY <2>1, <2>3, <3>2, <4>1, <4>2, BufferAssumption
    <3> QED BY <3>1, <3>2
  <2> HIDE DEF grown
  <2>6. /\ BufferOK(taken) /\ Holds(taken, done + k) /\ Size(taken) = Size(grown)
        /\ taken.read_pos = grown.read_pos + k /\ taken.write_pos = grown.write_pos
    BY <2>0, <2>1, <2>5, TakenFrom
  <2> HIDE DEF taken
  <2>7. /\ grown.read_pos \in Nat /\ grown.write_pos \in Nat
        /\ readValid(grown) = grown.write_pos - grown.read_pos
        /\ readValid(taken) = taken.write_pos - taken.read_pos
        /\ writeValid(taken) = Size(taken) - taken.write_pos
        /\ taken.write_pos <= Size(taken)
    BY <2>5, <2>6 DEF BufferOK, readValid, writeValid, Size
  <2>8. /\ readValid(taken) = readValid(grown) - k /\ readValid(taken) \in Nat
        /\ receivedBytes + n = (done + k) + readValid(taken)
    BY <2>0, <2>1, <2>4, <2>5, <2>6, <2>7
  <2>9. /\ BufferOK(after) /\ Holds(after, done + k) /\ Size(after) = Size(taken)
        /\ readValid(after) = readValid(taken)
        /\ writeValid(after) = 0 => readValid(after) = Size(after)
    <3>1. CASE ~ (writeValid(taken) = 0 \/ readValid(taken) = 0)
      BY <2>6, <3>1
    <3>2. CASE writeValid(taken) = 0 \/ readValid(taken) = 0
      <4> DEFINE h == ox_buffer_adjustto_head(taken)
      <4>1. /\ BufferOK(h) /\ Holds(h, done + k) /\ Size(h) = Size(taken)
            /\ h.read_pos = 0 /\ h.write_pos = readValid(taken)
        BY <2>0, <2>1, <2>6, AdjustIs
      <4>2. after = h
        BY <3>2
      <4> HIDE DEF h, after
      <4>3. readValid(h) = readValid(taken) /\ writeValid(h) = Size(h) - readValid(h)
        BY <2>8, <4>1 DEF readValid, writeValid
      <4> QED BY <2>5, <2>6, <2>8, <4>1, <4>2, <4>3
    <3> QED BY <3>1, <3>2
  <2> HIDE DEF after
  <2>10. writeValid(after) = 0 => Size(after) + BufferGrow > BufferMax
    <3> SUFFICES ASSUME writeValid(after) = 0 PROVE Size(after) + BufferGrow > BufferMax
      OBVIOUS
    <3>1. readValid(grown) - k = Size(grown) /\ grown.write_pos <= Size(grown)
      BY <2>6, <2>7, <2>8, <2>9
    <3>2. readValid(grown) = Size(grown)
      BY <2>0, <2>5, <2>7, <3>1
    <3> QED BY <2>5, <2>6, <2>9, <3>2
  <2>11. /\ Unread(grown) \in Seq(Nat) /\ Len(Unread(grown)) = readValid(grown)
         /\ \A i \in 1..readValid(grown) : Unread(grown)[i] = (receivedBytes + n) - readValid(grown) + i
    <3>1. /\ Unread(grown) \in Seq(Nat) /\ Len(Unread(grown)) = readValid(grown)
          /\ \A i \in 1..readValid(grown) : Unread(grown)[i] = grown.data[grown.read_pos + i]
      BY <2>5, UnreadIs
    <3>2. ASSUME NEW i \in 1..readValid(grown)
          PROVE  Unread(grown)[i] = (receivedBytes + n) - readValid(grown) + i
      <4>1. /\ grown.read_pos + i \in Nat /\ grown.read_pos < grown.read_pos + i
            /\ grown.read_pos + i <= grown.write_pos
            /\ (grown.read_pos + i) - grown.read_pos = i
        BY <2>7
      <4>2. grown.data[grown.read_pos + i] = done + i
        BY <2>5, <4>1 DEF Holds
      <4>3. (receivedBytes + n) - readValid(grown) + i = done + i
        <5>1. readValid(grown) = readValid(b) + n /\ i \in Nat /\ n \in Nat
          BY <2>0, <2>4, <2>5
        <5> QED BY ONLY <2>1, <5>1
      <4> QED BY <3>1, <4>2, <4>3
    <3> QED BY <3>1, <3>2
  <2>12. done + k \in Nat /\ receivedBytes + n \in Nat
    BY <2>0, <2>1
  <2>13. Size(after) > 0
    BY <2>5, <2>6, <2>9
  <2> QED BY <2>0, <2>8, <2>9, <2>10, <2>11, <2>12, <2>13 DEF BufferInv
<1> QED BY <1>1, <1>2 DEF BufferNext

\* BufferInv holds for the first buffer.
LEMMA BufferStart == BufferInit => BufferInv
<1> SUFFICES ASSUME BufferInit PROVE BufferInv
  OBVIOUS
<1>1. /\ recvBuffer.data \in Seq(Nat) /\ Len(recvBuffer.data) = BufferSize
      /\ recvBuffer.read_pos = 0 /\ recvBuffer.write_pos = 0
      /\ recvBuffer \in [data : Seq(Nat), write_pos : Nat, read_pos : Nat]
      /\ BufferSize \in Nat /\ BufferSize > 0
  BY BufferAssumption DEF BufferInit, ox_buffer_new
<1>2. shownBytes \in Seq(Nat) /\ Len(shownBytes) = 0 /\ receivedBytes = 0 /\ doneBytes = 0
  BY DEF BufferInit
<1> QED BY <1>1, <1>2 DEF BufferInv, BufferOK, Holds, readValid, writeValid, Size

(***************************************************************************)
(* However the received bytes are cut and however much of them the data    *)
(* callback takes, moving the bytes to the head of the buffer and growing  *)
(* it lose, repeat and reorder none, for any sizes of the buffer.          *)
(***************************************************************************)
THEOREM BytesIntact == BufferSpec => []ReceivedBytesIntact
<1>1. ASSUME BufferInv PROVE ReceivedBytesIntact
  <2> DEFINE b == recvBuffer
             n == readValid(b)
  <2>1. /\ BufferOK(b) /\ Holds(b, doneBytes) /\ doneBytes \in Nat /\ receivedBytes \in Nat
        /\ n \in Nat /\ Unread(b) \in Seq(Nat) /\ Len(Unread(b)) = n
        /\ \A i \in 1..n : Unread(b)[i] = b.data[b.read_pos + i]
        /\ receivedBytes = doneBytes + n
        /\ n = b.write_pos - b.read_pos /\ b.write_pos \in Nat /\ b.read_pos \in Nat
    <3>1. BufferOK(b) /\ Holds(b, doneBytes) /\ doneBytes \in Nat /\ receivedBytes \in Nat
          /\ receivedBytes = doneBytes + n
      BY <1>1 DEF BufferInv
    <3>2. n = b.write_pos - b.read_pos /\ b.write_pos \in Nat /\ b.read_pos \in Nat
      BY <3>1 DEF BufferOK, readValid
    <3> QED BY <3>1, <3>2, UnreadIs
  <2> HIDE DEF n
  <2>2. ASSUME NEW i \in 1..n PROVE Unread(b)[i] = doneBytes + i
    <3>0. ASSUME NEW r \in Nat, NEW w \in Nat, n = w - r
          PROVE  r + i \in Nat /\ r < r + i /\ r + i <= w /\ (r + i) - r = i
      BY ONLY <3>0, i \in 1..n
    <3>1. /\ b.read_pos + i \in Nat /\ b.read_pos < b.read_pos + i
          /\ b.read_pos + i <= b.write_pos /\ (b.read_pos + i) - b.read_pos = i
      BY <2>1, <3>0
    <3>2. b.data[b.read_pos + i] = doneBytes + i
      BY <2>1, <3>1 DEF Holds
    <3> QED BY <2>1, <3>2
  <2>3. receivedBytes - doneBytes = n
    BY <2>1
  <2>4. Unread(b) = [i \in 1..n |-> doneBytes + i]
    <3> DEFINE q == [i \in 1..n |-> doneBytes + i]
    <3>1. q \in Seq(Nat) /\ Len(q) = n /\ \A i \in 1..n : q[i] = doneBytes + i
      <4>1. n \in Nat /\ doneBytes \in Nat
        BY <2>1
      <4> QED BY ONLY <4>1
    <3> HIDE DEF q
    <3> QED BY <2>1, <2>2, <3>1, SeqEqual DEF q
  <2>5. DOMAIN shownBytes = 1..Len(shownBytes)
    BY <1>1 DEF BufferInv
  <2> QED BY <1>1, <2>3, <2>4, <2>5 DEF BufferInv, ReceivedBytesIntact
<1> QED BY <1>1, BufferStart, BufferStep, PTL DEF BufferSpec
-----------------------------------------------------------------------------
(* Facts about numbers and lists without repetitions. *)

\* A set of naturals has a smallest member.
LEMMA SmallestExists ==
    ASSUME NEW T, T \subseteq Nat, T # {}
    PROVE  \E m \in T : \A i \in T : m <= i
<1> DEFINE R == OpToRel(<, Nat)
<1>1. IsWellFoundedOn(R, Nat)
  BY NatLessThanWellFounded DEF OpToRel
<1>2. ASSUME NEW x \in Nat, NEW y \in Nat, x < y PROVE <<x, y>> \in R
  BY <1>2 DEF OpToRel
<1> HIDE DEF R
<1>3. PICK x \in T : \A y \in T : ~ (<<y, x>> \in R)
  BY <1>1, WFMin
<1>4. ASSUME NEW y \in T PROVE x <= y
  <2>1. x \in Nat /\ y \in Nat /\ ~ (<<y, x>> \in R)
    BY <1>3
  <2>2. ~ (y < x)
    BY <1>2, <2>1
  <2> QED BY <2>1, <2>2
<1> QED BY <1>4

\* A list without repetitions has as many members as places.
LEMMA InjectiveLen ==
    ASSUME NEW S, NEW q \in Seq(S), \A i, j \in 1..Len(q) : q[i] = q[j] => i = j
    PROVE  LET M == {q[i] : i \in 1..Len(q)} IN IsFiniteSet(M) /\ Cardinality(M) = Len(q)
<1> DEFINE M == {q[i] : i \in 1..Len(q)}
           n == Len(q)
<1>1. n \in Nat /\ q \in [1..n -> M]
  OBVIOUS
<1>2. q \in Bijection(1..n, M)
  BY <1>1 DEF Bijection, Injection, Surjection, IsInjective
<1>3. ExistsBijection(1..n, M)
  BY <1>2 DEF ExistsBijection
<1> HIDE DEF n, M
<1>4. IsFiniteSet(1..n) /\ Cardinality(1..n) = IF 1 > n THEN 0 ELSE n - 1 + 1
  BY <1>1, FS_Interval
<1>5. IsFiniteSet(1..n) /\ Cardinality(1..n) = n
  BY <1>1, <1>4
<1>6. IsFiniteSet(M) /\ Cardinality(M) = n
  BY <1>3, <1>5, FS_Bijection
<1> QED BY <1>6 DEF M, n
-----------------------------------------------------------------------------
(* The pools. *)

Triples == Nat \X Nat \X Nat

\* e is an element of node n of pool p.
IsElement(e, p, n) == \E k \in 1..BaseNum : e = <<p, n, k>>

\* q is the free stack of node n of pool p while the elements H are in use: it
\* has the other elements of the node, once each.
StackOK(q, p, n, H) ==
    /\ q \in Seq(Triples)
    /\ \A i \in 1..Len(q) : IsElement(q[i], p, n) /\ q[i] \notin H
    /\ \A i, j \in 1..Len(q) : q[i] = q[j] => i = j
    /\ \A k \in 1..BaseNum : <<p, n, k>> \in H \/ \E i \in 1..Len(q) : q[i] = <<p, n, k>>

\* The same for the nodes of a pool.
StacksOK(stacks, p, H) ==
    /\ stacks \in Seq(Seq(Triples))
    /\ \A n \in 1..Len(stacks) : StackOK(stacks[n], p, n, H)

\* There are no more type pools than a char can count.
PoolsFit == Len(PoolLens) < 128

\* Then it holds their number and the index of each.
LEMMA CharIs ==
    ASSUME PoolsFit
    PROVE  char(Len(PoolLens)) = Len(PoolLens) /\ \A p \in PoolIndexes : char(p - 1) = p - 1
<1>1. \A i \in 0..127 : char(i) = i
  BY Z3 DEF char
<1>2. PICK n \in Nat : n = Len(PoolLens)
  BY PoolsAssumption
<1>3. n \in 0..127
  <2>1. n < 128
    BY ONLY PoolsFit, <1>2 DEF PoolsFit
  <2> QED BY ONLY <2>1, n \in Nat
<1>4. \A p \in 1..n : p - 1 \in 0..127
  BY <1>3
<1> QED BY <1>1, <1>2, <1>3, <1>4 DEF PoolIndexes

\* What the user holds of pools with as many nodes as nodes says.
UseOK(used, nodes) ==
    /\ \A u \in used :
         /\ u \in [el : Triples, len : Nat, pool_index : Int] /\ poolOf(u) \in PoolIndexes
         /\ u.el[2] \in 1..nodes[poolOf(u)]
         /\ IsElement(u.el, poolOf(u), u.el[2])
         /\ u.len <= PoolLens[poolOf(u)]
    /\ \A u, v \in used : u.el = v.el => u = v

Held(used) == {u.el : u \in used}
Nodes == [p \in PoolIndexes |-> Len(ptr_stacks[p])]

PoolsInv ==
    /\ ptr_stacks \in [PoolIndexes -> Seq(Seq(Triples))]
    /\ free_node \in [PoolIndexes -> Nat]
    /\ \A p \in PoolIndexes : /\ free_node[p] <= Len(ptr_stacks[p])
                              /\ StacksOK(ptr_stacks[p], p, Held(inUse))
    /\ UseOK(inUse, Nodes)

\* An element tells its pool and its node.
LEMMA ElementIs ==
    ASSUME NEW p \in Nat, NEW n \in Nat, NEW e, IsElement(e, p, n)
    PROVE  /\ e \in Triples /\ e[1] = p /\ e[2] = n /\ e # NULL
           /\ e \in {p} \X {n} \X (1..BaseNum)
<1>1. PICK k \in 1..BaseNum : e = <<p, n, k>>
  BY DEF IsElement
<1>2. k \in Nat
  BY PoolsAssumption
<1> QED BY <1>1, <1>2 DEF Triples, NULL

\* A claim takes the top of a stack.
LEMMA PopKeeps ==
    ASSUME NEW p \in Nat, NEW n \in Nat, NEW H, NEW q, StackOK(q, p, n, H), q # <<>>
    PROVE  LET e == q[Len(q)] IN
           /\ e \notin H /\ IsElement(e, p, n)
           /\ StackOK(SubSeq(q, 1, Len(q) - 1), p, n, H \cup {e})
<1> DEFINE e == q[Len(q)]
           r == SubSeq(q, 1, Len(q) - 1)
<1>1. q \in Seq(Triples) /\ Len(q) \in Nat /\ Len(q) # 0 /\ Len(q) \in 1..Len(q)
  BY DEF StackOK
<1>2. r \in Seq(Triples) /\ IsWithout(q, r, Len(q))
  BY <1>1, FrontWithout
<1>3. Len(r) = Len(q) - 1 /\ \A i \in 1..Len(r) : r[i] = q[i] /\ i \in 1..Len(q) /\ i # Len(q)
  <2> HIDE DEF r
  <2>1. Len(r) = Len(q) - 1 /\ \A i \in 1..Len(r) : r[i] = IF i < Len(q) THEN q[i] ELSE q[i + 1]
    BY <1>2 DEF IsWithout
  <2>2. \A i \in 1..(Len(q) - 1) : i < Len(q) /\ i \in 1..Len(q) /\ i # Len(q)
    BY <1>1
  <2> QED BY <2>1, <2>2
<1> HIDE DEF e, r
<1>4. e = q[Len(q)] /\ e \notin H /\ IsElement(e, p, n)
  BY <1>1 DEF StackOK, e
<1>5. \A i \in 1..Len(r) : IsElement(r[i], p, n) /\ r[i] \notin H \cup {e}
  BY <1>1, <1>3, <1>4 DEF StackOK
<1>6. \A i, j \in 1..Len(r) : r[i] = r[j] => i = j
  BY <1>3 DEF StackOK
<1>7. ASSUME NEW k \in 1..BaseNum, <<p, n, k>> \notin H \cup {e}
      PROVE  \E i \in 1..Len(r) : r[i] = <<p, n, k>>
  <2>1. PICK i \in 1..Len(q) : q[i] = <<p, n, k>>
    BY <1>7 DEF StackOK
  <2>2. i # Len(q)
    BY <1>4, <1>7, <2>1
  <2>3. i \in 1..Len(r)
    BY SMTT(40), <1>1, <1>3, <2>2
  <2> QED BY <1>3, <2>1, <2>3
<1>8. StackOK(r, p, n, H \cup {e})
  BY <1>2, <1>5, <1>6, <1>7 DEF StackOK
<1> QED BY <1>4, <1>8 DEF e, r

\* The stacks of the other nodes do not mind.
LEMMA OthersKeep ==
    ASSUME NEW p \in Nat, NEW n \in Nat, NEW H, NEW q, StackOK(q, p, n, H),
           NEW e, e \notin {p} \X {n} \X (1..BaseNum)
    PROVE  StackOK(q, p, n, H \cup {e}) /\ StackOK(q, p, n, H \ {e})
<1>1. ASSUME NEW x, IsElement(x, p, n) PROVE x # e
  BY <1>1, ElementIs
<1>2. \A k \in 1..BaseNum : <<p, n, k>> # e
  BY <1>1 DEF IsElement
<1> QED BY <1>1, <1>2 DEF StackOK

\* A reclaim puts an element of the node on its stack.
LEMMA PushKeeps ==
    ASSUME NEW p \in Nat, NEW n \in Nat, NEW H, NEW q, StackOK(q, p, n, H),
           NEW e \in H, IsElement(e, p, n)
    PROVE  StackOK(Append(q, e), p, n, H \ {e})
<1> DEFINE r == Append(q, e)
<1>1. e \in Triples
  BY ElementIs
<1>2. q \in Seq(Triples) /\ Len(q) \in Nat
  BY DEF StackOK
<1>3. r \in Seq(Triples) /\ Len(r) = Len(q) + 1 /\ r[Len(q) + 1] = e
      /\ \A i \in 1..Len(q) : r[i] = q[i]
  BY <1>1, <1>2
<1>4. \A i \in 1..Len(r) : i \in 1..Len(q) \/ i = Len(q) + 1
  BY <1>2, <1>3
<1>5. \A i \in 1..Len(q) : i \in 1..Len(r) /\ i # Len(q) + 1
  BY <1>2, <1>3
<1> HIDE DEF r
<1>6. \A i \in 1..Len(q) : q[i] # e
  BY DEF StackOK
<1>7. \A i \in 1..Len(r) : IsElement(r[i], p, n) /\ r[i] \notin H \ {e}
  BY <1>3, <1>4 DEF StackOK
<1>8. ASSUME NEW i \in 1..Len(r), NEW j \in 1..Len(r), r[i] = r[j] PROVE i = j
  BY <1>3, <1>4, <1>6, <1>8 DEF StackOK
<1>9. ASSUME NEW k \in 1..BaseNum, <<p, n, k>> \notin H \ {e}
      PROVE  \E i \in 1..Len(r) : r[i] = <<p, n, k>>
  <2>1. CASE <<p, n, k>> = e
    <3>1. Len(q) + 1 \in 1..Len(r)
      BY <1>2, <1>3
    <3> QED BY <1>3, <2>1, <3>1
  <2>2. CASE <<p, n, k>> # e
    BY <1>3, <1>5, <1>9, <2>2 DEF StackOK
  <2> QED BY <2>1, <2>2
<1> QED BY <1>3, <1>7, <1>8, <1>9 DEF StackOK, r

\* The stack of a new node has all its elements.
LEMMA NewStack ==
    ASSUME NEW p \in Nat, NEW n \in Nat, NEW H, \A k \in 1..BaseNum : <<p, n, k>> \notin H
    PROVE  StackOK(type_pool_node_new(p, n), p, n, H)
<1> DEFINE q == type_pool_node_new(p, n)
<1>1. BaseNum \in Nat /\ q = [k \in 1..BaseNum |-> <<p, n, k>>]
  BY PoolsAssumption DEF type_pool_node_new
<1>2. \A k \in 1..BaseNum : <<p, n, k>> \in Triples
  BY <1>1 DEF Triples
<1>3. q \in Seq(Triples) /\ Len(q) = BaseNum /\ \A k \in 1..BaseNum : q[k] = <<p, n, k>>
  BY <1>1, <1>2
<1> HIDE DEF q
<1>4. \A i, j \in 1..BaseNum : <<p, n, i>> = <<p, n, j>> => i = j
  OBVIOUS
<1>5. \A i \in 1..Len(q) : IsElement(q[i], p, n) /\ q[i] \notin H
  BY <1>3 DEF IsElement
<1> QED BY <1>3, <1>4, <1>5 DEF StackOK, q

\* type_pool_claim_help finds a node with a free element, if there is one.
LEMMA HelpNodeIs ==
    ASSUME NEW stacks \in Seq(Seq(Triples)), NEW at \in Nat, at <= Len(stacks)
    PROVE  LET n == HelpNode(stacks, at) IN
           n \in Nat /\ (n # 0 => n \in 1..Len(stacks) /\ stacks[n] # <<>>)
<1> DEFINE free == {n \in 1..Len(stacks) : stacks[n] # <<>>}
<1>1. Len(stacks) \in Nat
  OBVIOUS
<1>2. CASE at # 0 /\ stacks[at] # <<>>
  BY <1>1, <1>2 DEF HelpNode
<1>3. CASE ~ (at # 0 /\ stacks[at] # <<>>) /\ free = {}
  BY <1>3 DEF HelpNode
<1>4. CASE ~ (at # 0 /\ stacks[at] # <<>>) /\ free # {}
  <2>1. free \subseteq Nat
    BY <1>1
  <2>2. \E n \in free : \A m \in free : n <= m
    BY <1>4, <2>1, SmallestExists
  <2>3. HelpNode(stacks, at) = CHOOSE n \in free : \A m \in free : n <= m
    BY <1>4 DEF HelpNode
  <2>4. HelpNode(stacks, at) \in free
    BY <2>2, <2>3
  <2> QED BY <2>1, <2>4
<1> QED BY <1>2, <1>3, <1>4

\* What the user holds stays as it was when the pools grow.
LEMMA UseKeeps ==
    ASSUME NEW used, NEW nodes, NEW more, UseOK(used, nodes),
           \A o \in PoolIndexes : nodes[o] \in Nat /\ more[o] \in Nat /\ nodes[o] <= more[o]
    PROVE  UseOK(used, more)
<1>1. ASSUME NEW u \in used
      PROVE  /\ u \in [el : Triples, len : Nat, pool_index : Int] /\ poolOf(u) \in PoolIndexes
             /\ u.el[2] \in 1..more[poolOf(u)]
             /\ IsElement(u.el, poolOf(u), u.el[2])
             /\ u.len <= PoolLens[poolOf(u)]
  <2>1. /\ u \in [el : Triples, len : Nat, pool_index : Int] /\ poolOf(u) \in PoolIndexes
        /\ u.el[2] \in 1..nodes[poolOf(u)]
        /\ IsElement(u.el, poolOf(u), u.el[2])
        /\ u.len <= PoolLens[poolOf(u)]
    BY DEF UseOK
  <2>2. poolOf(u) \in PoolIndexes
    BY <2>1
  <2> QED BY <2>1, <2>2
<1> QED BY <1>1 DEF UseOK

\* A claim from the stacks of pool p keeps PoolsInv.
LEMMA HelpKeeps ==
    ASSUME PoolsInv, PoolsFit, NEW p \in PoolIndexes, NEW stacks, NEW at \in Nat, NEW len \in Nat,
           StacksOK(stacks, p, Held(inUse)), at <= Len(stacks), len <= PoolLens[p],
           Len(ptr_stacks[p]) <= Len(stacks), Help(p, stacks, at, len)
    PROVE  PoolsInv'
<1> DEFINE n == HelpNode(stacks, at)
           H == Held(inUse)
<1>0. /\ ptr_stacks \in [PoolIndexes -> Seq(Seq(Triples))] /\ free_node \in [PoolIndexes -> Nat]
      /\ stacks \in Seq(Seq(Triples)) /\ Len(stacks) \in Nat /\ UseOK(inUse, Nodes)
      /\ \A q \in PoolIndexes : /\ free_node[q] <= Len(ptr_stacks[q])
                                /\ StacksOK(ptr_stacks[q], q, H)
      /\ PoolIndexes \subseteq Nat /\ p \in Nat
  BY DEF PoolsInv, StacksOK, PoolIndexes
<1>1. n \in Nat /\ (n # 0 => n \in 1..Len(stacks) /\ stacks[n] # <<>>)
  BY <1>0, HelpNodeIs
\* The nodes of the pools do not become fewer.
<1>n. ASSUME NEW new, Len(new) = Len(stacks), ptr_stacks' = [ptr_stacks EXCEPT ![p] = new]
      PROVE  \A q \in PoolIndexes : Nodes[q] \in Nat /\ Nodes'[q] \in Nat /\ Nodes[q] <= Nodes'[q]
  <2> SUFFICES ASSUME NEW q \in PoolIndexes
               PROVE  Nodes[q] \in Nat /\ Nodes'[q] \in Nat /\ Nodes[q] <= Nodes'[q]
    OBVIOUS
  <2>1. Nodes[q] = Len(ptr_stacks[q]) /\ Len(ptr_stacks[q]) \in Nat
    BY <1>0 DEF Nodes
  <2>2. Nodes'[q] = Len(ptr_stacks'[q])
    BY DEF Nodes
  <2>3. CASE q = p
    <3>1. ptr_stacks'[q] = new
      BY <1>0, <1>n, <2>3
    <3> QED BY <1>0, <1>n, <2>1, <2>2, <2>3, <3>1
  <2>4. CASE q # p
    <3>1. ptr_stacks'[q] = ptr_stacks[q]
      BY <1>0, <1>n, <2>4
    <3> QED BY <2>1, <2>2, <3>1
  <2> QED BY <2>3, <2>4
<1>2. CASE n = 0
  <2>1. /\ ptr_stacks' = [ptr_stacks EXCEPT ![p] = stacks]
        /\ free_node' = [free_node EXCEPT ![p] = at] /\ inUse' = inUse
    BY <1>2 DEF Help, NULL
  <2>2. UseOK(inUse', Nodes')
    <3>1. \A o \in PoolIndexes : Nodes[o] \in Nat /\ Nodes'[o] \in Nat /\ Nodes[o] <= Nodes'[o]
      BY <1>n, <2>1
    <3> QED BY <1>0, <2>1, <3>1, UseKeeps
  <2> QED BY <1>0, <2>1, <2>2 DEF PoolsInv, Held
<1>3. CASE n # 0
  <2> DEFINE q == stacks[n]
             e == q[Len(q)]
             r == SubSeq(q, 1, Len(q) - 1)
             new == [stacks EXCEPT ![n] = r]
             u == [el |-> e, len |-> len, pool_index |-> char(p - 1)]
  <2>1. n \in 1..Len(stacks) /\ n \in Nat /\ q # <<>> /\ StackOK(q, p, n, H) /\ q \in Seq(Triples)
    <3>1. n \in 1..Len(stacks) /\ n \in Nat /\ q # <<>>
      BY <1>1, <1>3
    <3>2. StackOK(q, p, n, H)
      BY <3>1 DEF StacksOK
    <3> QED BY <3>1, <3>2 DEF StackOK
  <2> HIDE DEF n
  <2>2. e \notin H /\ IsElement(e, p, n) /\ StackOK(r, p, n, H \cup {e})
    <3> HIDE DEF q
    <3> QED BY <1>0, <2>1, PopKeeps
  <2>3. e \in Triples /\ e[1] = p /\ e[2] = n /\ e # NULL /\ e \in {p} \X {n} \X (1..BaseNum)
    BY SMTT(40), <1>0, <2>1, <2>2, ElementIs
  <2>4. /\ ptr_stacks' = [ptr_stacks EXCEPT ![p] = new]
        /\ free_node' = [free_node EXCEPT ![p] = NextNode(stacks, at, n)]
        /\ inUse' = inUse \cup {u}
    BY <1>3, <2>3 DEF Help, n
  <2> HIDE DEF e
  <2>5. r \in Seq(Triples)
    BY <2>2 DEF StackOK
  <2> HIDE DEF r, q
  <2>6. /\ new \in Seq(Seq(Triples)) /\ Len(new) = Len(stacks)
        /\ \A j \in 1..Len(stacks) : new[j] = IF j = n THEN r ELSE stacks[j]
    <3> DEFINE S == Seq(Triples)
    <3>1. stacks \in Seq(S) /\ r \in S
      BY <1>0, <2>5
    <3> HIDE DEF S
    <3>2. /\ new \in Seq(S) /\ Len(new) = Len(stacks)
          /\ \A j \in 1..Len(stacks) : new[j] = IF j = n THEN r ELSE stacks[j]
      BY <3>1, ExceptInSeq
    <3> QED BY <3>2 DEF S
  <2> HIDE DEF new
  <2>7. Held(inUse') = H \cup {e}
    <3>1. u.el = e
      OBVIOUS
    <3> HIDE DEF u
    <3>2. \A v \in inUse' : v \in inUse \/ v = u
      BY <2>4
    <3>3. u \in inUse' /\ \A v \in inUse : v \in inUse'
      BY <2>4
    <3> QED BY <3>1, <3>2, <3>3 DEF Held
  <2>8. StacksOK(new, p, H \cup {e})
    <3>1. ASSUME NEW j \in 1..Len(stacks), j # n PROVE StackOK(stacks[j], p, j, H \cup {e})
      <4>1. j \in Nat /\ StackOK(stacks[j], p, j, H)
        BY <1>0 DEF StacksOK
      <4>2. e \notin {p} \X {j} \X (1..BaseNum)
        BY <2>3, <3>1
      <4> QED BY <1>0, <4>1, <4>2, OthersKeep
    <3> QED BY <2>2, <2>6, <3>1 DEF StacksOK
  <2>9. ASSUME NEW o \in PoolIndexes, o # p PROVE StacksOK(ptr_stacks[o], o, H \cup {e})
    <3>1. ASSUME NEW j \in 1..Len(ptr_stacks[o]) PROVE StackOK(ptr_stacks[o][j], o, j, H \cup {e})
      <4>1. j \in Nat /\ o \in Nat /\ StackOK(ptr_stacks[o][j], o, j, H)
        BY <1>0 DEF StacksOK
      <4>2. e \notin {o} \X {j} \X (1..BaseNum)
        BY <2>3, <2>9
      <4> QED BY <4>1, <4>2, OthersKeep
    <3> QED BY <1>0, <3>1 DEF StacksOK
  <2>10. \A o \in PoolIndexes : StacksOK(ptr_stacks'[o], o, Held(inUse'))
    BY <1>0, <2>4, <2>7, <2>8, <2>9
  <2>11. ptr_stacks' \in [PoolIndexes -> Seq(Seq(Triples))]
    BY <1>0, <2>4, <2>6
  <2>12. NextNode(stacks, at, n) \in Nat /\ NextNode(stacks, at, n) <= Len(stacks)
    BY <1>0, <2>1 DEF NextNode
  <2>13. /\ free_node' \in [PoolIndexes -> Nat]
         /\ \A o \in PoolIndexes : free_node'[o] <= Len(ptr_stacks'[o])
    BY <1>0, <2>4, <2>6, <2>12
  <2>14. UseOK(inUse', Nodes')
    <3>1. \A o \in PoolIndexes : Nodes[o] \in Nat /\ Nodes'[o] \in Nat /\ Nodes[o] <= Nodes'[o]
      BY <1>n, <2>4, <2>6
    <3>2. n \in 1..Nodes'[p]
      <4>1. Nodes'[p] = Len(ptr_stacks'[p])
        BY DEF Nodes
      <4>2. ptr_stacks'[p] = new
        BY <1>0, <2>4
      <4> QED BY <2>1, <2>6, <4>1, <4>2
    <3>3. /\ u \in [el : Triples, len : Nat, pool_index : Int] /\ poolOf(u) \in PoolIndexes
          /\ u.el = e /\ poolOf(u) = p /\ u.len = len
      <4>1. char(p - 1) = p - 1
        BY CharIs
      <4>2. PICK c \in Int : c = char(p - 1) /\ c + 1 = p
        BY <1>0, <4>1
      <4>3. u = [el |-> e, len |-> len, pool_index |-> c]
        BY <4>2
      <4> QED BY ONLY <2>3, <4>2, <4>3, p \in PoolIndexes, len \in Nat DEF poolOf
    <3> HIDE DEF u
    <3>4. ASSUME NEW v \in inUse'
          PROVE  /\ v \in [el : Triples, len : Nat, pool_index : Int] /\ poolOf(v) \in PoolIndexes
                 /\ v.el[2] \in 1..Nodes'[poolOf(v)]
                 /\ IsElement(v.el, poolOf(v), v.el[2])
                 /\ v.len <= PoolLens[poolOf(v)]
      <4>1. CASE v = u
        BY <2>2, <2>3, <3>2, <3>3, <4>1
      <4>2. CASE v \in inUse
        <5>1. /\ v \in [el : Triples, len : Nat, pool_index : Int] /\ poolOf(v) \in PoolIndexes
              /\ v.el[2] \in 1..Nodes[poolOf(v)]
              /\ IsElement(v.el, poolOf(v), v.el[2])
              /\ v.len <= PoolLens[poolOf(v)]
          BY <1>0, <4>2 DEF UseOK
        <5>2. poolOf(v) \in PoolIndexes
          BY <5>1
        <5> QED BY <3>1, <5>1, <5>2
      <4> QED BY <2>4, <4>1, <4>2
    <3>5. ASSUME NEW v \in inUse', NEW w \in inUse', v.el = w.el PROVE v = w
      <4>1. \A x \in inUse : x.el # e
        BY <2>2 DEF Held
      <4>2. \A x, y \in inUse : x.el = y.el => x = y
        BY <1>0 DEF UseOK
      <4> QED BY <2>4, <3>3, <3>5, <4>1, <4>2
    <3> QED BY <3>4, <3>5 DEF UseOK
  <2> QED BY <2>10, <2>11, <2>13, <2>14 DEF PoolsInv
<1> QED BY <1>2, <1>3

\* The first pool that is long enough, if there is one.
LEMMA PoolForIs ==
    ASSUME PoolsFit, NEW len, PoolFor(len) # 0
    PROVE  PoolFor(len) \in PoolIndexes /\ PoolLens[PoolFor(len)] >= len
<1> DEFINE fit == {p \in PoolIndexes : PoolLens[p] >= len}
<1>1. fit # {} /\ PoolFor(len) = CHOOSE p \in fit : \A q \in fit : p <= q
  <2>1. 1..char(Len(PoolLens)) = PoolIndexes
    BY CharIs DEF PoolIndexes
  <2> QED BY <2>1 DEF PoolFor
<1>2. fit \subseteq Nat
  BY PoolsAssumption DEF PoolIndexes
<1>3. \E p \in fit : \A q \in fit : p <= q
  BY <1>1, <1>2, SmallestExists
<1>4. PoolFor(len) \in fit
  BY <1>1, <1>3
<1> QED BY <1>4

\* A claim keeps PoolsInv, whether or not the pool grows.
LEMMA ClaimKeeps ==
    ASSUME PoolsInv, PoolsFit, NEW p \in PoolIndexes, NEW len \in Nat, len <= PoolLens[p],
           ox_type_pool_claim(p, len)
    PROVE  PoolsInv'
<1> DEFINE stacks == ptr_stacks[p]
           n == Len(stacks) + 1
           new == type_pool_node_new(p, n)
           more == Append(stacks, new)
           H == Held(inUse)
<1>1. /\ stacks \in Seq(Seq(Triples)) /\ Len(stacks) \in Nat /\ StacksOK(stacks, p, H)
      /\ free_node[p] \in Nat /\ free_node[p] <= Len(stacks) /\ p \in Nat
      /\ n \in Nat /\ Len(stacks) <= n /\ Len(stacks) <= Len(stacks)
  BY DEF PoolsInv, PoolIndexes
<1>2. CASE Help(p, stacks, free_node[p], len)
  BY <1>1, <1>2, HelpKeeps
<1>3. CASE Help(p, more, n, len)
  <2> HIDE DEF H
  <2>1. ASSUME NEW k \in 1..BaseNum PROVE <<p, n, k>> \notin H
    <3> SUFFICES ASSUME NEW u \in inUse, u.el = <<p, n, k>> PROVE FALSE
      BY DEF H, Held
    <3>1. /\ u.el[2] \in 1..Nodes[poolOf(u)] /\ poolOf(u) \in PoolIndexes
          /\ IsElement(u.el, poolOf(u), u.el[2])
      BY DEF PoolsInv, UseOK
    <3>2. poolOf(u) = p
      BY <3>1 DEF IsElement
    <3>3. Nodes[p] = Len(stacks) /\ u.el[2] = n
      BY DEF Nodes
    <3> QED BY <1>1, <3>1, <3>2, <3>3
  <2>2. StackOK(new, p, n, H)
    BY <1>1, <2>1, NewStack
  <2>3. new \in Seq(Triples)
    BY <2>2 DEF StackOK
  <2> HIDE DEF new
  <2>4. /\ more \in Seq(Seq(Triples)) /\ Len(more) = n /\ more[n] = new
        /\ \A i \in 1..Len(stacks) : more[i] = stacks[i]
    <3> DEFINE S == Seq(Triples)
    <3>1. stacks \in Seq(S) /\ new \in S
      BY <1>1, <2>3
    <3> HIDE DEF S, stacks
    <3>2. /\ more \in Seq(S) /\ Len(more) = n /\ more[n] = new
          /\ \A i \in 1..Len(stacks) : more[i] = stacks[i]
      BY <3>1
    <3> QED BY <3>2 DEF S
  <2> HIDE DEF more
  <2>5. StacksOK(more, p, H)
    <3>0. Len(stacks) \in Nat
      BY <1>1
    <3>1. \A i \in 1..n : i \in 1..Len(stacks) \/ i = n
      BY ONLY <3>0
    <3> QED BY <1>1, <2>2, <2>4, <3>1 DEF StacksOK
  <2>6. n <= Len(more) /\ Len(ptr_stacks[p]) <= Len(more)
    BY <1>1, <2>4
  <2> HIDE DEF n
  <2> QED BY <1>1, <1>3, <2>5, <2>6, HelpKeeps DEF H
<1> QED BY <1>2, <1>3 DEF ox_type_pool_claim

\* A reclaim keeps PoolsInv.
LEMMA ReclaimKeeps ==
    ASSUME PoolsInv, NEW u, ox_multi_pool_reclaim(u)
    PROVE  PoolsInv'
<1> DEFINE p == poolOf(u)
           n == u.el[2]
           e == u.el
           H == Held(inUse)
           q == ptr_stacks[p][n]
           r == Append(q, e)
           new == [ptr_stacks[p] EXCEPT ![n] = r]
<1>0. /\ ptr_stacks \in [PoolIndexes -> Seq(Seq(Triples))] /\ free_node \in [PoolIndexes -> Nat]
      /\ UseOK(inUse, Nodes) /\ PoolIndexes \subseteq Nat
      /\ \A o \in PoolIndexes : /\ free_node[o] <= Len(ptr_stacks[o])
                                /\ StacksOK(ptr_stacks[o], o, H)
  BY DEF PoolsInv, PoolIndexes
<1>1. u \in inUse /\ p \in PoolIndexes /\ e \in Triples /\ n \in 1..Nodes[p] /\ IsElement(e, p, n)
  BY <1>0 DEF ox_multi_pool_reclaim, UseOK
<1>2. /\ inUse' = inUse \ {u} /\ ptr_stacks' = [ptr_stacks EXCEPT ![p] = new]
      /\ free_node' = [free_node EXCEPT ![p] = n]
  BY DEF ox_multi_pool_reclaim, reclaimNode
<1>3. /\ Nodes[p] = Len(ptr_stacks[p]) /\ ptr_stacks[p] \in Seq(Seq(Triples))
      /\ Len(ptr_stacks[p]) \in Nat /\ n \in 1..Len(ptr_stacks[p]) /\ n \in Nat /\ p \in Nat
      /\ n <= Len(ptr_stacks[p]) /\ e \in H
  <2>1. e \in H
    BY <1>1 DEF Held
  <2> HIDE DEF p, n, e, H
  <2>2. Nodes[p] = Len(ptr_stacks[p]) /\ ptr_stacks[p] \in Seq(Seq(Triples)) /\ p \in Nat
    BY <1>0, <1>1 DEF Nodes
  <2>3. Len(ptr_stacks[p]) \in Nat
    BY <2>2
  <2> QED BY <1>1, <2>1, <2>2, <2>3
<1> HIDE DEF p, n, e, H
<1>4. StackOK(q, p, n, H) /\ e \in {p} \X {n} \X (1..BaseNum)
  BY <1>0, <1>1, <1>3, ElementIs DEF StacksOK
<1> HIDE DEF q
<1>5. StackOK(r, p, n, H \ {e})
  BY <1>1, <1>3, <1>4, PushKeeps
<1>6. r \in Seq(Triples)
  BY <1>5 DEF StackOK
<1> HIDE DEF r
<1>7. /\ new \in Seq(Seq(Triples)) /\ Len(new) = Len(ptr_stacks[p])
      /\ \A j \in 1..Len(ptr_stacks[p]) : new[j] = IF j = n THEN r ELSE ptr_stacks[p][j]
  <2> DEFINE S == Seq(Triples)
             stacks == ptr_stacks[p]
  <2>1. stacks \in Seq(S) /\ r \in S
    BY <1>3, <1>6
  <2> HIDE DEF S, stacks
  <2>2. /\ [stacks EXCEPT ![n] = r] \in Seq(S) /\ Len([stacks EXCEPT ![n] = r]) = Len(stacks)
        /\ \A j \in 1..Len(stacks) : [stacks EXCEPT ![n] = r][j] = IF j = n THEN r ELSE stacks[j]
    BY <2>1, ExceptInSeq
  <2> QED BY <2>2 DEF S, stacks
<1> HIDE DEF new
<1>8. Held(inUse') = H \ {e}
  <2>1. \A v \in inUse : v.el = e => v = u
    BY <1>0, <1>1 DEF UseOK, e
  <2>2. \A v : v \in inUse' <=> v \in inUse /\ v # u
    BY <1>2
  <2>3. u.el = e
    BY DEF e
  <2> QED BY <2>1, <2>2, <2>3 DEF Held, H
<1>9. StacksOK(new, p, H \ {e})
  <2>1. ASSUME NEW j \in 1..Len(ptr_stacks[p]), j # n PROVE StackOK(ptr_stacks[p][j], p, j, H \ {e})
    <3>1. j \in Nat /\ StackOK(ptr_stacks[p][j], p, j, H)
      BY <1>0, <1>1, <1>3 DEF StacksOK
    <3>2. e \notin {p} \X {j} \X (1..BaseNum)
      BY <1>4, <2>1
    <3> QED BY <1>3, <3>1, <3>2, OthersKeep
  <2> QED BY <1>5, <1>7, <2>1 DEF StacksOK
<1>10. ASSUME NEW o \in PoolIndexes, o # p PROVE StacksOK(ptr_stacks[o], o, H \ {e})
  <2>1. ASSUME NEW j \in 1..Len(ptr_stacks[o]) PROVE StackOK(ptr_stacks[o][j], o, j, H \ {e})
    <3>1. j \in Nat /\ o \in Nat /\ StackOK(ptr_stacks[o][j], o, j, H)
      BY <1>0 DEF StacksOK
    <3>2. e \notin {o} \X {j} \X (1..BaseNum)
      BY <1>4, <1>10
    <3> QED BY <3>1, <3>2, OthersKeep
  <2> QED BY <1>0, <2>1 DEF StacksOK
<1>11. \A o \in PoolIndexes : StacksOK(ptr_stacks'[o], o, Held(inUse'))
  BY <1>0, <1>1, <1>2, <1>8, <1>9, <1>10
<1>12. ptr_stacks' \in [PoolIndexes -> Seq(Seq(Triples))]
  BY <1>0, <1>2, <1>7
<1>13. /\ free_node' \in [PoolIndexes -> Nat]
       /\ \A o \in PoolIndexes : free_node'[o] <= Len(ptr_stacks'[o])
  BY <1>0, <1>1, <1>2, <1>3, <1>7
<1>14. Nodes' = Nodes
  <2>1. \A o \in PoolIndexes : Len(ptr_stacks'[o]) = Len(ptr_stacks[o])
    BY <1>0, <1>2, <1>7
  <2> QED BY <2>1 DEF Nodes
<1>15. UseOK(inUse', Nodes')
  BY <1>0, <1>2, <1>14 DEF UseOK
<1> QED BY <1>11, <1>12, <1>13, <1>15 DEF PoolsInv

\* Each call keeps PoolsInv.
LEMMA PoolsStep ==
    ASSUME PoolsFit, PoolsInv, [PoolsNext]_poolsVars
    PROVE  PoolsInv'
<1>1. ASSUME NEW p \in PoolIndexes, ox_multi_pool_claim(p) PROVE PoolsInv'
  <2>1. PoolLens[p] \in Nat /\ PoolLens[p] <= PoolLens[p]
    BY PoolsAssumption DEF PoolIndexes
  <2> QED BY <1>1, <2>1, ClaimKeeps DEF ox_multi_pool_claim
<1>2. ASSUME NEW len \in 0..(PoolLens[Len(PoolLens)] + 1), ox_multi_pool_lenclaim(len) PROVE PoolsInv'
  <2>1. CASE PoolFor(len) = 0
    <3>1. UNCHANGED <<ptr_stacks, free_node, inUse>>
      BY <1>2, <2>1 DEF ox_multi_pool_lenclaim
    <3> QED BY <3>1 DEF PoolsInv, Nodes
  <2>2. CASE PoolFor(len) # 0
    <3>1. /\ PoolFor(len) \in PoolIndexes /\ PoolLens[PoolFor(len)] >= len
          /\ ox_type_pool_claim(PoolFor(len), len)
      BY <1>2, <2>2, PoolForIs DEF ox_multi_pool_lenclaim
    <3> HIDE DEF PoolFor
    <3>2. PoolLens[Len(PoolLens)] \in Nat /\ PoolLens[PoolFor(len)] \in Nat
      BY <3>1, PoolsAssumption DEF PoolIndexes
    <3>3. len \in Nat /\ len <= PoolLens[PoolFor(len)]
      BY <3>1, <3>2
    <3> QED BY <3>1, <3>3, ClaimKeeps
  <2> QED BY <2>1, <2>2
<1>3. ASSUME NEW u \in inUse, ox_multi_pool_reclaim(u) PROVE PoolsInv'
  BY <1>3, ReclaimKeeps
<1>4. CASE UNCHANGED poolsVars
  BY <1>4 DEF PoolsInv, poolsVars, Nodes
<1> QED BY <1>1, <1>2, <1>3, <1>4 DEF PoolsNext

\* The new pools have one node each, and all of it is free.
LEMMA PoolsStart == PoolsInit => PoolsInv
<1> SUFFICES ASSUME PoolsInit PROVE PoolsInv
  OBVIOUS
<1>1. inUse = {} /\ Held(inUse) = {} /\ UseOK(inUse, Nodes)
  BY DEF PoolsInit, Held, UseOK
<1>2. ASSUME NEW p \in PoolIndexes
      PROVE  /\ ptr_stacks[p] \in Seq(Seq(Triples)) /\ Len(ptr_stacks[p]) = 1
             /\ StacksOK(ptr_stacks[p], p, {}) /\ free_node[p] = 1
  <2> DEFINE q == type_pool_node_new(p, 1)
             S == Seq(Triples)
  <2>1. p \in Nat
    BY PoolsAssumption DEF PoolIndexes
  <2>2. StackOK(q, p, 1, {})
    BY <2>1, NewStack
  <2>3. q \in S
    BY <2>2 DEF StackOK
  <2>4. ptr_stacks[p] = <<q>> /\ free_node[p] = 1
    BY DEF PoolsInit
  <2> HIDE DEF q, S
  <2>5. <<q>> \in Seq(S) /\ Len(<<q>>) = 1 /\ <<q>>[1] = q
    BY <2>3
  <2>6. \A i \in 1..1 : i = 1
    OBVIOUS
  <2> QED BY <2>2, <2>4, <2>5, <2>6 DEF StacksOK, S
<1>3. ptr_stacks \in [PoolIndexes -> Seq(Seq(Triples))] /\ free_node \in [PoolIndexes -> Nat]
  BY <1>2 DEF PoolsInit
<1>4. ASSUME NEW p \in PoolIndexes PROVE free_node[p] <= Len(ptr_stacks[p])
  <2>1. free_node[p] = 1 /\ Len(ptr_stacks[p]) = 1
    BY <1>2
  <2> QED BY ONLY <2>1
<1> QED BY <1>1, <1>2, <1>3, <1>4 DEF PoolsInv

(***************************************************************************)
(* For any number of type pools that a char can count, any lengths and any *)
(* size of the nodes: an element of multipool.c is in the user's hands or  *)
(* free in its own node, once, and long enough for who asked.              *)
(***************************************************************************)
THEOREM NoElementLostOrShared ==
    ASSUME PoolsFit
    PROVE  PoolsSpec => []PoolsSound
<1>1. ASSUME PoolsInv PROVE PoolsSound
  <2>0. UseOK(inUse, Nodes) /\ \A p \in PoolIndexes : StacksOK(ptr_stacks[p], p, Held(inUse))
    BY <1>1 DEF PoolsInv
  <2>1. \A u, v \in inUse : u.el = v.el => u = v
    BY <2>0 DEF UseOK
  <2>2. \A u \in inUse : u.len <= PoolLens[poolOf(u)]
    BY <2>0 DEF UseOK
  <2>3. ASSUME NEW p \in PoolIndexes
        PROVE  LET held == {u.el : u \in {v \in inUse : poolOf(v) = p}} IN
               /\ UNION {FreeIn(p, n) : n \in 1..Len(ptr_stacks[p])} = AllElements(p) \ held
               /\ held \subseteq AllElements(p)
               /\ \A n \in 1..Len(ptr_stacks[p]) :
                   /\ Cardinality(FreeIn(p, n)) = Len(ptr_stacks[p][n])
                   /\ \A e \in FreeIn(p, n) : e[2] = n
    <3> DEFINE held == {u.el : u \in {v \in inUse : poolOf(v) = p}}
               H == Held(inUse)
    <3>1. p \in Nat /\ Nodes[p] = Len(ptr_stacks[p]) /\ Len(ptr_stacks[p]) \in Nat
      BY <1>1 DEF PoolsInv, Nodes, PoolIndexes
    <3>2. \A n \in 1..Len(ptr_stacks[p]) : n \in Nat /\ StackOK(ptr_stacks[p][n], p, n, H)
      BY <2>0, <3>1 DEF StacksOK
    <3> HIDE DEF H
    <3>3. ASSUME NEW n \in 1..Len(ptr_stacks[p])
          PROVE  /\ Cardinality(FreeIn(p, n)) = Len(ptr_stacks[p][n])
                 /\ \A e \in FreeIn(p, n) : IsElement(e, p, n) /\ e \notin H /\ e[2] = n
                 /\ \A k \in 1..BaseNum : <<p, n, k>> \in H \/ <<p, n, k>> \in FreeIn(p, n)
      <4> DEFINE q == ptr_stacks[p][n]
      <4>1. FreeIn(p, n) = {q[i] : i \in 1..Len(q)} /\ StackOK(q, p, n, H) /\ n \in Nat
        BY <3>2 DEF FreeIn
      <4> HIDE DEF q
      <4>2. Cardinality({q[i] : i \in 1..Len(q)}) = Len(q)
        BY <4>1, InjectiveLen DEF StackOK
      <4>3. \A e \in FreeIn(p, n) : IsElement(e, p, n) /\ e \notin H
        BY <4>1 DEF StackOK
      <4>4. \A e \in FreeIn(p, n) : e[2] = n
        BY <3>1, <4>1, <4>3, ElementIs
      <4>5. \A k \in 1..BaseNum : <<p, n, k>> \in H \/ <<p, n, k>> \in FreeIn(p, n)
        BY <4>1 DEF StackOK
      <4> QED BY <4>1, <4>2, <4>3, <4>4, <4>5 DEF q
    <3>4. held \subseteq H
      BY DEF H, Held
    <3>5. ASSUME NEW e \in H, NEW n, IsElement(e, p, n) PROVE e \in held
      <4>1. PICK u \in inUse : u.el = e
        BY DEF H, Held
      <4>2. IsElement(u.el, poolOf(u), u.el[2])
        BY <2>0 DEF UseOK
      <4>3. poolOf(u) = p
        BY <3>5, <4>1, <4>2 DEF IsElement
      <4> QED BY <4>1, <4>3
    <3>6. held \subseteq AllElements(p)
      <4> SUFFICES ASSUME NEW u \in inUse, poolOf(u) = p PROVE u.el \in AllElements(p)
        OBVIOUS
      <4>1. u.el[2] \in 1..Nodes[p] /\ IsElement(u.el, p, u.el[2])
        BY <2>0 DEF UseOK
      <4>2. PICK k \in 1..BaseNum : u.el = <<p, u.el[2], k>>
        BY <4>1 DEF IsElement
      <4>3. u.el[2] \in 1..Len(ptr_stacks[p])
        BY <3>1, <4>1
      <4>4. \E n \in 1..Len(ptr_stacks[p]) : u.el = <<p, n, k>>
        BY <4>2, <4>3
      <4>5. PICK n \in 1..Len(ptr_stacks[p]) : u.el = <<p, n, k>>
        BY <4>4
      <4>6. <<p, n, k>> \in AllElements(p)
        BY DEF AllElements
      <4> QED BY <4>5, <4>6
    <3>7. ASSUME NEW n \in 1..Len(ptr_stacks[p]), NEW e \in FreeIn(p, n)
          PROVE  e \in AllElements(p) \ held
      BY <3>3, <3>4 DEF IsElement, AllElements
    <3>8. ASSUME NEW e \in AllElements(p), e \notin held
          PROVE  \E n \in 1..Len(ptr_stacks[p]) : e \in FreeIn(p, n)
      <4>1. PICK n \in 1..Len(ptr_stacks[p]), k \in 1..BaseNum : e = <<p, n, k>>
        BY DEF AllElements
      <4>2. e \notin H
        BY <3>5, <3>8, <4>1 DEF IsElement
      <4> QED BY <3>3, <4>1, <4>2
    <3> HIDE DEF held
    <3>9. UNION {FreeIn(p, n) : n \in 1..Len(ptr_stacks[p])} = AllElements(p) \ held
      BY <3>7, <3>8
    <3> QED BY <3>3, <3>6, <3>9 DEF held
  <2> QED BY <2>1, <2>2, <2>3 DEF PoolsSound
<1> QED BY <1>1, PoolsStart, PoolsStep, PTL DEF PoolsSpec
-----------------------------------------------------------------------------
(* Lists without repetitions: what adding and taking does to their members. *)

Members(q) == {q[i] : i \in 1..Len(q)}
Once(q) == \A i, j \in 1..Len(q) : q[i] = q[j] => i = j

\* Adding a new member.
LEMMA PushMembers ==
    ASSUME NEW S, NEW q \in Seq(S), Once(q), NEW e \in S, e \notin Members(q)
    PROVE  LET r == Append(q, e) IN
           r \in Seq(S) /\ Once(r) /\ Members(r) = Members(q) \cup {e}
<1> DEFINE r == Append(q, e)
           n == Len(q)
<1>1. /\ n \in Nat /\ r \in Seq(S) /\ Len(r) = n + 1 /\ r[n + 1] = e
      /\ \A i \in 1..n : r[i] = q[i]
  OBVIOUS
<1> HIDE DEF r
<1>2. \A i \in 1..n : q[i] # e
  BY DEF Members
<1>3. /\ \A i \in 1..(n + 1) : i \in 1..n \/ i = n + 1
      /\ \A i \in 1..n : i \in 1..(n + 1)
      /\ n + 1 \in 1..(n + 1)
  BY <1>1
<1>4. Once(r)
  <2> SUFFICES ASSUME NEW i \in 1..Len(r), NEW j \in 1..Len(r), r[i] = r[j] PROVE i = j
    BY DEF Once
  <2> QED BY <1>1, <1>2, <1>3 DEF Once
<1>5. Members(r) = Members(q) \cup {e}
  <2>1. ASSUME NEW x \in Members(r) PROVE x \in Members(q) \cup {e}
    BY <1>1, <1>3 DEF Members
  <2>2. ASSUME NEW x \in Members(q) PROVE x \in Members(r)
    BY <1>1, <1>3 DEF Members
  <2>3. e \in Members(r)
    BY <1>1, <1>3 DEF Members
  <2> QED BY <2>1, <2>2, <2>3
<1> QED BY <1>1, <1>4, <1>5 DEF r

\* Taking the k-th member out.
LEMMA WithoutMembers ==
    ASSUME NEW S, NEW q \in Seq(S), Once(q), NEW k \in 1..Len(q), NEW r \in Seq(S), IsWithout(q, r, k)
    PROVE  Once(r) /\ q[k] \in Members(q) /\ Members(r) = Members(q) \ {q[k]}
<1>1. /\ \A i \in 1..Len(r) : \E j \in 1..Len(q) : j # k /\ r[i] = q[j]
      /\ \A j \in 1..Len(q) : j # k => \E i \in 1..Len(r) : r[i] = q[j]
      /\ \A i, j \in 1..Len(r) : i < j =>
             \E f, g \in 1..Len(q) : f < g /\ f # k /\ g # k /\ r[i] = q[f] /\ r[j] = q[g]
  <2>1. StaysIn(q, r, k)
    BY WithoutStays
  <2> QED BY ONLY <2>1 DEF StaysIn
<1>2. q[k] \in Members(q)
  BY DEF Members
<1>3. \A j \in 1..Len(q) : q[j] = q[k] => j = k
  BY DEF Once
<1>4. Once(r)
  <2> SUFFICES ASSUME NEW i \in 1..Len(r), NEW j \in 1..Len(r), i < j PROVE r[i] # r[j]
    BY DEF Once
  <2>1. PICK f \in 1..Len(q), g \in 1..Len(q) : f < g /\ r[i] = q[f] /\ r[j] = q[g]
    BY <1>1
  <2>2. f # g
    BY <2>1
  <2> QED BY <2>1, <2>2 DEF Once
<1>5. ASSUME NEW x \in Members(r) PROVE x \in Members(q) \ {q[k]}
  <2>1. PICK i \in 1..Len(r) : x = r[i]
    BY DEF Members
  <2>2. PICK j \in 1..Len(q) : j # k /\ r[i] = q[j]
    BY <1>1
  <2>3. x # q[k]
    BY <1>3, <2>1, <2>2
  <2> QED BY <2>1, <2>2, <2>3 DEF Members
<1>6. ASSUME NEW x \in Members(q), x # q[k] PROVE x \in Members(r)
  <2>1. PICK j \in 1..Len(q) : x = q[j]
    BY DEF Members
  <2>2. PICK i \in 1..Len(r) : r[i] = q[j]
    BY <1>1, <1>6, <2>1
  <2> QED BY <2>1, <2>2 DEF Members
<1>7. Members(r) = Members(q) \ {q[k]}
  BY <1>5, <1>6
<1> QED BY <1>2, <1>4, <1>7

\* Taking the last one, from a stack.
LEMMA PopMembers ==
    ASSUME NEW S, NEW q \in Seq(S), Once(q), q # <<>>
    PROVE  LET r == SubSeq(q, 1, Len(q) - 1)
               e == q[Len(q)]
           IN  r \in Seq(S) /\ Once(r) /\ e \in Members(q) /\ Members(r) = Members(q) \ {e}
<1> DEFINE r == SubSeq(q, 1, Len(q) - 1)
<1>1. r \in Seq(S) /\ IsWithout(q, r, Len(q)) /\ Len(q) \in 1..Len(q)
  BY FrontWithout
<1> HIDE DEF r
<1> QED BY ZenonT(40), <1>1, WithoutMembers DEF r

\* The members of a list are of its set, and counted by its length.
LEMMA MembersAre ==
    ASSUME NEW S, NEW q \in Seq(S)
    PROVE  /\ Members(q) \subseteq S
           /\ q # <<>> <=> Members(q) # {}
           /\ Once(q) => IsFiniteSet(Members(q)) /\ Cardinality(Members(q)) = Len(q)
<1>1. Members(q) \subseteq S
  BY DEF Members
<1>2. q # <<>> <=> Members(q) # {}
  <2>1. CASE q = <<>>
    BY <2>1 DEF Members
  <2>2. CASE q # <<>>
    <3>1. 1 \in 1..Len(q)
      BY <2>2
    <3> QED BY <2>2, <3>1 DEF Members
  <2> QED BY <2>1, <2>2
<1>3. Once(q) => IsFiniteSet(Members(q)) /\ Cardinality(Members(q)) = Len(q)
  BY InjectiveLen DEF Once, Members
<1> QED BY <1>1, <1>2, <1>3

\* The list of the numbers from a on and below b.
LEMMA CountIs ==
    ASSUME NEW a \in Nat, NEW b \in Nat, a <= b
    PROVE  LET q == [i \in 1..(b - a) |-> a + i - 1] IN
           q \in Seq(Nat) /\ Len(q) = b - a /\ Once(q) /\ Members(q) = a..(b - 1)
<1> DEFINE q == [i \in 1..(b - a) |-> a + i - 1]
           n == b - a
<1>1. n \in Nat
  OBVIOUS
<1>2. q \in Seq(Nat) /\ Len(q) = n /\ \A i \in 1..n : q[i] = a + i - 1
  OBVIOUS
<1> HIDE DEF q
<1>3. Once(q)
  <2> SUFFICES ASSUME NEW i \in 1..n, NEW j \in 1..n, a + i - 1 = a + j - 1 PROVE i = j
    BY <1>2 DEF Once
  <2> QED BY <1>1
<1>4. ASSUME NEW x \in Members(q) PROVE x \in a..(b - 1)
  <2>1. PICK i \in 1..n : x = a + i - 1
    BY <1>2 DEF Members
  <2> QED BY <2>1
<1>5. ASSUME NEW x \in a..(b - 1) PROVE x \in Members(q)
  <2>1. x - a + 1 \in 1..n /\ a + (x - a + 1) - 1 = x
    OBVIOUS
  <2> QED BY <1>2, <2>1 DEF Members
<1> QED BY <1>2, <1>3, <1>4, <1>5 DEF q
-----------------------------------------------------------------------------
(* The timers. *)

TimerRecords == [id : Nat, due : Int, fate : {"set", "deleted", "fired"}]
NodeRecords == [left_time : Int, timer : Nat, callback : BOOLEAN]

\* The ids of N nodes are on the heap or on the free stack, once.
IdsOK(N, ids, hp) ==
    /\ N \in Nat /\ N > 0
    /\ ids \in Seq(Nat) /\ Once(ids)
    /\ hp \subseteq 0..(N - 1) /\ Members(ids) = (0..(N - 1)) \ hp

\* The timers that are set and the nodes of the heap with a callback name each other.
TimersOK(N, nodes, hp, ts) ==
    /\ nodes \in [0..(N - 1) -> NodeRecords]
    /\ ts \in Seq(TimerRecords)
    /\ \A t \in 1..Len(ts) :
         /\ ts[t].id \in 0..(N - 1)
         /\ ts[t].fate = "set" => /\ ts[t].id \in hp
                                  /\ nodes[ts[t].id].callback
                                  /\ nodes[ts[t].id].timer = t
                                  /\ nodes[ts[t].id].left_time = ts[t].due
    /\ \A i \in hp : nodes[i].callback =>
         /\ nodes[i].timer \in 1..Len(ts)
         /\ ts[nodes[i].timer].id = i /\ ts[nodes[i].timer].fate = "set"

TimerInv ==
    /\ IdsOK(NodeNum, free_node_ids, heap)
    /\ TimersOK(NodeNum, node_array, heap, timers)
    /\ clock \in Nat /\ scheduling \in Int /\ scheduling <= clock
    /\ \A t \in 1..Len(timers) : timers[t].fate = "fired" => timers[t].due <= clock

\* N nodes are counted N.
LEMMA NodeNumIs ==
    ASSUME NEW N \in Nat, NEW S, NEW f \in [0..(N - 1) -> S]
    PROVE  Cardinality(DOMAIN f) = N
<1>1. DOMAIN f = 0..(N - 1)
  OBVIOUS
<1>2. Cardinality(0..(N - 1)) = IF 0 > N - 1 THEN 0 ELSE (N - 1) - 0 + 1
  BY FS_Interval
<1> QED BY <1>1, <1>2

\* A timer takes the id at the top of the free stack.
LEMMA AddKeeps ==
    ASSUME NEW N, NEW nodes, NEW ids, NEW hp, NEW ts, NEW due \in Int,
           IdsOK(N, ids, hp), TimersOK(N, nodes, hp, ts), ids # <<>>
    PROVE  LET id == ids[Len(ids)]
               node == [left_time |-> due, timer |-> Len(ts) + 1, callback |-> TRUE]
               tm == [id |-> id, due |-> due, fate |-> "set"]
           IN  /\ IdsOK(N, SubSeq(ids, 1, Len(ids) - 1), hp \cup {id})
               /\ TimersOK(N, [nodes EXCEPT ![id] = node], hp \cup {id}, Append(ts, tm))
<1> DEFINE id == ids[Len(ids)]
           r == SubSeq(ids, 1, Len(ids) - 1)
           t == Len(ts) + 1
           node == [left_time |-> due, timer |-> t, callback |-> TRUE]
           tm == [id |-> id, due |-> due, fate |-> "set"]
           new == [nodes EXCEPT ![id] = node]
           more == Append(ts, tm)
<1>1. r \in Seq(Nat) /\ Once(r) /\ id \in Members(ids) /\ Members(r) = Members(ids) \ {id}
  BY PopMembers DEF IdsOK
<1> HIDE DEF r, id
<1>2. id \in 0..(N - 1) /\ id \notin hp /\ id \in Nat /\ N \in Nat /\ hp \subseteq 0..(N - 1)
  BY <1>1 DEF IdsOK
<1>3. IdsOK(N, r, hp \cup {id})
  BY <1>1, <1>2 DEF IdsOK
<1>4. ts \in Seq(TimerRecords) /\ Len(ts) \in Nat /\ nodes \in [0..(N - 1) -> NodeRecords]
  BY DEF TimersOK
<1>5. /\ node \in NodeRecords /\ node.left_time = due /\ node.timer = t /\ node.callback = TRUE
      /\ tm \in TimerRecords /\ tm.id = id /\ tm.due = due /\ tm.fate = "set"
  BY <1>2, <1>4 DEF NodeRecords, TimerRecords
<1> HIDE DEF node, tm
<1>6. /\ more \in Seq(TimerRecords) /\ Len(more) = t /\ more[t] = tm
      /\ \A i \in 1..Len(ts) : more[i] = ts[i]
  BY <1>4, <1>5
<1>7. /\ \A i \in 1..t : i \in 1..Len(ts) \/ i = t
      /\ \A i \in 1..Len(ts) : i \in 1..t
      /\ t \in 1..t
  BY <1>4
<1> HIDE DEF t, more
<1>8. /\ new \in [0..(N - 1) -> NodeRecords] /\ new[id] = node
      /\ \A i \in 0..(N - 1) : i # id => new[i] = nodes[i]
  BY <1>2, <1>4, <1>5
<1> HIDE DEF new
<1>9. ASSUME NEW i \in 1..t
      PROVE  /\ more[i].id \in 0..(N - 1)
             /\ more[i].fate = "set" => /\ more[i].id \in hp \cup {id}
                                        /\ new[more[i].id].callback
                                        /\ new[more[i].id].timer = i
                                        /\ new[more[i].id].left_time = more[i].due
  <2>1. CASE i = t
    BY <1>2, <1>5, <1>6, <1>8, <2>1
  <2>2. CASE i \in 1..Len(ts)
    <3>1. /\ ts[i].id \in 0..(N - 1)
          /\ ts[i].fate = "set" => /\ ts[i].id \in hp
                                   /\ nodes[ts[i].id].callback
                                   /\ nodes[ts[i].id].timer = i
                                   /\ nodes[ts[i].id].left_time = ts[i].due
      BY <2>2 DEF TimersOK
    <3> QED BY <1>2, <1>6, <1>8, <2>2, <3>1
  <2> QED BY <1>7, <2>1, <2>2
<1>10. ASSUME NEW i \in hp \cup {id}, new[i].callback
       PROVE  new[i].timer \in 1..t /\ more[new[i].timer].id = i /\ more[new[i].timer].fate = "set"
  <2>1. CASE i = id
    BY <1>5, <1>6, <1>7, <1>8, <2>1
  <2>2. CASE i \in hp
    <3>1. new[i] = nodes[i]
      BY <1>2, <1>8, <2>2
    <3>2. /\ nodes[i].timer \in 1..Len(ts)
          /\ ts[nodes[i].timer].id = i /\ ts[nodes[i].timer].fate = "set"
      BY <1>10, <2>2, <3>1 DEF TimersOK
    <3> QED BY <1>6, <1>7, <3>1, <3>2
  <2> QED BY <2>1, <2>2
<1>11. TimersOK(N, new, hp \cup {id}, more)
  BY <1>6, <1>8, <1>9, <1>10 DEF TimersOK
<1> QED BY <1>3, <1>11 DEF r, id, node, tm, new, more, t

\* The manager doubles when every id is in use.
LEMMA GrowKeeps ==
    ASSUME TimerInv, free_node_ids = <<>>
    PROVE  LET N == 2 * NodeNum
               mgr == timeaction_mgr_init(N)
           IN  /\ IdsOK(N, mgr.ids, heap) /\ TimersOK(N, mgr.nodes, heap, timers)
               /\ mgr.ids # <<>>
<1> DEFINE M == NodeNum
           N == 2 * M
           ids == free_node_ids \o Count(M, N)
           nodes == [i \in 0..(N - 1) |-> IF i < M THEN node_array[i] ELSE NoNode]
<1>1. /\ IdsOK(M, free_node_ids, heap) /\ TimersOK(M, node_array, heap, timers)
      /\ M \in Nat /\ M > 0
  BY DEF TimerInv, IdsOK
<1>2. timeaction_mgr_init(N).ids = ids /\ timeaction_mgr_init(N).nodes = nodes
  BY DEF timeaction_mgr_init
<1> HIDE DEF M
<1>3. N \in Nat /\ M <= N /\ N > 0 /\ N - M = M /\ \A i \in 0..(M - 1) : i \in 0..(N - 1) /\ i < M
  BY <1>1
<1>4. /\ Count(M, N) \in Seq(Nat) /\ Once(Count(M, N)) /\ Members(Count(M, N)) = M..(N - 1)
      /\ Len(Count(M, N)) = M
  <2> HIDE DEF N
  <2>1. /\ Count(M, N) \in Seq(Nat) /\ Once(Count(M, N)) /\ Members(Count(M, N)) = M..(N - 1)
        /\ Len(Count(M, N)) = N - M
    BY <1>1, <1>3, CountIs DEF Count
  <2> QED BY <1>3, <2>1
<1>5. ids = Count(M, N)
  BY <1>4
<1> HIDE DEF ids
<1>6. heap = 0..(M - 1)
  <2>1. Members(free_node_ids) = {}
    BY DEF Members
  <2> QED BY <1>1, <2>1 DEF IdsOK
<1>7. M..(N - 1) = (0..(N - 1)) \ heap /\ heap \subseteq 0..(N - 1)
  BY <1>1, <1>3, <1>6
<1>8. IdsOK(N, ids, heap) /\ ids # <<>>
  BY <1>1, <1>3, <1>4, <1>5, <1>7 DEF IdsOK
<1>9. NoNode \in NodeRecords
  BY DEF NoNode, NodeRecords
<1>10. node_array \in [0..(M - 1) -> NodeRecords]
  BY <1>1 DEF TimersOK
<1>11. nodes \in [0..(N - 1) -> NodeRecords] /\ \A i \in 0..(M - 1) : nodes[i] = node_array[i]
  <2>1. \A i \in 0..(N - 1) : i < M => i \in 0..(M - 1)
    BY <1>1
  <2> QED BY <1>3, <1>9, <1>10, <2>1
<1> HIDE DEF nodes, N
<1>12. TimersOK(N, nodes, heap, timers)
  <2>1. ASSUME NEW t \in 1..Len(timers)
        PROVE  /\ timers[t].id \in 0..(M - 1) /\ timers[t].id \in 0..(N - 1)
               /\ nodes[timers[t].id] = node_array[timers[t].id]
    BY <1>1, <1>3, <1>11 DEF TimersOK
  <2>2. \A i \in heap : nodes[i] = node_array[i]
    BY <1>6, <1>11
  <2> QED BY <1>1, <1>11, <2>1, <2>2 DEF TimersOK
<1> QED BY <1>2, <1>8, <1>12 DEF M, N

\* Deleting a timer clears the callback of its node, and of no other.
LEMMA DelKeeps ==
    ASSUME TimerInv, NEW t \in 1..Len(timers), ox_timer_mgr_del(t)
    PROVE  TimerInv'
<1> DEFINE N == NodeNum
           id == timers[t].id
<1>0. IdsOK(N, free_node_ids, heap) /\ TimersOK(N, node_array, heap, timers) /\ N \in Nat
  BY DEF TimerInv, IdsOK
<1>1. /\ timers[t].fate = "set" /\ UNCHANGED <<free_node_ids, heap, clock, scheduling>>
      /\ node_array' = [node_array EXCEPT ![id].callback = FALSE]
      /\ timers' = [timers EXCEPT ![t].fate = "deleted"]
  BY DEF ox_timer_mgr_del
<1> HIDE DEF N
<1>2. /\ timers \in Seq(TimerRecords) /\ node_array \in [0..(N - 1) -> NodeRecords]
      /\ id \in 0..(N - 1) /\ timers[t] \in TimerRecords /\ node_array[id] \in NodeRecords
      /\ node_array[id].callback /\ node_array[id].timer = t
  BY <1>0, <1>1 DEF TimersOK
<1> DEFINE tm == [timers[t] EXCEPT !.fate = "deleted"]
           node == [node_array[id] EXCEPT !.callback = FALSE]
<1>3. /\ tm \in TimerRecords /\ tm.id = id /\ tm.fate = "deleted"
      /\ node \in NodeRecords /\ node.callback = FALSE
  BY <1>2 DEF TimerRecords, NodeRecords
<1>4. timers' = [timers EXCEPT ![t] = tm] /\ node_array' = [node_array EXCEPT ![id] = node]
  BY <1>1
<1> HIDE DEF tm, node
<1>5. /\ timers' \in Seq(TimerRecords) /\ Len(timers') = Len(timers)
      /\ \A j \in 1..Len(timers) : timers'[j] = IF j = t THEN tm ELSE timers[j]
  BY <1>2, <1>3, <1>4, ExceptInSeq
<1>6. /\ node_array' \in [0..(N - 1) -> NodeRecords] /\ node_array'[id] = node
      /\ \A i \in 0..(N - 1) : i # id => node_array'[i] = node_array[i]
  BY <1>2, <1>3, <1>4
<1>7. NodeNum' = N
  <2>1. N \in Nat
    BY <1>0
  <2> QED BY <1>6, <2>1, NodeNumIs DEF NodeNum
<1>8. ASSUME NEW j \in 1..Len(timers)
      PROVE  /\ timers'[j].id \in 0..(N - 1)
             /\ timers'[j].fate = "set" => /\ timers'[j].id \in heap
                                           /\ node_array'[timers'[j].id].callback
                                           /\ node_array'[timers'[j].id].timer = j
                                           /\ node_array'[timers'[j].id].left_time = timers'[j].due
  <2>1. CASE j = t
    BY <1>2, <1>3, <1>5, <2>1
  <2>2. CASE j # t
    <3>1. timers'[j] = timers[j]
      BY <1>5, <2>2
    <3>2. /\ timers[j].id \in 0..(N - 1)
          /\ timers[j].fate = "set" => /\ timers[j].id \in heap
                                       /\ node_array[timers[j].id].callback
                                       /\ node_array[timers[j].id].timer = j
                                       /\ node_array[timers[j].id].left_time = timers[j].due
      BY <1>0 DEF TimersOK
    <3>3. timers[j].fate = "set" => timers[j].id # id
      BY <1>2, <2>2, <3>2
    <3> HIDE DEF id
    <3> QED BY <1>6, <3>1, <3>2, <3>3
  <2> QED BY <2>1, <2>2
<1>9. ASSUME NEW i \in heap, node_array'[i].callback
      PROVE  /\ node_array'[i].timer \in 1..Len(timers) /\ timers'[node_array'[i].timer].id = i
             /\ timers'[node_array'[i].timer].fate = "set"
  <2>1. i \in 0..(N - 1) /\ i # id
    BY <1>0, <1>3, <1>6, <1>9 DEF IdsOK
  <2>2. node_array'[i] = node_array[i]
    BY <1>6, <2>1
  <2>3. /\ node_array[i].timer \in 1..Len(timers) /\ timers[node_array[i].timer].id = i
        /\ timers[node_array[i].timer].fate = "set"
    BY <1>0, <1>9, <2>2 DEF TimersOK
  <2>4. node_array[i].timer # t
    BY <2>1, <2>3
  <2> QED BY <1>5, <2>2, <2>3, <2>4
<1>10. TimersOK(N, node_array', heap, timers')
  BY <1>5, <1>6, <1>8, <1>9 DEF TimersOK
<1>11. \A j \in 1..Len(timers') : timers'[j].fate = "fired" => timers'[j].due <= clock
  BY <1>3, <1>5 DEF TimerInv
<1> QED BY <1>0, <1>1, <1>7, <1>10, <1>11 DEF TimerInv

\* The scheduler takes a node off the heap and calls its timer, if it is set.
LEMMA TopKeeps ==
    ASSUME TimerInv, NEW id \in heap, scheduleTop(id)
    PROVE  TimerInv'
<1> DEFINE N == NodeNum
           node == node_array[id]
           t == node.timer
<1>0. /\ IdsOK(N, free_node_ids, heap) /\ TimersOK(N, node_array, heap, timers) /\ N \in Nat
      /\ clock \in Nat /\ scheduling \in Int /\ scheduling <= clock
  BY DEF TimerInv, IdsOK
<1>1. /\ node.callback => node.left_time <= scheduling
      /\ timers' = IF node.callback THEN [timers EXCEPT ![t].fate = "fired"] ELSE timers
      /\ heap' = heap \ {id} /\ free_node_ids' = Append(free_node_ids, id)
      /\ UNCHANGED <<node_array, clock, scheduling>>
  BY DEF scheduleTop
<1>2. NodeNum' = N
  BY <1>1 DEF NodeNum
<1> HIDE DEF N
<1>3. IdsOK(N, free_node_ids', heap')
  <2>1. /\ free_node_ids \in Seq(Nat) /\ Once(free_node_ids) /\ id \in Nat /\ id \in 0..(N - 1)
        /\ id \notin Members(free_node_ids)
    BY <1>0 DEF IdsOK
  <2>2. /\ free_node_ids' \in Seq(Nat) /\ Once(free_node_ids')
        /\ Members(free_node_ids') = Members(free_node_ids) \cup {id}
    BY <1>1, <2>1, PushMembers
  <2> QED BY <1>0, <1>1, <2>1, <2>2 DEF IdsOK
<1>4. CASE ~ node.callback
  <2>1. timers' = timers
    BY <1>1, <1>4
  <2>2. \A j \in 1..Len(timers) : timers[j].fate = "set" => timers[j].id # id
    BY <1>0, <1>4 DEF TimersOK
  <2>3. TimersOK(N, node_array, heap', timers)
    BY <1>0, <1>1, <2>2 DEF TimersOK
  <2> QED BY <1>0, <1>1, <1>2, <1>3, <2>1, <2>3 DEF TimerInv
<1>5. CASE node.callback
  <2> DEFINE tm == [timers[t] EXCEPT !.fate = "fired"]
  <2>1. /\ timers \in Seq(TimerRecords) /\ t \in 1..Len(timers)
        /\ timers[t].id = id /\ timers[t].fate = "set" /\ timers[t] \in TimerRecords
    BY <1>0, <1>5 DEF TimersOK
  <2>2. timers[t].due = node.left_time
    BY <1>0, <2>1 DEF TimersOK
  <2>3. tm \in TimerRecords /\ tm.id = id /\ tm.fate = "fired" /\ tm.due = timers[t].due
    BY <2>1 DEF TimerRecords
  <2>4. timers' = [timers EXCEPT ![t] = tm]
    BY <1>1, <1>5
  <2>d. tm.due <= clock
    <3>1. timers[t].due \in Int /\ timers[t].due <= scheduling
      BY <1>1, <1>5, <2>1, <2>2 DEF TimerRecords
    <3> QED BY <1>0, <2>3, <3>1
  <2> HIDE DEF tm, t
  <2>5. /\ timers' \in Seq(TimerRecords) /\ Len(timers') = Len(timers)
        /\ \A j \in 1..Len(timers) : timers'[j] = IF j = t THEN tm ELSE timers[j]
    BY <2>1, <2>3, <2>4, ExceptInSeq
  <2>6. ASSUME NEW j \in 1..Len(timers)
        PROVE  /\ timers'[j].id \in 0..(N - 1)
               /\ timers'[j].fate = "set" => /\ timers'[j].id \in heap'
                                             /\ node_array[timers'[j].id].callback
                                             /\ node_array[timers'[j].id].timer = j
                                             /\ node_array[timers'[j].id].left_time = timers'[j].due
    <3>1. CASE j = t
      <4>1. timers[t].id \in 0..(N - 1)
        BY <1>0, <2>1 DEF TimersOK
      <4> QED BY <2>1, <2>3, <2>5, <3>1, <4>1
    <3>2. CASE j # t
      <4>1. timers'[j] = timers[j]
        BY <2>5, <3>2
      <4>2. /\ timers[j].id \in 0..(N - 1)
            /\ timers[j].fate = "set" => /\ timers[j].id \in heap
                                         /\ node_array[timers[j].id].callback
                                         /\ node_array[timers[j].id].timer = j
                                         /\ node_array[timers[j].id].left_time = timers[j].due
        BY <1>0 DEF TimersOK
      <4>3. timers[j].fate = "set" => timers[j].id # id
        BY <3>2, <4>2 DEF t
      <4> QED BY <1>1, <4>1, <4>2, <4>3
    <3> QED BY <3>1, <3>2
  <2>7. ASSUME NEW i \in heap', node_array[i].callback
        PROVE  /\ node_array[i].timer \in 1..Len(timers) /\ timers'[node_array[i].timer].id = i
               /\ timers'[node_array[i].timer].fate = "set"
    <3>1. i \in heap /\ i # id
      BY <1>1
    <3>2. /\ node_array[i].timer \in 1..Len(timers) /\ timers[node_array[i].timer].id = i
          /\ timers[node_array[i].timer].fate = "set"
      BY <1>0, <2>7, <3>1 DEF TimersOK
    <3>3. node_array[i].timer # t
      BY <2>1, <3>1, <3>2
    <3> QED BY <2>5, <3>2, <3>3
  <2>8. node_array \in [0..(N - 1) -> NodeRecords]
    BY <1>0 DEF TimersOK
  <2>9. TimersOK(N, node_array, heap', timers')
    BY <2>5, <2>6, <2>7, <2>8 DEF TimersOK
  <2>10. \A j \in 1..Len(timers') : timers'[j].fate = "fired" => timers'[j].due <= clock
    BY <2>5, <2>d DEF TimerInv
  <2> QED BY <1>0, <1>1, <1>2, <1>3, <2>9, <2>10 DEF TimerInv
<1> QED BY <1>4, <1>5

\* Each call, and each round of the scheduler, keeps TimerInv.
LEMMA TimerStep == TimerInv /\ [TimeactionNext]_taVars => TimerInv'
<1> SUFFICES ASSUME TimerInv, [TimeactionNext]_taVars PROVE TimerInv'
  OBVIOUS
<1>0. /\ IdsOK(NodeNum, free_node_ids, heap) /\ TimersOK(NodeNum, node_array, heap, timers)
      /\ NodeNum \in Nat /\ clock \in Nat /\ scheduling \in Int /\ scheduling <= clock
      /\ \A t \in 1..Len(timers) : timers[t].fate = "fired" => timers[t].due <= clock
  BY DEF TimerInv, IdsOK
<1>1. ASSUME NEW delay \in -1..1, ox_timer_mgr_add(delay) PROVE TimerInv'
  <2> DEFINE mgr == IF free_node_ids = <<>> THEN timeaction_mgr_init(2 * NodeNum)
                    ELSE [nodes |-> node_array, ids |-> free_node_ids]
             N == IF free_node_ids = <<>> THEN 2 * NodeNum ELSE NodeNum
             nodes == mgr.nodes
             ids == mgr.ids
             id == ids[Len(ids)]
             due == clock + delay
             tm == [id |-> id, due |-> due, fate |-> "set"]
  <2>1. IdsOK(N, ids, heap) /\ TimersOK(N, nodes, heap, timers) /\ ids # <<>>
    <3>1. CASE free_node_ids = <<>>
      BY <3>1, GrowKeeps
    <3>2. CASE free_node_ids # <<>>
      BY <1>0, <3>2
    <3> QED BY <3>1, <3>2
  <2>2. due \in Int
    BY <1>0
  <2>3. /\ free_node_ids' = SubSeq(ids, 1, Len(ids) - 1)
        /\ node_array' = [nodes EXCEPT ![id] =
               [left_time |-> due, timer |-> Len(timers) + 1, callback |-> TRUE]]
        /\ heap' = heap \cup {id} /\ timers' = Append(timers, tm)
        /\ UNCHANGED <<clock, scheduling>>
    BY <1>1 DEF ox_timer_mgr_add
  <2> HIDE DEF mgr, N, nodes, ids, due
  <2>4. IdsOK(N, free_node_ids', heap') /\ TimersOK(N, node_array', heap', timers')
    BY <2>1, <2>2, <2>3, AddKeeps
  <2>5. NodeNum' = N
    <3>1. N \in Nat /\ node_array' \in [0..(N - 1) -> NodeRecords]
      BY <2>4 DEF IdsOK, TimersOK
    <3> QED BY <3>1, NodeNumIs DEF NodeNum
  <2>6. \A t \in 1..Len(timers') : timers'[t].fate = "fired" => timers'[t].due <= clock
    <3>1. tm.fate = "set" /\ tm \in [id : {id}, due : Int, fate : {"set"}]
      BY <2>2
    <3> HIDE DEF tm, id
    <3>2. timers \in Seq(TimerRecords)
      BY <1>0 DEF TimersOK
    <3>3. \A t \in 1..Len(timers') : t \in 1..Len(timers) \/ timers'[t] = tm
      BY <2>3, <3>2
    <3>4. \A t \in 1..Len(timers) : timers'[t] = timers[t]
      BY <2>3, <3>2
    <3> QED BY <1>0, <3>1, <3>3, <3>4
  <2> QED BY <1>0, <2>3, <2>4, <2>5, <2>6 DEF TimerInv
<1>2. ASSUME NEW t \in 1..Len(timers), ox_timer_mgr_del(t) PROVE TimerInv'
  BY <1>2, DelKeeps
<1>3. CASE ox_timer_mgr_schedule
  BY <1>0, <1>3 DEF ox_timer_mgr_schedule, TimerInv, NodeNum
<1>4. ASSUME NEW id \in heap, scheduleTop(id) PROVE TimerInv'
  BY <1>4, TopKeeps
<1>5. CASE scheduleReturns
  BY <1>0, <1>5 DEF scheduleReturns, TimerInv, NodeNum
<1>6. CASE clockTicks
  <2>1. /\ clock' = clock + 1
        /\ UNCHANGED <<node_array, free_node_ids, heap, scheduling, timers>>
    BY <1>6 DEF clockTicks
  <2>2. clock' \in Nat /\ scheduling <= clock' /\ \A d \in Int : d <= clock => d <= clock'
    BY <1>0, <2>1
  <2>3. \A t \in 1..Len(timers) : timers[t].due \in Int
    <3>1. \A t \in 1..Len(timers) : timers[t] \in TimerRecords
      BY <1>0 DEF TimersOK
    <3> QED BY <3>1 DEF TimerRecords
  <2>4. \A t \in 1..Len(timers) : timers[t].fate = "fired" => timers[t].due <= clock'
    BY <1>0, <2>2, <2>3
  <2> QED BY <1>0, <2>1, <2>2, <2>4 DEF TimerInv, NodeNum
<1>7. CASE UNCHANGED taVars
  BY <1>0, <1>7 DEF taVars, TimerInv, NodeNum
<1> QED BY <1>1, <1>2, <1>3, <1>4, <1>5, <1>6, <1>7 DEF TimeactionNext

\* A new manager has all its ids on the free stack.
LEMMA TimerStart == TimeactionInit => TimerInv
<1> SUFFICES ASSUME TimeactionInit PROVE TimerInv
  OBVIOUS
<1>1. /\ TimerNodes \in Nat /\ TimerNodes > 0 /\ 0 <= TimerNodes /\ TimerNodes - 0 = TimerNodes
      /\ free_node_ids = Count(0, TimerNodes) /\ heap = {} /\ timers = <<>>
      /\ clock = 0 /\ scheduling = -1
      /\ node_array = [i \in 0..(TimerNodes - 1) |-> NoNode]
  BY TimeactionAssumption DEF TimeactionInit
<1>2. NoNode \in NodeRecords
  BY DEF NoNode, NodeRecords
<1>3. node_array \in [0..(TimerNodes - 1) -> NodeRecords]
  BY <1>1, <1>2
<1>4. NodeNum = TimerNodes
  BY <1>1, <1>3, NodeNumIs DEF NodeNum
<1>5. /\ free_node_ids \in Seq(Nat) /\ Once(free_node_ids)
      /\ Members(free_node_ids) = 0..(TimerNodes - 1)
  BY <1>1, CountIs DEF Count
<1>6. IdsOK(NodeNum, free_node_ids, heap)
  BY <1>1, <1>4, <1>5 DEF IdsOK
<1>7. timers \in Seq(TimerRecords) /\ Len(timers) = 0
  BY <1>1
<1>8. TimersOK(NodeNum, node_array, heap, timers)
  BY <1>1, <1>3, <1>4, <1>7 DEF TimersOK
<1> QED BY <1>1, <1>6, <1>7, <1>8 DEF TimerInv

(***************************************************************************)
(* For any number of nodes and any calls, also from callbacks: the ids of  *)
(* timeaction.c are on the heap or free, once, across growth; a timer that *)
(* is set owns its node, and none fires early.                             *)
(***************************************************************************)
THEOREM TimersKeepTheirNodes == TimeactionSpec => []TimersSound
<1>1. ASSUME TimerInv PROVE TimersSound
  <2> DEFINE N == NodeNum
             D == 0..(N - 1)
  <2>1. /\ N \in Nat /\ free_node_ids \in Seq(Nat) /\ Once(free_node_ids)
        /\ heap \subseteq D /\ Members(free_node_ids) = D \ heap
        /\ DOMAIN node_array = D /\ TimersOK(N, node_array, heap, timers)
    BY <1>1 DEF TimerInv, IdsOK, TimersOK
  <2> HIDE DEF N
  <2>2. IsFiniteSet(D) /\ Cardinality(D) = N
    <3>1. IsFiniteSet(D) /\ Cardinality(D) = IF 0 > N - 1 THEN 0 ELSE (N - 1) - 0 + 1
      BY <2>1, FS_Interval
    <3> QED BY <2>1, <3>1
  <2> HIDE DEF D
  <2>3. /\ IsFiniteSet(heap) /\ IsFiniteSet(Members(free_node_ids))
        /\ Cardinality(Members(free_node_ids)) = Len(free_node_ids)
    BY <2>1, <2>2, FS_Subset, MembersAre
  <2>4. heap \cup Members(free_node_ids) = D /\ heap \cap Members(free_node_ids) = {}
    BY <2>1
  <2>5. Cardinality(heap) + Len(free_node_ids) = N
    <3>1. Cardinality(D) = Cardinality(heap) + Cardinality(Members(free_node_ids)) - Cardinality({})
      <4> DEFINE F == Members(free_node_ids)
      <4> HIDE DEF F
      <4>1. Cardinality(heap \cup F) = Cardinality(heap) + Cardinality(F) - Cardinality(heap \cap F)
        BY <2>3, FS_Union DEF F
      <4> QED BY <2>4, <4>1 DEF F
    <3>2. Cardinality({}) = 0 /\ Cardinality(heap) \in Nat
      BY <2>3, FS_EmptySet, FS_CardinalityType
    <3>3. Len(free_node_ids) \in Nat
      BY <2>1
    <3> QED BY <2>1, <2>2, <2>3, <3>1, <3>2, <3>3
  <2>6. heap \cup {free_node_ids[i] : i \in 1..Len(free_node_ids)} = DOMAIN node_array
    BY <2>1, <2>4 DEF Members
  <2>7. ASSUME NEW t \in 1..Len(timers)
        PROVE  LET id == timers[t].id IN
               /\ timers[t].fate = "set" <=>
                     id \in heap /\ node_array[id].callback /\ node_array[id].timer = t
               /\ timers[t].fate = "fired" => timers[t].due <= clock
    BY <1>1, <2>1 DEF TimersOK, TimerInv
  <2> QED BY <2>5, <2>6, <2>7 DEF TimersSound, N
<1> QED BY <1>1, TimerStart, TimerStep, PTL DEF TimeactionSpec
-----------------------------------------------------------------------------
(* The coroutines. *)

CoStates == {"DEAD", "READY", "RUNNING", "SUSPEND", "BLOCK"}
CoRecords == [n : Nat, state : CoStates, stack : (Nat \X Nat) \cup {<<>>}]
Waiting == {"READY", "SUSPEND"}
Used(table) == {i \in DOMAIN table : table[i] # NoCo}

\* What a slot holds when the coroutines have the frames given: nothing, or a
\* coroutine whose next run starts on its frame.
SlotOK(c, frames) ==
    /\ c.state = "DEAD" <=> c = NoCo
    /\ c # NoCo => c.n \in 1..Len(frames)
    /\ c.state = "READY" => frames[c.n] = <<c.n, 0>>
    /\ c.state \in {"SUSPEND", "BLOCK"} => c.stack = frames[c.n]

\* A table of N slots, no coroutine in two of them, with its active list.
TableOK(N, table, active, run, frames) ==
    /\ N \in Nat /\ N > 0 /\ table \in [0..(N - 1) -> CoRecords]
    /\ frames \in Seq(Nat \X Nat)
    /\ \A i \in 0..(N - 1) : /\ SlotOK(table[i], frames)
                             /\ table[i].state = "RUNNING" <=> i = run
    /\ \A i, j \in 0..(N - 1) : table[i] # NoCo /\ table[i].n = table[j].n => i = j
    /\ active \in Seq(Nat) /\ Once(active)
    /\ Members(active) = {i \in 0..(N - 1) : table[i].state \in Waiting}
    /\ run = -1 \/ run \in 0..(N - 1)

\* Free ids are free.
FreeOK(N, table, free) ==
    /\ free \in Seq(Nat) /\ Once(free)
    /\ \A i \in Members(free) : i \in 0..(N - 1) /\ table[i] = NoCo

CoCount == Cardinality(Ids)

CoInv ==
    /\ TableOK(CoCount, cos, active_list, running, coFrames)
    /\ FreeOK(CoCount, cos, coFree)
    /\ coMade = Len(coFrames)
    /\ coBuild \in {"ucontext", "fiber"}
    /\ coBuild = "ucontext" => coFree = <<>> /\ nco = Cardinality(Used(cos))
    /\ running # -1 => coStack = coFrames[cos[running].n]

\* Taking the first one, from a queue.
LEMMA TailMembers ==
    ASSUME NEW S, NEW q \in Seq(S), Once(q), q # <<>>
    PROVE  /\ Tail(q) \in Seq(S) /\ Once(Tail(q)) /\ Head(q) \in Members(q)
           /\ Members(Tail(q)) = Members(q) \ {Head(q)}
<1>1. Tail(q) \in Seq(S) /\ IsWithout(q, Tail(q), 1) /\ Head(q) = q[1] /\ 1 \in 1..Len(q)
  BY TailWithout
<1> DEFINE r == Tail(q)
           e == q[1]
<1> HIDE DEF r
<1>2. Once(r) /\ e \in Members(q) /\ Members(r) = Members(q) \ {e}
  BY ZenonT(40), <1>1, WithoutMembers DEF r
<1> QED BY <1>1, <1>2 DEF r

\* An empty slot is a record, and dead.
LEMMA NoCoIs == NoCo \in CoRecords /\ NoCo.state = "DEAD" /\ NoCo.n = 0 /\ NoCo.state \notin Waiting
  BY DEF NoCo, CoRecords, CoStates, Waiting

\* The slots in use of a table are finitely many.
LEMMA UsedIs ==
    ASSUME NEW N \in Nat, NEW table \in [0..(N - 1) -> CoRecords]
    PROVE  /\ IsFiniteSet(Used(table)) /\ Cardinality(Used(table)) \in Nat
           /\ Used(table) = {i \in 0..(N - 1) : table[i] # NoCo}
           /\ Cardinality(Used(table)) < N => \E i \in 0..(N - 1) : table[i] = NoCo
<1>1. Used(table) = {i \in 0..(N - 1) : table[i] # NoCo}
  BY DEF Used
<1>2. IsFiniteSet(0..(N - 1)) /\ Cardinality(0..(N - 1)) = N
  <2>1. IsFiniteSet(0..(N - 1)) /\ Cardinality(0..(N - 1)) = IF 0 > N - 1 THEN 0 ELSE (N - 1) - 0 + 1
    BY FS_Interval
  <2> QED BY <2>1
<1>3. IsFiniteSet(Used(table))
  BY <1>1, <1>2, FS_Subset
<1>4. Cardinality(Used(table)) \in Nat
  BY <1>3, FS_CardinalityType
<1>5. ASSUME Cardinality(Used(table)) < N PROVE \E i \in 0..(N - 1) : table[i] = NoCo
  <2>1. Used(table) # 0..(N - 1)
    <3> SUFFICES ASSUME Used(table) = 0..(N - 1) PROVE FALSE
      OBVIOUS
    <3>1. Cardinality(Used(table)) = N
      BY <1>2
    <3> QED BY <1>5, <3>1
  <2> QED BY <1>1, <2>1
<1> QED BY <1>1, <1>3, <1>4, <1>5

\* A table that got empty slots.
LEMMA GrownKeeps ==
    ASSUME NEW N, NEW table, NEW active, NEW run, NEW frames,
           TableOK(N, table, active, run, frames), NEW M \in Nat, N <= M,
           NEW more \in [0..(M - 1) -> CoRecords],
           \A i \in 0..(N - 1) : more[i] = table[i], \A i \in N..(M - 1) : more[i] = NoCo
    PROVE  TableOK(M, more, active, run, frames) /\ Used(more) = Used(table)
<1>1. N \in Nat /\ N > 0 /\ M \in Nat /\ M > 0 /\ table \in [0..(N - 1) -> CoRecords]
  BY DEF TableOK
<1>2. /\ \A i \in 0..(M - 1) : i \in 0..(N - 1) \/ i \in N..(M - 1)
      /\ \A i \in 0..(N - 1) : i \in 0..(M - 1) /\ i \notin N..(M - 1)
      /\ \A i \in N..(M - 1) : i \in 0..(M - 1)
  BY <1>1
<1>3. /\ \A i \in 0..(N - 1) : more[i] = table[i]
      /\ \A i \in N..(M - 1) : more[i] = NoCo
      /\ DOMAIN more = 0..(M - 1)
  OBVIOUS
<1>5. Used(more) = Used(table)
  BY <1>1, <1>2, <1>3 DEF Used
<1>r. run = -1 \/ run \in 0..(N - 1)
  BY DEF TableOK
<1>6. ASSUME NEW i \in 0..(M - 1)
      PROVE  SlotOK(more[i], frames) /\ (more[i].state = "RUNNING" <=> i = run)
  <2>1. CASE i \in 0..(N - 1)
    BY <1>3, <2>1 DEF TableOK
  <2>2. CASE i \in N..(M - 1)
    <3>1. i # run
      BY <1>1, <1>2, <1>r, <2>2
    <3>2. SlotOK(NoCo, frames) /\ NoCo.state # "RUNNING"
      BY NoCoIs DEF SlotOK
    <3> QED BY <1>3, <2>2, <3>1, <3>2
  <2> QED BY <1>2, <2>1, <2>2
<1>7. ASSUME NEW i \in 0..(M - 1), NEW j \in 0..(M - 1), more[i] # NoCo, more[i].n = more[j].n
      PROVE  i = j
  <2>1. i \in 0..(N - 1) /\ more[i] = table[i]
    BY <1>2, <1>3, <1>7
  <2>2. table[i].n # 0
    <3>1. frames \in Seq(Nat \X Nat) /\ table[i].n \in 1..Len(frames)
      BY <1>7, <2>1 DEF TableOK, SlotOK
    <3> QED BY <3>1
  <2>3. j \in 0..(N - 1) /\ more[j] = table[j]
    BY <1>2, <1>3, <1>7, <2>1, <2>2, NoCoIs
  <2> QED BY <1>7, <2>1, <2>3 DEF TableOK
<1>8. {i \in 0..(M - 1) : more[i].state \in Waiting} = {i \in 0..(N - 1) : table[i].state \in Waiting}
  BY <1>2, <1>3, NoCoIs
<1>9. run = -1 \/ run \in 0..(M - 1)
  BY <1>2, <1>r
<1>10. TableOK(M, more, active, run, frames)
  BY <1>1, <1>6, <1>7, <1>8, <1>9 DEF TableOK
<1> QED BY <1>5, <1>10

\* A new coroutine in a free slot.
LEMMA MakeKeeps ==
    ASSUME NEW N, NEW table, NEW active, NEW run, NEW frames,
           TableOK(N, table, active, run, frames), NEW id \in 0..(N - 1), table[id] = NoCo
    PROVE  LET m == Len(frames) + 1
               co == [n |-> m, state |-> "READY", stack |-> <<>>]
               new == [table EXCEPT ![id] = co]
               more == Append(frames, <<m, 0>>)
           IN  /\ TableOK(N, new, Append(active, id), run, more)
               /\ Used(new) = Used(table) \cup {id} /\ id \notin Used(table)
               /\ \A i \in 0..(N - 1) : i # id => new[i] = table[i]
               /\ \A i \in 1..Len(frames) : more[i] = frames[i]
               /\ Len(more) = m
               /\ run # -1 => run # id /\ table[run].n \in 1..Len(frames)
<1> DEFINE m == Len(frames) + 1
           co == [n |-> m, state |-> "READY", stack |-> <<>>]
           new == [table EXCEPT ![id] = co]
           more == Append(frames, <<m, 0>>)
           list == Append(active, id)
<1>1. /\ N \in Nat /\ N > 0 /\ table \in [0..(N - 1) -> CoRecords] /\ frames \in Seq(Nat \X Nat)
      /\ active \in Seq(Nat) /\ Once(active) /\ Len(frames) \in Nat /\ id \in Nat
      /\ Members(active) = {i \in 0..(N - 1) : table[i].state \in Waiting}
      /\ run = -1 \/ run \in 0..(N - 1)
      /\ \A i \in 0..(N - 1) : /\ SlotOK(table[i], frames)
                               /\ table[i].state = "RUNNING" <=> i = run
  BY DEF TableOK
<1>2. m \in Nat /\ m # 0 /\ <<m, 0>> \in Nat \X Nat
  BY <1>1
<1>3. co \in CoRecords /\ co.n = m /\ co.state = "READY" /\ co # NoCo
  BY <1>2, NoCoIs DEF CoRecords, CoStates
<1>4. /\ more \in Seq(Nat \X Nat) /\ Len(more) = m /\ more[m] = <<m, 0>>
      /\ \A i \in 1..Len(frames) : more[i] = frames[i]
  <2> DEFINE P == Nat \X Nat
             f == <<m, 0>>
  <2>1. frames \in Seq(P) /\ f \in P
    BY <1>1, <1>2
  <2> HIDE DEF P, f
  <2>2. /\ Append(frames, f) \in Seq(P) /\ Len(Append(frames, f)) = m /\ Append(frames, f)[m] = f
        /\ \A i \in 1..Len(frames) : Append(frames, f)[i] = frames[i]
    BY <2>1
  <2> QED BY <2>2 DEF P, f
<1>5. (\A i \in 1..Len(frames) : i \in 1..m /\ i # m) /\ m \in 1..m
  BY <1>1
<1> HIDE DEF m, co, more
<1>6. /\ new \in [0..(N - 1) -> CoRecords] /\ new[id] = co
      /\ \A i \in 0..(N - 1) : i # id => new[i] = table[i]
  BY <1>1, <1>3
<1> HIDE DEF new
<1>7. Used(new) = Used(table) \cup {id} /\ id \notin Used(table)
  BY <1>1, <1>3, <1>6 DEF Used
<1>8. id \notin Members(active) /\ run # id
  BY <1>1, NoCoIs
<1>9. list \in Seq(Nat) /\ Once(list) /\ Members(list) = Members(active) \cup {id}
  BY ZenonT(40), <1>1, <1>8, PushMembers
<1> HIDE DEF list
<1>10. Members(list) = {i \in 0..(N - 1) : new[i].state \in Waiting}
  BY <1>1, <1>3, <1>6, <1>9 DEF Waiting
<1>11. ASSUME NEW i \in 0..(N - 1)
       PROVE  SlotOK(new[i], more) /\ (new[i].state = "RUNNING" <=> i = run)
  <2>1. CASE i = id
    <3>1. SlotOK(co, more)
      BY <1>3, <1>4, <1>5 DEF SlotOK
    <3> QED BY <1>3, <1>6, <1>8, <2>1, <3>1
  <2>2. CASE i # id
    <3>1. new[i] = table[i] /\ SlotOK(table[i], frames) /\ table[i] \in CoRecords
      BY <1>1, <1>6, <2>2
    <3>2. table[i].state # "DEAD" => table[i].n \in 1..Len(frames)
      BY <3>1 DEF SlotOK
    <3>3. SlotOK(table[i], more)
      BY <1>4, <1>5, <3>1, <3>2 DEF SlotOK
    <3> QED BY <1>1, <3>1, <3>3
  <2> QED BY <2>1, <2>2
<1>12. ASSUME NEW i \in 0..(N - 1), table[i] # NoCo PROVE table[i].n \in 1..Len(frames)
  BY <1>1, <1>12 DEF SlotOK
<1>13. \A i \in 0..(N - 1) : i # id => table[i].n # m
  <2>1. ASSUME NEW i \in 0..(N - 1) PROVE table[i].n # m
    <3>1. CASE table[i] = NoCo
      BY <1>2, <3>1, NoCoIs
    <3>2. CASE table[i] # NoCo
      BY <1>5, <1>12, <3>2
    <3> QED BY <3>1, <3>2
  <2> QED BY <2>1
<1>14. ASSUME NEW i \in 0..(N - 1), NEW j \in 0..(N - 1), new[i] # NoCo, new[i].n = new[j].n
       PROVE  i = j
  <2>1. CASE i = id \/ j = id
    BY <1>3, <1>6, <1>13, <1>14, <2>1
  <2>2. CASE i # id /\ j # id
    BY <1>6, <1>14, <2>2 DEF TableOK
  <2> QED BY <2>1, <2>2
<1>15. TableOK(N, new, list, run, more)
  BY <1>1, <1>4, <1>6, <1>9, <1>10, <1>11, <1>14 DEF TableOK
<1>16. run # -1 => table[run].n \in 1..Len(frames)
  <2> SUFFICES ASSUME run # -1 PROVE table[run].n \in 1..Len(frames)
    OBVIOUS
  <2>1. run \in 0..(N - 1) /\ table[run].state = "RUNNING"
    BY <1>1
  <2> QED BY <1>12, <2>1, NoCoIs
<1> QED BY <1>4, <1>6, <1>7, <1>8, <1>15, <1>16 DEF m, co, new, more, list

\* Counting on from b, once round a circle of n places, without a division.
LEMMA ModOnce ==
    ASSUME NEW n \in Nat, NEW a \in Nat, n > 0, a < 2 * n
    PROVE  a % n = IF a < n THEN a ELSE a - n
  OBVIOUS

\* The search of coroutine_new ends at a free slot when there is one.
LEMMA NewSlotIs ==
    ASSUME CoInv, nco \in Nat, nco < CoCount, NEW s \in 0..(CoCount - 1), cos[s] = NoCo
    PROVE  newSlot \in 0..(CoCount - 1) /\ cos[newSlot] = NoCo
<1> DEFINE cap == CoCount
           at(i) == (i + nco) % cap
           Found(k) == cos[at(k)] = NoCo /\ \A j \in 0..(k - 1) : cos[at(j)] # NoCo
           T == {k \in 0..(cap - 1) : cos[at(k)] = NoCo}
           i == CHOOSE k \in 0..(cap - 1) : Found(k)
<1>1. cap \in Nat /\ cap > 0
  BY DEF CoInv, TableOK
<1>2. newSlot = at(i)
  BY DEF newSlot, CoCount
<1> HIDE DEF cap
<1>3. ASSUME NEW k \in 0..(cap - 1)
      PROVE  at(k) = (IF k + nco < cap THEN k + nco ELSE k + nco - cap) /\ at(k) \in 0..(cap - 1)
  <2>1. k + nco \in Nat /\ k + nco < 2 * cap /\ nco < cap
    BY <1>1 DEF cap
  <2>2. at(k) = (IF k + nco < cap THEN k + nco ELSE k + nco - cap)
    BY <1>1, <2>1, ModOnce
  <2> HIDE DEF at
  <2> QED BY <1>1, <2>1, <2>2
<1> HIDE DEF at
<1>4. \E k \in 0..(cap - 1) : at(k) = s
  <2>0. s \in 0..(cap - 1) /\ nco < cap
    BY DEF cap
  <2>1. CASE s >= nco
    <3>1. s - nco \in 0..(cap - 1) /\ (s - nco) + nco = s /\ s < cap
      BY <1>1, <2>0, <2>1
    <3> QED BY <1>3, <3>1
  <2>2. CASE s < nco
    <3> DEFINE k == s + cap - nco
    <3>1. k \in 0..(cap - 1) /\ ~ (k + nco < cap) /\ k + nco - cap = s
      BY <1>1, <2>0, <2>2
    <3> HIDE DEF k
    <3> QED BY <1>3, <3>1
  <2> QED BY <1>1, <2>0, <2>1, <2>2
<1>5. T \subseteq Nat /\ T # {}
  BY <1>1, <1>4
<1>6. PICK m \in T : \A k \in T : m <= k
  BY <1>5, SmallestExists
<1>7. m \in 0..(cap - 1) /\ Found(m)
  <2>1. ASSUME NEW j \in 0..(m - 1) PROVE cos[at(j)] # NoCo
    <3>1. j \in 0..(cap - 1) /\ ~ (m <= j)
      BY <1>1
    <3> QED BY <1>6, <3>1
  <2> QED BY <2>1
<1> HIDE DEF Found, T
<1>8. i \in 0..(cap - 1) /\ Found(i)
  BY <1>7
<1> HIDE DEF i
<1> QED BY <1>2, <1>3, <1>8 DEF Found, cap

\* The table that coroutine_new makes when it needs more slots.
LEMMA GrownTable ==
    ASSUME NEW N \in Nat, N = Cardinality(Ids), cos \in [0..(N - 1) -> CoRecords], NEW M \in Nat, N <= M,
           M = IF coBuild = "fiber" THEN N + CoCap ELSE N + N
    PROVE  /\ Grown \in [0..(M - 1) -> CoRecords]
           /\ \A i \in 0..(N - 1) : Grown[i] = cos[i]
           /\ \A i \in N..(M - 1) : Grown[i] = NoCo
<1> DEFINE more == [i \in 0..(M - 1) |-> IF i < N THEN cos[i] ELSE NoCo]
           K == IF coBuild = "fiber" THEN CoCap ELSE N
<1>1. Grown = [i \in 0..(N + K - 1) |-> IF i < N THEN cos[i] ELSE NoCo]
  BY DEF Grown
<1>2. N + K - 1 = M - 1
  BY CoroutineAssumption
<1>3. Grown = more
  <2> HIDE DEF K
  <2> QED BY <1>1, <1>2, Zenon
<1>4. \A i \in 0..(M - 1) : (IF i < N THEN cos[i] ELSE NoCo) \in CoRecords
  BY NoCoIs
<1> QED BY <1>3, <1>4

\* A new coroutine, in a slot that was free or in one that was added.
LEMMA NewKeeps == ASSUME CoInv, coroutine_new PROVE CoInv'
<1> DEFINE N == CoCount
<1>0. /\ TableOK(N, cos, active_list, running, coFrames) /\ FreeOK(N, cos, coFree)
      /\ coMade = Len(coFrames) /\ N \in Nat /\ N > 0 /\ N = Cardinality(Ids)
      /\ cos \in [0..(N - 1) -> CoRecords]
      /\ coFrames \in Seq(Nat \X Nat) /\ Len(coFrames) \in Nat
      /\ running # -1 => coStack = coFrames[cos[running].n]
      /\ coBuild \in {"ucontext", "fiber"}
  BY DEF CoInv, TableOK, CoCount
<1> HIDE DEF N
\* What remains to show of a step that makes a coroutine in slot id of table.
<1>1. ASSUME NEW M \in Nat, NEW table, NEW id \in 0..(M - 1), N <= M,
             TableOK(M, table, active_list, running, coFrames), table[id] = NoCo, Make(id, table),
             UNCHANGED <<coBuild, running, coStack>>,
             \A i \in 0..(N - 1) : table[i] = cos[i],
             FreeOK(M, table, coFree'), id \notin Members(coFree'),
             coBuild = "ucontext" => /\ coFree' = <<>>
                                     /\ Cardinality(Used(table)) \in Nat /\ IsFiniteSet(Used(table))
                                     /\ nco' = Cardinality(Used(table)) + 1
      PROVE  CoInv'
  <2> DEFINE m == Len(coFrames) + 1
  <2>1. /\ coMade' = m /\ coFrames' = Append(coFrames, <<m, 0>>)
        /\ cos' = [table EXCEPT ![id] = [n |-> m, state |-> "READY", stack |-> <<>>]]
        /\ active_list' = Append(active_list, id)
    BY <1>0, <1>1 DEF Make
  <2>2. /\ TableOK(M, cos', active_list', running, coFrames')
        /\ Used(cos') = Used(table) \cup {id} /\ id \notin Used(table)
        /\ \A i \in 0..(M - 1) : i # id => cos'[i] = table[i]
        /\ \A i \in 1..Len(coFrames) : coFrames'[i] = coFrames[i]
        /\ Len(coFrames') = m
        /\ running # -1 => running # id /\ table[running].n \in 1..Len(coFrames)
    <3> DEFINE co == [n |-> m, state |-> "READY", stack |-> <<>>]
               new == [table EXCEPT ![id] = co]
               more == Append(coFrames, <<m, 0>>)
               list == Append(active_list, id)
    <3>1. /\ TableOK(M, new, list, running, more)
          /\ Used(new) = Used(table) \cup {id} /\ id \notin Used(table)
          /\ \A i \in 0..(M - 1) : i # id => new[i] = table[i]
          /\ \A i \in 1..Len(coFrames) : more[i] = coFrames[i]
          /\ Len(more) = m
          /\ running # -1 => running # id /\ table[running].n \in 1..Len(coFrames)
      BY <1>1, MakeKeeps, Zenon
    <3>2. coFrames' = more /\ cos' = new /\ active_list' = list
      BY <2>1
    <3> HIDE DEF new, more, list
    <3> QED BY <3>1, <3>2
  <2>3. CoCount' = M
    <3>1. cos' \in [0..(M - 1) -> CoRecords]
      BY <2>2 DEF TableOK
    <3> QED BY <3>1, NodeNumIs DEF CoCount, Ids
  <2>4. FreeOK(M, cos', coFree')
    BY <1>1, <2>2 DEF FreeOK
  <2>5. coBuild = "ucontext" => nco' = Cardinality(Used(cos'))
    BY ZenonT(40), <1>1, <2>2, FS_AddElement
  <2>6. running # -1 => coStack = coFrames'[cos'[running].n]
    <3> SUFFICES ASSUME running # -1 PROVE coStack = coFrames'[cos'[running].n]
      OBVIOUS
    <3>1. running \in 0..(N - 1) /\ running \in 0..(M - 1)
      BY <1>0, <1>1 DEF TableOK
    <3>2. cos'[running] = table[running] /\ table[running] = cos[running]
      BY <1>1, <2>2, <3>1
    <3> QED BY <1>0, <2>2, <3>2
  <2> QED BY <1>0, <1>1, <2>1, <2>2, <2>3, <2>4, <2>5, <2>6 DEF CoInv
<1>2. CASE coBuild = "ucontext"
  <2>1. /\ IF nco >= N THEN Make(N, Grown) ELSE Make(newSlot, cos)
        /\ nco' = nco + 1 /\ coFree' = coFree /\ UNCHANGED <<coBuild, running, coStack>>
    BY <1>0, <1>2 DEF coroutine_new
  <2>2. coFree = <<>> /\ Members(coFree) = {} /\ nco = Cardinality(Used(cos))
    BY <1>2 DEF CoInv, Members
  <2>3. IsFiniteSet(Used(cos)) /\ nco \in Nat
        /\ (nco < N => \E i \in 0..(N - 1) : cos[i] = NoCo)
    BY <1>0, <2>2, UsedIs
  <2>4. CASE nco >= N
    <3> DEFINE M == N + N
    <3>1. M \in Nat /\ N <= M /\ N \in 0..(M - 1) /\ N \in N..(M - 1)
      BY <1>0
    <3>2. /\ Grown \in [0..(M - 1) -> CoRecords] /\ \A i \in 0..(N - 1) : Grown[i] = cos[i]
          /\ \A i \in N..(M - 1) : Grown[i] = NoCo
      BY <1>0, <1>2, <3>1, GrownTable
    <3> HIDE DEF M
    <3>3. TableOK(M, Grown, active_list, running, coFrames) /\ Used(Grown) = Used(cos)
      <4> DEFINE T == Grown
      <4>1. /\ T \in [0..(M - 1) -> CoRecords] /\ \A i \in 0..(N - 1) : T[i] = cos[i]
            /\ \A i \in N..(M - 1) : T[i] = NoCo
        BY <3>2
      <4>2. TableOK(N, cos, active_list, running, coFrames) /\ M \in Nat /\ N <= M
        BY <1>0, <3>1
      <4> HIDE DEF T
      <4>3. TableOK(M, T, active_list, running, coFrames)
        BY ONLY <4>1, <4>2, GrownKeeps
      <4>4. Used(T) = Used(cos)
        BY ONLY <4>1, <4>2, GrownKeeps
      <4> QED BY <4>3, <4>4 DEF T
    <3>4. FreeOK(M, Grown, coFree')
      BY <2>1, <2>2 DEF FreeOK, Once
    <3> QED BY <1>1, <2>1, <2>2, <2>3, <2>4, <3>1, <3>2, <3>3, <3>4
  <2>5. CASE ~ (nco >= N)
    <3>1. nco < N /\ N <= N
      BY <1>0, <2>3, <2>5
    <3>2. newSlot \in 0..(N - 1) /\ cos[newSlot] = NoCo
      BY <2>3, <3>1, NewSlotIs DEF N
    <3>3. FreeOK(N, cos, coFree')
      BY <1>0, <2>1
    <3> HIDE DEF newSlot
    <3> QED BY <1>0, <1>1, <2>1, <2>2, <2>3, <2>5, <3>1, <3>2, <3>3
  <2> QED BY <2>4, <2>5
<1>3. CASE coBuild = "fiber"
  <2> DEFINE ids == IF coFree = <<>> THEN FreeIds(N, N + CoCap) ELSE coFree
             table == IF coFree = <<>> THEN Grown ELSE cos
             M == IF coFree = <<>> THEN N + CoCap ELSE N
             id == ids[Len(ids)]
             rest == SubSeq(ids, 1, Len(ids) - 1)
  <2>1. Make(id, table) /\ coFree' = rest /\ UNCHANGED <<coBuild, running, coStack>>
    BY <1>0, <1>3 DEF coroutine_new
  <2>2. /\ M \in Nat /\ N <= M /\ TableOK(M, table, active_list, running, coFrames)
        /\ \A i \in 0..(N - 1) : table[i] = cos[i]
        /\ ids \in Seq(Nat) /\ Once(ids) /\ ids # <<>>
        /\ \A i \in Members(ids) : i \in 0..(M - 1) /\ table[i] = NoCo
    <3>1. CASE coFree # <<>>
      <4>1. N <= N
        BY <1>0
      <4> QED BY <1>0, <3>1, <4>1 DEF FreeOK
    <3>2. CASE coFree = <<>>
      <4> DEFINE B == N + CoCap
                 new == FreeIds(N, B)
      <4>1. B \in Nat /\ N <= B /\ B - N # 0 /\ \A i \in N..(B - 1) : i \in 0..(B - 1)
        BY <1>0, CoroutineAssumption
      <4>2. /\ Grown \in [0..(B - 1) -> CoRecords] /\ \A i \in 0..(N - 1) : Grown[i] = cos[i]
            /\ \A i \in N..(B - 1) : Grown[i] = NoCo
        BY <1>0, <1>3, <4>1, GrownTable
      <4> HIDE DEF B
      <4>3. TableOK(B, Grown, active_list, running, coFrames)
        BY <1>0, <4>1, <4>2, GrownKeeps
      <4>4. new \in Seq(Nat) /\ Len(new) = B - N /\ Once(new) /\ Members(new) = N..(B - 1)
        BY <1>0, <4>1, CountIs DEF FreeIds
      <4> HIDE DEF new
      <4>5. new # <<>>
        BY <4>1, <4>4
      <4>6. M = B /\ table = Grown /\ ids = new
        BY <3>2 DEF B, new
      <4> QED BY <4>1, <4>2, <4>3, <4>4, <4>5, <4>6
    <3> QED BY <3>1, <3>2
  <2> HIDE DEF ids, table, M
  <2>3. rest \in Seq(Nat) /\ Once(rest) /\ id \in Members(ids) /\ Members(rest) = Members(ids) \ {id}
    BY <2>2, PopMembers
  <2> HIDE DEF rest, id
  <2>4. FreeOK(M, table, coFree') /\ id \notin Members(coFree')
    BY <2>1, <2>2, <2>3 DEF FreeOK
  <2>5. id \in 0..(M - 1) /\ table[id] = NoCo
    BY <2>2, <2>3
  <2> QED BY <1>1, <1>3, <2>1, <2>2, <2>4, <2>5
<1> QED BY <1>0, <1>2, <1>3

\* Slot id becomes co, and with it the frame of its coroutine, the active list
\* and what runs.
Writes(N, table, active, run, frames, id, co, new, list, run2, frames2) ==
    /\ TableOK(N, table, active, run, frames)
    /\ id \in 0..(N - 1) /\ table[id] # NoCo /\ co \in CoRecords
    /\ new \in [0..(N - 1) -> CoRecords] /\ new[id] = co
    /\ \A i \in 0..(N - 1) : i # id => new[i] = table[i]
    /\ frames2 \in Seq(Nat \X Nat) /\ Len(frames2) = Len(frames)
    /\ \A k \in 1..Len(frames) : k # table[id].n => frames2[k] = frames[k]
    /\ SlotOK(co, frames2) /\ (co = NoCo \/ co.n = table[id].n)
    /\ run2 = -1 \/ run2 \in 0..(N - 1)
    /\ co.state = "RUNNING" <=> id = run2
    /\ \A i \in 0..(N - 1) : i # id => (i = run <=> i = run2)
    /\ list \in Seq(Nat) /\ Once(list)
    /\ co.state \in Waiting => Members(list) = Members(active) \cup {id}
    /\ co.state \notin Waiting => Members(list) = Members(active) \ {id}

\* Such a change leaves the table sound.
LEMMA WriteKeeps ==
    ASSUME NEW N, NEW table, NEW active, NEW run, NEW frames, NEW id, NEW co, NEW new, NEW list,
           NEW run2, NEW frames2,
           Writes(N, table, active, run, frames, id, co, new, list, run2, frames2)
    PROVE  /\ TableOK(N, new, list, run2, frames2)
           /\ co = NoCo => Used(new) = Used(table) \ {id}
           /\ co # NoCo => Used(new) = Used(table)
<1> USE DEF Writes
<1>1. /\ N \in Nat /\ N > 0 /\ table \in [0..(N - 1) -> CoRecords]
      /\ Members(active) = {i \in 0..(N - 1) : table[i].state \in Waiting}
      /\ \A i \in 0..(N - 1) : /\ SlotOK(table[i], frames)
                               /\ table[i].state = "RUNNING" <=> i = run
      /\ \A i, j \in 0..(N - 1) : table[i] # NoCo /\ table[i].n = table[j].n => i = j
      /\ frames \in Seq(Nat \X Nat)
  BY DEF TableOK
<1>2. ASSUME NEW i \in 0..(N - 1) PROVE SlotOK(new[i], frames2) /\ (new[i].state = "RUNNING" <=> i = run2)
  <2>1. CASE i = id
    BY <2>1
  <2>2. CASE i # id
    <3>1. new[i] = table[i] /\ SlotOK(table[i], frames) /\ table[i] \in CoRecords
      BY <1>1, <2>2
    <3>2. table[i].state # "DEAD" => table[i].n \in 1..Len(frames) /\ table[i].n # table[id].n
      BY <1>1, <2>2, <3>1 DEF SlotOK
    <3>3. table[i].state # "DEAD" => frames2[table[i].n] = frames[table[i].n]
      BY <3>2
    <3>4. SlotOK(table[i], frames2)
      BY <3>1, <3>2, <3>3 DEF SlotOK
    <3> QED BY <1>1, <2>2, <3>1, <3>4
  <2> QED BY <2>1, <2>2
<1>3. \A i \in 0..(N - 1) : table[i] # NoCo => table[i].n # 0
  <2>1. \A i \in 0..(N - 1) : table[i] # NoCo => table[i].n \in 1..Len(frames)
    BY <1>1 DEF SlotOK
  <2>2. 0 \notin 1..Len(frames)
    OBVIOUS
  <2> QED BY <2>1, <2>2
<1>4. ASSUME NEW i \in 0..(N - 1), NEW j \in 0..(N - 1), new[i] # NoCo, new[i].n = new[j].n
      PROVE  i = j
  <2>1. CASE co = NoCo
    <3>1. i # id /\ new[i] = table[i] /\ table[i].n # 0
      BY <1>3, <1>4, <2>1
    <3>2. j # id
      BY <1>4, <2>1, <3>1, NoCoIs
    <3> QED BY <1>1, <1>4, <3>1, <3>2
  <2>2. CASE co # NoCo
    <3>1. \A k \in 0..(N - 1) : new[k].n = table[k].n
      BY <2>2
    <3>2. table[i] # NoCo
      BY <1>4
    <3> QED BY <1>1, <1>4, <3>1, <3>2
  <2> QED BY <2>1, <2>2
<1>5. Members(list) = {i \in 0..(N - 1) : new[i].state \in Waiting}
  BY <1>1
<1>6. TableOK(N, new, list, run2, frames2)
  BY <1>1, <1>2, <1>4, <1>5 DEF TableOK
<1>7. \A i : i \in Used(new) <=> i \in 0..(N - 1) /\ new[i] # NoCo
  BY DEF Used
<1>8. \A i : i \in Used(table) <=> i \in 0..(N - 1) /\ table[i] # NoCo
  BY <1>1 DEF Used
<1>9. ASSUME co = NoCo PROVE Used(new) = Used(table) \ {id}
  <2>1. \A i : i \in Used(new) <=> i \in Used(table) /\ i # id
    BY ZenonT(40), <1>7, <1>8, <1>9
  <2> QED BY <2>1
<1>10. ASSUME co # NoCo PROVE Used(new) = Used(table)
  <2>1. \A i : i \in Used(new) <=> i \in Used(table)
    BY <1>7, <1>8, <1>10
  <2> QED BY <2>1
<1> QED BY <1>6, <1>9, <1>10

\* A step that makes such a change keeps CoInv.
LEMMA StepKeeps ==
    ASSUME CoInv, NEW id, NEW co,
           Writes(CoCount, cos, active_list, running, coFrames,
                  id, co, cos', active_list', running', coFrames'),
           UNCHANGED <<coBuild, coFree, coMade>>,
           co # NoCo => nco' = nco,
           co = NoCo /\ coBuild = "ucontext" => nco' = nco - 1,
           running' # -1 => coStack' = coFrames'[cos'[running'].n]
    PROVE  CoInv'
<1> DEFINE N == CoCount
<1>1. /\ TableOK(N, cos, active_list, running, coFrames) /\ FreeOK(N, cos, coFree)
      /\ N \in Nat /\ cos \in [0..(N - 1) -> CoRecords] /\ coMade = Len(coFrames)
      /\ coBuild \in {"ucontext", "fiber"}
      /\ coBuild = "ucontext" => coFree = <<>> /\ nco = Cardinality(Used(cos))
  BY DEF CoInv, TableOK
<1>2. /\ id \in 0..(N - 1) /\ cos[id] # NoCo /\ cos' \in [0..(N - 1) -> CoRecords]
      /\ \A i \in 0..(N - 1) : i # id => cos'[i] = cos[i]
      /\ Len(coFrames') = Len(coFrames)
  BY DEF Writes
<1>3. /\ TableOK(N, cos', active_list', running', coFrames')
      /\ co = NoCo => Used(cos') = Used(cos) \ {id}
      /\ co # NoCo => Used(cos') = Used(cos)
  BY WriteKeeps
<1>4. CoCount' = N
  BY <1>1, <1>2, NodeNumIs DEF CoCount, Ids
<1> HIDE DEF N
<1>5. FreeOK(N, cos', coFree)
  <2>1. \A i \in Members(coFree) : i \in 0..(N - 1) /\ cos[i] = NoCo /\ i # id
    BY <1>1, <1>2 DEF FreeOK
  <2> QED BY <1>1, <1>2, <2>1 DEF FreeOK
<1>6. coBuild = "ucontext" => nco' = Cardinality(Used(cos'))
  <2>1. CASE co # NoCo
    BY <1>1, <1>3, <2>1
  <2>2. CASE co = NoCo
    <3>1. IsFiniteSet(Used(cos)) /\ id \in Used(cos)
      BY <1>1, <1>2, UsedIs DEF Used
    <3>2. Cardinality(Used(cos) \ {id}) = Cardinality(Used(cos)) - 1
      BY <3>1, FS_RemoveElement
    <3> QED BY <1>1, <1>3, <2>2, <3>2
  <2> QED BY <2>1, <2>2
<1> QED BY <1>1, <1>2, <1>3, <1>4, <1>5, <1>6 DEF CoInv

\* The scheduler switches to the first coroutine of the list.
LEMMA ScheduleKeeps == ASSUME CoInv, coroutine_schedule PROVE CoInv'
<1> DEFINE N == CoCount
           id == Head(active_list)
           c == cos[id]
           co == [c EXCEPT !.state = "RUNNING"]
<1>0. /\ TableOK(N, cos, active_list, running, coFrames) /\ FreeOK(N, cos, coFree)
      /\ coMade = Len(coFrames) /\ N \in Nat /\ cos \in [0..(N - 1) -> CoRecords]
      /\ coFrames \in Seq(Nat \X Nat)
      /\ Members(active_list) = {i \in 0..(N - 1) : cos[i].state \in Waiting}
      /\ active_list \in Seq(Nat) /\ Once(active_list)
      /\ \A i \in 0..(N - 1) : /\ SlotOK(cos[i], coFrames)
                               /\ cos[i].state = "RUNNING" <=> i = running
      /\ coBuild \in {"ucontext", "fiber"}
      /\ coBuild = "ucontext" => coFree = <<>> /\ nco = Cardinality(Used(cos))
  BY DEF CoInv, TableOK
<1>1. /\ running = -1 /\ active_list # <<>> /\ active_list' = Tail(active_list)
      /\ IF c = NoCo THEN UNCHANGED <<running, cos, coStack>> ELSE coroutine_goto(id)
      /\ UNCHANGED <<coBuild, nco, coFree, coMade, coFrames>>
  BY DEF coroutine_schedule
<1>2. /\ active_list' \in Seq(Nat) /\ Once(active_list') /\ id \in Members(active_list)
      /\ Members(active_list') = Members(active_list) \ {id}
  BY <1>0, <1>1, TailMembers
<1> HIDE DEF N, id
<1>3. id \in 0..(N - 1) /\ c.state \in Waiting /\ c # NoCo /\ c \in CoRecords /\ SlotOK(c, coFrames)
  BY <1>0, <1>2, NoCoIs
<1>4. /\ running' = id /\ cos' = [cos EXCEPT ![id] = co]
      /\ coStack' = IF c.state = "READY" THEN <<c.n, 0>> ELSE c.stack
  BY <1>1, <1>3 DEF coroutine_goto
<1>5. co \in CoRecords /\ co.n = c.n /\ co.state = "RUNNING"
  BY <1>3 DEF CoRecords, CoStates
<1> HIDE DEF co
<1>6. co # NoCo /\ co.state \notin Waiting /\ SlotOK(co, coFrames)
  <2>1. co # NoCo
    BY <1>5, NoCoIs
  <2> QED BY <1>3, <1>5, <2>1 DEF SlotOK, Waiting
<1>7. /\ cos' \in [0..(N - 1) -> CoRecords] /\ cos'[id] = co
      /\ \A i \in 0..(N - 1) : i # id => cos'[i] = cos[i]
  BY <1>0, <1>3, <1>4, <1>5
<1>8. \A i \in 0..(N - 1) : i # id => (i = running <=> i = id)
  BY <1>0, <1>1
<1>9. Writes(N, cos, active_list, running, coFrames, id, co, cos', active_list', running', coFrames')
  <2>1. /\ id = -1 \/ id \in 0..(N - 1)
        /\ co.state = "RUNNING" <=> id = id
        /\ \A k \in 1..Len(coFrames) : k # c.n => coFrames'[k] = coFrames[k]
        /\ coFrames' = coFrames /\ running' = id
    BY <1>1, <1>3, <1>4, <1>5
  <2> QED BY <1>0, <1>2, <1>3, <1>5, <1>6, <1>7, <1>8, <2>1 DEF Writes
<1>10. coStack' = coFrames[co.n]
  <2>1. c.state = "READY" => coFrames[c.n] = <<c.n, 0>>
    BY <1>3 DEF SlotOK
  <2>2. c.state # "READY" => c.stack = coFrames[c.n]
    BY <1>3 DEF SlotOK, Waiting
  <2> QED BY <1>4, <1>5, <2>1, <2>2
<1>11. running' # -1 => coStack' = coFrames'[cos'[running'].n]
  BY <1>1, <1>4, <1>7, <1>10
<1> QED BY <1>1, <1>6, <1>9, <1>11, StepKeeps DEF N

\* The running coroutine yields or blocks, and leaves a frame that has moved on.
LEMMA SwitchKeeps == ASSUME CoInv, switchBack PROVE CoInv'
<1> DEFINE N == CoCount
           id == running
           c == cos[id]
           n == c.n
           f == coFrames[n]
           g == [f EXCEPT ![2] = @ + 1]
<1>0. /\ TableOK(N, cos, active_list, running, coFrames)
      /\ N \in Nat /\ cos \in [0..(N - 1) -> CoRecords]
      /\ coFrames \in Seq(Nat \X Nat)
      /\ Members(active_list) = {i \in 0..(N - 1) : cos[i].state \in Waiting}
      /\ active_list \in Seq(Nat) /\ Once(active_list)
      /\ \A i \in 0..(N - 1) : /\ SlotOK(cos[i], coFrames)
                               /\ cos[i].state = "RUNNING" <=> i = running
      /\ running = -1 \/ running \in 0..(N - 1)
  BY DEF CoInv, TableOK
<1>1. /\ running # -1 /\ coFrames' = [coFrames EXCEPT ![n] = g]
      /\ running' = -1
      /\ coroutine_yield \/ coroutine_block
      /\ UNCHANGED <<coBuild, nco, coFree, coMade>>
  BY DEF switchBack
\* The stack has the frame that moved on.
<1>s. coStack' = g
  <2>1. coStack = f
    BY <1>1 DEF CoInv
  <2> QED BY <2>1 DEF switchBack
<1> HIDE DEF N
<1>2. /\ id \in 0..(N - 1) /\ id \in Nat /\ id # -1 /\ c.state = "RUNNING" /\ c # NoCo
      /\ c \in CoRecords /\ n \in 1..Len(coFrames) /\ f \in Nat \X Nat
  <2>1. id \in 0..(N - 1) /\ id # -1
    BY <1>0, <1>1
  <2>2. c.state = "RUNNING" /\ SlotOK(c, coFrames) /\ c \in CoRecords
    BY <1>0, <2>1
  <2>3. c # NoCo
    BY <2>2, NoCoIs
  <2>4. n \in 1..Len(coFrames)
    BY <2>2, <2>3 DEF SlotOK
  <2> QED BY <1>0, <2>1, <2>2, <2>3, <2>4
<1>3. g \in Nat \X Nat
  BY SMTT(60), <1>2
<1> HIDE DEF f, g
<1>4. /\ coFrames' \in Seq(Nat \X Nat) /\ Len(coFrames') = Len(coFrames)
      /\ \A k \in 1..Len(coFrames) : coFrames'[k] = IF k = n THEN g ELSE coFrames[k]
  <2> DEFINE P == Nat \X Nat
  <2>1. coFrames \in Seq(P) /\ g \in P
    BY <1>0, <1>3
  <2> HIDE DEF P
  <2>2. /\ coFrames' \in Seq(P) /\ Len(coFrames') = Len(coFrames)
        /\ \A k \in 1..Len(coFrames) : coFrames'[k] = IF k = n THEN g ELSE coFrames[k]
    <3>1. PICK m : m = n
      OBVIOUS
    <3>2. coFrames' = [coFrames EXCEPT ![m] = g]
      BY <1>1, <3>1
    <3>3. /\ [coFrames EXCEPT ![m] = g] \in Seq(P) /\ Len([coFrames EXCEPT ![m] = g]) = Len(coFrames)
          /\ \A k \in 1..Len(coFrames) : [coFrames EXCEPT ![m] = g][k] = IF k = m THEN g ELSE coFrames[k]
      BY ONLY <2>1, ExceptInSeq
    <3> QED BY ONLY Zenon, <3>1, <3>2, <3>3
  <2> QED BY <2>2 DEF P
<1>5. coFrames'[n] = g /\ \A k \in 1..Len(coFrames) : k # n => coFrames'[k] = coFrames[k]
  BY <1>2, <1>4
\* What both ways of leaving have in common.
<1>6. ASSUME NEW st \in {"SUSPEND", "BLOCK"},
             cos' = [cos EXCEPT ![running].state = st, ![running].stack = coStack'],
             active_list' \in Seq(Nat), Once(active_list'),
             st \in Waiting => Members(active_list') = Members(active_list) \cup {id},
             st \notin Waiting => Members(active_list') = Members(active_list) \ {id}
      PROVE  CoInv'
  <2> DEFINE co == [c EXCEPT !.state = st, !.stack = g]
  <2>1. co \in CoRecords /\ co.n = c.n /\ co.state = st /\ co.stack = g
    BY <1>2, <1>3 DEF CoRecords, CoStates
  <2>2. cos' = [cos EXCEPT ![id] = co]
    BY <1>s, <1>6
  <2> HIDE DEF co
  <2>3. /\ cos' \in [0..(N - 1) -> CoRecords] /\ cos'[id] = co
        /\ \A i \in 0..(N - 1) : i # id => cos'[i] = cos[i]
    BY <1>0, <1>2, <2>1, <2>2
  <2>4. co # NoCo
    BY <2>1, NoCoIs
  <2>5. SlotOK(co, coFrames')
    BY <1>2, <1>4, <1>5, <2>1, <2>4 DEF SlotOK
  <2>6. /\ co.state = "RUNNING" <=> id = running'
        /\ running' = -1 \/ running' \in 0..(N - 1)
        /\ \A i \in 0..(N - 1) : i # id => (i = running <=> i = running')
    <3>1. \A i \in 0..(N - 1) : i # -1
      BY <1>0
    <3> QED BY <1>1, <1>2, <2>1, <3>1
  <2>7. Writes(N, cos, active_list, running, coFrames, id, co, cos', active_list', running', coFrames')
    <3> DEFINE list == active_list'
               frames2 == coFrames'
               run2 == running'
               new == cos'
    <3>1. /\ list \in Seq(Nat) /\ Once(list)
          /\ co.state \in Waiting => Members(list) = Members(active_list) \cup {id}
          /\ co.state \notin Waiting => Members(list) = Members(active_list) \ {id}
      BY <1>6, <2>1
    <3>2. /\ frames2 \in Seq(Nat \X Nat) /\ Len(frames2) = Len(coFrames) /\ SlotOK(co, frames2)
          /\ \A k \in 1..Len(coFrames) : k # cos[id].n => frames2[k] = coFrames[k]
      BY <1>4, <1>5, <2>5
    <3>3. /\ run2 = -1 \/ run2 \in 0..(N - 1)
          /\ co.state = "RUNNING" <=> id = run2
          /\ \A i \in 0..(N - 1) : i # id => (i = running <=> i = run2)
      BY <2>6
    <3>4. /\ new \in [0..(N - 1) -> CoRecords] /\ new[id] = co
          /\ \A i \in 0..(N - 1) : i # id => new[i] = cos[i]
      BY <2>3
    <3>5. id \in 0..(N - 1) /\ cos[id] # NoCo /\ co \in CoRecords /\ co.n = cos[id].n
      BY <1>2, <2>1
    <3> HIDE DEF list, frames2, run2, new, id
    <3>6. Writes(N, cos, active_list, running, coFrames, id, co, new, list, run2, frames2)
      BY <1>0, <3>1, <3>2, <3>3, <3>4, <3>5 DEF Writes
    <3> QED BY <3>6 DEF list, frames2, run2, new
  <2> QED BY <1>1, <2>4, <2>7, StepKeeps DEF N
<1>7. CASE coroutine_yield
  <2>1. /\ cos' = [cos EXCEPT ![running].state = "SUSPEND", ![running].stack = coStack']
        /\ active_list' = Append(active_list, running)
    BY <1>7 DEF coroutine_yield, save_stack
  <2>2. id \notin Members(active_list)
    BY <1>0, <1>2 DEF Waiting
  <2>3. /\ active_list' \in Seq(Nat) /\ Once(active_list')
        /\ Members(active_list') = Members(active_list) \cup {id}
    <3>1. active_list \in Seq(Nat) /\ Once(active_list) /\ id \in Nat /\ active_list' = Append(active_list, id)
      BY <1>0, <1>2, <2>1
    <3> QED BY ONLY <2>2, <3>1, PushMembers
  <2> QED BY <1>6, <2>1, <2>3 DEF Waiting
<1>8. CASE coroutine_block
  <2>1. /\ cos' = [cos EXCEPT ![running].state = "BLOCK", ![running].stack = coStack']
        /\ active_list' = active_list
    BY <1>8 DEF coroutine_block, save_stack
  <2>2. id \notin Members(active_list)
    BY <1>0, <1>2 DEF Waiting
  <2>3. Members(active_list) = Members(active_list) \ {id}
    BY <2>2
  <2> QED BY <1>0, <1>6, <2>1, <2>3 DEF Waiting
<1> QED BY <1>1, <1>7, <1>8

\* The function of the running coroutine returned.
LEMMA FinishKeeps == ASSUME CoInv, finish PROVE CoInv'
<1> DEFINE N == CoCount
           id == running
           c == cos[id]
<1>0. /\ TableOK(N, cos, active_list, running, coFrames)
      /\ N \in Nat /\ cos \in [0..(N - 1) -> CoRecords]
      /\ coFrames \in Seq(Nat \X Nat)
      /\ Members(active_list) = {i \in 0..(N - 1) : cos[i].state \in Waiting}
      /\ active_list \in Seq(Nat) /\ Once(active_list)
      /\ \A i \in 0..(N - 1) : cos[i].state = "RUNNING" <=> i = running
      /\ running = -1 \/ running \in 0..(N - 1)
  BY DEF CoInv, TableOK
<1>1. /\ running # -1 /\ cos' = [cos EXCEPT ![id] = NoCo] /\ running' = -1
      /\ coBuild = "ucontext" => nco' = nco - 1
      /\ UNCHANGED <<coBuild, coFree, active_list, coStack, coMade, coFrames>>
  BY DEF finish
<1> HIDE DEF N
<1>2. id \in 0..(N - 1) /\ id # -1 /\ c.state = "RUNNING" /\ c # NoCo
  BY <1>0, <1>1, NoCoIs
<1>3. /\ cos' \in [0..(N - 1) -> CoRecords] /\ cos'[id] = NoCo
      /\ \A i \in 0..(N - 1) : i # id => cos'[i] = cos[i]
  BY <1>0, <1>1, <1>2, NoCoIs
<1>4. SlotOK(NoCo, coFrames)
  BY NoCoIs DEF SlotOK
<1>5. Members(active_list) = Members(active_list) \ {id}
  <2>1. id \notin Members(active_list)
    BY <1>0, <1>2 DEF Waiting
  <2> QED BY <2>1
<1>6. \A i \in 0..(N - 1) : i # id => (i = running <=> i = -1)
  <2>1. \A i \in 0..(N - 1) : i # -1
    BY <1>0
  <2> QED BY <2>1
<1>7. Writes(N, cos, active_list, running, coFrames, id, NoCo, cos', active_list', running', coFrames')
  <2> DEFINE new == cos'
  <2>1. /\ new \in [0..(N - 1) -> CoRecords] /\ new[id] = NoCo
        /\ \A i \in 0..(N - 1) : i # id => new[i] = cos[i]
    BY <1>3
  <2> HIDE DEF new, id
  <2>2. Writes(N, cos, active_list, running, coFrames, id, NoCo, new, active_list, -1, coFrames)
    BY <1>0, <1>2, <1>4, <1>5, <1>6, <2>1, NoCoIs DEF Writes
  <2> QED BY <1>1, <2>2 DEF new
<1> QED BY <1>1, <1>7, StepKeeps DEF N

\* A blocked coroutine is put on the list.
LEMMA ResumeKeeps == ASSUME CoInv, NEW id \in Ids, coroutine_resume(id) PROVE CoInv'
<1> DEFINE N == CoCount
           c == cos[id]
           co == [c EXCEPT !.state = "SUSPEND"]
<1>0. /\ TableOK(N, cos, active_list, running, coFrames)
      /\ N \in Nat /\ cos \in [0..(N - 1) -> CoRecords]
      /\ coFrames \in Seq(Nat \X Nat)
      /\ Members(active_list) = {i \in 0..(N - 1) : cos[i].state \in Waiting}
      /\ active_list \in Seq(Nat) /\ Once(active_list)
      /\ \A i \in 0..(N - 1) : /\ SlotOK(cos[i], coFrames)
                               /\ cos[i].state = "RUNNING" <=> i = running
      /\ running = -1 \/ running \in 0..(N - 1)
      /\ running # -1 => coStack = coFrames[cos[running].n]
  BY DEF CoInv, TableOK
<1>1. /\ c.state = "BLOCK" /\ cos' = [cos EXCEPT ![id] = co]
      /\ active_list' = Append(active_list, id)
      /\ UNCHANGED <<coBuild, nco, coFree, running, coStack, coMade, coFrames>>
  BY DEF coroutine_resume
<1> HIDE DEF N
<1>2. id \in 0..(N - 1) /\ id \in Nat /\ c \in CoRecords /\ SlotOK(c, coFrames) /\ c # NoCo
  BY <1>0, <1>1, NoCoIs DEF Ids
<1>3. co \in CoRecords /\ co.n = c.n /\ co.state = "SUSPEND" /\ co.stack = c.stack
  BY <1>2 DEF CoRecords, CoStates
<1> HIDE DEF co
<1>4. co # NoCo /\ SlotOK(co, coFrames)
  <2>1. co # NoCo
    BY <1>3, NoCoIs
  <2> QED BY <1>1, <1>2, <1>3, <2>1 DEF SlotOK
<1>5. /\ cos' \in [0..(N - 1) -> CoRecords] /\ cos'[id] = co
      /\ \A i \in 0..(N - 1) : i # id => cos'[i] = cos[i]
  BY <1>0, <1>1, <1>2, <1>3
<1>6. /\ active_list' \in Seq(Nat) /\ Once(active_list')
      /\ Members(active_list') = Members(active_list) \cup {id}
  <2>1. id \notin Members(active_list)
    BY <1>0, <1>1 DEF Waiting
  <2> DEFINE list == Append(active_list, id)
  <2>2. list \in Seq(Nat) /\ Once(list) /\ Members(list) = Members(active_list) \cup {id}
    <3>1. active_list \in Seq(Nat) /\ Once(active_list) /\ id \in Nat
      BY <1>0, <1>2
    <3> QED BY ONLY <2>1, <3>1, PushMembers
  <2> HIDE DEF list
  <2>3. active_list' = list
    BY <1>1 DEF list
  <2> QED BY <2>2, <2>3
<1>7. id # running
  BY <1>0, <1>1, <1>2
<1>8. Writes(N, cos, active_list, running, coFrames, id, co, cos', active_list', running', coFrames')
  <2> DEFINE new == cos'
             list == active_list'
  <2>1. /\ new \in [0..(N - 1) -> CoRecords] /\ new[id] = co
        /\ \A i \in 0..(N - 1) : i # id => new[i] = cos[i]
    BY <1>5
  <2>2. list \in Seq(Nat) /\ Once(list) /\ Members(list) = Members(active_list) \cup {id}
    BY <1>6
  <2>3. id \in 0..(N - 1) /\ cos[id] # NoCo /\ co \in CoRecords /\ co.n = cos[id].n
    BY <1>2, <1>3
  <2>4. co.state \in Waiting /\ co.state # "RUNNING"
    BY <1>3 DEF Waiting
  <2> HIDE DEF new, list
  <2>5. Writes(N, cos, active_list, running, coFrames, id, co, new, list, running, coFrames)
    BY <1>0, <1>4, <1>7, <2>1, <2>2, <2>3, <2>4 DEF Writes
  <2> QED BY <1>1, <2>5 DEF new, list
<1>9. running' # -1 => coStack' = coFrames'[cos'[running'].n]
  BY <1>0, <1>1, <1>5, <1>7
<1> QED BY <1>1, <1>4, <1>8, <1>9, StepKeeps DEF N

\* Each switch, and each call, keeps CoInv.
LEMMA CoStep == CoInv /\ [CoroutineNext]_coVars => CoInv'
<1> SUFFICES ASSUME CoInv, [CoroutineNext]_coVars PROVE CoInv'
  OBVIOUS
<1>1. CASE UNCHANGED coVars
  BY <1>1 DEF coVars, CoInv, CoCount, Ids
<1> QED BY <1>1, NewKeeps, ScheduleKeeps, SwitchKeeps, FinishKeeps, ResumeKeeps DEF CoroutineNext

\* At first no slot is in use, and all ids are free.
LEMMA CoStart == CoroutineInit => CoInv
<1> SUFFICES ASSUME CoroutineInit PROVE CoInv
  OBVIOUS
<1> DEFINE N == CoCap
<1>1. /\ N \in Nat /\ N > 0 /\ 0 <= N /\ N - 0 = N /\ cos = [i \in 0..(N - 1) |-> NoCo]
      /\ coBuild \in {"ucontext", "fiber"} /\ nco = 0
      /\ coFree = IF coBuild = "fiber" THEN FreeIds(0, N) ELSE <<>>
      /\ active_list = <<>> /\ running = -1 /\ coMade = 0 /\ coFrames = <<>>
  BY CoroutineAssumption DEF CoroutineInit, Slots
<1> HIDE DEF N
<1>2. cos \in [0..(N - 1) -> CoRecords] /\ \A i \in 0..(N - 1) : cos[i] = NoCo
  BY <1>1, NoCoIs
<1>3. CoCount = N
  BY <1>1, <1>2, NodeNumIs DEF CoCount, Ids
<1>4. SlotOK(NoCo, coFrames) /\ NoCo.state # "RUNNING"
  BY NoCoIs DEF SlotOK
<1>5. active_list \in Seq(Nat) /\ Once(active_list) /\ Members(active_list) = {}
  BY <1>1 DEF Once, Members
<1>6. coFrames \in Seq(Nat \X Nat) /\ coMade = Len(coFrames)
  BY <1>1
<1>7. \A i \in 0..(N - 1) : i # running
  BY <1>1
<1>8. TableOK(N, cos, active_list, running, coFrames)
  BY <1>1, <1>2, <1>4, <1>5, <1>6, <1>7, NoCoIs DEF TableOK
<1>9. FreeOK(N, cos, coFree)
  <2>1. CASE coBuild = "fiber"
    <3>1. coFree \in Seq(Nat) /\ Once(coFree) /\ Members(coFree) = 0..(N - 1)
      BY <1>1, <2>1, CountIs DEF FreeIds
    <3> QED BY <1>2, <3>1 DEF FreeOK
  <2>2. CASE coBuild # "fiber"
    BY <1>1, <1>5, <2>2 DEF FreeOK
  <2> QED BY <2>1, <2>2
<1>10. coBuild = "ucontext" => coFree = <<>> /\ nco = Cardinality(Used(cos))
  <2>1. Used(cos) = {}
    BY <1>2 DEF Used
  <2> QED BY <1>1, <2>1, FS_EmptySet
<1> QED BY <1>1, <1>3, <1>6, <1>8, <1>9, <1>10 DEF CoInv

(***************************************************************************)
(* For any first size of the table, in both builds of coroutine.c and for  *)
(* any order of making, switching, ending and resuming: the active list    *)
(* has every coroutine that may run, once, and each has a slot of its own. *)
(***************************************************************************)
THEOREM NoCoroutineForgotten == CoroutineSpec => []ActiveListSound
<1>1. ASSUME CoInv PROVE ActiveListSound
  <2> DEFINE N == CoCount
             D == 0..(N - 1)
  <2>0. /\ DOMAIN cos = D /\ Ids = D
        /\ coFrames \in Seq(Nat \X Nat)
        /\ Members(active_list) = {i \in D : cos[i].state \in Waiting}
        /\ active_list \in Seq(Nat) /\ Once(active_list)
        /\ \A i \in D : cos[i].state = "RUNNING" <=> i = running
        /\ \A i, j \in D : cos[i] # NoCo /\ cos[i].n = cos[j].n => i = j
        /\ running = -1 \/ running \in D
        /\ N \in Nat
    BY <1>1 DEF CoInv, TableOK, Ids
  <2> HIDE DEF N
  <2>1. CoWith({"READY", "SUSPEND"}) = Members(active_list)
    BY <2>0 DEF CoWith, Waiting
  <2>2. Cardinality(Members(active_list)) = Len(active_list)
    BY <2>0, MembersAre
  <2>3. CoWith({"RUNNING"}) = (IF running = -1 THEN {} ELSE {running})
    <3>1. -1 \notin D
      BY <2>0
    <3>2. CoWith({"RUNNING"}) = {i \in D : i = running}
      BY <2>0 DEF CoWith
    <3>3. CASE running = -1
      BY <3>1, <3>2, <3>3
    <3>4. CASE running # -1
      BY <2>0, <3>2, <3>4
    <3> QED BY <3>3, <3>4
  <2>4. \A i \in 1..Len(coFree) : cos[coFree[i]] = NoCo
    BY <1>1 DEF CoInv, FreeOK, Members
  <2>5. coBuild = "ucontext" => nco = Cardinality({i \in Ids : cos[i] # NoCo})
    BY <1>1 DEF CoInv, Used, Ids
  <2>6. SlotsSound
    BY <2>0, <2>4, <2>5 DEF SlotsSound
  <2> QED BY <2>1, <2>2, <2>3, <2>6 DEF ActiveListSound, Members
<1> QED BY <1>1, CoStart, CoStep, PTL DEF CoroutineSpec

(***************************************************************************)
(* In both builds a coroutine of coroutine.c finds the frame it left, also *)
(* when all of them share one stack.                                       *)
(***************************************************************************)
THEOREM FramesKept == CoroutineSpec => []RunsOnItsOwnStack
<1>1. CoInv => RunsOnItsOwnStack
  BY DEF CoInv, RunsOnItsOwnStack
<1> QED BY <1>1, CoStart, CoStep, PTL DEF CoroutineSpec
-----------------------------------------------------------------------------
(* Maps as msgpack tokens. *)

\* The tokens of one element.
Piece(m, i) == <<keysOf(m)[i]>> \o ValueWriteVec(m[keysOf(m)[i]])

\* f is a solution of the equation of the function tokens, up to n.
TokensUpTo(m, f, n) ==
    f = [i \in 0..n |-> IF i = 0 THEN <<Len(keysOf(m))>> ELSE f[i - 1] \o Piece(m, i)]

\* There is a solution.
LEMMA TokensExist ==
    ASSUME NEW m, NEW n \in Nat
    PROVE  \E f : TokensUpTo(m, f, n)
<1> DEFINE S == {i \in Nat : \E f : TokensUpTo(m, f, i)}
<1>1. 0 \in S
  <2> DEFINE f == [i \in 0..0 |-> <<Len(keysOf(m))>>]
  <2>1. f = [i \in 0..0 |-> IF i = 0 THEN <<Len(keysOf(m))>> ELSE f[i - 1] \o Piece(m, i)]
    OBVIOUS
  <2> HIDE DEF f
  <2> QED BY <2>1 DEF TokensUpTo
<1>2. ASSUME NEW k \in Nat, k \in S PROVE k + 1 \in S
  <2>1. PICK f : TokensUpTo(m, f, k)
    BY <1>2
  <2> DEFINE last == f[k] \o Piece(m, k + 1)
             g == [i \in 0..(k + 1) |-> IF i <= k THEN f[i] ELSE last]
  <2>2. ASSUME NEW i \in 0..(k + 1)
        PROVE  g[i] = IF i = 0 THEN <<Len(keysOf(m))>> ELSE g[i - 1] \o Piece(m, i)
    <3> HIDE DEF last
    <3>1. CASE i = k + 1
      BY <3>1 DEF last
    <3>2. CASE i \in 0..k
      <4>1. g[i] = f[i] /\ (i # 0 => g[i - 1] = f[i - 1])
        BY <3>2
      <4> QED BY <2>1, <3>2, <4>1 DEF TokensUpTo
    <3> QED BY <3>1, <3>2
  <2> HIDE DEF last
  <2>3. g = [i \in 0..(k + 1) |-> g[i]]
    OBVIOUS
  <2> HIDE DEF g
  <2>4. TokensUpTo(m, g, k + 1)
    BY <2>2, <2>3 DEF TokensUpTo
  <2> QED BY <2>4
<1> HIDE DEF S
<1>3. Nat \subseteq S
  BY <1>1, <1>2, NatSetInduction
<1> QED BY <1>3 DEF S

\* What is written are such tokens.
LEMMA TokensDef ==
    ASSUME NEW m, Len(keysOf(m)) \in Nat
    PROVE  \E t : TokensUpTo(m, t, Len(keysOf(m))) /\ ValueWriteMap(m) = t[Len(keysOf(m))]
<1> DEFINE h == CHOOSE f : TokensUpTo(m, f, Len(keysOf(m)))
<1>1. TokensUpTo(m, h, Len(keysOf(m)))
  BY TokensExist
<1>2. ValueWriteMap(m) = h[Len(keysOf(m))]
  BY DEF ValueWriteMap, TokensUpTo, Piece
<1> HIDE DEF h
<1> QED BY <1>1, <1>2

\* The tokens of a key and of its vector.
PieceOK(p, key, v) ==
    /\ p \in Seq(Int) /\ Len(p) = 2 + Len(v) /\ p[1] = key /\ p[2] = Len(v)
    /\ \A j \in 1..Len(v) : p[2 + j] = v[j]

\* The tokens of a key and of its vector are that.
LEMMA PieceIs ==
    ASSUME NEW key \in Int, NEW v \in Seq(Int)
    PROVE  PieceOK(<<key>> \o ValueWriteVec(v), key, v)
<1>1. PICK n \in Nat : n = Len(v)
  OBVIOUS
<1>2. PICK a, b : a = <<n>> /\ b = <<key>>
  OBVIOUS
<1>3. a \in Seq(Int) /\ Len(a) = 1 /\ a[1] = n /\ b \in Seq(Int) /\ Len(b) = 1 /\ b[1] = key
  BY <1>2
<1>4. PICK c : c = a \o v
  OBVIOUS
<1>5. /\ c \in Seq(Int) /\ Len(c) = 1 + n
      /\ \A i \in 1..(1 + n) : c[i] = IF i <= 1 THEN a[i] ELSE v[i - 1]
  BY SMTT(60), <1>1, <1>3, <1>4, ConcatProperties
<1>6. c[1] = n /\ \A j \in 1..n : c[1 + j] = v[j]
  <2>1. 1 \in 1..(1 + n) /\ 1 <= 1
    OBVIOUS
  <2>2. c[1] = n
    BY <1>3, <1>5, <2>1
  <2>3. ASSUME NEW j \in 1..n PROVE c[1 + j] = v[j]
    <3>1. PICK i : i = 1 + j
      OBVIOUS
    <3>2. i \in 1..(1 + n) /\ ~ (i <= 1) /\ i - 1 = j
      BY <3>1
    <3> HIDE <3>1
    <3>3. c[i] = v[i - 1]
      BY <1>5, <3>2
    <3> QED BY <3>1, <3>2, <3>3
  <2> QED BY <2>2, <2>3
<1>7. PICK p : p = b \o c
  OBVIOUS
<1>8. /\ p \in Seq(Int) /\ Len(p) = 1 + (1 + n)
      /\ \A i \in 1..(1 + (1 + n)) : p[i] = IF i <= 1 THEN b[i] ELSE c[i - 1]
  <2>1. /\ p \in Seq(Int) /\ Len(p) = Len(b) + Len(c)
        /\ \A i \in 1..(Len(b) + Len(c)) : p[i] = IF i <= Len(b) THEN b[i] ELSE c[i - Len(b)]
    BY <1>3, <1>5, <1>7, ConcatProperties
  <2> QED BY <1>3, <1>5, <2>1
<1>9. 1 \in 1..(1 + (1 + n)) /\ 2 \in 1..(1 + (1 + n)) /\ ~ (2 <= 1) /\ 2 - 1 = 1 /\ 1 + (1 + n) = 2 + n
  OBVIOUS
<1>10. p[1] = key /\ p[2] = n
  BY <1>3, <1>6, <1>8, <1>9
<1>11. \A j \in 1..n : p[2 + j] = v[j]
  <2>1. \A j \in 1..n : 2 + j \in 1..(1 + (1 + n)) /\ ~ (2 + j <= 1) /\ (2 + j) - 1 = 1 + j
    OBVIOUS
  <2>2. \A j \in 1..n : p[2 + j] = c[1 + j]
    BY <1>8, <2>1
  <2> QED BY <1>6, <2>2
<1>12. PieceOK(p, key, v)
  BY <1>1, <1>8, <1>9, <1>10, <1>11 DEF PieceOK
<1>13. p = <<key>> \o ValueWriteVec(v)
  BY <1>1, <1>2, <1>4, <1>7 DEF ValueWriteVec
<1> QED BY <1>12, <1>13

\* The tokens t of m, element by element.
WrittenAs(m, t, n) ==
    /\ n \in Nat /\ t[0] = <<n>>
    /\ \A i \in 1..n : t[i] = t[i - 1] \o Piece(m, i)
    /\ \A i \in 1..n : PieceOK(Piece(m, i), keysOf(m)[i], m[keysOf(m)[i]])

\* What ValueWriteMap writes is written so.
LEMMA WrittenIs ==
    ASSUME NEW m \in RpcArgs
    PROVE  \E t : WrittenAs(m, t, Len(keysOf(m))) /\ ValueWriteMap(m) = t[Len(keysOf(m))]
<1>1. PICK n : n = Len(keysOf(m))
  OBVIOUS
<1>2. n \in Nat /\ keysOf(m) \in [1..n -> DOMAIN m]
  BY <1>1, RpcKeys
<1>3. PICK t : TokensUpTo(m, t, n) /\ ValueWriteMap(m) = t[n]
  BY <1>1, <1>2, TokensDef
<1> DEFINE e(i) == IF i = 0 THEN <<n>> ELSE t[i - 1] \o Piece(m, i)
<1>4. t = [i \in 0..n |-> e(i)]
  BY <1>1, <1>3 DEF TokensUpTo
<1>5. \A i \in 0..n : t[i] = e(i)
  <2> HIDE DEF e
  <2> QED BY <1>4
<1>6. t[0] = <<n>>
  BY <1>2, <1>5
<1>7. ASSUME NEW i \in 1..n PROVE t[i] = t[i - 1] \o Piece(m, i)
  <2>1. i \in 0..n /\ i # 0
    BY <1>2
  <2> QED BY <1>5, <2>1
<1>8. ASSUME NEW i \in 1..n PROVE PieceOK(Piece(m, i), keysOf(m)[i], m[keysOf(m)[i]])
  <2>1. PICK key, v : key = keysOf(m)[i] /\ v = m[keysOf(m)[i]]
    OBVIOUS
  <2>2. key \in DOMAIN m
    BY <1>2, <2>1
  <2>3. key \in Int /\ v \in Seq(Int)
    <3>1. DOMAIN m \subseteq Ints /\ m \in [DOMAIN m -> Seq(Int)]
      BY RpcMaps
    <3>2. Ints \subseteq Int
      BY DEF Ints
    <3>3. key \in Int
      BY <2>2, <3>1, <3>2
    <3>4. v \in Seq(Int)
      BY <2>1, <2>2, <3>1
    <3> QED BY <3>3, <3>4
  <2>4. PieceOK(<<key>> \o ValueWriteVec(v), key, v)
    BY <2>3, PieceIs
  <2> QED BY <2>1, <2>4 DEF Piece
<1> HIDE DEF e
<1>9. WrittenAs(m, t, n)
  BY <1>2, <1>6, <1>7, <1>8 DEF WrittenAs
<1> QED BY <1>1, <1>3, <1>9

\* The tokens of the first elements are the first tokens.
Begins(a, b) ==
    /\ a \in Seq(Int) /\ b \in Seq(Int) /\ Len(a) <= Len(b)
    /\ \A x \in 1..Len(a) : b[x] = a[x]

\* What follows a sequence of tokens leaves them first.
LEMMA BeginsConcat ==
    ASSUME NEW a \in Seq(Int), NEW b \in Seq(Int)
    PROVE  Begins(a, a \o b)
<1>0. PICK n, k : n = Len(a) /\ k = Len(b)
  OBVIOUS
<1>1. n \in Nat /\ k \in Nat /\ n = Len(a) /\ k = Len(b)
  BY <1>0
<1>c. PICK c : c = a \o b
  OBVIOUS
<1>2. c \in Seq(Int) /\ Len(c) = n + k /\ \A i \in 1..(n + k) : c[i] = IF i <= n THEN a[i] ELSE b[i - n]
  BY <1>1, <1>c, ConcatProperties
<1>3. \A x \in 1..n : x \in 1..(n + k) /\ x <= n
  BY <1>1
<1>4. Begins(a, c)
  BY <1>1, <1>2, <1>3 DEF Begins
<1> QED BY <1>c, <1>4

\* The first tokens of the first tokens come first.
LEMMA BeginsTrans ==
    ASSUME NEW a, NEW b, NEW c, Begins(a, b), Begins(b, c)
    PROVE  Begins(a, c)
<1>1. Len(a) \in Nat /\ Len(b) \in Nat /\ Len(c) \in Nat /\ Len(a) <= Len(b) /\ Len(b) <= Len(c)
  BY DEF Begins
<1>2. \A x \in 1..Len(a) : x \in 1..Len(b)
  BY <1>1
<1>3. \A x \in 1..Len(a) : c[x] = a[x]
  BY <1>2 DEF Begins
<1>4. Len(a) <= Len(c)
  BY <1>1
<1> QED BY <1>3, <1>4 DEF Begins

\* The tokens of the first elements come first in those of the map.
LEMMA TokensBegin ==
    ASSUME NEW m, NEW t, NEW n, WrittenAs(m, t, n)
    PROVE  \A i \in 0..n : Begins(t[i], t[n]) /\ Len(t[i]) \in Nat \ {0}
<1>0. n \in Nat /\ t[0] = <<n>> /\ \A i \in 1..n : t[i] = t[i - 1] \o Piece(m, i) /\ Piece(m, i) \in Seq(Int)
  BY DEF WrittenAs, PieceOK
<1> DEFINE S == {j \in 0..n : \A i \in 0..j : Begins(t[i], t[j]) /\ Len(t[i]) \in Nat \ {0}}
<1>1. 0 \in S
  <2>1. t[0] \in Seq(Int) /\ Len(t[0]) = 1
    BY <1>0
  <2>2. Begins(t[0], t[0])
    BY <2>1 DEF Begins
  <2>3. \A i \in 0..0 : i = 0
    OBVIOUS
  <2>4. \A i \in 0..0 : Begins(t[i], t[0]) /\ Len(t[i]) \in Nat \ {0}
    BY <2>1, <2>2, <2>3
  <2>5. 0 \in 0..n
    BY <1>0
  <2> QED BY <2>4, <2>5
<1>2. ASSUME NEW j \in 0..(n - 1), j \in S PROVE j + 1 \in S
  <2>1. PICK k : k = j + 1
    OBVIOUS
  <2>2. k \in 1..n /\ k \in 0..n /\ k - 1 = j /\ j \in 0..j /\ \A i \in 0..k : i \in 0..j \/ i = k
    BY <1>0, <2>1
  <2>3. t[k] = t[j] \o Piece(m, k) /\ Piece(m, k) \in Seq(Int)
    BY <1>0, <2>2
  <2>4. \A i \in 0..j : Begins(t[i], t[j]) /\ Len(t[i]) \in Nat \ {0}
    BY <1>2
  <2>5. t[j] \in Seq(Int) /\ Len(t[j]) \in Nat \ {0}
    BY <2>2, <2>4 DEF Begins
  <2>6. Begins(t[j], t[k])
    BY <2>3, <2>5, BeginsConcat
  <2>7. Begins(t[k], t[k]) /\ Len(t[k]) \in Nat \ {0}
    <3>1. t[k] \in Seq(Int) /\ Len(t[k]) >= Len(t[j])
      BY <2>6 DEF Begins
    <3>2. Len(t[k]) \in Nat
      BY <3>1
    <3> QED BY <2>5, <3>1, <3>2 DEF Begins
  <2>8. \A i \in 0..j : Begins(t[i], t[k])
    BY <2>4, <2>6, BeginsTrans
  <2>9. k \in S
    BY <2>2, <2>4, <2>7, <2>8
  <2> QED BY <2>1, <2>9
<1> HIDE DEF S
<1>3. n \in S
  <2>1. 0..n \subseteq S
    BY <1>0, <1>1, <1>2, UpToInduction
  <2> QED BY <1>0, <2>1
<1> QED BY <1>3 DEF S
-----------------------------------------------------------------------------
(* Tokens as maps. *)

\* The states of the reader of n elements, from z.
StatesUpTo(buf, z, f, n) ==
    f = [i \in 0..n |-> IF i = 0 THEN z ELSE ReadElement(buf, f[i - 1])]

\* There are such states.
LEMMA StatesExist ==
    ASSUME NEW buf, NEW z, NEW n \in Nat
    PROVE  \E f : StatesUpTo(buf, z, f, n)
<1> DEFINE S == {i \in Nat : \E f : StatesUpTo(buf, z, f, i)}
<1>1. 0 \in S
  <2> DEFINE f == [i \in 0..0 |-> z]
  <2>1. f = [i \in 0..0 |-> IF i = 0 THEN z ELSE ReadElement(buf, f[i - 1])]
    OBVIOUS
  <2> HIDE DEF f
  <2> QED BY <2>1 DEF StatesUpTo
<1>2. ASSUME NEW k \in Nat, k \in S PROVE k + 1 \in S
  <2>1. PICK f : StatesUpTo(buf, z, f, k)
    BY <1>2
  <2> DEFINE last == ReadElement(buf, f[k])
             g == [i \in 0..(k + 1) |-> IF i <= k THEN f[i] ELSE last]
  <2>2. ASSUME NEW i \in 0..(k + 1)
        PROVE  g[i] = IF i = 0 THEN z ELSE ReadElement(buf, g[i - 1])
    <3> HIDE DEF last
    <3>1. CASE i = k + 1
      BY <3>1 DEF last
    <3>2. CASE i \in 0..k
      <4>1. g[i] = f[i] /\ (i # 0 => g[i - 1] = f[i - 1])
        BY <3>2
      <4> QED BY <2>1, <3>2, <4>1 DEF StatesUpTo
    <3> QED BY <3>1, <3>2
  <2> HIDE DEF last
  <2>3. g = [i \in 0..(k + 1) |-> g[i]]
    OBVIOUS
  <2> HIDE DEF g
  <2>4. StatesUpTo(buf, z, g, k + 1)
    BY <2>2, <2>3 DEF StatesUpTo
  <2> QED BY <2>4
<1> HIDE DEF S
<1>3. Nat \subseteq S
  BY <1>1, <1>2, NatSetInduction
<1> QED BY <1>3 DEF S

\* What is read is the last of them.
LEMMA StatesDef ==
    ASSUME NEW buf, NEW off, NEW old, NEW n \in Nat, buf[off + 1] = n
    PROVE  \E f : /\ StatesUpTo(buf, [value |-> old, off |-> off + 1], f, n)
                  /\ ValueReadMap(buf, off, old) = f[n]
<1> DEFINE z == [value |-> old, off |-> off + 1]
           h == CHOOSE f : StatesUpTo(buf, z, f, n)
<1>1. StatesUpTo(buf, z, h, n)
  BY StatesExist
<1>2. ValueReadMap(buf, off, old) = h[n]
  BY DEF ValueReadMap, StatesUpTo
<1> HIDE DEF h
<1> QED BY <1>1, <1>2

\* v is what stands in buf from off on, behind its length.
VectorAt(buf, off, v) ==
    /\ off + 1 + Len(v) <= Len(buf) /\ buf[off + 1] = Len(v)
    /\ \A j \in 1..Len(v) : buf[off + 1 + j] = v[j]

\* ValueReadVec reads it.
LEMMA ReadVecIs ==
    ASSUME NEW S, NEW buf \in Seq(S), NEW off \in Nat, NEW v \in Seq(Int), VectorAt(buf, off, v)
    PROVE  ValueReadVec(buf, off) = [value |-> v, off |-> off + 1 + Len(v)]
<1>1. PICK n : n = Len(v)
  OBVIOUS
<1>2. n \in Nat /\ n = Len(v) /\ v = [i \in 1..n |-> v[i]]
  BY <1>1
<1>3. off + 1 + n <= Len(buf) /\ buf[off + 1] = n /\ \A j \in 1..n : buf[off + 1 + j] = v[j]
  BY <1>2 DEF VectorAt
<1>4. PICK r : r = SubSeq(buf, off + 2, off + 1 + n)
  OBVIOUS
<1>5. r = [j \in 1..n |-> buf[off + 1 + j]]
  <2>1. SubSeq(buf, off + 2, off + 1 + n) = [i \in 1..((off + 1 + n) - (off + 2) + 1) |-> buf[i + (off + 2) - 1]]
    BY SMTT(60), <1>2 DEF SubSeq
  <2>2. (off + 1 + n) - (off + 2) + 1 = n /\ \A i \in 1..n : i + (off + 2) - 1 = off + 1 + i
    BY <1>2
  <2> QED BY <1>4, <2>1, <2>2
<1>6. r = v
  BY <1>2, <1>3, <1>5
<1>7. ValueReadVec(buf, off) = [value |-> r, off |-> off + 1 + n]
  BY <1>3, <1>4 DEF ValueReadVec
<1> QED BY <1>2, <1>6, <1>7

\* The tokens p stand in buf behind the first o.
StandsAt(buf, o, p) == o + Len(p) <= Len(buf) /\ \A x \in 1..Len(p) : buf[o + x] = p[x]

\* The map f with v under a new key.
With(f, key, v) == [k \in DOMAIN f \cup {key} |-> IF k \in DOMAIN f THEN f[k] ELSE v]

\* A key and its vector are read from the tokens p of an element.
LEMMA ReadElementIs ==
    ASSUME NEW S, NEW buf \in Seq(S), NEW o \in Nat, NEW f, NEW p, NEW key, NEW v \in Seq(Int),
           PieceOK(p, key, v), StandsAt(buf, o, p)
    PROVE  ReadElement(buf, [value |-> f, off |-> o]) = [value |-> With(f, key, v), off |-> o + Len(p)]
<1>0. o + Len(p) <= Len(buf) /\ \A x \in 1..Len(p) : buf[o + x] = p[x]
  BY DEF StandsAt
<1>1. PICK n : n = Len(v)
  OBVIOUS
<1>2. n \in Nat /\ n = Len(v) /\ Len(buf) \in Nat
  BY <1>1
<1>3. Len(p) = 2 + n /\ p[1] = key /\ p[2] = n /\ \A j \in 1..n : p[2 + j] = v[j]
  BY <1>2 DEF PieceOK
<1>4. 1 \in 1..Len(p) /\ 2 \in 1..Len(p) /\ \A j \in 1..n : 2 + j \in 1..Len(p)
  BY <1>2, <1>3
<1>5. buf[o + 1] = key /\ buf[o + 2] = n /\ \A j \in 1..n : buf[o + (2 + j)] = v[j]
  BY <1>0, <1>3, <1>4
<1>6. VectorAt(buf, o + 1, v)
  <2>1. o + 1 + 1 = o + 2 /\ \A j \in 1..n : o + 1 + 1 + j = o + (2 + j)
    BY <1>2
  <2>2. o + 1 + 1 + n <= Len(buf)
    BY <1>0, <1>2, <1>3
  <2> QED BY <1>2, <1>5, <2>1, <2>2 DEF VectorAt
<1>7. ValueReadVec(buf, o + 1) = [value |-> v, off |-> o + 1 + 1 + n]
  BY <1>2, <1>6, ReadVecIs
<1>8. o + 1 + 1 + n = o + Len(p) /\ o # Len(buf)
  BY <1>0, <1>2, <1>3
<1> DEFINE st == [value |-> f, off |-> o]
<1>9. st.value = f /\ st.off = o
  OBVIOUS
<1>10. PICK u : u = ValueReadVec(buf, o + 1)
  OBVIOUS
<1>11. u.value = v /\ u.off = o + Len(p)
  BY <1>7, <1>8, <1>10
<1>12. ReadElement(buf, st) = [value |-> With(f, key, u.value), off |-> u.off]
  <2> HIDE DEF st
  <2> QED BY <1>5, <1>8, <1>9, <1>10 DEF ReadElement, With
<1> QED BY <1>11, <1>12

\* What has been read of m after i elements.
Part(m, i) == [k \in {keysOf(m)[j] : j \in 1..i} |-> m[k]]

\* The message buf: two tokens and then w.
Message(buf, w) ==
    /\ w \in Seq(Int) /\ Len(buf) = 2 + Len(w)
    /\ \A x \in 1..Len(w) : buf[2 + x] = w[x]

\* Caller::call writes such a message.
LEMMA MessageIs ==
    ASSUME NEW id, NEW nm, NEW w \in Seq(Int)
    PROVE  \E S : <<id, nm>> \o w \in Seq(S) /\ Message(<<id, nm>> \o w, w)
<1> DEFINE S == {id, nm} \cup Int
<1>1. PICK h : h = <<id, nm>>
  OBVIOUS
<1>2. h \in Seq(S) /\ Len(h) = 2 /\ w \in Seq(S)
  BY <1>1
<1> HIDE DEF S
<1>3. PICK b : b = h \o w
  OBVIOUS
<1>4. PICK n : n = Len(w)
  OBVIOUS
<1>5. n \in Nat /\ n = Len(w)
  BY <1>4
<1>6. /\ b \in Seq(S) /\ Len(b) = Len(h) + Len(w)
      /\ \A i \in 1..(Len(h) + Len(w)) : b[i] = IF i <= Len(h) THEN h[i] ELSE w[i - Len(h)]
  BY <1>2, <1>3, ConcatProperties
<1>7. Len(b) = 2 + n /\ \A i \in 1..(2 + n) : b[i] = IF i <= 2 THEN h[i] ELSE w[i - 2]
  BY <1>2, <1>5, <1>6
<1>8. ASSUME NEW x \in 1..n PROVE b[2 + x] = w[x]
  <2>1. PICK i : i = 2 + x
    OBVIOUS
  <2>2. i \in 1..(2 + n) /\ ~ (i <= 2) /\ i - 2 = x
    BY <1>5, <2>1
  <2>3. b[i] = w[i - 2]
    BY <1>7, <2>2
  <2> QED BY <2>1, <2>2, <2>3
<1>9. Message(b, w)
  BY <1>5, <1>7, <1>8 DEF Message
<1> QED BY <1>1, <1>3, <1>6, <1>9

\* The tokens p of an element stand behind those of the elements before it.
ElementOK(buf, before, after, p) ==
    /\ Len(before) \in Nat /\ Len(p) \in Nat /\ Len(after) = Len(before) + Len(p)
    /\ StandsAt(buf, 2 + Len(before), p)

\* Every element has its place in the message.
LEMMA ElementAt ==
    ASSUME NEW m, NEW t, NEW n, WrittenAs(m, t, n), NEW buf, Message(buf, t[n]), NEW i \in 1..n
    PROVE  ElementOK(buf, t[i - 1], t[i], Piece(m, i))
<1>1. n \in Nat /\ t[i] = t[i - 1] \o Piece(m, i) /\ Piece(m, i) \in Seq(Int)
  BY DEF WrittenAs, PieceOK
<1>2. i \in 0..n /\ i - 1 \in 0..n
  BY <1>1
<1>3. Begins(t[i - 1], t[n]) /\ Begins(t[i], t[n])
  BY <1>2, TokensBegin
<1>4. PICK a, b, p, w : a = t[i - 1] /\ b = t[i] /\ p = Piece(m, i) /\ w = t[n]
  OBVIOUS
<1>5. a \in Seq(Int) /\ b \in Seq(Int) /\ w \in Seq(Int) /\ p \in Seq(Int) /\ b = a \o p
  BY <1>1, <1>3, <1>4 DEF Begins
<1>6. Len(b) <= Len(w) /\ \A x \in 1..Len(b) : w[x] = b[x]
  BY <1>3, <1>4 DEF Begins
<1>7. Len(buf) = 2 + Len(w) /\ \A x \in 1..Len(w) : buf[2 + x] = w[x]
  BY <1>4 DEF Message
<1>8. PICK j, k, l : j = Len(a) /\ k = Len(p) /\ l = Len(w)
  OBVIOUS
<1>9. j \in Nat /\ k \in Nat /\ l \in Nat
  BY <1>5, <1>8
<1>10. /\ Len(b) = Len(a) + Len(p)
       /\ \A x \in 1..(Len(a) + Len(p)) : b[x] = IF x <= Len(a) THEN a[x] ELSE p[x - Len(a)]
  BY <1>5, ConcatProperties
<1>11. Len(b) = j + k /\ \A x \in 1..(j + k) : b[x] = IF x <= j THEN a[x] ELSE p[x - j]
  BY <1>8, <1>10
<1>12. j + k <= l /\ 2 + j + k <= Len(buf)
  BY <1>6, <1>7, <1>8, <1>9, <1>11
<1>13. ASSUME NEW x \in 1..k PROVE buf[2 + j + x] = p[x]
  <2>1. PICK y : y = j + x
    OBVIOUS
  <2>2. y \in 1..(j + k) /\ ~ (y <= j) /\ y - j = x /\ y \in 1..l /\ 2 + y = 2 + j + x
    BY <1>9, <1>12, <2>1
  <2>3. b[y] = p[x]
    <3>1. b[y] = p[y - j]
      BY <1>11, <2>2
    <3> QED BY <2>2, <3>1
  <2>4. w[y] = b[y]
    BY <1>6, <1>11, <2>2
  <2>5. buf[2 + y] = w[y]
    BY <1>7, <1>8, <2>2
  <2> QED BY <2>2, <2>3, <2>4, <2>5
<1>14. StandsAt(buf, 2 + Len(a), p)
  BY <1>8, <1>12, <1>13 DEF StandsAt
<1>15. ElementOK(buf, a, b, p)
  BY <1>8, <1>9, <1>10, <1>14 DEF ElementOK
<1> QED BY <1>4, <1>15

\* One more element of m.
LEMMA PartGrows ==
    ASSUME NEW m \in RpcArgs, NEW i \in 1..Len(keysOf(m)), NEW f, f = Part(m, i - 1),
           NEW key, key = keysOf(m)[i]
    PROVE  With(f, key, m[key]) = Part(m, i)
<1>1. PICK n, keys : n = Len(keysOf(m)) /\ keys = keysOf(m)
  OBVIOUS
<1>2. n \in Nat /\ i \in 1..n
  BY <1>1, RpcKeys
<1> DEFINE D(y) == {keys[j] : j \in 1..y}
<1>3. DOMAIN f = D(i - 1) /\ \A k \in D(i - 1) : f[k] = m[k]
  BY <1>1 DEF Part
<1>4. D(i - 1) \cup {key} = D(i)
  <2>1. \A j \in 1..i : j \in 1..(i - 1) \/ j = i
    BY <1>2
  <2>2. i \in 1..i /\ \A j \in 1..(i - 1) : j \in 1..i
    BY <1>2
  <2> QED BY <1>1, <2>1, <2>2
<1>5. Part(m, i) = [k \in D(i) |-> m[k]]
  BY <1>1 DEF Part
<1> HIDE DEF D
<1>6. \A k \in D(i) : k \notin D(i - 1) => k = key
  BY <1>4
<1>7. With(f, key, m[key]) = [k \in D(i) |-> m[k]]
  BY <1>3, <1>4, <1>6 DEF With
<1> QED BY <1>5, <1>7

\* Before the first element, and after the last.
LEMMA PartEnds ==
    ASSUME NEW m \in RpcArgs
    PROVE  Part(m, 0) = EmptyMap /\ Part(m, Len(keysOf(m))) = m
<1>1. PICK n, keys : n = Len(keysOf(m)) /\ keys = keysOf(m)
  OBVIOUS
<1>2. n \in Nat /\ keys \in [1..n -> DOMAIN m] /\ \A k \in DOMAIN m : \E i \in 1..n : keys[i] = k
  BY <1>1, RpcKeys
<1>3. {keys[j] : j \in 1..0} = {}
  OBVIOUS
<1>4. {keys[j] : j \in 1..n} = DOMAIN m
  BY <1>2
<1>5. m = [k \in DOMAIN m |-> m[k]]
  <2>1. m \in [DOMAIN m -> Seq(Int)]
    BY RpcMaps
  <2> QED BY <2>1
<1>6. Part(m, 0) = EmptyMap
  <2>1. Part(m, 0) = [k \in {} |-> m[k]]
    BY <1>1, <1>3 DEF Part
  <2> QED BY <2>1 DEF EmptyMap
<1>7. Part(m, n) = [k \in DOMAIN m |-> m[k]]
  BY <1>1, <1>4 DEF Part
<1> QED BY <1>1, <1>5, <1>6, <1>7

\* The reader after i elements.
LEMMA ReaderAt ==
    ASSUME NEW m \in RpcArgs, NEW t, NEW n, n = Len(keysOf(m)), WrittenAs(m, t, n),
           NEW S, NEW buf \in Seq(S), Message(buf, t[n]),
           NEW f, StatesUpTo(buf, [value |-> EmptyMap, off |-> 3], f, n)
    PROVE  f[n] = [value |-> m, off |-> 2 + Len(t[n])]
<1> DEFINE At(i) == [value |-> Part(m, i), off |-> 2 + Len(t[i])]
           T == {i \in 0..n : f[i] = At(i)}
<1>0. n \in Nat /\ t[0] = <<n>>
  BY DEF WrittenAs
<1>z. PICK z : z = [value |-> EmptyMap, off |-> 3]
  OBVIOUS
<1>s. \A i \in 0..n : f[i] = IF i = 0 THEN z ELSE ReadElement(buf, f[i - 1])
  <2> DEFINE e(i) == IF i = 0 THEN z ELSE ReadElement(buf, f[i - 1])
  <2>1. f = [i \in 0..n |-> e(i)]
    BY <1>z DEF StatesUpTo
  <2> HIDE DEF e
  <2>2. \A i \in 0..n : f[i] = e(i)
    BY <2>1
  <2> QED BY <2>2 DEF e
<1>1. 0 \in T
  <2>1. Len(t[0]) = 1
    BY <1>0
  <2>2. 0 \in 0..n
    BY <1>0
  <2>3. f[0] = z
    BY <1>s, <2>2
  <2>4. 2 + Len(t[0]) = 3
    BY <2>1
  <2>5. At(0) = z
    BY <1>z, <2>4, PartEnds
  <2> QED BY <2>2, <2>3, <2>5
<1>2. ASSUME NEW j \in 0..(n - 1), j \in T PROVE j + 1 \in T
  <2>1. PICK i : i = j + 1
    OBVIOUS
  <2>2. i \in 1..n /\ i \in 0..n /\ i # 0 /\ i - 1 = j
    BY <1>0, <2>1
  <2>3. f[i] = ReadElement(buf, f[j]) /\ f[j] = At(j)
    BY <1>2, <1>s, <2>2
  <2>4. PICK key, v, p, o : key = keysOf(m)[i] /\ v = m[key] /\ p = Piece(m, i) /\ o = 2 + Len(t[j])
    OBVIOUS
  <2>5. ElementOK(buf, t[j], t[i], p)
    <3>1. ElementOK(buf, t[i - 1], t[i], Piece(m, i))
      BY <2>2, ElementAt
    <3> QED BY <2>2, <2>4, <3>1
  <2>6. PieceOK(p, key, v)
    BY <2>2, <2>4 DEF WrittenAs
  <2>7. o \in Nat /\ o + Len(p) = 2 + Len(t[i]) /\ StandsAt(buf, o, p)
    BY <2>4, <2>5 DEF ElementOK
  <2>10. v \in Seq(Int)
    <3>1. m \in [DOMAIN m -> Seq(Int)] /\ keysOf(m) \in [1..n -> DOMAIN m]
      BY RpcMaps, RpcKeys
    <3>2. key \in DOMAIN m
      BY <2>2, <2>4, <3>1
    <3> QED BY <2>4, <3>1, <3>2
  <2>11. PICK g : g = Part(m, j)
    OBVIOUS
  <2>12. With(g, key, v) = Part(m, i)
    <3>1. i \in 1..Len(keysOf(m)) /\ g = Part(m, i - 1)
      BY <2>2, <2>11
    <3>2. With(g, key, m[key]) = Part(m, i)
      BY <2>4, <3>1, PartGrows
    <3> QED BY <2>4, <3>2
  <2>13. ReadElement(buf, [value |-> g, off |-> o]) = [value |-> With(g, key, v), off |-> o + Len(p)]
    BY <2>6, <2>7, <2>10, ReadElementIs
  <2>14. f[j] = [value |-> g, off |-> o]
    BY <2>3, <2>4, <2>11
  <2>15. f[i] = At(i)
    BY <2>3, <2>7, <2>12, <2>13, <2>14
  <2> HIDE DEF At
  <2> QED BY <2>1, <2>2, <2>15
<1> HIDE DEF T, At
<1>3. n \in T
  <2>1. 0..n \subseteq T
    BY <1>0, <1>1, <1>2, UpToInduction
  <2> QED BY <1>0, <2>1
<1> QED BY <1>3, PartEnds DEF T, At

\* What ValueReadMap reads from a message is the map that ValueWriteMap wrote.
LEMMA ReadsWritten ==
    ASSUME NEW m \in RpcArgs
    PROVE  /\ ValueWriteMap(m) \in Seq(Int)
           /\ \A id, nm : ValueReadMap(<<id, nm>> \o ValueWriteMap(m), 2, EmptyMap).value = m
<1>1. PICK n : n = Len(keysOf(m))
  OBVIOUS
<1>2. PICK t : WrittenAs(m, t, n) /\ ValueWriteMap(m) = t[n]
  BY <1>1, WrittenIs
<1>3. n \in Nat /\ t[0] = <<n>>
  BY <1>2 DEF WrittenAs
<1>4. n \in 0..n /\ 0 \in 0..n
  BY <1>3
<1>5. Begins(t[0], t[n])
  BY <1>2, <1>4, TokensBegin
<1>6. t[n] \in Seq(Int) /\ Len(t[n]) >= 1 /\ t[n][1] = n
  <2>1. Len(t[0]) = 1 /\ t[0][1] = n /\ 1 \in 1..1
    BY <1>3
  <2> QED BY <1>5, <2>1 DEF Begins
<1>7. ASSUME NEW id, NEW nm PROVE ValueReadMap(<<id, nm>> \o t[n], 2, EmptyMap).value = m
  <2>1. PICK buf : buf = <<id, nm>> \o t[n]
    OBVIOUS
  <2>2. PICK S : buf \in Seq(S) /\ Message(buf, t[n])
    BY <1>6, <2>1, MessageIs
  <2>3. buf[2 + 1] = n
    <3>1. 1 \in 1..Len(t[n])
      BY <1>6
    <3>2. buf[2 + 1] = t[n][1]
      BY <2>2, <3>1 DEF Message
    <3> QED BY <1>6, <3>2
  <2>4. PICK f : /\ StatesUpTo(buf, [value |-> EmptyMap, off |-> 2 + 1], f, n)
                 /\ ValueReadMap(buf, 2, EmptyMap) = f[n]
    BY <1>3, <2>3, StatesDef
  <2>5. 2 + 1 = 3
    OBVIOUS
  <2>6. f[n] = [value |-> m, off |-> 2 + Len(t[n])]
    BY SMTT(60), <1>1, <1>2, <2>2, <2>4, <2>5, ReaderAt
  <2> QED BY <2>1, <2>4, <2>6
<1> QED BY <1>2, <1>6, <1>7
-----------------------------------------------------------------------------
(* Calls and answers between two services. *)

\* What the receiver reads from a message: a call of the function nm with the
\* id, and an answer to the request id.
IsRequest(p, msg, id, nm) ==
    IF p = "json" THEN msg.req_id = id /\ msg.name = nm ELSE msg[1] = id /\ msg[2] = nm

IsAnswer(p, msg, id, inner) ==
    IF p = "json" THEN msg.name = "rpc_reply" /\ msg.parm["0"] = id /\ msg.parm["1"] = inner
    ELSE msg[2] = "rpc_reply" /\ msg[3] = id /\ msg[4] = inner

\* The messages that Caller::call writes are read as what they are.
LEMMA CallMapIs ==
    ASSUME NEW id, NEW nm, NEW m \in RpcArgs
    PROVE  IsRequest(protocol, callMap(id, nm, m), id, nm)
<1>1. CASE protocol = "json"
  BY <1>1 DEF IsRequest, callMap
<1>2. CASE protocol # "json"
  <2> DEFINE w == ValueWriteMap(m)
             h == <<id, nm>>
  <2>1. w \in Seq(Int)
    BY ReadsWritten
  <2> HIDE DEF w
  <2> DEFINE S == {id, nm} \cup Int
  <2>2. h \in Seq(S) /\ w \in Seq(S) /\ Len(h) = 2 /\ h[1] = id /\ h[2] = nm
    BY <2>1
  <2> HIDE DEF S, h
  <2>3. (h \o w)[1] = h[1] /\ (h \o w)[2] = h[2]
    <3>1. Len(w) \in Nat /\ 1 \in 1..(Len(h) + Len(w)) /\ 2 \in 1..(Len(h) + Len(w))
      BY <2>2
    <3> QED BY <2>2, <3>1, ConcatProperties
  <2> QED BY <1>2, <2>2, <2>3 DEF IsRequest, callMap, w, h
<1> QED BY <1>1, <1>2

\* The same for a call of rpc_reply.
LEMMA CallReplyIs ==
    ASSUME NEW id, NEW msg
    PROVE  IsAnswer(protocol, callReply(id, msg), id, msg)
<1>1. CASE protocol = "json"
  <2> DEFINE f == [n \in {"0", "1"} |-> IF n = "0" THEN id ELSE msg]
  <2>1. f["0"] = id /\ f["1"] = msg
    OBVIOUS
  <2> HIDE DEF f
  <2>2. callReply(id, msg) = [name |-> "rpc_reply", req_id |-> -1, parm |-> f]
    BY <1>1 DEF callReply, f
  <2> QED BY <1>1, <2>1, <2>2 DEF IsAnswer
<1>2. CASE protocol # "json"
  BY <1>2 DEF IsAnswer, callReply
<1> QED BY <1>1, <1>2

-----------------------------------------------------------------------------
\* A sequence of anything.
IsSeq(q) == Len(q) \in Nat /\ q = [i \in 1..Len(q) |-> q[i]]

\* An element behind a sequence.
LEMMA PushIs ==
    ASSUME NEW q, IsSeq(q), NEW e
    PROVE  /\ IsSeq(Append(q, e)) /\ Len(Append(q, e)) = Len(q) + 1
           /\ \A i \in 1..Len(q) : Append(q, e)[i] = q[i]
           /\ Append(q, e)[Len(q) + 1] = e
<1> DEFINE S == {q[i] : i \in 1..Len(q)} \cup {e}
           r == Append(q, e)
<1>1. q \in Seq(S) /\ e \in S /\ Len(q) \in Nat
  <2>1. q \in [1..Len(q) -> S] /\ Len(q) \in Nat
    BY DEF IsSeq
  <2> HIDE DEF S
  <2>2. q \in Seq(S)
    BY <2>1
  <2> QED BY <2>1, <2>2 DEF S
<1> HIDE DEF S
<1>2. r \in Seq(S) /\ Len(r) = Len(q) + 1 /\ (\A i \in 1..Len(q) : r[i] = q[i]) /\ r[Len(q) + 1] = e
  BY <1>1, AppendProperties
<1> HIDE DEF r
<1>3. IsSeq(r)
  BY <1>1, <1>2 DEF IsSeq
<1> QED BY <1>2, <1>3 DEF r

\* A sequence without its first element.
LEMMA PopIs ==
    ASSUME NEW q, IsSeq(q), q # <<>>
    PROVE  /\ Len(q) \in Nat \ {0} /\ Head(q) = q[1]
           /\ IsSeq(Tail(q)) /\ Len(Tail(q)) = Len(q) - 1
           /\ \A i \in 1..(Len(q) - 1) : Tail(q)[i] = q[i + 1]
<1> DEFINE S == {q[i] : i \in 1..Len(q)}
           r == Tail(q)
<1>1. q \in Seq(S) /\ Len(q) \in Nat
  <2>1. q \in [1..Len(q) -> S] /\ Len(q) \in Nat
    BY DEF IsSeq
  <2> HIDE DEF S
  <2> QED BY <2>1
<1> HIDE DEF S
<1>2. Len(q) # 0 /\ Head(q) = q[1]
  BY <1>1
<1>3. r \in Seq(S) /\ Len(r) = Len(q) - 1 /\ \A i \in 1..Len(r) : r[i] = q[i + 1]
  BY <1>1, HeadTailProperties
<1> HIDE DEF r
<1>4. IsSeq(r)
  BY <1>1, <1>3 DEF IsSeq
<1> QED BY <1>1, <1>2, <1>3, <1>4 DEF r

-----------------------------------------------------------------------------
CallOK(r) ==
    /\ r = [by |-> r.by, arg |-> r.arg, callback |-> r.callback,
            answers |-> r.answers, got |-> r.got, ran |-> r.ran]
    /\ r.by \in Sides /\ r.arg \in RpcArgs /\ r.callback \in BOOLEAN /\ r.answers \in Nat

Calls == 1..Len(rpcCalls)

\* An answer answers an earlier call, and no other one answers the same.  A
\* callback ran for no answer yet or for that one.
CallsInv ==
    /\ IsSeq(rpcCalls) /\ Len(rpcCalls) <= MaxCalls
    /\ \A c \in Calls : CallOK(rpcCalls[c]) /\ rpcCalls[c].answers < c
    /\ \A c, d \in Calls : rpcCalls[c].answers = rpcCalls[d].answers /\ rpcCalls[c].answers # 0 => c = d
    /\ \A c \in Calls : \/ rpcCalls[c].ran = <<>>
                        \/ \E d \in Calls : rpcCalls[c].ran = <<d>> /\ rpcCalls[d].answers = c

\* ids[c] is the id of call c: no two calls of a side that wait for an answer have the same.
IdsInv(ids) ==
    /\ mNextID \in [Sides -> Nat]
    /\ \A s \in Sides : mNextID[s] <= Len(rpcCalls)
    /\ \A c \in Calls : IF rpcCalls[c].callback THEN ids[c] \in 1..mNextID[rpcCalls[c].by] ELSE ids[c] = -1
    /\ \A c, d \in Calls :
         rpcCalls[c].callback /\ rpcCalls[d].callback /\ rpcCalls[c].by = rpcCalls[d].by /\ ids[c] = ids[d]
           => c = d

\* The calls of s whose callback waits.
Open(s) == {c \in Calls : rpcCalls[c].by = s /\ rpcCalls[c].callback /\ rpcCalls[c].ran = <<>>}

\* Exactly they are in the table, under their id.
TableInv(ids) ==
    /\ mResponseCallbacks = [s \in Sides |-> mResponseCallbacks[s]]
    /\ \A s \in Sides :
         /\ \A k : k \in DOMAIN mResponseCallbacks[s] <=> \E c \in Open(s) : k = ToString(ids[c])
         /\ \A c \in Open(s) : mResponseCallbacks[s][ToString(ids[c])] = c

\* A message on the way to s, of call c: a call of f, or the answer to an open call of s.
MessageOK(ids, s, c, msg) ==
    \/ rpcCalls[c].answers = 0 /\ IsRequest(protocol, msg, ids[c], "f")
    \/ \E d \in Open(s) : \E inner :
         /\ rpcCalls[c].answers = d /\ IsAnswer(protocol, msg, ids[d], inner)
         /\ IsRequest(protocol, inner, ids[c], ToString(ids[d]))

Unanswered(c) == \A d \in Calls : rpcCalls[d].answers # c

\* The element in of the wire to s: a call on the way has no answer yet.
TravelsOK(ids, s, in) ==
    /\ in.call \in Calls /\ rpcCalls[in.call].by = Other(s) /\ rpcCalls[in.call].ran = <<>>
    /\ Unanswered(in.call) /\ MessageOK(ids, s, in.call, in.msg)

\* Messages are in the order of the calls.
WireInv(ids) ==
    /\ rpcWire = [s \in Sides |-> rpcWire[s]]
    /\ \A s \in Sides :
         /\ IsSeq(rpcWire[s])
         /\ \A i \in 1..Len(rpcWire[s]) : TravelsOK(ids, s, rpcWire[s][i])
         /\ \A i, j \in 1..Len(rpcWire[s]) : i < j => rpcWire[s][i].call < rpcWire[s][j].call

\* A request a handler holds: its call arrived, waits and has no answer yet.
HeldInv(ids) ==
    \A r \in requests :
        /\ r.side \in Sides /\ r.call \in Open(Other(r.side))
        /\ r = [side |-> r.side, id |-> ids[r.call], call |-> r.call]
        /\ Unanswered(r.call)
        /\ \A i \in 1..Len(rpcWire[r.side]) : rpcWire[r.side][i].call # r.call

RpcInvFor(ids) ==
    /\ protocol \in {"json", "msgpack"} /\ rpcBroken = FALSE
    /\ CallsInv /\ IdsInv(ids) /\ TableInv(ids) /\ WireInv(ids) /\ HeldInv(ids)

RpcInv == \E ids : RpcInvFor(ids)

\* The invariant says what the property does.
LEMMA RpcImplies == RpcInv => AnswersFindTheirCall
<1> SUFFICES ASSUME NEW ids, RpcInvFor(ids) PROVE AnswersFindTheirCall
  BY DEF RpcInv
<1>0. DOMAIN rpcCalls = Calls
  BY DEF RpcInvFor, CallsInv, IsSeq, Calls
<1> SUFFICES ASSUME NEW c \in Calls
    PROVE  /\ Len(rpcCalls[c].ran) <= 1
           /\ \A i \in DOMAIN rpcCalls[c].ran : rpcCalls[rpcCalls[c].ran[i]].answers = c
           /\ rpcCalls[c].callback /\ rpcCalls[c].ran = <<>>
              <=> c \in {mResponseCallbacks[rpcCalls[c].by][k] :
                           k \in DOMAIN mResponseCallbacks[rpcCalls[c].by]}
  BY <1>0 DEF AnswersFindTheirCall, RpcInvFor
<1>1. Len(rpcCalls[c].ran) <= 1 /\ \A i \in DOMAIN rpcCalls[c].ran : rpcCalls[rpcCalls[c].ran[i]].answers = c
  <2>1. CASE rpcCalls[c].ran = <<>>
    BY <2>1
  <2>2. CASE \E d \in Calls : rpcCalls[c].ran = <<d>> /\ rpcCalls[d].answers = c
    BY <2>2
  <2> QED BY <2>1, <2>2 DEF RpcInvFor, CallsInv
<1> DEFINE s == rpcCalls[c].by
           T == mResponseCallbacks[s]
<1>2. s \in Sides
  BY DEF RpcInvFor, CallsInv, CallOK
<1>3. /\ \A k : k \in DOMAIN T <=> \E d \in Open(s) : k = ToString(ids[d])
      /\ \A d \in Open(s) : T[ToString(ids[d])] = d
  BY <1>2 DEF RpcInvFor, TableInv
<1>4. rpcCalls[c].callback /\ rpcCalls[c].ran = <<>> <=> c \in Open(s)
  BY DEF Open
<1> HIDE DEF s, T
<1>5. c \in Open(s) <=> c \in {T[k] : k \in DOMAIN T}
  BY <1>3
<1> QED BY <1>1, <1>4, <1>5 DEF s, T

\* Nothing has been called.
LEMMA RpcStart == RpcInit => RpcInv
<1> SUFFICES ASSUME RpcInit PROVE RpcInvFor(<<>>)
  BY DEF RpcInv
<1>1. Len(rpcCalls) = 0 /\ Calls = {} /\ \A s \in Sides : Open(s) = {}
  BY DEF RpcInit, Calls, Open
<1>2. CallsInv
  BY <1>1, RpcAssumption DEF CallsInv, RpcInit, IsSeq
<1>3. IdsInv(<<>>)
  BY <1>1 DEF IdsInv, RpcInit
<1>4. TableInv(<<>>)
  BY <1>1 DEF TableInv, RpcInit
<1>5. WireInv(<<>>)
  BY <1>1 DEF WireInv, RpcInit, IsSeq
<1> QED BY <1>2, <1>3, <1>4, <1>5 DEF RpcInvFor, RpcInit, HeldInv

\* What call and reply do, in the terms of the invariant.
Making(s, m, cb, a, msg) ==
    /\ Len(rpcCalls) < MaxCalls /\ Sent(s, m, cb, a, msg) /\ insertFunction(s, cb)
    /\ protocol' = protocol /\ rpcBroken' = rpcBroken
    /\ \/ a = 0 /\ IsRequest(protocol, msg, makeNextID(s, cb), "f") /\ requests' = requests
       \/ \E r \in requests : \E inner :
            /\ r.side = s /\ r.call = a /\ requests' = requests \ {r}
            /\ IsAnswer(protocol, msg, r.id, inner)
            /\ IsRequest(protocol, inner, makeNextID(s, cb), ToString(r.id))

\* The ids of the calls, with that of the new one.
WithId(ids2, ids, id) == (\A c \in Calls : ids2[c] = ids[c]) /\ ids2[Len(rpcCalls) + 1] = id

\* A call or an answer is made.
LEMMA SentKeeps ==
    ASSUME NEW ids, RpcInvFor(ids), NEW s \in Sides, NEW m \in RpcArgs, NEW cb \in BOOLEAN,
           NEW a, NEW msg, Making(s, m, cb, a, msg), NEW ids2, WithId(ids2, ids, makeNextID(s, cb))
    PROVE  RpcInvFor(ids2)'
<1>i. PICK id : id = makeNextID(s, cb)
  OBVIOUS
<1>m. /\ Len(rpcCalls) < MaxCalls /\ Sent(s, m, cb, a, msg) /\ insertFunction(s, cb)
      /\ protocol' = protocol /\ rpcBroken' = rpcBroken
      /\ (\A c \in Calls : ids2[c] = ids[c]) /\ ids2[Len(rpcCalls) + 1] = id
      /\ \/ a = 0 /\ IsRequest(protocol, msg, id, "f") /\ requests' = requests
         \/ \E r \in requests : \E inner :
              /\ r.side = s /\ r.call = a /\ requests' = requests \ {r}
              /\ IsAnswer(protocol, msg, r.id, inner) /\ IsRequest(protocol, inner, id, ToString(r.id))
  BY <1>i DEF Making, WithId
<1> USE <1>i, <1>m
<1> DEFINE n == Len(rpcCalls)
           rec == [by |-> s, arg |-> m, callback |-> cb, answers |-> a, got |-> <<>>, ran |-> <<>>]
           k0 == ToString(id)
<1>0. /\ CallsInv /\ IdsInv(ids) /\ TableInv(ids) /\ WireInv(ids) /\ HeldInv(ids)
      /\ protocol \in {"json", "msgpack"} /\ rpcBroken = FALSE
  BY DEF RpcInvFor
<1>1. /\ IsSeq(rpcCalls') /\ Len(rpcCalls') = n + 1 /\ n \in Nat
      /\ (\A c \in Calls : rpcCalls'[c] = rpcCalls[c]) /\ rpcCalls'[n + 1] = rec
  BY <1>0, PushIs DEF Sent, CallsInv, Calls, IsSeq
<1>2. Calls = 1..n /\ Calls' = 1..(n + 1) /\ n + 1 \notin Calls
  BY <1>1 DEF Calls
<1>N. PICK N : N = n + 1
  OBVIOUS
<1>3. Calls' = Calls \cup {N} /\ N \notin Calls /\ N \in Nat \ {0} /\ \A c \in Calls : c \in Nat /\ c < N
  BY <1>1, <1>2, <1>N
<1>4. /\ a \in Nat /\ a < N
      /\ a # 0 => a \in Calls /\ rpcCalls[a].by = Other(s) /\ rpcCalls[a].callback /\ rpcCalls[a].ran = <<>>
                  /\ Unanswered(a) /\ \A i \in 1..Len(rpcWire[s]) : rpcWire[s][i].call # a
  <2>1. CASE a = 0
    BY <2>1, <1>3
  <2>2. CASE \E r \in requests : r.side = s /\ r.call = a
    BY <2>2, <1>0, <1>3 DEF HeldInv, Open
  <2> QED BY <2>1, <2>2
<1>5. rec.by = s /\ rec.arg = m /\ rec.callback = cb /\ rec.answers = a /\ rec.ran = <<>> /\ CallOK(rec)
  BY <1>4 DEF CallOK
<1>6. /\ rpcCalls'[N].by = s /\ rpcCalls'[N].callback = cb /\ rpcCalls'[N].answers = a
      /\ rpcCalls'[N].ran = <<>> /\ CallOK(rpcCalls'[N])
  BY <1>1, <1>5, <1>N
<1>7. \A c \in Calls : rpcCalls'[c] = rpcCalls[c]
  BY <1>1
<1> HIDE DEF rec
<1>8. CallsInv'
  <2>1. IsSeq(rpcCalls)' /\ Len(rpcCalls') <= MaxCalls
    BY <1>1, RpcAssumption
  <2>2. ASSUME NEW c \in Calls' PROVE CallOK(rpcCalls'[c]) /\ rpcCalls'[c].answers < c
    BY <1>0, <1>3, <1>4, <1>6, <1>7 DEF CallsInv
  <2>3. ASSUME NEW c \in Calls', NEW d \in Calls', rpcCalls'[c].answers = rpcCalls'[d].answers,
               rpcCalls'[c].answers # 0
        PROVE  c = d
    BY <2>3, <1>0, <1>3, <1>4, <1>6, <1>7 DEF CallsInv, Unanswered
  <2>4. ASSUME NEW c \in Calls'
        PROVE  \/ rpcCalls'[c].ran = <<>>
               \/ \E d \in Calls' : rpcCalls'[c].ran = <<d>> /\ rpcCalls'[d].answers = c
    BY <1>0, <1>3, <1>6, <1>7 DEF CallsInv
  <2> QED BY <2>1, <2>2, <2>3, <2>4 DEF CallsInv
<1>a. mNextID \in [Sides -> Nat] /\ mNextID[s] \in Nat /\ \A t \in Sides : mNextID[t] \in Nat
  BY <1>0 DEF IdsInv
<1>b. cb => id = mNextID[s] + 1 /\ id \in Nat
  BY <1>a DEF makeNextID
<1>c. ~ cb => id = -1
  BY DEF makeNextID
<1>d. cb => mResponseCallbacks' = [mResponseCallbacks EXCEPT ![s] = insert(mResponseCallbacks[s], k0, N)]
  BY <1>b, <1>N DEF insertFunction
<1>e. ~ cb => mNextID' = mNextID /\ mResponseCallbacks' = mResponseCallbacks
  BY DEF insertFunction
<1>10. /\ mNextID' \in [Sides -> Nat]
       /\ \A t \in Sides : mNextID[t] <= mNextID'[t] /\ mNextID'[t] <= mNextID[t] + 1
       /\ cb => mNextID'[s] = id
  <2>1. CASE cb
    <3>1. mNextID' = [mNextID EXCEPT ![s] = mNextID[s] + 1]
      BY <2>1 DEF insertFunction
    <3>2. /\ mNextID' \in [Sides -> Nat] /\ mNextID'[s] = mNextID[s] + 1
          /\ \A t \in Sides : t # s => mNextID'[t] = mNextID[t]
      BY ONLY <3>1, <1>a, s \in Sides
    <3> QED BY ONLY <2>1, <1>a, <1>b, <3>2
  <2>2. CASE ~ cb
    BY ONLY <1>a, <1>e, <2>2
  <2> QED BY ONLY <2>1, <2>2
<1>11. /\ ids2[N] = id /\ (\A c \in Calls : ids2[c] = ids[c])
       /\ \A c \in Calls : rpcCalls[c].by \in Sides
       /\ cb => \A c \in Calls : rpcCalls[c].callback /\ rpcCalls[c].by = s => ids[c] < id
  <2>1. \A c \in Calls : rpcCalls[c].by \in Sides
    BY <1>0 DEF CallsInv, CallOK
  <2>2. \A c \in Calls : rpcCalls[c].callback /\ rpcCalls[c].by = s => ids[c] \in 1..mNextID[s]
    BY <1>0 DEF IdsInv
  <2>3. cb => \A c \in Calls : rpcCalls[c].callback /\ rpcCalls[c].by = s => ids[c] < id
    BY ONLY <1>a, <1>b, <2>2
  <2>4. ids2[N] = id
    BY <1>N
  <2> QED BY <2>1, <2>3, <2>4
<1>12. IdsInv(ids2)'
  <2>1. \A t \in Sides : mNextID'[t] <= Len(rpcCalls')
    BY <1>0, <1>1, <1>10 DEF IdsInv
  <2>2. ASSUME NEW c \in Calls', rpcCalls'[c].callback PROVE ids2[c] \in 1..mNextID'[rpcCalls'[c].by]
    <3>1. CASE c = N
      BY <2>2, <3>1, <1>6, <1>a, <1>b, <1>10, <1>11
    <3>2. CASE c \in Calls
      <4>1. ids[c] \in 1..mNextID[rpcCalls[c].by]
        BY <2>2, <3>2, <1>0, <1>7 DEF IdsInv
      <4>2. PICK t \in Sides : t = rpcCalls[c].by
        BY <3>2, <1>11
      <4>3. ids[c] \in 1..mNextID[t] /\ ids2[c] = ids[c] /\ rpcCalls'[c].by = t
        BY <4>1, <4>2, <3>2, <1>7, <1>11
      <4>4. mNextID[t] \in Nat /\ mNextID'[t] \in Nat /\ mNextID[t] <= mNextID'[t]
        BY <1>a, <1>10
      <4> QED BY ONLY <4>3, <4>4
    <3> QED BY <3>1, <3>2, <1>3
  <2>3. ASSUME NEW c \in Calls', ~ rpcCalls'[c].callback PROVE ids2[c] = -1
    BY <2>3, <1>0, <1>3, <1>6, <1>7, <1>c, <1>11 DEF IdsInv
  <2>4. ASSUME NEW c \in Calls', NEW d \in Calls', rpcCalls'[c].callback, rpcCalls'[d].callback,
               rpcCalls'[c].by = rpcCalls'[d].by, ids2[c] = ids2[d]
        PROVE  c = d
    <3>1. CASE c \in Calls /\ d \in Calls
      BY <2>4, <3>1, <1>0, <1>7, <1>11 DEF IdsInv
    <3>2. CASE c = N /\ d \in Calls
      <4>1. ids[d] < id /\ ids[d] = id /\ id \in Nat
        BY <2>4, <3>2, <1>6, <1>7, <1>10, <1>11
      <4> QED BY <4>1
    <3>3. CASE d = N /\ c \in Calls
      <4>1. ids[c] < id /\ ids[c] = id /\ id \in Nat
        BY <2>4, <3>3, <1>6, <1>7, <1>10, <1>11
      <4> QED BY <4>1
    <3> QED BY <3>1, <3>2, <3>3, <1>3
  <2> QED BY <2>1, <2>2, <2>3, <2>4, <1>10 DEF IdsInv
<1>13. \A t \in Sides : \A c : c \in Open(t)' <=> c \in Open(t) \/ (c = N /\ t = s /\ cb)
  BY <1>3, <1>6, <1>7 DEF Open
<1>14. TableInv(ids2)'
  <2>1. mResponseCallbacks' = [t \in Sides |-> mResponseCallbacks'[t]]
    BY <1>0, <1>d, <1>e DEF TableInv
  <2>2. ASSUME NEW t \in Sides, NEW c \in Open(t) PROVE c \in Calls /\ ids2[c] = ids[c]
    BY <1>11 DEF Open
  <2>3. ASSUME NEW t \in Sides, ~ (t = s /\ cb)
        PROVE  /\ \A k : k \in DOMAIN mResponseCallbacks'[t] <=> \E c \in Open(t)' : k = ToString(ids2[c])
               /\ \A c \in Open(t)' : mResponseCallbacks'[t][ToString(ids2[c])] = c
    <3>1. mResponseCallbacks'[t] = mResponseCallbacks[t]
      BY <2>3, <1>0, <1>d, <1>e DEF TableInv
    <3> QED BY <3>1, <2>2, <2>3, <1>0, <1>13 DEF TableInv
  <2>4. ASSUME cb
        PROVE  /\ \A k : k \in DOMAIN mResponseCallbacks'[s] <=> \E c \in Open(s)' : k = ToString(ids2[c])
               /\ \A c \in Open(s)' : mResponseCallbacks'[s][ToString(ids2[c])] = c
    <3> DEFINE T == mResponseCallbacks[s]
               U == mResponseCallbacks'[s]
    <3>1. U = insert(T, k0, N)
      BY <2>4, <1>0, <1>d DEF TableInv
    <3>2. /\ \A k : k \in DOMAIN U <=> k \in DOMAIN T \/ k = k0
          /\ U[k0] = N /\ \A k \in DOMAIN T : k # k0 => U[k] = T[k]
      BY <3>1 DEF insert
    <3>3. /\ \A k : k \in DOMAIN T <=> \E c \in Open(s) : k = ToString(ids[c])
          /\ \A c \in Open(s) : T[ToString(ids[c])] = c
      BY <1>0 DEF TableInv
    <3>4. ASSUME NEW c \in Open(s) PROVE ToString(ids[c]) # k0
      <4>1. c \in Calls /\ rpcCalls[c].callback /\ rpcCalls[c].by = s
        BY DEF Open
      <4>2. ids[c] < id /\ ids[c] \in 1..mNextID[s]
        BY <4>1, <2>4, <1>0, <1>11 DEF IdsInv
      <4>3. ids[c] \in 1..MaxCalls /\ id \in 1..MaxCalls /\ ids[c] # id
        <5>1. mNextID[s] \in Nat /\ id = mNextID[s] + 1 /\ mNextID[s] <= Len(rpcCalls)
          BY <2>4, <1>0, <1>a, <1>b DEF IdsInv
        <5> QED BY <4>2, <5>1, <1>1, RpcAssumption
      <4> QED BY <4>3, RpcNames
    <3> HIDE DEF T, U, k0
    <3>5. ToString(ids2[N]) = k0
      BY <1>11 DEF k0
    <3>6. \A c : c \in Open(s)' <=> c \in Open(s) \/ c = N
      BY <2>4, <1>13
    <3>7. \A k : k \in DOMAIN U <=> \E c \in Open(s)' : k = ToString(ids2[c])
      BY <3>2, <3>3, <3>5, <3>6, <2>2
    <3>8. \A c \in Open(s)' : U[ToString(ids2[c])] = c
      BY <3>2, <3>3, <3>4, <3>5, <3>6, <2>2
    <3> QED BY <3>7, <3>8 DEF U
  <2> QED BY <2>1, <2>3, <2>4 DEF TableInv
<1>15. /\ \A c \in Calls : Unanswered(c)' <=> Unanswered(c) /\ c # a
       /\ Unanswered(N)'
  <2>1. \A d \in Calls : rpcCalls'[d].answers = rpcCalls[d].answers /\ rpcCalls[d].answers \in Nat
                           /\ rpcCalls[d].answers < d
    BY <1>0, <1>7 DEF CallsInv, CallOK
  <2>2. \A d \in Calls : rpcCalls[d].answers # N
    BY <2>1, <1>3
  <2>3. \A c : Unanswered(c)' <=> Unanswered(c) /\ c # a
    BY <2>1, <1>3, <1>6 DEF Unanswered
  <2> QED BY <2>2, <2>3, <1>3, <1>4 DEF Unanswered
<1>16. /\ Other(s) \in Sides /\ Other(s) # s /\ Other(Other(s)) = s
       /\ \A t \in Sides : Other(t) = s => t = Other(s)
  BY DEF Sides, Other
<1> DEFINE o == Other(s)
           q == rpcWire[o]
           new == [call |-> N, msg |-> msg]
<1>17. /\ rpcWire' = [t \in Sides |-> rpcWire'[t]]
       /\ \A t \in Sides : t # o => rpcWire'[t] = rpcWire[t]
       /\ rpcWire'[o] = Append(q, new)
  BY <1>0, <1>16, <1>N DEF WireInv, Sent
<1>18. /\ IsSeq(rpcWire'[o]) /\ Len(rpcWire'[o]) = Len(q) + 1 /\ Len(q) \in Nat
       /\ (\A i \in 1..Len(q) : rpcWire'[o][i] = q[i]) /\ rpcWire'[o][Len(q) + 1] = new
  BY <1>0, <1>16, <1>17, PushIs DEF WireInv, IsSeq
<1>19. new.call = N /\ new.msg = msg
  OBVIOUS
<1> HIDE DEF o, q, new
<1>20. MessageOK(ids2, o, N, msg)'
  <2>1. CASE a = 0 /\ IsRequest(protocol, msg, id, "f")
    BY <2>1, <1>6, <1>11 DEF MessageOK
  <2>2. ASSUME NEW r \in requests, NEW inner, r.side = s, r.call = a,
               IsAnswer(protocol, msg, r.id, inner), IsRequest(protocol, inner, id, ToString(r.id))
        PROVE  MessageOK(ids2, o, N, msg)'
    <3>1. a \in Open(o) /\ r.id = ids[a]
      BY <2>2, <1>0 DEF HeldInv, o
    <3>2. a \in Open(o)' /\ ids2[a] = r.id
      BY <3>1, <1>11, <1>13, <1>16 DEF Open, o
    <3> QED BY <2>2, <3>2, <1>6, <1>11 DEF MessageOK
  <2> QED BY <2>1, <2>2
<1>21. ASSUME NEW t \in Sides, NEW c \in Calls, NEW x, MessageOK(ids, t, c, x)
       PROVE  MessageOK(ids2, t, c, x)'
  <2>1. \A d \in Open(t) : d \in Open(t)' /\ ids2[d] = ids[d]
    BY <1>11, <1>13 DEF Open
  <2> QED BY <1>21, <2>1, <1>7, <1>11 DEF MessageOK
<1>22. WireInv(ids2)'
  <2>1. ASSUME NEW t \in Sides, NEW in, TravelsOK(ids, t, in), in.call # a PROVE TravelsOK(ids2, t, in)'
    <3>1. in.call \in Calls /\ MessageOK(ids, t, in.call, in.msg)
      BY <2>1 DEF TravelsOK
    <3>2. MessageOK(ids2, t, in.call, in.msg)'
      BY <3>1, <1>21
    <3> QED BY <2>1, <3>1, <3>2, <1>3, <1>7, <1>15 DEF TravelsOK
  <2>2. ASSUME NEW t \in Sides, NEW i \in 1..Len(rpcWire[t])
        PROVE  rpcWire[t][i].call \in Calls /\ rpcWire[t][i].call # a /\ TravelsOK(ids, t, rpcWire[t][i])
    <3>1. TravelsOK(ids, t, rpcWire[t][i])
      BY <1>0 DEF WireInv
    <3>2. rpcWire[t][i].call \in Calls /\ rpcCalls[rpcWire[t][i].call].by = Other(t)
      BY <3>1 DEF TravelsOK
    <3>3. CASE t = s
      <4> DEFINE c == rpcWire[s][i].call
      <4>1. c \in Nat \ {0}
        BY <3>2, <3>3, <1>2
      <4>2. c # a
        BY ONLY <4>1, <1>4, <3>3, i \in 1..Len(rpcWire[t])
      <4> QED BY <3>1, <3>2, <3>3, <4>2
    <3>4. CASE t # s
      <4>1. a # 0 => rpcCalls[a].by = o
        BY <1>4 DEF o
      <4>2. Other(t) = s /\ s # o
        BY <3>4 DEF Sides, Other, o
      <4> DEFINE c == rpcWire[t][i].call
      <4>3. c \in Nat \ {0} /\ rpcCalls[c].by = s
        BY <3>2, <4>2, <1>2
      <4>4. c # a
        BY ONLY <4>1, <4>2, <4>3
      <4> QED BY <3>1, <3>2, <4>4
    <3> QED BY <3>3, <3>4
  <2>3. ASSUME NEW in, in = new PROVE TravelsOK(ids2, o, in)'
    <3>1. in.call = N /\ in.msg = msg
      BY <2>3, <1>19
    <3>2. MessageOK(ids2, o, in.call, in.msg)' /\ Unanswered(in.call)'
      BY <3>1, <1>15, <1>20
    <3> QED BY <3>1, <3>2, <1>3, <1>6, <1>16 DEF o, TravelsOK
  <2>4. ASSUME NEW t \in Sides, NEW i \in 1..Len(rpcWire'[t]) PROVE TravelsOK(ids2, t, rpcWire[t][i])'
    <3>0. PICK in : in = rpcWire'[t][i]
      OBVIOUS
    <3>1. TravelsOK(ids2, t, in)'
      <4>1. CASE i \in 1..Len(rpcWire[t]) /\ in = rpcWire[t][i]
        <5>1. in.call # a /\ TravelsOK(ids, t, in)
          BY <4>1, <2>2
        <5> QED BY <5>1, <2>1
      <4>2. CASE t = o /\ in = new
        BY <4>2, <2>3
      <4>3. t # o => i \in 1..Len(rpcWire[t]) /\ in = rpcWire[t][i]
        BY <3>0, <1>17
      <4>4. t = o => (i \in 1..Len(q) /\ in = q[i]) \/ in = new
        BY <3>0, <1>18
      <4> QED BY <4>1, <4>2, <4>3, <4>4 DEF q
    <3> QED BY <3>0, <3>1 DEF TravelsOK, Unanswered, MessageOK
  <2>5. ASSUME NEW t \in Sides
        PROVE  /\ IsSeq(rpcWire'[t])
               /\ \A i, j \in 1..Len(rpcWire'[t]) : i < j => rpcWire'[t][i].call < rpcWire'[t][j].call
    <3>1. CASE t # o
      BY <3>1, <1>0, <1>17 DEF WireInv
    <3>2. CASE t = o
      <4>1. \A i \in 1..Len(q) : rpcWire'[o][i] = q[i] /\ q[i].call \in Calls
        BY <2>2, <1>16, <1>18 DEF q, o
      <4>2. \A i, j \in 1..Len(q) : i < j => q[i].call < q[j].call
        BY <1>0, <1>16 DEF WireInv, q, o
      <4>3. ASSUME NEW i \in 1..Len(rpcWire'[o]), NEW j \in 1..Len(rpcWire'[o]), i < j
            PROVE  rpcWire'[o][i].call < rpcWire'[o][j].call
        <5>1. i \in 1..Len(q) /\ (j \in 1..Len(q) \/ j = Len(q) + 1)
          BY <4>3, <1>18
        <5>2. CASE j \in 1..Len(q)
          BY <5>1, <5>2, <4>1, <4>2, <4>3
        <5>3. CASE j = Len(q) + 1
          BY <5>1, <5>3, <4>1, <1>3, <1>18, <1>19
        <5> QED BY <5>1, <5>2, <5>3
      <4> QED BY <4>3, <3>2, <1>18
    <3> QED BY <3>1, <3>2
  <2> QED BY <2>4, <2>5, <1>17 DEF WireInv
<1>23. HeldInv(ids2)'
  <2> SUFFICES ASSUME NEW r \in requests'
      PROVE  /\ r.side \in Sides /\ r.call \in Open(Other(r.side))'
             /\ r = [side |-> r.side, id |-> ids2[r.call], call |-> r.call]
             /\ Unanswered(r.call)'
             /\ \A i \in 1..Len(rpcWire'[r.side]) : rpcWire'[r.side][i].call # r.call
    BY DEF HeldInv
  <2>1. r \in requests
    OBVIOUS
  <2>2. /\ r.side \in Sides /\ r.call \in Open(Other(r.side))
        /\ r = [side |-> r.side, id |-> ids[r.call], call |-> r.call]
        /\ Unanswered(r.call)
        /\ \A i \in 1..Len(rpcWire[r.side]) : rpcWire[r.side][i].call # r.call
    BY <2>1, <1>0 DEF HeldInv
  <2>3. r.call \in Calls /\ r.call # N /\ Other(r.side) \in Sides /\ rpcCalls[r.call].by = Other(r.side)
    BY <2>2, <1>3 DEF Open, Sides, Other
  <2>4. r.call # a
    <3>1. CASE a = 0
      BY <3>1, <2>3, <1>2
    <3>2. ASSUME NEW r2 \in requests, r2.side = s, r2.call = a, requests' = requests \ {r2}, r.call = a
          PROVE  FALSE
      <4>1. r2 = [side |-> r2.side, id |-> ids[a], call |-> a] /\ a \in Open(Other(s))
        BY <3>2, <1>0 DEF HeldInv
      <4>2. Other(r.side) = Other(s) /\ r.side = s
        BY <4>1, <3>2, <2>2, <2>3 DEF Open, Other, Sides
      <4>3. r = r2
        BY <4>1, <4>2, <2>2, <3>2
      <4> QED BY <4>3, <3>2
    <3> QED BY <3>1, <3>2
  <2>5. r.call \in Open(Other(r.side))' /\ ids2[r.call] = ids[r.call] /\ Unanswered(r.call)'
    BY <2>2, <2>3, <2>4, <1>11, <1>13, <1>15
  <2>6. \A i \in 1..Len(rpcWire'[r.side]) : rpcWire'[r.side][i].call # r.call
    <3>1. CASE r.side # o
      BY <3>1, <2>2, <1>17
    <3>2. CASE r.side = o
      <4>1. \A i \in 1..Len(q) : q[i].call # r.call
        BY <3>2, <2>2 DEF q
      <4> QED BY <4>1, <3>2, <2>3, <1>18, <1>19
    <3> QED BY <3>1, <3>2
  <2> QED BY <2>2, <2>5, <2>6
<1> QED BY <1>0, <1>8, <1>12, <1>14, <1>22, <1>23 DEF RpcInvFor

\* A step that makes no call and changes what became of the calls at most.
SameCalls ==
    /\ IsSeq(rpcCalls') /\ Len(rpcCalls') = Len(rpcCalls)
    /\ \A d \in Calls : /\ CallOK(rpcCalls'[d])
                        /\ rpcCalls'[d].by = rpcCalls[d].by
                        /\ rpcCalls'[d].arg = rpcCalls[d].arg
                        /\ rpcCalls'[d].callback = rpcCalls[d].callback
                        /\ rpcCalls'[d].answers = rpcCalls[d].answers

\* The first message to s, of call c, is taken: e is the call it answers, whose
\* callback runs, or 0.
Taken(ids, s, c, e) ==
    /\ rpcWire' = [rpcWire EXCEPT ![s] = Tail(rpcWire[s])]
    /\ SameCalls
    /\ e = rpcCalls[c].answers
    /\ \A d \in Calls : (d # e => rpcCalls'[d].ran = rpcCalls[d].ran) /\ (d = e => rpcCalls'[d].ran = <<c>>)
    /\ e = 0 => mResponseCallbacks' = mResponseCallbacks
    /\ e # 0 => mResponseCallbacks' =
                  [mResponseCallbacks EXCEPT ![s] = del(mResponseCallbacks[s], ToString(ids[e]))]
    /\ requests' = requests \cup Holding(s, ids[c], c)
    /\ protocol' = protocol /\ mNextID' = mNextID /\ rpcBroken' = rpcBroken

\* The first message to s: it is on the way as the invariant says, and the
\* others are of later calls.
LEMMA FirstIs ==
    ASSUME NEW ids, RpcInvFor(ids), NEW s \in Sides, rpcWire[s] # <<>>
    PROVE  /\ IsSeq(rpcWire[s]) /\ Len(rpcWire[s]) \in Nat \ {0} /\ Head(rpcWire[s]) = rpcWire[s][1]
           /\ TravelsOK(ids, s, rpcWire[s][1])
           /\ IsSeq(Tail(rpcWire[s])) /\ Len(Tail(rpcWire[s])) = Len(rpcWire[s]) - 1
           /\ \A i \in 1..(Len(rpcWire[s]) - 1) : /\ i + 1 \in 1..Len(rpcWire[s])
                                                  /\ Tail(rpcWire[s])[i] = rpcWire[s][i + 1]
<1>1. IsSeq(rpcWire[s])
  BY DEF RpcInvFor, WireInv
<1> DEFINE q == rpcWire[s]
<1>2. /\ Len(q) \in Nat \ {0} /\ Head(q) = q[1] /\ IsSeq(Tail(q)) /\ Len(Tail(q)) = Len(q) - 1
      /\ \A i \in 1..(Len(q) - 1) : Tail(q)[i] = q[i + 1]
  BY <1>1, PopIs
<1>3. TravelsOK(ids, s, q[1])
  BY <1>2 DEF RpcInvFor, WireInv
<1> HIDE DEF q
<1>4. \A i \in 1..(Len(q) - 1) : i + 1 \in 1..Len(q)
  BY <1>2
<1> QED BY <1>1, <1>2, <1>3, <1>4 DEF q

\* Taking a message keeps the invariant.
LEMMA TakenKeeps ==
    ASSUME NEW ids, RpcInvFor(ids), NEW s \in Sides, rpcWire[s] # <<>>,
           NEW c, c = rpcWire[s][1].call, NEW e, Taken(ids, s, c, e)
    PROVE  RpcInvFor(ids)'
<1>0. /\ CallsInv /\ IdsInv(ids) /\ TableInv(ids) /\ WireInv(ids) /\ HeldInv(ids)
      /\ protocol \in {"json", "msgpack"} /\ rpcBroken = FALSE
  BY DEF RpcInvFor
<1>T. /\ rpcWire' = [rpcWire EXCEPT ![s] = Tail(rpcWire[s])]
      /\ SameCalls
      /\ e = rpcCalls[c].answers
      /\ \A d \in Calls : (d # e => rpcCalls'[d].ran = rpcCalls[d].ran) /\ (d = e => rpcCalls'[d].ran = <<c>>)
      /\ requests' = requests \cup Holding(s, ids[c], c)
      /\ protocol' = protocol /\ mNextID' = mNextID /\ rpcBroken' = rpcBroken
  BY DEF Taken
<1>1. /\ Calls' = Calls /\ IsSeq(rpcCalls') /\ Len(rpcCalls') = Len(rpcCalls) /\ Len(rpcCalls) \in Nat
      /\ \A d \in Calls : d \in Nat \ {0}
  <2>1. IsSeq(rpcCalls') /\ Len(rpcCalls') = Len(rpcCalls)
    BY <1>T DEF SameCalls
  <2>2. Len(rpcCalls) \in Nat
    BY <1>0 DEF CallsInv, IsSeq
  <2>3. Calls' = Calls
    BY <2>1 DEF Calls
  <2>4. \A d \in Calls : d \in Nat \ {0}
    BY <2>2 DEF Calls
  <2> QED BY <2>1, <2>2, <2>3, <2>4
<1>2. \A d \in Calls : /\ CallOK(rpcCalls'[d])
                       /\ rpcCalls'[d].by = rpcCalls[d].by
                       /\ rpcCalls'[d].callback = rpcCalls[d].callback
                       /\ rpcCalls'[d].answers = rpcCalls[d].answers
  BY <1>T DEF SameCalls
<1>3. /\ c \in Calls /\ rpcCalls[c].by = Other(s) /\ rpcCalls[c].ran = <<>> /\ Unanswered(c)
      /\ MessageOK(ids, s, c, rpcWire[s][1].msg)
  BY FirstIs DEF TravelsOK
<1>4. e # 0 => e \in Open(s) /\ e \in Calls
  BY <1>3, <1>T DEF MessageOK, Open
<1>5. c # e /\ ~ Unanswered(e)
  BY <1>0, <1>1, <1>3, <1>T DEF CallsInv, CallOK, Unanswered
<1>6. \A d \in Calls : Unanswered(d)' <=> Unanswered(d)
  BY <1>1, <1>2 DEF Unanswered
<1>7. \A t \in Sides : \A d : d \in Open(t)' <=> d \in Open(t) /\ d # e
  <2>1. <<c>> # <<>>
    OBVIOUS
  <2> QED BY <1>1, <1>2, <1>T, <2>1 DEF Open
<1>8. CallsInv'
  <2>1. ASSUME NEW d \in Calls PROVE CallOK(rpcCalls'[d]) /\ rpcCalls'[d].answers < d
    BY <1>0, <1>2 DEF CallsInv
  <2>2. ASSUME NEW d \in Calls, NEW f \in Calls,
               rpcCalls'[d].answers = rpcCalls'[f].answers, rpcCalls'[d].answers # 0
        PROVE  d = f
    BY <2>2, <1>0, <1>2 DEF CallsInv
  <2>3. ASSUME NEW d \in Calls
        PROVE  rpcCalls'[d].ran = <<>> \/ \E f \in Calls : rpcCalls'[d].ran = <<f>> /\ rpcCalls'[f].answers = d
    <3>1. CASE d = e
      BY <3>1, <1>2, <1>3, <1>T
    <3>2. CASE d # e
      <4>1. rpcCalls[d].ran = <<>> \/ \E f \in Calls : rpcCalls[d].ran = <<f>> /\ rpcCalls[f].answers = d
        BY <1>0 DEF CallsInv
      <4> QED BY <4>1, <3>2, <1>2, <1>T
    <3> QED BY <3>1, <3>2
  <2> QED BY <2>1, <2>2, <2>3, <1>0, <1>1 DEF CallsInv
<1>9. IdsInv(ids)'
  <2>1. /\ mNextID' \in [Sides -> Nat]
        /\ \A t \in Sides : mNextID'[t] <= Len(rpcCalls')
    BY <1>0, <1>1, <1>T DEF IdsInv
  <2>2. \A d \in Calls : IF rpcCalls'[d].callback THEN ids[d] \in 1..mNextID'[rpcCalls'[d].by] ELSE ids[d] = -1
    <3>1. \A d \in Calls : IF rpcCalls[d].callback THEN ids[d] \in 1..mNextID[rpcCalls[d].by] ELSE ids[d] = -1
      BY <1>0 DEF IdsInv
    <3> QED BY ONLY <3>1, <1>2, <1>T
  <2>3. \A d, f \in Calls :
          rpcCalls'[d].callback /\ rpcCalls'[f].callback /\ rpcCalls'[d].by = rpcCalls'[f].by /\ ids[d] = ids[f]
            => d = f
    <3>1. \A d, f \in Calls :
            rpcCalls[d].callback /\ rpcCalls[f].callback /\ rpcCalls[d].by = rpcCalls[f].by /\ ids[d] = ids[f]
              => d = f
      BY <1>0 DEF IdsInv
    <3> QED BY ONLY <3>1, <1>2
  <2> QED BY <1>1, <2>1, <2>2, <2>3 DEF IdsInv
<1>10. TableInv(ids)'
  <2>1. CASE e = 0
    <3>1. mResponseCallbacks' = mResponseCallbacks
      BY <2>1 DEF Taken
    <3>2. \A t \in Sides : \A d : d \in Open(t)' <=> d \in Open(t)
      BY <2>1, <1>1, <1>7 DEF Open
    <3> QED BY <3>1, <3>2, <1>0 DEF TableInv
  <2>2. CASE e # 0
    <3> DEFINE k0 == ToString(ids[e])
               T == mResponseCallbacks[s]
               U == mResponseCallbacks'[s]
    <3>0. mResponseCallbacks' = [mResponseCallbacks EXCEPT ![s] = del(T, k0)]
      BY <2>2 DEF Taken
    <3>1. /\ mResponseCallbacks' = [t \in Sides |-> mResponseCallbacks'[t]] /\ U = del(T, k0)
          /\ \A t \in Sides : t # s => mResponseCallbacks'[t] = mResponseCallbacks[t]
      BY <3>0, <1>0 DEF TableInv
    <3>2. /\ \A k : k \in DOMAIN U <=> k \in DOMAIN T /\ k # k0
          /\ \A k \in DOMAIN T : k # k0 => U[k] = T[k]
      BY <3>1 DEF del
    <3>3. /\ \A k : k \in DOMAIN T <=> \E d \in Open(s) : k = ToString(ids[d])
          /\ \A d \in Open(s) : T[ToString(ids[d])] = d
      BY <1>0 DEF TableInv
    <3>4. ASSUME NEW d \in Open(s), ToString(ids[d]) = k0 PROVE d = e
      <4>1. /\ d \in Calls /\ rpcCalls[d].callback /\ rpcCalls[d].by = s
            /\ e \in Calls /\ rpcCalls[e].callback /\ rpcCalls[e].by = s
        BY <1>4, <2>2 DEF Open
      <4>2. ids[d] \in 1..mNextID[s] /\ ids[e] \in 1..mNextID[s]
        BY <4>1, <1>0 DEF IdsInv
      <4>3. mNextID[s] \in Nat /\ mNextID[s] <= MaxCalls
        BY <1>0, <1>1, RpcAssumption DEF IdsInv, CallsInv
      <4>4. ids[d] \in 1..MaxCalls /\ ids[e] \in 1..MaxCalls
        BY <4>2, <4>3, RpcAssumption
      <4>5. ids[d] = ids[e]
        BY <4>4, <3>4, RpcNames
      <4> QED BY <4>1, <4>5, <1>0 DEF IdsInv
    <3>5. \A d : d \in Open(s)' <=> d \in Open(s) /\ d # e
      BY <1>7
    <3>6. e \in Open(s)
      BY <1>4, <2>2
    <3> HIDE DEF T, U
    <3>7. \A d \in Open(s) : d # e => ToString(ids[d]) # k0
      BY <3>4
    <3> HIDE DEF k0
    <3>a. ToString(ids[e]) = k0
      BY DEF k0
    <3>8. \A k : k \in DOMAIN U <=> \E d \in Open(s)' : k = ToString(ids[d])
      <4>1. ASSUME NEW k, k \in DOMAIN U PROVE \E d \in Open(s)' : k = ToString(ids[d])
        BY <4>1, <3>2, <3>3, <3>5, <3>a
      <4>2. ASSUME NEW d \in Open(s)' PROVE ToString(ids[d]) \in DOMAIN U
        BY <3>2, <3>3, <3>5, <3>7
      <4> QED BY <4>1, <4>2
    <3>9. \A d \in Open(s)' : U[ToString(ids[d])] = d
      BY <3>2, <3>3, <3>5, <3>7
    <3>10. ASSUME NEW t \in Sides, t # s
           PROVE  /\ \A k : k \in DOMAIN mResponseCallbacks'[t] <=> \E d \in Open(t)' : k = ToString(ids[d])
                  /\ \A d \in Open(t)' : mResponseCallbacks'[t][ToString(ids[d])] = d
      <4>1. \A d : d \in Open(t)' <=> d \in Open(t)
        BY <3>6, <3>10, <1>7 DEF Open
      <4> QED BY <4>1, <3>1, <3>10, <1>0 DEF TableInv
    <3> QED BY <3>1, <3>8, <3>9, <3>10 DEF TableInv, U
  <2> QED BY <2>1, <2>2
<1> DEFINE q == rpcWire[s]
<1>11. /\ rpcWire' = [t \in Sides |-> rpcWire'[t]]
       /\ \A t \in Sides : t # s => rpcWire'[t] = rpcWire[t]
       /\ rpcWire'[s] = Tail(q)
  BY <1>0, <1>T DEF WireInv
<1>12. /\ IsSeq(rpcWire'[s]) /\ Len(rpcWire'[s]) = Len(q) - 1 /\ Len(q) \in Nat \ {0} /\ c = q[1].call
       /\ \A i \in 1..(Len(q) - 1) : i + 1 \in 1..Len(q) /\ rpcWire'[s][i] = q[i + 1]
  BY <1>11, FirstIs
<1>13. \A i, j \in 1..Len(q) : i < j => q[i].call < q[j].call
  BY <1>0 DEF WireInv
<1> HIDE DEF q
<1>14. \A i \in 1..Len(rpcWire'[s]) : rpcWire'[s][i].call # c
  <2> SUFFICES ASSUME NEW i \in 1..(Len(q) - 1) PROVE q[i + 1].call # q[1].call
    BY <1>12
  <2>1. 1 \in 1..Len(q) /\ i + 1 \in 1..Len(q) /\ 1 < i + 1
    BY <1>12
  <2>2. q[1].call < q[i + 1].call
    BY <2>1, <1>13
  <2>3. q[1].call \in Nat
    BY <1>1, <1>3, <1>12
  <2> QED BY <2>2, <2>3
<1>15. ASSUME NEW t \in Sides, NEW x, TravelsOK(ids, t, x), x.call # c PROVE TravelsOK(ids, t, x)'
  <2>1. x.call \in Calls /\ Unanswered(x.call) /\ MessageOK(ids, t, x.call, x.msg)
    BY <1>15 DEF TravelsOK
  <2>2. x.call # e /\ rpcCalls'[x.call].ran = rpcCalls[x.call].ran
    BY <2>1, <1>5, <1>T
  <2>3. rpcCalls[x.call].answers # 0 => rpcCalls[x.call].answers # e
    BY <2>1, <1>0, <1>3, <1>15, <1>T DEF CallsInv
  <2>4. \A d \in Open(t) : d \in Calls /\ d # 0
    BY <1>1 DEF Open
  <2>5. MessageOK(ids, t, x.call, x.msg)'
    BY <2>1, <2>3, <2>4, <1>2, <1>7, <1>T DEF MessageOK
  <2> QED BY <2>1, <2>2, <2>5, <1>1, <1>2, <1>6, <1>15 DEF TravelsOK
<1>16. Other(s) \in Sides /\ Other(s) # s /\ \A t \in Sides : t # s => Other(t) = s
  BY DEF Sides, Other
<1>17. ASSUME NEW t \in Sides, NEW i \in 1..Len(rpcWire'[t])
       PROVE  TravelsOK(ids, t, rpcWire'[t][i]) /\ rpcWire'[t][i].call # c
  <2>1. CASE t = s
    <3>1. i \in 1..(Len(q) - 1)
      BY <2>1, <1>12
    <3>2. TravelsOK(ids, s, q[i + 1])
      BY <3>1, <1>0, <1>12 DEF WireInv, q
    <3> QED BY <2>1, <3>1, <3>2, <1>12, <1>14
  <2>2. CASE t # s
    <3>1. rpcWire'[t] = rpcWire[t]
      BY <2>2, <1>11
    <3>2. TravelsOK(ids, t, rpcWire[t][i])
      BY <3>1, <1>0 DEF WireInv
    <3>3. rpcCalls[rpcWire[t][i].call].by = s
      BY <3>2, <2>2, <1>16 DEF TravelsOK
    <3> QED BY <3>1, <3>2, <3>3, <1>3, <1>16
  <2> QED BY <2>1, <2>2
<1>18. WireInv(ids)'
  <2>1. ASSUME NEW t \in Sides, NEW i \in 1..Len(rpcWire'[t]) PROVE TravelsOK(ids, t, rpcWire[t][i])'
    <3>0. PICK x : x = rpcWire'[t][i]
      OBVIOUS
    <3>1. TravelsOK(ids, t, x)'
      BY <3>0, <1>15, <1>17
    <3> QED BY <3>0, <3>1 DEF TravelsOK, Unanswered, MessageOK
  <2>2. ASSUME NEW t \in Sides
        PROVE  /\ IsSeq(rpcWire'[t])
               /\ \A i, j \in 1..Len(rpcWire'[t]) : i < j => rpcWire'[t][i].call < rpcWire'[t][j].call
    <3>1. CASE t # s
      BY <3>1, <1>0, <1>11 DEF WireInv
    <3>2. CASE t = s
      <4>1. ASSUME NEW i \in 1..(Len(q) - 1), NEW j \in 1..(Len(q) - 1), i < j
            PROVE  q[i + 1].call < q[j + 1].call
        <5>1. i + 1 \in 1..Len(q) /\ j + 1 \in 1..Len(q) /\ i + 1 < j + 1
          BY <4>1, <1>12
        <5> QED BY <5>1, <1>13
      <4>2. PICK w : w = rpcWire'[s]
        OBVIOUS
      <4>3. \A i, j \in 1..(Len(q) - 1) : i < j => w[i].call < w[j].call
        BY <4>1, <4>2, <1>12
      <4>4. Len(w) = Len(q) - 1
        BY <4>2, <1>12
      <4> QED BY <4>2, <4>3, <4>4, <3>2, <1>12
    <3> QED BY <3>1, <3>2
  <2> QED BY <2>1, <2>2, <1>11 DEF WireInv
<1>19. HeldInv(ids)'
  <2> SUFFICES ASSUME NEW r \in requests'
      PROVE  /\ r.side \in Sides /\ r.call \in Open(Other(r.side))'
             /\ r = [side |-> r.side, id |-> ids[r.call], call |-> r.call]
             /\ Unanswered(r.call)'
             /\ \A i \in 1..Len(rpcWire'[r.side]) : rpcWire'[r.side][i].call # r.call
    BY DEF HeldInv
  <2>1. CASE r \in requests
    <3>1. /\ r.side \in Sides /\ r.call \in Open(Other(r.side))
          /\ r = [side |-> r.side, id |-> ids[r.call], call |-> r.call]
          /\ Unanswered(r.call)
          /\ \A i \in 1..Len(rpcWire[r.side]) : rpcWire[r.side][i].call # r.call
      BY <2>1, <1>0 DEF HeldInv
    <3>2. r.call \in Calls /\ Other(r.side) \in Sides /\ r.call # e
      BY <3>1, <1>5 DEF Open, Sides, Other
    <3>3. \A i \in 1..Len(rpcWire'[r.side]) : rpcWire'[r.side][i].call # r.call
      <4>1. CASE r.side # s
        BY <4>1, <3>1, <1>11
      <4>2. CASE r.side = s
        <5>1. \A i \in 1..Len(q) : q[i].call # r.call
          BY <4>2, <3>1 DEF q
        <5> QED BY <5>1, <4>2, <1>12
      <4> QED BY <4>1, <4>2
    <3> QED BY <3>1, <3>2, <3>3, <1>6, <1>7
  <2>2. CASE r \notin requests
    <3>1. ids[c] # -1 /\ r = [side |-> s, id |-> ids[c], call |-> c]
      BY <2>2, <1>T DEF Holding
    <3>2. rpcCalls[c].callback
      BY <3>1, <1>0, <1>3 DEF IdsInv
    <3>3. c \in Open(Other(s))'
      BY <3>2, <1>3, <1>5, <1>7, <1>16 DEF Open
    <3>4. Unanswered(c)'
      BY <1>3, <1>6
    <3> QED BY <3>1, <3>3, <3>4, <1>14
  <2> QED BY <2>1, <2>2
<1> QED BY <1>0, <1>T, <1>8, <1>9, <1>10, <1>18, <1>19 DEF RpcInvFor

\* What a function or a callback gets is added to the history of call c, and
\* the call e, if there is one, is marked as answered by c.
Marks(c, x, e) ==
    \/ e = 0 /\ rpcCalls' = [rpcCalls EXCEPT ![c].got = Append(@, x)]
    \/ /\ e \in Calls /\ e # c /\ rpcCalls[e].ran = <<>>
       /\ rpcCalls' = [rpcCalls EXCEPT ![c].got = Append(@, x), ![e].ran = Append(@, c)]

\* A record with another value in got.
LEMMA WithGot ==
    ASSUME NEW r, CallOK(r), NEW z
    PROVE  [r EXCEPT !.got = z] = [by |-> r.by, arg |-> r.arg, callback |-> r.callback,
                                   answers |-> r.answers, got |-> z, ran |-> r.ran]
  BY DEF CallOK

\* Nothing else of the calls changes.
LEMMA MarkedIs ==
    ASSUME CallsInv, NEW c \in Calls, NEW x, NEW e, Marks(c, x, e)
    PROVE  /\ SameCalls
           /\ \A d \in Calls : /\ d # e => rpcCalls'[d].ran = rpcCalls[d].ran
                               /\ d = e => rpcCalls'[d].ran = <<c>>
           /\ rpcCalls'[c].got = Append(rpcCalls[c].got, x)
           /\ \A d \in Calls : d # c => rpcCalls'[d].got = rpcCalls[d].got
<1> DEFINE n == Len(rpcCalls)
<1>1. n \in Nat /\ rpcCalls = [i \in 1..n |-> rpcCalls[i]] /\ Calls = 1..n
      /\ \A d \in Calls : CallOK(rpcCalls[d]) /\ d # 0
  BY DEF CallsInv, IsSeq, Calls
<1>2. c \in 1..n /\ c # 0
  BY <1>1
<1> DEFINE R(d) == rpcCalls[d]
           G == [R(c) EXCEPT !.got = Append(R(c).got, x)]
<1>3. CallOK(G) /\ G.by = R(c).by /\ G.arg = R(c).arg /\ G.callback = R(c).callback
      /\ G.answers = R(c).answers /\ G.ran = R(c).ran /\ G.got = Append(R(c).got, x)
  <2>1. CallOK(R(c))
    BY <1>1, <1>2
  <2>2. G = [by |-> R(c).by, arg |-> R(c).arg, callback |-> R(c).callback,
             answers |-> R(c).answers, got |-> Append(R(c).got, x), ran |-> R(c).ran]
    BY <2>1, WithGot
  <2> HIDE DEF G
  <2> QED BY <2>2, <1>1, <1>2 DEF CallOK
<1>4. CASE e = 0 /\ rpcCalls' = [rpcCalls EXCEPT ![c].got = Append(@, x)]
  <2>1. /\ rpcCalls' = [i \in 1..n |-> rpcCalls'[i]] /\ rpcCalls'[c] = G
        /\ \A d \in 1..n : d # c => rpcCalls'[d] = R(d)
    BY <1>1, <1>2, <1>4
  <2> HIDE DEF G
  <2>2. Len(rpcCalls') = n
    BY <1>1, <2>1
  <2>3. SameCalls
    <3>1. \A d \in Calls : d # c => CallOK(rpcCalls'[d]) /\ rpcCalls'[d] = R(d)
      BY <1>1, <2>1
    <3>2. IsSeq(rpcCalls')
      BY <1>1, <2>1, <2>2 DEF IsSeq
    <3> QED BY <3>1, <3>2, <2>1, <2>2, <1>3 DEF SameCalls
  <2> QED BY <2>1, <2>3, <1>1, <1>3, <1>4
<1>5. CASE /\ e \in Calls /\ e # c /\ rpcCalls[e].ran = <<>>
           /\ rpcCalls' = [rpcCalls EXCEPT ![c].got = Append(@, x), ![e].ran = Append(@, c)]
  <2> DEFINE A == [R(e) EXCEPT !.ran = Append(R(e).ran, c)]
  <2>1. /\ rpcCalls' = [i \in 1..n |-> rpcCalls'[i]] /\ rpcCalls'[c] = G /\ rpcCalls'[e] = A
        /\ \A d \in 1..n : d # c /\ d # e => rpcCalls'[d] = R(d)
    BY <1>1, <1>2, <1>5
  <2> HIDE DEF G
  <2>2. CallOK(A) /\ A.by = R(e).by /\ A.arg = R(e).arg /\ A.callback = R(e).callback
        /\ A.answers = R(e).answers /\ A.ran = <<c>> /\ A.got = R(e).got
    <3>1. R(e) = [by |-> R(e).by, arg |-> R(e).arg, callback |-> R(e).callback,
                  answers |-> R(e).answers, got |-> R(e).got, ran |-> <<>>]
      BY <1>1, <1>5 DEF CallOK
    <3>2. Append(<<>>, c) = <<c>>
      OBVIOUS
    <3>3. A = [by |-> R(e).by, arg |-> R(e).arg, callback |-> R(e).callback,
               answers |-> R(e).answers, got |-> R(e).got, ran |-> <<c>>]
      BY <3>1, <3>2
    <3> QED BY <3>3, <1>1, <1>5 DEF CallOK
  <2> HIDE DEF A
  <2>3. Len(rpcCalls') = n
    BY <1>1, <2>1
  <2>4. \A d \in Calls : d # c /\ d # e => CallOK(rpcCalls'[d]) /\ rpcCalls'[d] = R(d)
    BY <1>1, <2>1
  <2>5. SameCalls
    <3>1. IsSeq(rpcCalls')
      BY <1>1, <2>1, <2>3 DEF IsSeq
    <3> QED BY <3>1, <2>1, <2>2, <2>3, <2>4, <1>3 DEF SameCalls
  <2> QED BY <2>1, <2>2, <2>4, <2>5, <1>3, <1>5
<1> QED BY <1>4, <1>5 DEF Marks

\* What handleRpc does, in the terms of the invariant: the message is taken,
\* and what its function or callback gets is what is in it.
Handled(s) ==
    LET c == rpcWire[s][1].call
        msg == rpcWire[s][1].msg
        inner == IF name(msg) = "f" THEN msg ELSE stringArg(msg)
    IN  /\ name(msg) \in {"f", "rpc_reply"}
        /\ rpcCalls'[c].got = Append(rpcCalls[c].got, mapArg(inner, EmptyMap))
        /\ \A d \in Calls : d # c => rpcCalls'[d].got = rpcCalls[d].got

\* f is called, or the callback that an answer is for.
LEMMA HandleIs ==
    ASSUME NEW ids, RpcInvFor(ids), NEW s \in Sides, handleRpc(s)
    PROVE  /\ rpcWire[s] # <<>>
           /\ Taken(ids, s, rpcWire[s][1].call, rpcCalls[rpcWire[s][1].call].answers)
           /\ Handled(s)
<1>0. /\ CallsInv /\ IdsInv(ids) /\ TableInv(ids)
      /\ rpcWire[s] # <<>> /\ Head(rpcWire[s]) = rpcWire[s][1] /\ TravelsOK(ids, s, rpcWire[s][1])
  BY FirstIs DEF handleRpc, RpcInvFor
<1> DEFINE in == rpcWire[s][1]
           c == in.call
           msg == in.msg
           e == rpcCalls[c].answers
<1>1. c \in Calls /\ rpcCalls[c].ran = <<>> /\ MessageOK(ids, s, c, msg)
  BY <1>0 DEF TravelsOK
<1>2. /\ rpcWire' = [rpcWire EXCEPT ![s] = Tail(rpcWire[s])] /\ protocol' = protocol /\ mNextID' = mNextID
      /\ handleCall(s) \/ handleReply(s)
  BY DEF handleRpc
<1>3. \/ e = 0 /\ IsRequest(protocol, msg, ids[c], "f")
      \/ /\ e \in Open(s) /\ e \in Calls /\ e # 0 /\ e # c /\ rpcCalls[e].ran = <<>>
         /\ \E inner : /\ IsAnswer(protocol, msg, ids[e], inner)
                       /\ IsRequest(protocol, inner, ids[c], ToString(ids[e]))
  <2>1. e \in Nat /\ e < c
    BY <1>0, <1>1 DEF CallsInv, CallOK
  <2>2. \A d \in Open(s) : d \in Calls /\ d \in Nat \ {0} /\ rpcCalls[d].ran = <<>>
    BY <1>0 DEF Open, Calls, CallsInv, IsSeq
  <2> HIDE DEF c, msg
  <2>3. CASE e = 0 /\ IsRequest(protocol, msg, ids[c], "f")
    BY <2>3
  <2>4. CASE /\ e \in Open(s)
             /\ \E inner : /\ IsAnswer(protocol, msg, ids[e], inner)
                           /\ IsRequest(protocol, inner, ids[c], ToString(ids[e]))
    <3> HIDE DEF e
    <3>1. e \in Calls /\ e \in Nat \ {0} /\ rpcCalls[e].ran = <<>>
      BY <2>2, <2>4
    <3>2. e # 0 /\ e # c
      <4>1. c \in Int
        BY <1>1 DEF Calls
      <4> QED BY <2>1, <3>1, <4>1
    <3> QED BY <2>4, <3>1, <3>2
  <2>5. \/ e = 0 /\ IsRequest(protocol, msg, ids[c], "f")
        \/ /\ e \in Open(s)
           /\ \E inner : /\ IsAnswer(protocol, msg, ids[e], inner)
                         /\ IsRequest(protocol, inner, ids[c], ToString(ids[e]))
    BY <1>1, Zenon DEF MessageOK
  <2> QED BY <2>3, <2>4, <2>5
<1> HIDE DEF c, msg, e
<1>4. CASE e = 0 /\ IsRequest(protocol, msg, ids[c], "f")
  <2>1. name(msg) = "f" /\ req_id(msg) = ids[c]
    BY <1>4 DEF IsRequest, name, req_id
  <2>2. handleCall(s)
    BY <2>1, <1>0, <1>2 DEF handleReply, msg
  <2>3. /\ rpcCalls' = [rpcCalls EXCEPT ![c].got = Append(@, mapArg(msg, mTuple[s]))]
        /\ requests' = requests \cup Holding(s, ids[c], c)
        /\ mResponseCallbacks' = mResponseCallbacks /\ rpcBroken' = rpcBroken
    BY <2>1, <2>2, <1>0 DEF handleCall, msg, c
  <2>4. /\ SameCalls
        /\ \A d \in Calls : (d # e => rpcCalls'[d].ran = rpcCalls[d].ran) /\ (d = e => rpcCalls'[d].ran = <<c>>)
        /\ rpcCalls'[c].got = Append(rpcCalls[c].got, mapArg(msg, mTuple[s]))
        /\ \A d \in Calls : d # c => rpcCalls'[d].got = rpcCalls[d].got
    <3>1. Marks(c, mapArg(msg, mTuple[s]), e)
      BY <2>3, <1>4 DEF Marks
    <3> QED BY <3>1, <1>0, <1>1, MarkedIs
  <2>5. mapArg(msg, mTuple[s]) = mapArg(msg, EmptyMap)
    BY DEF mapArg, clear
  <2>6. Handled(s)
    BY <2>1, <2>4, <2>5 DEF Handled, c, msg
  <2>7. Taken(ids, s, c, e)
    BY <2>3, <2>4, <1>2, <1>4 DEF Taken, e
  <2> QED BY <2>6, <2>7, <1>0 DEF c, e
<1>5. ASSUME e \in Open(s), e \in Calls, e # 0, e # c, rpcCalls[e].ran = <<>>, NEW inner,
             IsAnswer(protocol, msg, ids[e], inner), IsRequest(protocol, inner, ids[c], ToString(ids[e]))
      PROVE  Taken(ids, s, c, e) /\ Handled(s)
  <2> DEFINE k0 == ToString(ids[e])
  <2>1. name(msg) = "rpc_reply" /\ intArg(msg) = ids[e] /\ stringArg(msg) = inner
    BY <1>5 DEF IsAnswer, name, intArg, stringArg
  <2>2. name(inner) = k0 /\ req_id(inner) = ids[c]
    BY <1>5 DEF IsRequest, name, req_id
  <2>3. handleReply(s)
    BY <2>1, <1>0, <1>2 DEF handleCall, msg
  <2>4. k0 \in DOMAIN mResponseCallbacks[s] /\ mResponseCallbacks[s][k0] = e
    BY <1>0, <1>5 DEF TableInv
  <2>5. /\ rpcCalls' = [rpcCalls EXCEPT ![c].got = Append(@, mapArg(inner, EmptyMap)), ![e].ran = Append(@, c)]
        /\ requests' = requests \cup Holding(s, ids[c], c) /\ rpcBroken' = rpcBroken
        /\ mResponseCallbacks' = [mResponseCallbacks EXCEPT ![s] = del(mResponseCallbacks[s], k0)]
    BY ZenonT(60), <2>1, <2>2, <2>3, <2>4, <1>0 DEF handleReply, msg, c
  <2>6. /\ SameCalls
        /\ \A d \in Calls : (d # e => rpcCalls'[d].ran = rpcCalls[d].ran) /\ (d = e => rpcCalls'[d].ran = <<c>>)
        /\ rpcCalls'[c].got = Append(rpcCalls[c].got, mapArg(inner, EmptyMap))
        /\ \A d \in Calls : d # c => rpcCalls'[d].got = rpcCalls[d].got
    <3>1. Marks(c, mapArg(inner, EmptyMap), e)
      BY <2>5, <1>5 DEF Marks
    <3> QED BY <3>1, <1>0, <1>1, MarkedIs
  <2>7. Handled(s)
    BY <2>1, <2>6 DEF Handled, c, msg
  <2>8. Taken(ids, s, c, e)
    BY <2>5, <2>6, <1>2, <1>5 DEF Taken, e
  <2> QED BY <2>7, <2>8
<1> QED BY <1>0, <1>3, <1>4, <1>5 DEF c, e

\* The call that is made gets its id.
LEMMA MakingKeeps ==
    ASSUME NEW ids, RpcInvFor(ids), NEW s \in Sides, NEW m \in RpcArgs, NEW cb \in BOOLEAN,
           NEW a, NEW msg, Making(s, m, cb, a, msg)
    PROVE  RpcInv'
<1>1. PICK n, id : n = Len(rpcCalls) /\ id = makeNextID(s, cb)
  OBVIOUS
<1>2. n \in Nat /\ Calls = 1..n
  BY <1>1 DEF RpcInvFor, CallsInv, IsSeq, Calls
<1> DEFINE ids2 == [d \in 1..(n + 1) |-> IF d = n + 1 THEN id ELSE ids[d]]
<1>3. (\A d \in Calls : ids2[d] = ids[d]) /\ ids2[n + 1] = id
  BY <1>2
<1> HIDE DEF ids2
<1>4. WithId(ids2, ids, makeNextID(s, cb))
  BY <1>1, <1>3 DEF WithId
<1>5. RpcInvFor(ids2)'
  BY <1>4, SentKeeps
<1> QED BY <1>5 DEF RpcInv

\* Every step keeps the invariant.
LEMMA RpcStep == RpcInv /\ [RpcNext]_rpcVars => RpcInv'
<1> SUFFICES ASSUME NEW ids, RpcInvFor(ids), [RpcNext]_rpcVars PROVE RpcInv'
  BY DEF RpcInv
<1>1. ASSUME NEW s \in Sides, NEW m \in RpcArgs, NEW callback \in BOOLEAN, call(s, m, callback) PROVE RpcInv'
  <2>1. PICK msg : msg = callMap(makeNextID(s, callback), "f", m)
    OBVIOUS
  <2>2. IsRequest(protocol, msg, makeNextID(s, callback), "f")
    BY <2>1, CallMapIs
  <2>3. Making(s, m, callback, 0, msg)
    BY <1>1, <2>1, <2>2 DEF Making, call
  <2> QED BY <2>3, MakingKeeps
<1>2. ASSUME NEW r \in requests, NEW m \in RpcArgs, NEW callback \in BOOLEAN, reply(r, m, callback)
      PROVE  RpcInv'
  <2>0. r.side \in Sides
    BY DEF RpcInvFor, HeldInv
  <2>1. PICK inner : inner = callMap(makeNextID(r.side, callback), ToString(r.id), m)
    OBVIOUS
  <2>2. PICK msg : msg = callReply(r.id, inner)
    OBVIOUS
  <2>3. IsRequest(protocol, inner, makeNextID(r.side, callback), ToString(r.id))
    BY <2>1, CallMapIs
  <2>4. IsAnswer(protocol, msg, r.id, inner)
    BY <2>2, CallReplyIs
  <2>5. Making(r.side, m, callback, r.call, msg)
    BY <1>2, <2>1, <2>2, <2>3, <2>4 DEF Making, reply
  <2> QED BY <2>0, <2>5, MakingKeeps
<1>3. ASSUME NEW s \in Sides, handleRpc(s) PROVE RpcInv'
  <2>1. rpcWire[s] # <<>> /\ Taken(ids, s, rpcWire[s][1].call, rpcCalls[rpcWire[s][1].call].answers)
    BY <1>3, HandleIs
  <2>2. PICK c, e : c = rpcWire[s][1].call /\ e = rpcCalls[c].answers
    OBVIOUS
  <2>3. Taken(ids, s, c, e)
    BY <2>1, <2>2
  <2>4. RpcInvFor(ids)'
    BY <2>1, <2>2, <2>3, TakenKeeps
  <2> QED BY <2>4 DEF RpcInv
<1>4. CASE UNCHANGED rpcVars
  <2> USE <1>4 DEF RpcInvFor, rpcVars
  <2>1. CallsInv' /\ IdsInv(ids)'
    BY DEF CallsInv, IdsInv, Calls
  <2>2. TableInv(ids)'
    BY DEF TableInv, Open, Calls
  <2>3. WireInv(ids)'
    BY DEF WireInv, TravelsOK, MessageOK, Unanswered, Open, Calls
  <2>4. HeldInv(ids)'
    BY DEF HeldInv, Unanswered, Open, Calls
  <2> QED BY <2>1, <2>2, <2>3, <2>4 DEF RpcInv
<1> QED BY <1>1, <1>2, <1>3, <1>4 DEF RpcNext

(***************************************************************************)
(* For every bound on the calls and every set of arguments, over both      *)
(* protocols: an answer runs the callback of the call it answers, once, a  *)
(* callback waits exactly until then, and no message names a function that *)
(* is not there (assert in FunctionMgr::execute).                          *)
(***************************************************************************)
THEOREM CallbacksMatched == RpcSpec => []AnswersFindTheirCall
  BY RpcStart, RpcStep, RpcImplies, PTL DEF RpcSpec

-----------------------------------------------------------------------------
\* The argument that a call message holds.
Carries(p, msg, m) ==
    IF p = "json" THEN readJson(msg.parm["0"], EmptyMap) = m
    ELSE ValueReadMap(msg, 2, EmptyMap).value = m

IsName(p, msg, nm) == IF p = "json" THEN msg.name = nm ELSE msg[2] = nm

\* The argument of the function, or in an answer that of the callback.
Delivers(p, msg, m) ==
    \/ IsName(p, msg, "f") /\ Carries(p, msg, m)
    \/ \E id, inner : IsAnswer(p, msg, id, inner) /\ Carries(p, inner, m)

\* A number is found again by its name.
LEMMA AtoiIs ==
    ASSUME NEW k \in Ints
    PROVE  atoi(ToString(k)) = k
  BY RpcNames DEF atoi

\* The object for a map has the keys' names, and is read as the map.
LEMMA JsonIs ==
    ASSUME NEW m \in RpcArgs
    PROVE  readJson(writeJson(m), EmptyMap) = m
<1>1. DOMAIN m \subseteq Ints /\ m = [k \in DOMAIN m |-> m[k]]
  BY RpcMaps
<1> DEFINE names == {ToString(k) : k \in DOMAIN m}
           obj == [n \in names |-> m[atoi(n)]]
           keys == {atoi(n) : n \in DOMAIN obj}
<1>2. writeJson(m) = obj /\ DOMAIN obj = names
  BY DEF writeJson
<1>3. \A k \in DOMAIN m : ToString(k) \in names /\ atoi(ToString(k)) = k
  BY <1>1, AtoiIs
<1>4. keys = DOMAIN m
  <2>1. \A n \in names : atoi(n) \in DOMAIN m
    BY <1>3
  <2> HIDE DEF names
  <2> QED BY <1>2, <1>3, <2>1
<1>5. \A k \in DOMAIN m : obj[ToString(k)] = m[k]
  BY <1>3
<1>6. DOMAIN EmptyMap = {}
  BY DEF EmptyMap
<1> HIDE DEF obj
<1>7. readJson(obj, EmptyMap) =
          [k \in keys \cup DOMAIN EmptyMap |-> IF k \in keys THEN obj[ToString(k)] ELSE EmptyMap[k]]
  BY DEF readJson
<1> HIDE DEF keys
<1>8. readJson(obj, EmptyMap) = [k \in DOMAIN m |-> m[k]]
  BY <1>4, <1>5, <1>6, <1>7
<1> QED BY <1>1, <1>2, <1>8

\* A call message holds the argument it was made with.
LEMMA CallMapCarries ==
    ASSUME NEW id \in {-1} \cup 1..MaxCalls, NEW nm \in {"f"} \cup {ToString(i) : i \in 1..MaxCalls},
           NEW m \in RpcArgs
    PROVE  Carries(protocol, callMap(id, nm, m), m)
<1>1. CASE protocol = "json"
  <2> DEFINE w == writeJson(m)
             parm == [n \in {"0"} |-> w]
  <2>1. callMap(id, nm, m) = [name |-> nm, parm |-> parm, req_id |-> id] /\ parm["0"] = w
    BY <1>1 DEF callMap
  <2>2. readJson(w, EmptyMap) = m
    BY JsonIs
  <2> HIDE DEF w, parm
  <2>3. callMap(id, nm, m).parm["0"] = w
    BY <2>1
  <2> QED BY <1>1, <2>2, <2>3 DEF Carries
<1>2. CASE protocol # "json"
  <2>1. callMap(id, nm, m) = <<id, nm>> \o ValueWriteMap(m)
    BY <1>2 DEF callMap
  <2>2. ValueReadMap(<<id, nm>> \o ValueWriteMap(m), 2, EmptyMap).value = m
    BY ReadsWritten
  <2> QED BY <1>2, <2>1, <2>2 DEF Carries
<1> QED BY <1>1, <1>2

\* Only what is not on the way has been got.
ArgInv ==
    /\ \A c \in Calls : rpcCalls[c].got = <<>> \/ rpcCalls[c].got = <<rpcCalls[c].arg>>
    /\ \A s \in Sides : \A i \in 1..Len(rpcWire[s]) :
         LET in == rpcWire[s][i]
         IN  rpcCalls[in.call].got = <<>> /\ Delivers(protocol, in.msg, rpcCalls[in.call].arg)

\* A call that is made is on the way, with its argument.
LEMMA MakingKeepsArgs ==
    ASSUME NEW ids, RpcInvFor(ids), ArgInv, NEW s \in Sides, NEW m \in RpcArgs, NEW cb \in BOOLEAN,
           NEW a, NEW msg, Making(s, m, cb, a, msg), Delivers(protocol, msg, m)
    PROVE  ArgInv'
<1> DEFINE n == Len(rpcCalls)
           rec == [by |-> s, arg |-> m, callback |-> cb, answers |-> a, got |-> <<>>, ran |-> <<>>]
           o == Other(s)
           q == rpcWire[o]
           new == [call |-> n + 1, msg |-> msg]
<1>0. CallsInv /\ WireInv(ids) /\ o \in Sides /\ protocol' = protocol
  BY DEF RpcInvFor, Sides, Other, Making
<1>1. /\ IsSeq(rpcCalls') /\ Len(rpcCalls') = n + 1 /\ n \in Nat
      /\ (\A c \in Calls : rpcCalls'[c] = rpcCalls[c]) /\ rpcCalls'[n + 1] = rec
  BY <1>0, PushIs DEF Making, Sent, CallsInv, Calls, IsSeq
<1>2. Calls' = Calls \cup {n + 1} /\ rec.got = <<>> /\ rec.arg = m
  BY <1>1 DEF Calls
<1>3. (\A t \in Sides : t # o => rpcWire'[t] = rpcWire[t]) /\ rpcWire'[o] = Append(q, new)
  BY <1>0 DEF WireInv, Making, Sent
<1>4. /\ Len(rpcWire'[o]) = Len(q) + 1 /\ Len(q) \in Nat
      /\ (\A i \in 1..Len(q) : rpcWire'[o][i] = q[i]) /\ rpcWire'[o][Len(q) + 1] = new
  BY <1>0, <1>3, PushIs DEF WireInv, IsSeq
<1>5. \A t \in Sides : \A i \in 1..Len(rpcWire[t]) : rpcWire[t][i].call \in Calls
  BY <1>0 DEF WireInv, TravelsOK
<1>6. new.call = n + 1 /\ new.msg = msg
  OBVIOUS
<1> HIDE DEF rec, new, q
<1>7. ASSUME NEW c \in Calls' PROVE rpcCalls'[c].got = <<>> \/ rpcCalls'[c].got = <<rpcCalls'[c].arg>>
  BY <1>1, <1>2 DEF ArgInv
<1>8. ASSUME NEW t \in Sides, NEW i \in 1..Len(rpcWire'[t])
      PROVE  /\ rpcCalls'[rpcWire'[t][i].call].got = <<>>
             /\ Delivers(protocol', rpcWire'[t][i].msg, rpcCalls'[rpcWire'[t][i].call].arg)
  <2>1. ASSUME NEW in, in \in {rpcWire[t][j] : j \in 1..Len(rpcWire[t])}
        PROVE  /\ rpcCalls'[in.call].got = <<>>
               /\ Delivers(protocol', in.msg, rpcCalls'[in.call].arg)
    <3>1. in.call \in Calls /\ rpcCalls'[in.call] = rpcCalls[in.call]
      BY <2>1, <1>1, <1>5
    <3>2. rpcCalls[in.call].got = <<>> /\ Delivers(protocol, in.msg, rpcCalls[in.call].arg)
      BY <2>1 DEF ArgInv
    <3> QED BY <3>1, <3>2, <1>0
  <2>2. CASE t # o
    BY <2>1, <2>2, <1>3
  <2>3. CASE t = o /\ i \in 1..Len(q)
    <3>1. rpcWire'[t][i] \in {rpcWire[t][j] : j \in 1..Len(rpcWire[t])}
      BY <2>3, <1>4 DEF q
    <3> QED BY <3>1, <2>1
  <2>4. CASE t = o /\ i \notin 1..Len(q)
    <3>1. i = Len(q) + 1
      BY <2>4, <1>4
    <3> QED BY <2>4, <3>1, <1>0, <1>1, <1>2, <1>4, <1>6
  <2> QED BY <2>2, <2>3, <2>4
<1> QED BY <1>7, <1>8 DEF ArgInv

\* Every step keeps it.
LEMMA ArgStep == RpcInv /\ ArgInv /\ [RpcNext]_rpcVars => ArgInv'
<1> SUFFICES ASSUME NEW ids, RpcInvFor(ids), ArgInv, [RpcNext]_rpcVars PROVE ArgInv'
  BY DEF RpcInv
<1>0. ASSUME NEW s \in Sides, NEW callback \in BOOLEAN, Len(rpcCalls) < MaxCalls
      PROVE  makeNextID(s, callback) \in {-1} \cup 1..MaxCalls
  <2>1. mNextID[s] \in Nat /\ mNextID[s] <= Len(rpcCalls) /\ Len(rpcCalls) \in Nat
    BY DEF RpcInvFor, IdsInv, CallsInv, IsSeq
  <2>2. mNextID[s] + 1 \in 1..MaxCalls
    BY <1>0, <2>1, RpcAssumption
  <2> QED BY <2>2 DEF makeNextID
<1>1. ASSUME NEW s \in Sides, NEW m \in RpcArgs, NEW callback \in BOOLEAN, call(s, m, callback) PROVE ArgInv'
  <2>1. PICK msg, id : id = makeNextID(s, callback) /\ msg = callMap(id, "f", m)
    OBVIOUS
  <2>2. IsRequest(protocol, msg, id, "f")
    BY <2>1, CallMapIs
  <2>3. Making(s, m, callback, 0, msg)
    BY <1>1, <2>1, <2>2 DEF Making, call
  <2>4. id \in {-1} \cup 1..MaxCalls
    BY <1>0, <1>1, <2>1 DEF call
  <2>5. Carries(protocol, msg, m)
    BY <2>1, <2>4, CallMapCarries
  <2>6. Delivers(protocol, msg, m)
    BY <2>2, <2>5 DEF Delivers, IsRequest, IsName
  <2> QED BY <2>3, <2>6, MakingKeepsArgs
<1>2. ASSUME NEW r \in requests, NEW m \in RpcArgs, NEW callback \in BOOLEAN, reply(r, m, callback)
      PROVE  ArgInv'
  <2>0. r.side \in Sides /\ r.id = ids[r.call] /\ r.call \in Open(Other(r.side))
    BY DEF RpcInvFor, HeldInv
  <2>1. PICK inner, id : id = makeNextID(r.side, callback) /\ inner = callMap(id, ToString(r.id), m)
    OBVIOUS
  <2>2. PICK msg : msg = callReply(r.id, inner)
    OBVIOUS
  <2>3. IsRequest(protocol, inner, id, ToString(r.id)) /\ IsAnswer(protocol, msg, r.id, inner)
    BY <2>1, <2>2, CallMapIs, CallReplyIs
  <2>4. Making(r.side, m, callback, r.call, msg)
    BY <1>2, <2>1, <2>2, <2>3 DEF Making, reply
  <2>5. id \in {-1} \cup 1..MaxCalls
    BY <1>0, <1>2, <2>0, <2>1 DEF reply
  <2>6. r.id \in 1..MaxCalls
    <3>1. r.call \in Calls /\ rpcCalls[r.call].callback /\ rpcCalls[r.call].by \in Sides
      BY <2>0 DEF Open, RpcInvFor, CallsInv, CallOK
    <3>2. PICK n : n = mNextID[rpcCalls[r.call].by]
      OBVIOUS
    <3>3. ids[r.call] \in 1..n /\ n \in Nat /\ n <= Len(rpcCalls)
      BY <3>1, <3>2 DEF RpcInvFor, IdsInv
    <3>4. Len(rpcCalls) \in Nat /\ Len(rpcCalls) <= MaxCalls
      BY DEF RpcInvFor, CallsInv, IsSeq
    <3> QED BY ONLY <2>0, <3>3, <3>4, RpcAssumption
  <2>7. Carries(protocol, inner, m)
    BY <2>1, <2>5, <2>6, CallMapCarries
  <2>8. Delivers(protocol, msg, m)
    BY <2>3, <2>7 DEF Delivers
  <2> QED BY <2>0, <2>4, <2>8, MakingKeepsArgs
<1>3. ASSUME NEW s \in Sides, handleRpc(s) PROVE ArgInv'
  <2>1. PICK c, e : c = rpcWire[s][1].call /\ e = rpcCalls[c].answers
    OBVIOUS
  <2>2. rpcWire[s] # <<>> /\ Taken(ids, s, c, e) /\ Handled(s)
    BY <1>3, <2>1, HandleIs
  <2> DEFINE q == rpcWire[s]
             msg == q[1].msg
             arg == rpcCalls[c].arg
  <2>3. /\ Len(q) \in Nat \ {0} /\ Len(Tail(q)) = Len(q) - 1
        /\ \A i \in 1..(Len(q) - 1) : i + 1 \in 1..Len(q) /\ Tail(q)[i] = q[i + 1]
        /\ TravelsOK(ids, s, q[1])
    BY <2>2, FirstIs
  <2>4. c \in Calls /\ rpcCalls[c].by = Other(s)
    BY <2>1, <2>3 DEF TravelsOK
  <2>5. rpcCalls[c].got = <<>> /\ Delivers(protocol, msg, arg)
    <3>1. 1 \in 1..Len(q)
      BY <2>3
    <3> QED BY <2>1, <3>1 DEF ArgInv
  <2>6. rpcCalls'[c].got = <<arg>> /\ \A d \in Calls : d # c => rpcCalls'[d].got = rpcCalls[d].got
    <3>1. PICK inner : inner = IF name(msg) = "f" THEN msg ELSE stringArg(msg)
      OBVIOUS
    <3>2. /\ name(msg) \in {"f", "rpc_reply"}
          /\ rpcCalls'[c].got = Append(rpcCalls[c].got, mapArg(inner, EmptyMap))
          /\ \A d \in Calls : d # c => rpcCalls'[d].got = rpcCalls[d].got
      BY <2>1, <2>2, <3>1 DEF Handled
    <3>3. Carries(protocol, inner, arg)
      <4>1. CASE IsName(protocol, msg, "f") /\ Carries(protocol, msg, arg)
        <5>1. name(msg) = "f"
          BY <4>1 DEF IsName, name
        <5> QED BY <5>1, <4>1, <3>1
      <4>2. ASSUME NEW id, NEW x, IsAnswer(protocol, msg, id, x), Carries(protocol, x, arg)
            PROVE  Carries(protocol, inner, arg)
        <5>1. name(msg) = "rpc_reply" /\ stringArg(msg) = x
          BY <4>2 DEF IsAnswer, name, stringArg
        <5>2. inner = x
          BY <5>1, <3>1
        <5> QED BY <5>2, <4>2
      <4> QED BY <4>1, <4>2, <2>5 DEF Delivers
    <3>4. mapArg(inner, EmptyMap) = arg
      BY <3>3 DEF Carries, mapArg, clear
    <3>5. Append(<<>>, arg) = <<arg>>
      OBVIOUS
    <3> QED BY <3>2, <3>4, <3>5, <2>5
  <2>7. SameCalls /\ protocol' = protocol /\ rpcWire' = [rpcWire EXCEPT ![s] = Tail(q)]
    BY <2>2 DEF Taken
  <2>8. Calls' = Calls /\ \A d \in Calls : rpcCalls'[d].arg = rpcCalls[d].arg
    BY <2>7 DEF SameCalls, Calls
  <2>9. ASSUME NEW d \in Calls' PROVE rpcCalls'[d].got = <<>> \/ rpcCalls'[d].got = <<rpcCalls'[d].arg>>
    BY <2>6, <2>8 DEF ArgInv
  <2>10. (\A t \in Sides : t # s => rpcWire'[t] = rpcWire[t]) /\ rpcWire'[s] = Tail(q)
    BY <2>7 DEF RpcInvFor, WireInv
  <2>11. ASSUME NEW t \in Sides, NEW i \in 1..Len(rpcWire[t]), t = s => i # 1
         PROVE  rpcWire[t][i].call \in Calls /\ rpcWire[t][i].call # c
    <3>1. TravelsOK(ids, t, rpcWire[t][i])
      BY DEF RpcInvFor, WireInv
    <3>2. rpcWire[t][i].call \in Calls /\ rpcCalls[rpcWire[t][i].call].by = Other(t)
      BY <3>1 DEF TravelsOK
    <3>3. CASE t = s
      <4>1. q[1].call < q[i].call
        BY <2>3, <2>11, <3>3 DEF RpcInvFor, WireInv
      <4>2. c \in Nat
        BY <2>4 DEF Calls
      <4> QED BY <4>1, <4>2, <3>2, <3>3, <2>1
    <3>4. CASE t # s
      <4>1. Other(t) # Other(s)
        BY <3>4 DEF Sides, Other
      <4> QED BY <4>1, <3>2, <2>4
    <3> QED BY <3>3, <3>4
  <2>12. ASSUME NEW t \in Sides, NEW i \in 1..Len(rpcWire[t]), t = s => i # 1
         PROVE  /\ rpcCalls'[rpcWire[t][i].call].got = <<>>
                /\ Delivers(protocol', rpcWire[t][i].msg, rpcCalls'[rpcWire[t][i].call].arg)
    <3>1. rpcWire[t][i].call \in Calls /\ rpcWire[t][i].call # c
      BY <2>11, <2>12
    <3>2. /\ rpcCalls[rpcWire[t][i].call].got = <<>>
          /\ Delivers(protocol, rpcWire[t][i].msg, rpcCalls[rpcWire[t][i].call].arg)
      BY DEF ArgInv
    <3> QED BY <3>1, <3>2, <2>6, <2>7, <2>8
  <2>13. ASSUME NEW t \in Sides, NEW i \in 1..Len(rpcWire'[t])
         PROVE  /\ rpcCalls'[rpcWire'[t][i].call].got = <<>>
                /\ Delivers(protocol', rpcWire'[t][i].msg, rpcCalls'[rpcWire'[t][i].call].arg)
    <3>1. CASE t # s
      BY <3>1, <2>10, <2>12
    <3>2. CASE t = s
      <4>1. i \in 1..(Len(q) - 1) /\ i + 1 \in 1..Len(q) /\ rpcWire'[s][i] = rpcWire[s][i + 1] /\ i + 1 # 1
        BY <3>2, <2>3, <2>10
      <4> QED BY <3>2, <4>1, <2>12
    <3> QED BY <3>1, <3>2
  <2> QED BY <2>9, <2>13 DEF ArgInv
<1>4. CASE UNCHANGED rpcVars
  BY <1>4 DEF ArgInv, rpcVars, Calls
<1> QED BY <1>1, <1>2, <1>3, <1>4 DEF RpcNext

(***************************************************************************)
(* For every bound on the calls and every set of maps as arguments: a      *)
(* function or a callback gets the argument its caller passed, once,       *)
(* although f keeps its argument object between calls.  Writing and        *)
(* reading a map, with JSON and with msgpack, is part of the proof.        *)
(***************************************************************************)
THEOREM ArgumentsKept == RpcSpec => []ArgumentsArrive
<1>1. RpcInit => ArgInv
  BY DEF RpcInit, ArgInv, Calls
<1>2. RpcInv /\ ArgInv => ArgumentsArrive
  <2> SUFFICES ASSUME RpcInv, ArgInv, NEW c \in DOMAIN rpcCalls
      PROVE  /\ Len(rpcCalls[c].got) <= 1
             /\ \A i \in DOMAIN rpcCalls[c].got : rpcCalls[c].got[i] = rpcCalls[c].arg
    BY DEF ArgumentsArrive
  <2>1. c \in Calls
    BY DEF RpcInv, RpcInvFor, CallsInv, IsSeq, Calls
  <2>2. CASE rpcCalls[c].got = <<>>
    BY <2>2
  <2>3. CASE rpcCalls[c].got = <<rpcCalls[c].arg>>
    BY <2>3
  <2> QED BY <2>1, <2>2, <2>3 DEF ArgInv
<1> QED BY <1>1, <1>2, RpcStart, RpcStep, ArgStep, PTL DEF RpcSpec

-----------------------------------------------------------------------------
(* Packets. *)

TwoTo32 == 65536 * 65536

\* It is a number.
LEMMA TwoTo32Is == TwoTo32 \in Nat
  BY SMT DEF TwoTo32

\* The integers of a type of w bytes.
FitsIn(v, w) == v \in Nat /\ w \in {1, 2, 4, 8} /\ InRange(v, w)

\* Dividing by the base leaves a digit.
LEMMA DivisionIs ==
    ASSUME NEW v \in Nat
    PROVE  v \div 256 \in Nat /\ v % 256 \in Nat /\ v = 256 * (v \div 256) + (v % 256)
  BY Z3

\* q has v and its quotients by the powers of 256.
IsQuotients(q, v) ==
    /\ q[1] = v /\ \A i \in 1..9 : q[i] \in Nat
    /\ \A i \in 1..8 : q[i] % 256 \in Nat /\ q[i] = 256 * q[i + 1] + (q[i] % 256)

\* What Quotients returns.
LEMMA QuotientsAre ==
    ASSUME NEW v \in Nat
    PROVE  IsQuotients(Quotients(v), v)
<1> DEFINE q0 == v
           q1 == q0 \div 256
           q2 == q1 \div 256
           q3 == q2 \div 256
           q4 == q3 \div 256
           q5 == q4 \div 256
           q6 == q5 \div 256
           q7 == q6 \div 256
           q8 == q7 \div 256
<1>1. Quotients(v) = <<q0, q1, q2, q3, q4, q5, q6, q7, q8>>
  BY ONLY Zenon DEF Quotients
<1>2. /\ q0 \in Nat /\ q0 = v /\ q1 = q0 \div 256 /\ q2 = q1 \div 256 /\ q3 = q2 \div 256 /\ q4 = q3 \div 256
      /\ q5 = q4 \div 256 /\ q6 = q5 \div 256 /\ q7 = q6 \div 256 /\ q8 = q7 \div 256
  BY ONLY Zenon, v \in Nat
<1> HIDE DEF q0, q1, q2, q3, q4, q5, q6, q7, q8
<1>3. PICK q : q = <<q0, q1, q2, q3, q4, q5, q6, q7, q8>>
  OBVIOUS
<1>4. /\ q[1] = q0 /\ q[2] = q1 /\ q[3] = q2 /\ q[4] = q3 /\ q[5] = q4
      /\ q[6] = q5 /\ q[7] = q6 /\ q[8] = q7 /\ q[9] = q8
  BY ONLY <1>3
<1>5. q1 \in Nat /\ q0 % 256 \in Nat /\ q0 = 256 * q1 + (q0 % 256)
  <2>1. q0 \in Nat
    BY ONLY ZenonT(60), <1>2
  <2>2. q0 \div 256 \in Nat /\ q0 % 256 \in Nat /\ q0 = 256 * (q0 \div 256) + (q0 % 256)
    BY ONLY ZenonT(60), <2>1, DivisionIs
  <2>3. q1 = q0 \div 256
    BY ONLY ZenonT(60), <1>2
  <2> QED BY ONLY ZenonT(60), <2>2, <2>3
<1>6. q2 \in Nat /\ q1 % 256 \in Nat /\ q1 = 256 * q2 + (q1 % 256)
  <2>1. q1 \in Nat
    BY ONLY ZenonT(60), <1>5
  <2>2. q1 \div 256 \in Nat /\ q1 % 256 \in Nat /\ q1 = 256 * (q1 \div 256) + (q1 % 256)
    BY ONLY ZenonT(60), <2>1, DivisionIs
  <2>3. q2 = q1 \div 256
    BY ONLY ZenonT(60), <1>2
  <2> QED BY ONLY ZenonT(60), <2>2, <2>3
<1>7. q3 \in Nat /\ q2 % 256 \in Nat /\ q2 = 256 * q3 + (q2 % 256)
  <2>1. q2 \in Nat
    BY ONLY ZenonT(60), <1>6
  <2>2. q2 \div 256 \in Nat /\ q2 % 256 \in Nat /\ q2 = 256 * (q2 \div 256) + (q2 % 256)
    BY ONLY ZenonT(60), <2>1, DivisionIs
  <2>3. q3 = q2 \div 256
    BY ONLY ZenonT(60), <1>2
  <2> QED BY ONLY ZenonT(60), <2>2, <2>3
<1>8. q4 \in Nat /\ q3 % 256 \in Nat /\ q3 = 256 * q4 + (q3 % 256)
  <2>1. q3 \in Nat
    BY ONLY ZenonT(60), <1>7
  <2>2. q3 \div 256 \in Nat /\ q3 % 256 \in Nat /\ q3 = 256 * (q3 \div 256) + (q3 % 256)
    BY ONLY ZenonT(60), <2>1, DivisionIs
  <2>3. q4 = q3 \div 256
    BY ONLY ZenonT(60), <1>2
  <2> QED BY ONLY ZenonT(60), <2>2, <2>3
<1>9. q5 \in Nat /\ q4 % 256 \in Nat /\ q4 = 256 * q5 + (q4 % 256)
  <2>1. q4 \in Nat
    BY ONLY ZenonT(60), <1>8
  <2>2. q4 \div 256 \in Nat /\ q4 % 256 \in Nat /\ q4 = 256 * (q4 \div 256) + (q4 % 256)
    BY ONLY ZenonT(60), <2>1, DivisionIs
  <2>3. q5 = q4 \div 256
    BY ONLY ZenonT(60), <1>2
  <2> QED BY ONLY ZenonT(60), <2>2, <2>3
<1>10. q6 \in Nat /\ q5 % 256 \in Nat /\ q5 = 256 * q6 + (q5 % 256)
  <2>1. q5 \in Nat
    BY ONLY ZenonT(60), <1>9
  <2>2. q5 \div 256 \in Nat /\ q5 % 256 \in Nat /\ q5 = 256 * (q5 \div 256) + (q5 % 256)
    BY ONLY ZenonT(60), <2>1, DivisionIs
  <2>3. q6 = q5 \div 256
    BY ONLY ZenonT(60), <1>2
  <2> QED BY ONLY ZenonT(60), <2>2, <2>3
<1>11. q7 \in Nat /\ q6 % 256 \in Nat /\ q6 = 256 * q7 + (q6 % 256)
  <2>1. q6 \in Nat
    BY ONLY ZenonT(60), <1>10
  <2>2. q6 \div 256 \in Nat /\ q6 % 256 \in Nat /\ q6 = 256 * (q6 \div 256) + (q6 % 256)
    BY ONLY ZenonT(60), <2>1, DivisionIs
  <2>3. q7 = q6 \div 256
    BY ONLY ZenonT(60), <1>2
  <2> QED BY ONLY ZenonT(60), <2>2, <2>3
<1>12. q8 \in Nat /\ q7 % 256 \in Nat /\ q7 = 256 * q8 + (q7 % 256)
  <2>1. q7 \in Nat
    BY ONLY ZenonT(60), <1>11
  <2>2. q7 \div 256 \in Nat /\ q7 % 256 \in Nat /\ q7 = 256 * (q7 \div 256) + (q7 % 256)
    BY ONLY ZenonT(60), <2>1, DivisionIs
  <2>3. q8 = q7 \div 256
    BY ONLY ZenonT(60), <1>2
  <2> QED BY ONLY ZenonT(60), <2>2, <2>3
<1>13. ASSUME NEW i \in 1..9 PROVE q[i] \in Nat
  <2>1. i \in {1, 2, 3, 4, 5, 6, 7, 8, 9}
    OBVIOUS
  <2>2. /\ q0 \in Nat /\ q1 \in Nat /\ q2 \in Nat /\ q3 \in Nat /\ q4 \in Nat
        /\ q5 \in Nat /\ q6 \in Nat /\ q7 \in Nat /\ q8 \in Nat
    BY ONLY ZenonT(60), <1>2, <1>5, <1>6, <1>7, <1>8, <1>9, <1>10, <1>11, <1>12
  <2> QED BY ONLY ZenonT(60), <2>1, <2>2, <1>4
<1>14. ASSUME NEW i \in 1..8 PROVE q[i] % 256 \in Nat /\ q[i] = 256 * q[i + 1] + (q[i] % 256)
  <2>1. CASE i = 1
    <3>1. i + 1 = 2
      BY ONLY <2>1
    <3> QED BY ONLY ZenonT(60), <3>1, <2>1, <1>4, <1>5
  <2>2. CASE i = 2
    <3>1. i + 1 = 3
      BY ONLY <2>2
    <3> QED BY ONLY ZenonT(60), <3>1, <2>2, <1>4, <1>6
  <2>3. CASE i = 3
    <3>1. i + 1 = 4
      BY ONLY <2>3
    <3> QED BY ONLY ZenonT(60), <3>1, <2>3, <1>4, <1>7
  <2>4. CASE i = 4
    <3>1. i + 1 = 5
      BY ONLY <2>4
    <3> QED BY ONLY ZenonT(60), <3>1, <2>4, <1>4, <1>8
  <2>5. CASE i = 5
    <3>1. i + 1 = 6
      BY ONLY <2>5
    <3> QED BY ONLY ZenonT(60), <3>1, <2>5, <1>4, <1>9
  <2>6. CASE i = 6
    <3>1. i + 1 = 7
      BY ONLY <2>6
    <3> QED BY ONLY ZenonT(60), <3>1, <2>6, <1>4, <1>10
  <2>7. CASE i = 7
    <3>1. i + 1 = 8
      BY ONLY <2>7
    <3> QED BY ONLY ZenonT(60), <3>1, <2>7, <1>4, <1>11
  <2>8. CASE i = 8
    <3>1. i + 1 = 9
      BY ONLY <2>8
    <3> QED BY ONLY ZenonT(60), <3>1, <2>8, <1>4, <1>12
  <2>9. i \in {1, 2, 3, 4, 5, 6, 7, 8}
    OBVIOUS
  <2> QED BY ONLY ZenonT(60), <2>1, <2>2, <2>3, <2>4, <2>5, <2>6, <2>7, <2>8, <2>9
<1>15. q[1] = v
  BY ONLY Zenon, <1>2, <1>4
<1>16. Quotients(v) = q
  BY ONLY Zenon, <1>1, <1>3
<1> QED BY <1>13, <1>14, <1>15, <1>16 DEF IsQuotients

\* A length below TwoTo32 fits in four bytes.
LEMMA LengthFits ==
    ASSUME NEW m \in Nat, m < TwoTo32
    PROVE  FitsIn(m, 4)
<1>1. PICK q : q = Quotients(m)
  OBVIOUS
<1>2. IsQuotients(q, m)
  BY <1>1, QuotientsAre
<1>3. PICK a, b, c, d : a = q[2] /\ b = q[3] /\ c = q[4] /\ d = q[5]
  OBVIOUS
<1>4. /\ a \in Nat /\ b \in Nat /\ c \in Nat /\ d \in Nat
      /\ m >= 256 * a /\ a >= 256 * b /\ b >= 256 * c /\ c >= 256 * d
  <2>1. \A i \in 1..8 : q[i] \in Nat /\ q[i + 1] \in Nat /\ q[i] >= 256 * q[i + 1]
    <3>1. ASSUME NEW i \in 1..8 PROVE q[i] \in Nat /\ q[i + 1] \in Nat /\ q[i] >= 256 * q[i + 1]
      <4>1. PICK j \in 1..9 : j = i + 1
        OBVIOUS
      <4>2. PICK x, y, z : x = q[i] /\ y = q[j] /\ z = q[i] % 256
        OBVIOUS
      <4>3. x \in Nat /\ y \in Nat /\ z \in Nat /\ x = 256 * y + z
        BY <1>2, <4>1, <4>2 DEF IsQuotients
      <4>4. x >= 256 * y
        BY ONLY <4>3
      <4> QED BY <4>1, <4>2, <4>3, <4>4
    <3> QED BY <3>1
  <2>2. q[1] = m
    BY <1>2 DEF IsQuotients
  <2>3. m >= 256 * q[1 + 1] /\ q[2] >= 256 * q[2 + 1] /\ q[3] >= 256 * q[3 + 1] /\ q[4] >= 256 * q[4 + 1]
    BY <2>1, <2>2
  <2>4. q[2] \in Nat /\ q[3] \in Nat /\ q[4] \in Nat /\ q[5] \in Nat
    BY <1>2 DEF IsQuotients
  <2> QED BY <1>3, <2>3, <2>4
<1>5. d = 0
  BY ONLY SMT, <1>4, m \in Nat, m < TwoTo32 DEF TwoTo32
<1>6. q[4 + 1] = 0
  <2>1. q[5] = 0 /\ 4 + 1 = 5
    BY ONLY <1>3, <1>5
  <2> QED BY ONLY Zenon, <2>1
<1> QED BY <1>1, <1>6 DEF FitsIn, InRange

\* A function from 1..n is a sequence.
LEMMA IsSequence ==
    ASSUME NEW S, NEW n \in Nat, NEW f \in [1..n -> S]
    PROVE  f \in Seq(S) /\ Len(f) = n /\ DOMAIN f = 1..n
  OBVIOUS

\* The bytes h are the w digits of the number with the quotients q.
IsDigits(h, q, w) ==
    /\ h \in Seq(Nat) /\ Len(h) = w /\ DOMAIN h = 1..w
    /\ \A i \in 1..w : h[i] = q[i] % 256

\* An integer as bytes: its digits to the base 256.
LEMMA HostIntIs ==
    ASSUME NEW v \in Nat, NEW w \in {1, 2, 4, 8}
    PROVE  IsDigits(HostInt(v, w), Quotients(v), w)
<1>1. PICK q, h : q = Quotients(v) /\ h = HostInt(v, w)
  OBVIOUS
<1>2. h = [i \in 1..w |-> q[i] % 256]
  BY <1>1 DEF HostInt
<1>3. w \in Nat /\ \A i \in 1..w : i \in 1..8
  OBVIOUS
<1>4. \A i \in 1..w : q[i] % 256 \in Nat
  <2>1. IsQuotients(q, v)
    BY <1>1, QuotientsAre
  <2>2. \A i \in 1..8 : q[i] % 256 \in Nat
    BY ONLY Zenon, <2>1 DEF IsQuotients
  <2> QED BY ONLY Zenon, <1>3, <2>2
<1>5. h \in [1..w -> Nat] /\ \A i \in 1..w : h[i] = q[i] % 256
  BY ONLY <1>2, <1>4
<1>6. h \in Seq(Nat) /\ Len(h) = w /\ DOMAIN h = 1..w
  BY <1>3, <1>5, IsSequence
<1> QED BY <1>1, <1>5, <1>6 DEF IsDigits

\* The bytes of an integer are read as this integer.
LEMMA HostValueIs ==
    ASSUME NEW v, NEW w, FitsIn(v, w)
    PROVE  HostValue(HostInt(v, w)) = v
<1>1. v \in Nat /\ w \in {1, 2, 4, 8} /\ InRange(v, w)
  BY DEF FitsIn
<1>2. PICK h, q : h = HostInt(v, w) /\ q = Quotients(v)
  OBVIOUS
<1>3. DOMAIN h = 1..w /\ \A i \in 1..w : h[i] = q[i] % 256
  <2>1. IsDigits(h, q, w)
    BY <1>1, <1>2, HostIntIs
  <2> QED BY <2>1 DEF IsDigits
<1>4. IsQuotients(q, v) /\ q[w + 1] = 0
  BY <1>1, <1>2, QuotientsAre DEF InRange
<1>5. q[1] = v /\ \A i \in 1..9 : q[i] \in Nat
  BY <1>4 DEF IsQuotients
<1> DEFINE at(i) == IF i \in DOMAIN h THEN h[i] ELSE 0
<1>6. HostValue(h) = at(1) + 256 * (at(2) + 256 * (at(3) + 256 * (at(4)
              + 256 * (at(5) + 256 * (at(6) + 256 * (at(7) + 256 * at(8)))))))
  BY DEF HostValue
<1>7. ASSUME NEW i \in 1..8, i <= w PROVE at(i) + 256 * q[i + 1] = q[i] /\ at(i) \in Nat
  <2>1. i \in 1..w /\ at(i) = q[i] % 256
    BY <1>1, <1>3, <1>7
  <2>2. PICK x, y, z : x = q[i] /\ y = q[i + 1] /\ z = q[i] % 256
    OBVIOUS
  <2>3. x \in Nat /\ z \in Nat /\ x = 256 * y + z /\ y \in Nat
    <3>1. i + 1 \in 1..9 /\ i \in 1..9
      OBVIOUS
    <3> QED BY <1>4, <1>5, <2>2, <3>1 DEF IsQuotients
  <2>4. z + 256 * y = x
    BY ONLY <2>3
  <2> HIDE DEF at
  <2> QED BY <2>1, <2>2, <2>3, <2>4
<1>8. ASSUME NEW i \in 1..8, i > w PROVE at(i) = 0
  BY <1>1, <1>3, <1>8
<1> HIDE DEF at
<1>9. CASE w = 1
  <2>1. at(1) + 256 * q[1 + 1] = q[1]
    BY <1>7, <1>9
  <2>2. /\ at(2) = 0 /\ at(3) = 0 /\ at(4) = 0 /\ at(5) = 0 /\ at(6) = 0 /\ at(7) = 0 /\ at(8) = 0
        /\ at(1) \in Nat
    BY <1>7, <1>8, <1>9
  <2>3. q[1 + 1] = 0 /\ q[1] = v
    BY <1>4, <1>5, <1>9
  <2> QED BY SMT, <1>2, <1>6, <2>1, <2>2, <2>3
<1>10. CASE w = 2
  <2>1. at(1) + 256 * q[2] = q[1] /\ at(2) + 256 * q[3] = q[2] /\ at(1) \in Nat /\ at(2) \in Nat
    <3>1. at(1) + 256 * q[1 + 1] = q[1] /\ at(2) + 256 * q[2 + 1] = q[2] /\ at(1) \in Nat /\ at(2) \in Nat
      BY <1>7, <1>10
    <3> QED BY <3>1
  <2>2. at(3) = 0 /\ at(4) = 0 /\ at(5) = 0 /\ at(6) = 0 /\ at(7) = 0 /\ at(8) = 0
    BY <1>8, <1>10
  <2>3. q[3] = 0 /\ q[1] = v
    BY <1>4, <1>5, <1>10
  <2> QED BY SMT, <1>2, <1>6, <2>1, <2>2, <2>3
<1>11. CASE w = 4
  <2>1. /\ at(1) + 256 * q[2] = q[1] /\ at(2) + 256 * q[3] = q[2] /\ at(1) \in Nat /\ at(2) \in Nat
        /\ at(3) + 256 * q[4] = q[3] /\ at(4) + 256 * q[5] = q[4] /\ at(3) \in Nat /\ at(4) \in Nat
    <3>1. /\ at(1) + 256 * q[1 + 1] = q[1] /\ at(2) + 256 * q[2 + 1] = q[2] /\ at(1) \in Nat /\ at(2) \in Nat
          /\ at(3) + 256 * q[3 + 1] = q[3] /\ at(4) + 256 * q[4 + 1] = q[4] /\ at(3) \in Nat /\ at(4) \in Nat
      BY <1>7, <1>11
    <3> QED BY <3>1
  <2>2. at(5) = 0 /\ at(6) = 0 /\ at(7) = 0 /\ at(8) = 0
    BY <1>8, <1>11
  <2>3. q[5] = 0 /\ q[1] = v /\ q[2] \in Nat /\ q[3] \in Nat /\ q[4] \in Nat
    BY <1>4, <1>5, <1>11
  <2> QED BY SMT, <1>2, <1>6, <2>1, <2>2, <2>3
<1>12. CASE w = 8
  <2>1. /\ at(1) + 256 * q[2] = q[1] /\ at(2) + 256 * q[3] = q[2] /\ at(1) \in Nat /\ at(2) \in Nat
        /\ at(3) + 256 * q[4] = q[3] /\ at(4) + 256 * q[5] = q[4] /\ at(3) \in Nat /\ at(4) \in Nat
        /\ at(5) + 256 * q[6] = q[5] /\ at(6) + 256 * q[7] = q[6] /\ at(5) \in Nat /\ at(6) \in Nat
        /\ at(7) + 256 * q[8] = q[7] /\ at(8) + 256 * q[9] = q[8] /\ at(7) \in Nat /\ at(8) \in Nat
    <3>1. /\ at(1) + 256 * q[1 + 1] = q[1] /\ at(2) + 256 * q[2 + 1] = q[2] /\ at(1) \in Nat /\ at(2) \in Nat
          /\ at(3) + 256 * q[3 + 1] = q[3] /\ at(4) + 256 * q[4 + 1] = q[4] /\ at(3) \in Nat /\ at(4) \in Nat
      BY <1>7, <1>12
    <3>2. /\ at(5) + 256 * q[5 + 1] = q[5] /\ at(6) + 256 * q[6 + 1] = q[6] /\ at(5) \in Nat /\ at(6) \in Nat
          /\ at(7) + 256 * q[7 + 1] = q[7] /\ at(8) + 256 * q[8 + 1] = q[8] /\ at(7) \in Nat /\ at(8) \in Nat
      BY <1>7, <1>12
    <3> QED BY <3>1, <3>2
  <2>2. q[9] = 0 /\ q[1] = v
    BY <1>4, <1>5, <1>12
  <2>3. at(8) = q[8]
    BY ONLY <2>1, <2>2
  <2> QED BY <1>2, <1>6, <2>1, <2>2, <2>3
<1> QED BY <1>1, <1>9, <1>10, <1>11, <1>12

\* Bytes in network order, and back.
LEMMA ReverseIs ==
    ASSUME NEW s \in Seq(Nat)
    PROVE  /\ Reverse(s) \in Seq(Nat) /\ Len(Reverse(s)) = Len(s)
           /\ Reverse(Reverse(s)) = s
<1>0. PICK n \in Nat : n = Len(s)
  OBVIOUS
<1>1. \A i \in 1..n : n - i + 1 \in 1..n /\ s[i] \in Nat /\ n - (n - i + 1) + 1 = i
  BY <1>0
<1>2. PICK r : r = [i \in 1..n |-> s[n - i + 1]]
  OBVIOUS
<1>3. r \in [1..n -> Nat] /\ \A i \in 1..n : r[i] = s[n - i + 1]
  BY <1>1, <1>2
<1>4. r \in Seq(Nat) /\ Len(r) = n
  BY <1>3, IsSequence
<1>5. r = Reverse(s)
  BY <1>0, <1>2 DEF Reverse
<1>6. PICK z : z = [i \in 1..n |-> r[n - i + 1]]
  OBVIOUS
<1>7. z = Reverse(r)
  BY <1>4, <1>6 DEF Reverse
<1>8. z = [i \in 1..n |-> s[i]]
  BY <1>1, <1>3, <1>6
<1>9. s = [i \in 1..n |-> s[i]]
  BY <1>0
<1> QED BY <1>0, <1>4, <1>5, <1>7, <1>8, <1>9

\* Converting twice changes nothing.
LEMMA NetworkIs ==
    ASSUME NEW s \in Seq(Nat), NEW b
    PROVE  /\ hostToNetwork(s, b) \in Seq(Nat) /\ Len(hostToNetwork(s, b)) = Len(s)
           /\ networkToHost(hostToNetwork(s, b), b) = s
  BY ReverseIs DEF hostToNetwork, networkToHost

\* A part of a buffer.
LEMMA PartIs ==
    ASSUME NEW b \in Seq(Nat), NEW at \in Nat, NEW k \in Nat, at + k <= Len(b)
    PROVE  /\ SubSeq(b, at + 1, at + k) \in Seq(Nat) /\ Len(SubSeq(b, at + 1, at + k)) = k
           /\ \A i \in 1..k : SubSeq(b, at + 1, at + k)[i] = b[at + i]
<1>1. PICK n \in Nat : n = Len(b)
  OBVIOUS
<1>2. PICK f : f = [i \in 1..k |-> b[at + i]]
  OBVIOUS
<1>3. \A i \in 1..k : at + i \in 1..n /\ b[at + i] \in Nat
  BY <1>1
<1>4. f \in [1..k -> Nat] /\ \A i \in 1..k : f[i] = b[at + i]
  BY <1>2, <1>3
<1>5. f \in Seq(Nat) /\ Len(f) = k
  BY <1>4, IsSequence
<1>6. SubSeq(b, at + 1, at + k) = f
  <2>1. (at + k) - (at + 1) + 1 = k /\ \A i \in 1..k : (at + 1) + i - 1 = at + i
    OBVIOUS
  <2>2. SubSeq(b, at + 1, at + k) = [i \in 1..((at + k) - (at + 1) + 1) |-> b[(at + 1) + i - 1]]
    BY Z3
  <2> QED BY <1>2, <2>1, <2>2
<1> QED BY <1>4, <1>5, <1>6

\* A packet being written: mPos is within the buffer.
PacketOK(p) ==
    /\ p \in [mBuffer : Seq(Nat), mPos : Nat, mIsFinish : BOOLEAN]
    /\ p.mPos <= Len(p.mBuffer)

\* The bytes are in buf behind the first at.
At(buf, at, bytes) ==
    /\ at + Len(bytes) <= Len(buf)
    /\ \A i \in 1..Len(bytes) : buf[at + i] = bytes[i]

\* What a write leaves: the bytes behind what was there.
Wrote(p, q, bytes) ==
    /\ PacketOK(q) /\ q.mIsFinish = p.mIsFinish
    /\ q.mPos = p.mPos + Len(bytes)
    /\ At(q.mBuffer, p.mPos, bytes)
    /\ \A i \in 1..p.mPos : q.mBuffer[i] = p.mBuffer[i]
    /\ p.mPos + Len(bytes) <= Len(p.mBuffer) => Len(q.mBuffer) = Len(p.mBuffer)

\* A write fits.
HasRoom(p, len) == mIsAutoMalloc \/ p.mPos + len <= Len(p.mBuffer)

\* memcpy changes the bytes it is given and no other.
LEMMA PutIs ==
    ASSUME NEW p, PacketOK(p), NEW at \in Nat, NEW bytes \in Seq(Nat),
           at + Len(bytes) <= Len(p.mBuffer)
    PROVE  /\ PacketOK(Put(p, at, bytes))
           /\ Put(p, at, bytes).mPos = p.mPos /\ Put(p, at, bytes).mIsFinish = p.mIsFinish
           /\ Len(Put(p, at, bytes).mBuffer) = Len(p.mBuffer)
           /\ At(Put(p, at, bytes).mBuffer, at, bytes)
           /\ \A i \in 1..Len(p.mBuffer) :
                i <= at \/ i > at + Len(bytes) => Put(p, at, bytes).mBuffer[i] = p.mBuffer[i]
<1>1. PICK n, m, b : n = Len(p.mBuffer) /\ m = Len(bytes) /\ b = p.mBuffer
  OBVIOUS
<1>2. n \in Nat /\ m \in Nat /\ b \in Seq(Nat) /\ DOMAIN b = 1..n /\ DOMAIN bytes = 1..m
      /\ p \in [mBuffer : Seq(Nat), mPos : Nat, mIsFinish : BOOLEAN] /\ p.mPos <= n /\ at + m <= n
  BY <1>1 DEF PacketOK
<1>3. PICK f : f = [i \in 1..n |-> IF i - at \in 1..m THEN bytes[i - at] ELSE b[i]]
  OBVIOUS
<1>4. Put(p, at, bytes) = [p EXCEPT !.mBuffer = f]
  BY <1>1, <1>2, <1>3 DEF Put
<1>5. f \in [1..n -> Nat]
  BY <1>2, <1>3
<1>6. f \in Seq(Nat) /\ Len(f) = n
  BY <1>2, <1>5, IsSequence
<1>7. \A i \in 1..m : at + i \in 1..n /\ (at + i) - at = i
  BY <1>2
<1>8. \A i \in 1..m : f[at + i] = bytes[i]
  BY <1>3, <1>7
<1>9. ASSUME NEW i \in 1..n, i <= at \/ i > at + m PROVE f[i] = b[i]
  BY <1>2, <1>3, <1>9
<1>10. PICK q : q = [p EXCEPT !.mBuffer = f]
  OBVIOUS
<1>11. q \in [mBuffer : Seq(Nat), mPos : Nat, mIsFinish : BOOLEAN]
       /\ q.mPos = p.mPos /\ q.mIsFinish = p.mIsFinish /\ q.mBuffer = f
  BY ONLY <1>2, <1>6, <1>10
<1>12. PacketOK(q) /\ At(q.mBuffer, at, bytes)
  BY <1>1, <1>2, <1>6, <1>8, <1>11 DEF PacketOK, At
<1> QED BY <1>1, <1>4, <1>6, <1>9, <1>10, <1>11, <1>12

\* A buffer that grows keeps what was written.
LEMMA GrowIs ==
    ASSUME NEW p, PacketOK(p), NEW len \in Nat
    PROVE  /\ PacketOK(growBuffer(p, len))
           /\ growBuffer(p, len).mPos = p.mPos /\ growBuffer(p, len).mIsFinish = p.mIsFinish
           /\ \A i \in 1..p.mPos : growBuffer(p, len).mBuffer[i] = p.mBuffer[i]
           /\ HasRoom(p, len) => p.mPos + len <= Len(growBuffer(p, len).mBuffer)
           /\ p.mPos + len <= Len(p.mBuffer) => growBuffer(p, len) = p
<1>1. PICK n, k, b : n = Len(p.mBuffer) /\ k = p.mPos /\ b = p.mBuffer
  OBVIOUS
<1>2. n \in Nat /\ k \in Nat /\ b \in Seq(Nat) /\ k <= n /\ Len(b) = n
      /\ p \in [mBuffer : Seq(Nat), mPos : Nat, mIsFinish : BOOLEAN]
  BY <1>1 DEF PacketOK
<1>3. CASE mIsAutoMalloc /\ k + len > n
  <2>1. PICK s, z : s = SubSeq(b, 1, k) /\ z = [i \in 1..(n + len - k) |-> 0]
    OBVIOUS
  <2>2. s \in Seq(Nat) /\ Len(s) = k /\ \A i \in 1..k : s[i] = b[i]
    <3>1. s = SubSeq(b, 0 + 1, 0 + k)
      BY <1>2, <2>1
    <3>2. s \in Seq(Nat) /\ Len(s) = k /\ \A i \in 1..k : s[i] = b[0 + i]
      BY ONLY <1>2, <3>1, PartIs
    <3> QED BY <3>2
  <2>3. n + len - k \in Nat /\ z \in [1..(n + len - k) -> Nat]
    BY <1>2, <2>1
  <2>4. z \in Seq(Nat) /\ Len(z) = n + len - k
    BY <2>3, IsSequence
  <2>5. PICK f : f = s \o z
    OBVIOUS
  <2>6. f \in Seq(Nat) /\ Len(f) = n + len /\ \A i \in 1..k : f[i] = b[i]
    <3>1. f \in Seq(Nat) /\ Len(f) = k + (n + len - k)
      BY <2>2, <2>4, <2>5, ConcatProperties
    <3>2. \A i \in 1..k : i \in 1..(k + (n + len - k))
      BY <2>3, <1>2
    <3>3. \A i \in 1..k : f[i] = s[i]
      BY <2>2, <2>4, <2>5, <3>2, ConcatProperties
    <3>4. k + (n + len - k) = n + len
      BY <1>2
    <3>5. Len(f) = n + len
      BY ONLY <3>1, <3>4
    <3>6. \A i \in 1..k : f[i] = b[i]
      BY ONLY <3>3, <2>2
    <3> QED BY <3>1, <3>5, <3>6
  <2>7. growBuffer(p, len) = [p EXCEPT !.mBuffer = f]
    BY <1>1, <1>3, <2>1, <2>5 DEF growBuffer, mMaxLen
  <2>8. PICK q : q = [p EXCEPT !.mBuffer = f]
    OBVIOUS
  <2>9. q \in [mBuffer : Seq(Nat), mPos : Nat, mIsFinish : BOOLEAN]
        /\ q.mPos = p.mPos /\ q.mIsFinish = p.mIsFinish /\ q.mBuffer = f
    BY ONLY <1>2, <2>6, <2>8
  <2>10. PacketOK(q)
    BY <1>1, <1>2, <2>6, <2>9 DEF PacketOK
  <2> QED BY <1>1, <1>2, <1>3, <2>6, <2>7, <2>8, <2>9, <2>10
<1>4. CASE ~ (mIsAutoMalloc /\ k + len > n)
  <2>1. growBuffer(p, len) = p
    BY <1>1, <1>4 DEF growBuffer, mMaxLen
  <2>2. HasRoom(p, len) => k + len <= n
    BY <1>1, <1>2, <1>4 DEF HasRoom
  <2> QED BY <2>1, <2>2, <1>1
<1> QED BY <1>3, <1>4

\* writeBuffer.
LEMMA WriteIs ==
    ASSUME NEW p, PacketOK(p), NEW bytes \in Seq(Nat), HasRoom(p, Len(bytes))
    PROVE  Wrote(p, writeBuffer(p, bytes), bytes)
<1>1. PICK m \in Nat : m = Len(bytes)
  OBVIOUS
<1>2. PICK g : g = growBuffer(p, m)
  OBVIOUS
<1>3. /\ PacketOK(g) /\ g.mPos = p.mPos /\ g.mIsFinish = p.mIsFinish
      /\ \A i \in 1..p.mPos : g.mBuffer[i] = p.mBuffer[i]
      /\ p.mPos + m <= Len(g.mBuffer)
      /\ p.mPos + m <= Len(p.mBuffer) => g = p
  BY <1>1, <1>2, GrowIs
<1>4. g.mPos \in Nat /\ p.mPos \in Nat /\ Len(g.mBuffer) \in Nat
  BY <1>3 DEF PacketOK
<1>5. PICK u : u = Put(g, g.mPos, bytes)
  OBVIOUS
<1>6. /\ PacketOK(u) /\ u.mPos = g.mPos /\ u.mIsFinish = g.mIsFinish
      /\ Len(u.mBuffer) = Len(g.mBuffer) /\ At(u.mBuffer, g.mPos, bytes)
      /\ \A i \in 1..Len(g.mBuffer) : i <= g.mPos \/ i > g.mPos + Len(bytes) => u.mBuffer[i] = g.mBuffer[i]
  <2>1. PICK at \in Nat : at = g.mPos
    BY <1>4
  <2>2. PacketOK(g) /\ at + Len(bytes) <= Len(g.mBuffer)
    BY <1>1, <1>3, <2>1
  <2>3. /\ PacketOK(Put(g, at, bytes))
        /\ Put(g, at, bytes).mPos = g.mPos /\ Put(g, at, bytes).mIsFinish = g.mIsFinish
        /\ Len(Put(g, at, bytes).mBuffer) = Len(g.mBuffer)
        /\ At(Put(g, at, bytes).mBuffer, at, bytes)
        /\ \A i \in 1..Len(g.mBuffer) :
             i <= at \/ i > at + Len(bytes) => Put(g, at, bytes).mBuffer[i] = g.mBuffer[i]
    BY ONLY <2>2, PutIs, bytes \in Seq(Nat), at \in Nat
  <2> QED BY ONLY <1>5, <2>1, <2>3
<1>7. PICK q : q = [u EXCEPT !.mPos = @ + m]
  OBVIOUS
<1>8. writeBuffer(p, bytes) = q
  BY <1>1, <1>2, <1>3, <1>5, <1>7 DEF writeBuffer, mMaxLen
<1>9. u \in [mBuffer : Seq(Nat), mPos : Nat, mIsFinish : BOOLEAN]
  BY <1>6 DEF PacketOK
<1>10. q \in [mBuffer : Seq(Nat), mPos : Nat, mIsFinish : BOOLEAN]
       /\ q.mPos = u.mPos + m /\ q.mIsFinish = u.mIsFinish /\ q.mBuffer = u.mBuffer
  <2>1. PICK N \in Nat : N = u.mPos + m
    BY <1>9
  <2>2. q = [u EXCEPT !.mPos = N]
    BY <1>7, <2>1
  <2> QED BY ONLY <1>9, <2>1, <2>2
<1>11. PacketOK(q)
  BY <1>3, <1>6, <1>10 DEF PacketOK
<1>12. \A i \in 1..p.mPos : i \in 1..Len(g.mBuffer) /\ i <= g.mPos
  BY <1>3, <1>4, <1>1
<1>13. \A i \in 1..p.mPos : q.mBuffer[i] = p.mBuffer[i]
  BY <1>3, <1>6, <1>10, <1>12
<1> QED BY <1>1, <1>3, <1>6, <1>8, <1>10, <1>11, <1>13 DEF Wrote

\* Bytes stay where the buffer does not change.
LEMMA AtKeeps ==
    ASSUME NEW b1, NEW b2 \in Seq(Nat), NEW at \in Nat, NEW bytes \in Seq(Nat), NEW n \in Nat,
           At(b1, at, bytes), \A i \in 1..n : i > at => b2[i] = b1[i],
           at + Len(bytes) <= n, n <= Len(b2)
    PROVE  At(b2, at, bytes)
<1>1. \A i \in 1..Len(bytes) : at + i \in 1..n /\ at + i > at
  OBVIOUS
<1>2. \A i \in 1..Len(bytes) : b2[at + i] = bytes[i]
  BY <1>1 DEF At
<1>3. at + Len(bytes) <= Len(b2)
  <2>1. Len(bytes) \in Nat /\ Len(b2) \in Nat
    OBVIOUS
  <2> QED BY <2>1
<1> QED BY ONLY <1>2, <1>3 DEF At

\* An integer as it lies in the packet, and read from there.
NetInt(v, w, b) == hostToNetwork(HostInt(v, w), b)

\* It has w bytes and is read as what it was written from.
LEMMA NetIntIs ==
    ASSUME NEW v \in Nat, NEW w \in {1, 2, 4, 8}, NEW b
    PROVE  /\ NetInt(v, w, b) \in Seq(Nat) /\ Len(NetInt(v, w, b)) = w
           /\ FitsIn(v, w) => HostValue(networkToHost(NetInt(v, w, b), b)) = v
<1>1. PICK h : h = HostInt(v, w)
  OBVIOUS
<1>2. h \in Seq(Nat) /\ Len(h) = w
  <2>1. IsDigits(h, Quotients(v), w)
    BY <1>1, HostIntIs
  <2> QED BY <2>1 DEF IsDigits
<1>3. /\ NetInt(v, w, b) \in Seq(Nat) /\ Len(NetInt(v, w, b)) = w
      /\ networkToHost(NetInt(v, w, b), b) = h
  BY <1>1, <1>2, NetworkIs DEF NetInt
<1>4. FitsIn(v, w) => HostValue(h) = v
  BY <1>1, HostValueIs
<1> QED BY <1>3, <1>4

\* What two writes leave.
WroteBoth(p, r, a, b) ==
    /\ PacketOK(r) /\ r.mIsFinish = p.mIsFinish /\ r.mPos = p.mPos + Len(a) + Len(b)
    /\ At(r.mBuffer, p.mPos, a) /\ At(r.mBuffer, p.mPos + Len(a), b)
    /\ \A i \in 1..p.mPos : r.mBuffer[i] = p.mBuffer[i]

\* A write behind a write.
LEMMA WroteTwice ==
    ASSUME NEW p, NEW q, NEW r, NEW a \in Seq(Nat), NEW b \in Seq(Nat),
           PacketOK(p), Wrote(p, q, a), Wrote(q, r, b)
    PROVE  WroteBoth(p, r, a, b)
<1>0. /\ PacketOK(q) /\ PacketOK(r) /\ q.mIsFinish = p.mIsFinish /\ r.mIsFinish = q.mIsFinish
      /\ q.mPos = p.mPos + Len(a) /\ r.mPos = q.mPos + Len(b)
  BY DEF Wrote
<1>1. /\ q.mPos \in Nat /\ p.mPos \in Nat /\ q.mPos = p.mPos + Len(a) /\ Len(a) \in Nat /\ Len(b) \in Nat
      /\ r.mBuffer \in Seq(Nat) /\ Len(r.mBuffer) \in Nat
  <2>1. q.mPos \in Nat /\ p.mPos \in Nat /\ r.mBuffer \in Seq(Nat)
    BY <1>0 DEF PacketOK
  <2> QED BY <1>0, <2>1
<1>2. r.mPos = q.mPos + Len(b) /\ r.mPos <= Len(r.mBuffer) /\ PacketOK(r) /\ r.mIsFinish = p.mIsFinish
  <2>1. r.mPos <= Len(r.mBuffer)
    BY <1>0 DEF PacketOK
  <2> QED BY <1>0, <2>1
<1>3. \A i \in 1..q.mPos : r.mBuffer[i] = q.mBuffer[i]
  BY DEF Wrote
<1>4. \A i \in 1..p.mPos : i \in 1..q.mPos
  BY <1>1
<1>5. \A i \in 1..p.mPos : q.mBuffer[i] = p.mBuffer[i]
  BY DEF Wrote
<1>6. At(q.mBuffer, p.mPos, a) /\ At(r.mBuffer, q.mPos, b)
  BY DEF Wrote
<1>7. p.mPos + Len(a) <= q.mPos /\ q.mPos <= Len(r.mBuffer)
  BY <1>1, <1>2
<1>8. At(r.mBuffer, p.mPos, a)
  BY <1>1, <1>3, <1>6, <1>7, AtKeeps
<1> QED BY <1>1, <1>2, <1>3, <1>4, <1>5, <1>6, <1>8 DEF WroteBoth

-----------------------------------------------------------------------------
IsBinary(f) == f.type \in {"binary", "pb"}

\* A field that is written: a string of bytes or an integer of its type.
FieldOK(f) ==
    IF IsBinary(f) THEN f.value \in Seq(Nat)
    ELSE f.type \in {"u8", "u16", "u32", "u64"} /\ FitsIn(f.value, Width[f.type])

FieldLen(f) == IF IsBinary(f) THEN 4 + Len(f.value) ELSE Width[f.type]

\* The field is in buf behind the first at bytes, in byte order b.
FieldAt(buf, at, f, b) ==
    IF IsBinary(f) THEN At(buf, at, NetInt(Len(f.value), 4, b)) /\ At(buf, at + 4, f.value)
    ELSE At(buf, at, NetInt(f.value, Width[f.type], b))

\* What writing a field leaves.
WroteField(p, q, f) ==
    /\ PacketOK(q) /\ q.mIsFinish = p.mIsFinish
    /\ q.mPos = p.mPos + FieldLen(f)
    /\ FieldAt(q.mBuffer, p.mPos, f, mBigEndian)
    /\ \A i \in 1..p.mPos : q.mBuffer[i] = p.mBuffer[i]

\* The widths of the integers.
LEMMA WidthIs ==
    /\ DOMAIN Width = {"u8", "u16", "u32", "u64"}
    /\ Width["u8"] = 1 /\ Width["u16"] = 2 /\ Width["u32"] = 4 /\ Width["u64"] = 8
    /\ \A t \in {"u8", "u16", "u32", "u64"} : Width[t] \in {1, 2, 4, 8}
  BY DEF Width

\* A field has a length.
LEMMA FieldLenIs ==
    ASSUME NEW f, FieldOK(f)
    PROVE  FieldLen(f) \in Nat /\ (IsBinary(f) => Len(f.value) \in Nat)
  BY WidthIs DEF FieldOK, FieldLen

\* writeInt.
LEMMA WriteIntIs ==
    ASSUME NEW p, PacketOK(p), NEW f, FieldOK(f), ~ IsBinary(f), HasRoom(p, Width[f.type])
    PROVE  WroteField(p, writeInt(p, f.value, Width[f.type]), f)
<1>1. f.value \in Nat /\ Width[f.type] \in {1, 2, 4, 8}
  BY WidthIs DEF FieldOK, FitsIn
<1>2. PICK a : a = NetInt(f.value, Width[f.type], mBigEndian)
  OBVIOUS
<1>3. a \in Seq(Nat) /\ Len(a) = Width[f.type]
  BY <1>1, <1>2, NetIntIs
<1>4. Wrote(p, writeBuffer(p, a), a)
  BY <1>3, WriteIs
<1>5. writeInt(p, f.value, Width[f.type]) = writeBuffer(p, a)
  BY <1>2 DEF writeInt, NetInt
<1> QED BY <1>2, <1>3, <1>4, <1>5 DEF Wrote, WroteField, FieldLen, FieldAt

\* The length that is written first.
LEMMA WriteLenIs ==
    ASSUME NEW p, PacketOK(p), NEW v \in Nat, NEW w \in {2, 4}, HasRoom(p, w)
    PROVE  /\ NetInt(v, w, mBigEndian) \in Seq(Nat) /\ Len(NetInt(v, w, mBigEndian)) = w
           /\ Wrote(p, writeInt(p, v, w), NetInt(v, w, mBigEndian))
<1>1. PICK a : a = NetInt(v, w, mBigEndian)
  OBVIOUS
<1>2. a \in Seq(Nat) /\ Len(a) = w
  BY <1>1, NetIntIs
<1>3. Wrote(p, writeBuffer(p, a), a)
  BY <1>2, WriteIs
<1>4. writeInt(p, v, w) = writeBuffer(p, a)
  BY <1>1 DEF writeInt, NetInt
<1> QED BY <1>1, <1>2, <1>3, <1>4

\* writeBinary: the length and the bytes, each with a write of its own.
LEMMA WriteBinaryIs ==
    ASSUME NEW p, PacketOK(p), NEW f, FieldOK(f), IsBinary(f), HasRoom(p, 4 + Len(f.value))
    PROVE  WroteField(p, writeBinary(p, f.value), f)
<1>1. PICK s \in Seq(Nat) : s = f.value
  BY DEF FieldOK
<1>2. PICK m \in Nat : m = Len(s)
  OBVIOUS
<1>3. HasRoom(p, 4 + m) /\ p.mPos \in Nat /\ Len(p.mBuffer) \in Nat
  BY <1>1, <1>2 DEF PacketOK
<1>4. HasRoom(p, 4)
  BY <1>3 DEF HasRoom
<1>5. PICK a, q : a = NetInt(m, 4, mBigEndian) /\ q = writeInt(p, m, 4)
  OBVIOUS
<1>6. a \in Seq(Nat) /\ Len(a) = 4 /\ Wrote(p, q, a)
  BY <1>4, <1>5, WriteLenIs
<1>7. PacketOK(q) /\ q.mPos = p.mPos + 4 /\ (p.mPos + 4 <= Len(p.mBuffer) => Len(q.mBuffer) = Len(p.mBuffer))
  BY <1>6 DEF Wrote
<1>8. HasRoom(q, m)
  BY <1>3, <1>7 DEF HasRoom
<1>9. PICK r : r = writeBuffer(q, s)
  OBVIOUS
<1>10. Wrote(q, r, s)
  BY <1>2, <1>7, <1>8, <1>9, WriteIs
<1>11. r = writeBinary(p, f.value)
  BY <1>1, <1>2, <1>5, <1>9 DEF writeBinary
<1>12. /\ PacketOK(r) /\ r.mIsFinish = p.mIsFinish /\ r.mPos = p.mPos + 4 + m
       /\ At(r.mBuffer, p.mPos, a) /\ At(r.mBuffer, p.mPos + 4, s)
       /\ \A i \in 1..p.mPos : r.mBuffer[i] = p.mBuffer[i]
  <2>1. WroteBoth(p, r, a, s)
    BY <1>6, <1>10, WroteTwice
  <2> QED BY <2>1, <1>2, <1>6 DEF WroteBoth
<1>13. r.mPos = p.mPos + FieldLen(f)
  <2>1. FieldLen(f) = 4 + m
    BY <1>1, <1>2 DEF FieldLen
  <2>2. PICK k, l : k = p.mPos /\ l = r.mPos
    OBVIOUS
  <2>3. k \in Nat /\ l = k + 4 + m
    BY <2>2, <1>3, <1>12
  <2>4. l = k + (4 + m)
    BY <2>3
  <2> QED BY <2>1, <2>2, <2>4
<1>14. FieldAt(r.mBuffer, p.mPos, f, mBigEndian)
  BY <1>1, <1>2, <1>5, <1>12 DEF FieldAt
<1> QED BY <1>11, <1>12, <1>13, <1>14 DEF WroteField

\* claimBinary: the buffer grows once, the user fills in the bytes.
LEMMA ClaimBinaryIs ==
    ASSUME NEW p, PacketOK(p), NEW f, FieldOK(f), IsBinary(f), HasRoom(p, 4 + Len(f.value))
    PROVE  WroteField(p, claimBinary(p, f.value), f)
<1>1. PICK s \in Seq(Nat) : s = f.value
  BY DEF FieldOK
<1>2. PICK m \in Nat : m = Len(s)
  OBVIOUS
<1>3. HasRoom(p, m + 4) /\ p.mPos \in Nat /\ Len(p.mBuffer) \in Nat
  <2>1. 4 + m = m + 4
    OBVIOUS
  <2> QED BY <1>1, <1>2, <2>1 DEF PacketOK
<1>4. PICK o : o = growBuffer(p, m + 4)
  OBVIOUS
<1>5. /\ PacketOK(o) /\ o.mPos = p.mPos /\ o.mIsFinish = p.mIsFinish
      /\ \A i \in 1..p.mPos : o.mBuffer[i] = p.mBuffer[i]
      /\ p.mPos + (m + 4) <= Len(o.mBuffer)
  <2>1. PICK l \in Nat : l = m + 4
    OBVIOUS
  <2>2. HasRoom(p, l) /\ o = growBuffer(p, l)
    BY <1>3, <1>4, <2>1
  <2>3. /\ PacketOK(o) /\ o.mPos = p.mPos /\ o.mIsFinish = p.mIsFinish
        /\ \A i \in 1..p.mPos : o.mBuffer[i] = p.mBuffer[i]
        /\ p.mPos + l <= Len(o.mBuffer)
    BY <2>2, GrowIs
  <2> QED BY <2>1, <2>3
<1>6. o.mPos + 4 <= Len(o.mBuffer) /\ HasRoom(o, 4) /\ Len(o.mBuffer) \in Nat
  <2>1. Len(o.mBuffer) \in Nat
    BY <1>5 DEF PacketOK
  <2> QED BY <2>1, <1>3, <1>5 DEF HasRoom
<1>7. PICK a, q : a = NetInt(m, 4, mBigEndian) /\ q = writeInt(o, m, 4)
  OBVIOUS
<1>8. a \in Seq(Nat) /\ Len(a) = 4 /\ Wrote(o, q, a)
  BY <1>5, <1>6, <1>7, WriteLenIs
<1>9. PacketOK(q) /\ q.mPos = o.mPos + 4 /\ Len(q.mBuffer) = Len(o.mBuffer)
  BY <1>6, <1>8 DEF Wrote
<1>10. q.mPos + Len(s) <= Len(q.mBuffer) /\ q.mPos \in Nat
  BY <1>2, <1>3, <1>5, <1>6, <1>9
<1>11. PICK u : u = Put(q, q.mPos, s)
  OBVIOUS
<1>12. /\ PacketOK(u) /\ u.mPos = q.mPos /\ u.mIsFinish = q.mIsFinish
       /\ Len(u.mBuffer) = Len(q.mBuffer) /\ At(u.mBuffer, q.mPos, s)
       /\ \A i \in 1..Len(q.mBuffer) : i <= q.mPos \/ i > q.mPos + Len(s) => u.mBuffer[i] = q.mBuffer[i]
  BY <1>9, <1>10, <1>11, PutIs
<1>13. PICK N \in Nat : N = u.mPos + m
  BY <1>10, <1>12
<1>14. PICK r : r = [u EXCEPT !.mPos = N]
  OBVIOUS
<1>15. r = claimBinary(p, f.value)
  BY <1>1, <1>2, <1>4, <1>7, <1>11, <1>13, <1>14 DEF claimBinary
<1>16. u \in [mBuffer : Seq(Nat), mPos : Nat, mIsFinish : BOOLEAN]
  BY <1>12 DEF PacketOK
<1>17. r \in [mBuffer : Seq(Nat), mPos : Nat, mIsFinish : BOOLEAN]
       /\ r.mPos = N /\ r.mIsFinish = u.mIsFinish /\ r.mBuffer = u.mBuffer
  BY ONLY <1>13, <1>14, <1>16
<1>18. Wrote(q, r, s)
  <2>1. PacketOK(r)
    BY <1>2, <1>10, <1>12, <1>13, <1>17 DEF PacketOK
  <2>2. \A i \in 1..q.mPos : i \in 1..Len(q.mBuffer) /\ i <= q.mPos
    BY <1>2, <1>6, <1>9, <1>10
  <2>3. \A i \in 1..q.mPos : r.mBuffer[i] = q.mBuffer[i]
    BY <1>12, <1>17, <2>2
  <2> QED BY <2>1, <2>3, <1>2, <1>12, <1>13, <1>17 DEF Wrote
<1>19. /\ PacketOK(r) /\ r.mIsFinish = o.mIsFinish /\ r.mPos = o.mPos + 4 + m
       /\ At(r.mBuffer, o.mPos, a) /\ At(r.mBuffer, o.mPos + 4, s)
       /\ \A i \in 1..o.mPos : r.mBuffer[i] = o.mBuffer[i]
  <2>1. WroteBoth(o, r, a, s)
    BY <1>5, <1>8, <1>18, WroteTwice
  <2> QED BY <2>1, <1>2, <1>8 DEF WroteBoth
<1>20. r.mPos = p.mPos + FieldLen(f)
  <2>1. FieldLen(f) = 4 + m
    BY <1>1, <1>2 DEF FieldLen
  <2>2. PICK k, l : k = p.mPos /\ l = r.mPos
    OBVIOUS
  <2>3. k \in Nat /\ l = k + 4 + m
    BY <2>2, <1>3, <1>5, <1>19
  <2>4. l = k + (4 + m)
    BY <2>3
  <2> QED BY <2>1, <2>2, <2>4
<1>21. FieldAt(r.mBuffer, p.mPos, f, mBigEndian)
  BY <1>1, <1>2, <1>5, <1>7, <1>19 DEF FieldAt
<1> QED BY <1>5, <1>15, <1>19, <1>20, <1>21 DEF WroteField

-----------------------------------------------------------------------------
\* Bytes that lie somewhere are read from there.
LEMMA ReadPartIs ==
    ASSUME NEW b \in Seq(Nat), NEW k \in Nat, NEW s \in Seq(Nat), At(b, k, s)
    PROVE  SubSeq(b, k + 1, k + Len(s)) = s
<1>1. PICK m \in Nat : m = Len(s)
  OBVIOUS
<1>2. k + m <= Len(b) /\ \A i \in 1..m : b[k + i] = s[i]
  BY <1>1 DEF At
<1>3. PICK c : c = SubSeq(b, k + 1, k + m)
  OBVIOUS
<1>4. c \in Seq(Nat) /\ Len(c) = m /\ \A i \in 1..m : c[i] = b[k + i]
  BY <1>2, <1>3, PartIs
<1>5. \A i \in 1..m : c[i] = s[i]
  BY <1>2, <1>4
<1>6. c = [i \in 1..m |-> c[i]] /\ s = [i \in 1..m |-> s[i]]
  BY <1>1, <1>4
<1>7. c = s
  BY <1>5, <1>6
<1> QED BY <1>1, <1>3, <1>7

\* An integer in the packet is read as what was written.
LEMMA ReadIntIs ==
    ASSUME NEW k \in Nat, NEW n \in Nat, NEW w \in {1, 2, 4, 8}, NEW v, FitsIn(v, w), k + w <= n,
           writer.mBuffer \in Seq(Nat), At(writer.mBuffer, k, NetInt(v, w, mBigEndian))
    PROVE  readInt([mPos |-> k, mMaxLen |-> n], w) =
               [value |-> v, at |-> [mPos |-> k + w, mMaxLen |-> n]]
<1>1. v \in Nat
  BY DEF FitsIn
<1>2. PICK a : a = NetInt(v, w, mBigEndian)
  OBVIOUS
<1>3. a \in Seq(Nat) /\ Len(a) = w /\ HostValue(networkToHost(a, mBigEndian)) = v
  BY <1>1, <1>2, NetIntIs
<1>4. SubSeq(writer.mBuffer, k + 1, k + w) = a
  BY <1>2, <1>3, ReadPartIs
<1>5. PICK r : r = [mPos |-> k, mMaxLen |-> n]
  OBVIOUS
<1>6. r.mPos = k /\ r.mMaxLen = n /\ [r EXCEPT !.mPos = @ + w] = [mPos |-> k + w, mMaxLen |-> n]
  BY <1>5
<1>7. readInt(r, w) = [value |-> v, at |-> [mPos |-> k + w, mMaxLen |-> n]]
  BY <1>3, <1>4, <1>6 DEF readInt
<1> QED BY <1>5, <1>7

\* The same for a string; an empty one may not be wanted.
LEMMA ReadStringIs ==
    ASSUME NEW k \in Nat, NEW n \in Nat, NEW s \in Seq(Nat), FitsIn(Len(s), 4), k + 4 + Len(s) <= n,
           NEW least \in {0, 1}, NEW failed,
           writer.mBuffer \in Seq(Nat), At(writer.mBuffer, k, NetInt(Len(s), 4, mBigEndian)),
           At(writer.mBuffer, k + 4, s)
    PROVE  readString([mPos |-> k, mMaxLen |-> n], least, failed) =
               [value |-> IF Len(s) >= least THEN s ELSE failed,
                at |-> [mPos |-> k + 4 + Len(s), mMaxLen |-> n]]
<1>1. PICK m \in Nat : m = Len(s)
  OBVIOUS
<1>2. PICK r, r1 : r = [mPos |-> k, mMaxLen |-> n] /\ r1 = [mPos |-> k + 4, mMaxLen |-> n]
  OBVIOUS
<1>3. readInt(r, 4) = [value |-> m, at |-> r1]
  <2>1. k + 4 <= n /\ 4 \in {1, 2, 4, 8}
    BY <1>1
  <2> QED BY SMTT(60), <1>1, <1>2, <2>1, ReadIntIs
<1>4. SubSeq(writer.mBuffer, k + 4 + 1, k + 4 + m) = s
  <2>1. k + 4 \in Nat
    OBVIOUS
  <2> QED BY <1>1, <2>1, ReadPartIs
<1>5. r1.mPos = k + 4 /\ r1.mMaxLen = n
      /\ [r1 EXCEPT !.mPos = @ + m] = [mPos |-> k + 4 + m, mMaxLen |-> n]
  BY <1>2
<1>6. readInt(r, 4).value = m /\ readInt(r, 4).at = r1
  BY <1>3
<1>7. k + 4 + m <= n
  BY <1>1
<1>8. CASE m >= least
  <2>1. readString(r, least, failed) = [value |-> s, at |-> [mPos |-> k + 4 + m, mMaxLen |-> n]]
    BY ONLY <1>4, <1>5, <1>6, <1>7, <1>8 DEF readString
  <2> QED BY <1>1, <1>2, <1>8, <2>1
<1>9. CASE ~ (m >= least)
  <2>1. m = 0
    BY <1>9
  <2>2. r1 = [mPos |-> k + 4 + m, mMaxLen |-> n]
    BY <1>2, <2>1
  <2>3. readString(r, least, failed) = [value |-> failed, at |-> r1]
    BY ONLY <1>6, <1>9 DEF readString
  <2> QED BY <1>1, <1>2, <1>9, <2>2, <2>3
<1> QED BY <1>8, <1>9

\* What a field is read as.
ReadValue(f) == IF EmptyMessage(f) THEN NoMessage ELSE f.value

\* What reads a string or a message.
ReadBytes(f, r) == IF f.type = "binary" THEN readBinary(r) ELSE deserializePBMsgToPacket(r)

\* The string or message f is in the packet behind the first k of n bytes.
BytesLie(k, n, f) ==
    /\ k \in Nat /\ n \in Nat /\ IsBinary(f) /\ f.value \in Seq(Nat) /\ FitsIn(Len(f.value), 4)
    /\ k + 4 + Len(f.value) <= n /\ writer.mBuffer \in Seq(Nat)
    /\ At(writer.mBuffer, k, NetInt(Len(f.value), 4, mBigEndian)) /\ At(writer.mBuffer, k + 4, f.value)

\* The string and the message of a packet.
LEMMA ReadBinaryIs ==
    ASSUME NEW k, NEW n, NEW f, BytesLie(k, n, f)
    PROVE  ReadBytes(f, [mPos |-> k, mMaxLen |-> n]) =
               [value |-> ReadValue(f), at |-> [mPos |-> k + 4 + Len(f.value), mMaxLen |-> n]]
<1>1. PICK s \in Seq(Nat) : s = f.value
  BY DEF BytesLie
<1>2. PICK r, o : r = [mPos |-> k, mMaxLen |-> n] /\ o = [mPos |-> k + 4 + Len(s), mMaxLen |-> n]
  OBVIOUS
<1>3. ASSUME NEW least \in {0, 1}, NEW failed
      PROVE  readString(r, least, failed) = [value |-> IF Len(s) >= least THEN s ELSE failed, at |-> o]
  <2>1. /\ FitsIn(Len(s), 4) /\ k + 4 + Len(s) <= n /\ At(writer.mBuffer, k, NetInt(Len(s), 4, mBigEndian))
        /\ At(writer.mBuffer, k + 4, s) /\ k \in Nat /\ n \in Nat /\ writer.mBuffer \in Seq(Nat)
    BY <1>1 DEF BytesLie
  <2>2. readString([mPos |-> k, mMaxLen |-> n], least, failed) =
               [value |-> IF Len(s) >= least THEN s ELSE failed,
                at |-> [mPos |-> k + 4 + Len(s), mMaxLen |-> n]]
    BY ONLY <2>1, ReadStringIs, s \in Seq(Nat), least \in {0, 1}
  <2> QED BY <1>2, <2>2
<1>4. Len(s) \in Nat /\ (s = <<>> <=> Len(s) = 0)
  OBVIOUS
<1>5. CASE f.type = "binary"
  <2>1. ReadValue(f) = s
    BY <1>1, <1>5 DEF ReadValue, EmptyMessage
  <2>2. readBinary(r) = [value |-> s, at |-> o]
    BY <1>3, <1>4 DEF readBinary
  <2> QED BY <1>1, <1>2, <1>5, <2>1, <2>2 DEF ReadBytes
<1>6. CASE f.type = "pb"
  <2>1. Len(s) >= 1 <=> s # <<>>
    BY <1>4
  <2>2. ReadValue(f) = IF Len(s) >= 1 THEN s ELSE NoMessage
    BY <1>1, <1>6, <2>1 DEF ReadValue, EmptyMessage
  <2>3. deserializePBMsgToPacket(r) = [value |-> ReadValue(f), at |-> o]
    BY <1>3, <2>2 DEF deserializePBMsgToPacket
  <2> QED BY <1>1, <1>2, <1>6, <2>3 DEF ReadBytes
<1> QED BY <1>5, <1>6 DEF IsBinary, BytesLie

\* A field stays where the buffer does not change.
LEMMA FieldKeeps ==
    ASSUME NEW b1, NEW b2 \in Seq(Nat), NEW at \in Nat, NEW f, FieldOK(f), NEW b, NEW n \in Nat,
           FieldAt(b1, at, f, b), \A i \in 1..n : i > at => b2[i] = b1[i],
           at + FieldLen(f) <= n, n <= Len(b2)
    PROVE  FieldAt(b2, at, f, b)
<1>1. CASE IsBinary(f)
  <2>1. PICK s \in Seq(Nat) : s = f.value
    BY <1>1 DEF FieldOK
  <2>2. PICK m \in Nat : m = Len(s)
    OBVIOUS
  <2>3. PICK a : a = NetInt(m, 4, b)
    OBVIOUS
  <2>4. a \in Seq(Nat) /\ Len(a) = 4
    BY <2>3, NetIntIs
  <2>5. At(b1, at, a) /\ At(b1, at + 4, s) /\ FieldLen(f) = 4 + m
    BY <1>1, <2>1, <2>2, <2>3 DEF FieldAt, FieldLen
  <2>6. at + 4 <= n /\ at + 4 + m <= n /\ at + 4 \in Nat
    BY SMTT(60), <2>5
  <2>7. At(b2, at, a)
    BY <2>4, <2>5, <2>6, AtKeeps
  <2>8. \A i \in 1..n : i > at + 4 => b2[i] = b1[i]
    OBVIOUS
  <2>9. At(b2, at + 4, s)
    BY <2>2, <2>5, <2>6, <2>8, AtKeeps
  <2> QED BY <1>1, <2>1, <2>2, <2>3, <2>7, <2>9 DEF FieldAt
<1>2. CASE ~ IsBinary(f)
  <2>1. f.value \in Nat /\ Width[f.type] \in {1, 2, 4, 8}
    BY <1>2, WidthIs DEF FieldOK, FitsIn
  <2>2. PICK a : a = NetInt(f.value, Width[f.type], b)
    OBVIOUS
  <2>3. a \in Seq(Nat) /\ Len(a) = Width[f.type]
    BY <2>1, <2>2, NetIntIs
  <2>4. At(b1, at, a) /\ at + Len(a) <= n
    BY <1>2, <2>2, <2>3 DEF FieldAt, FieldLen
  <2>5. At(b2, at, a)
    BY <2>3, <2>4, AtKeeps
  <2> QED BY <1>2, <2>2, <2>5 DEF FieldAt
<1> QED BY <1>1, <1>2

-----------------------------------------------------------------------------
\* Behind the opcode the fields fs lie in w one behind the other; field i
\* ends at pos[i].
Layout(pos, w, fs, b) ==
    /\ PacketOK(w) /\ IsSeq(fs) /\ At(w.mBuffer, 4, NetInt(1, 2, b))
    /\ pos[0] = PACKET_HEAD_LEN /\ pos[Len(fs)] = w.mPos
    /\ \A i \in 0..Len(fs) : pos[i] \in Nat /\ pos[i] >= PACKET_HEAD_LEN /\ pos[i] <= w.mPos
    /\ \A i \in 1..Len(fs) :
         /\ FieldOK(fs[i]) /\ pos[i] = pos[i - 1] + FieldLen(fs[i])
         /\ FieldAt(w.mBuffer, pos[i - 1], fs[i], b)

\* The reader has read some of the fields and stands behind the last of them.
ReadsOK(pos) ==
    /\ IsSeq(fieldsRead) /\ Len(fieldsRead) <= Len(fields)
    /\ \A i \in 1..Len(fieldsRead) : fieldsRead[i] = ReadValue(fields[i])
    /\ writer.mIsFinish =>
         /\ reader = [mPos |-> IF head = <<>> THEN 0 ELSE pos[Len(fieldsRead)], mMaxLen |-> writer.mPos]
         /\ At(writer.mBuffer, 0, NetInt(writer.mPos, 4, TRUE))
    /\ ~ writer.mIsFinish => head = <<>>
    /\ head = <<>> => fieldsRead = <<>>
    /\ head # <<>> => head[2] = 1 /\ (mBigEndian => head[1] = writer.mPos)

PacketInv == \E pos : Layout(pos, writer, fields, mBigEndian) /\ ReadsOK(pos)

\* The length of the packet fits in the uint32_t in front.
PacketFits == writer.mPos < TwoTo32

\* The new packet holds its head.
LEMMA PacketStart ==
    ASSUME PacketInit
    PROVE  PacketInv
<1>1. PICK p : p = [mBuffer |-> [i \in 1..PacketSize |-> 0], mPos |-> 0, mIsFinish |-> FALSE]
  OBVIOUS
<1>2. writer = setOP(p, 1) /\ fields = <<>> /\ fieldsRead = <<>> /\ head = <<>>
  BY <1>1 DEF PacketInit
<1>3. PacketSize \in Nat /\ PacketSize >= 6
  BY PacketAssumption DEF PACKET_HEAD_LEN
<1>4. PICK z : z = [i \in 1..PacketSize |-> 0]
  OBVIOUS
<1>5. z \in [1..PacketSize -> Nat]
  BY <1>4
<1>6. z \in Seq(Nat) /\ Len(z) = PacketSize
  BY <1>3, <1>5, IsSequence
<1>7. PacketOK(p) /\ p.mPos = 0 /\ p.mIsFinish = FALSE /\ Len(p.mBuffer) = PacketSize
  BY <1>1, <1>3, <1>4, <1>6 DEF PacketOK
<1>8. PICK q, a : q = writeInt(p, 6, 4) /\ a = NetInt(6, 4, mBigEndian)
  OBVIOUS
<1>9. a \in Seq(Nat) /\ Len(a) = 4 /\ Wrote(p, q, a)
  <2>1. HasRoom(p, 4)
    BY <1>3, <1>7 DEF HasRoom
  <2> QED BY <1>7, <1>8, <2>1, WriteLenIs
<1>10. PacketOK(q) /\ q.mPos = 4 /\ Len(q.mBuffer) = PacketSize
  BY <1>3, <1>7, <1>9 DEF Wrote
<1>11. PICK c : c = NetInt(1, 2, mBigEndian)
  OBVIOUS
<1>12. c \in Seq(Nat) /\ Len(c) = 2 /\ Wrote(q, writer, c)
  <2>1. HasRoom(q, 2)
    BY <1>3, <1>10 DEF HasRoom
  <2>2. writer = writeInt(q, 1, 2)
    BY <1>2, <1>8 DEF setOP, PACKET_HEAD_LEN
  <2> QED BY <1>10, <1>11, <2>1, <2>2, WriteLenIs
<1>13. WroteBoth(p, writer, a, c)
  BY <1>7, <1>9, <1>12, WroteTwice
<1>14. PacketOK(writer) /\ writer.mPos = 6 /\ writer.mIsFinish = FALSE /\ At(writer.mBuffer, 4, c)
  BY <1>7, <1>9, <1>12, <1>13 DEF WroteBoth
<1>15. IsSeq(fields) /\ Len(fields) = 0 /\ IsSeq(fieldsRead) /\ Len(fieldsRead) = 0
  BY <1>2 DEF IsSeq
<1>16. PICK pos : pos = [i \in {0} |-> 6]
  OBVIOUS
<1>17. pos[0] = 6 /\ \A i \in 0..0 : pos[i] = 6
  BY <1>16
<1>18. Layout(pos, writer, fields, mBigEndian)
  BY <1>11, <1>14, <1>15, <1>17 DEF Layout, PACKET_HEAD_LEN
<1>19. ReadsOK(pos)
  <2>1. ~ writer.mIsFinish
    BY <1>14
  <2>2. Len(fieldsRead) <= Len(fields) /\ \A i \in 1..Len(fieldsRead) : fieldsRead[i] = ReadValue(fields[i])
    BY <1>15
  <2> QED BY <1>2, <1>15, <2>1, <2>2 DEF ReadsOK
<1> QED BY <1>18, <1>19 DEF PacketInv

\* A field behind the others.
LEMMA LayoutGrows ==
    ASSUME NEW pos, NEW w, NEW q, NEW fs, NEW f, Layout(pos, w, fs, mBigEndian), FieldOK(f),
           WroteField(w, q, f)
    PROVE  \E pos2 : Layout(pos2, q, Append(fs, f), mBigEndian)
<1>1. PICK n, g : n = Len(fs) /\ g = Append(fs, f)
  OBVIOUS
<1>2. /\ n \in Nat /\ IsSeq(g) /\ Len(g) = n + 1 /\ (\A i \in 1..n : g[i] = fs[i]) /\ g[n + 1] = f
  <2>1. IsSeq(fs) /\ n \in Nat
    BY <1>1 DEF Layout, IsSeq
  <2> QED BY <1>1, <2>1, PushIs
<1>3. PICK k, l : k = w.mPos /\ l = q.mPos
  OBVIOUS
<1>4. PacketOK(q) /\ l = k + FieldLen(f) /\ FieldAt(q.mBuffer, k, f, mBigEndian)
      /\ \A i \in 1..k : q.mBuffer[i] = w.mBuffer[i]
  BY <1>3 DEF WroteField
<1>5. PacketOK(w) /\ pos[0] = 6 /\ pos[n] = k
      /\ \A i \in 0..n : pos[i] \in Nat /\ pos[i] >= 6 /\ pos[i] <= k
  BY <1>1, <1>3 DEF Layout, PACKET_HEAD_LEN
<1>6. \A i \in 1..n : FieldOK(g[i]) /\ pos[i] = pos[i - 1] + FieldLen(g[i])
                      /\ FieldAt(w.mBuffer, pos[i - 1], g[i], mBigEndian)
  BY <1>1, <1>2 DEF Layout
<1>7. k \in Nat /\ l \in Nat /\ k <= l /\ q.mBuffer \in Seq(Nat) /\ l <= Len(q.mBuffer) /\ k >= 6
      /\ Len(q.mBuffer) \in Nat
  <2>1. FieldLen(f) \in Nat
    BY FieldLenIs
  <2>2. k \in Nat /\ q.mBuffer \in Seq(Nat) /\ l <= Len(q.mBuffer)
    BY <1>3, <1>4, <1>5 DEF PacketOK
  <2>3. k >= 6
    BY <1>2, <1>5
  <2> QED BY <2>1, <2>2, <2>3, <1>4
<1>8. PICK pos2 : pos2 = [i \in 0..(n + 1) |-> IF i = n + 1 THEN l ELSE pos[i]]
  OBVIOUS
<1>9. pos2[n + 1] = l /\ (\A i \in 0..n : pos2[i] = pos[i]) /\ pos2[0] = 6 /\ pos2[n] = k
  BY <1>2, <1>5, <1>8
<1>10. ASSUME NEW i \in 0..(n + 1) PROVE pos2[i] \in Nat /\ pos2[i] >= 6 /\ pos2[i] <= l
  <2>1. i = n + 1 \/ i \in 0..n
    BY <1>2
  <2>2. CASE i = n + 1
    BY <2>2, <1>7, <1>9
  <2>3. CASE i \in 0..n
    BY <2>3, <1>5, <1>7, <1>9
  <2> QED BY <2>1, <2>2, <2>3
<1>11. ASSUME NEW i \in 1..(n + 1)
       PROVE  /\ FieldOK(g[i]) /\ pos2[i] = pos2[i - 1] + FieldLen(g[i])
              /\ FieldAt(q.mBuffer, pos2[i - 1], g[i], mBigEndian)
  <2>1. i = n + 1 \/ i \in 1..n
    BY <1>2
  <2>2. CASE i = n + 1
    <3>1. i - 1 = n
      BY <2>2, <1>2
    <3> QED BY <2>2, <3>1, <1>2, <1>4, <1>9
  <2>3. CASE i \in 1..n
    <3>1. PICK j \in 0..n : j = i - 1
      BY <2>3, <1>2
    <3>2. i \in 0..n /\ pos2[i] = pos[i] /\ pos2[j] = pos[j]
      BY <2>3, <3>1, <1>2, <1>9
    <3>3. FieldOK(g[i]) /\ pos[i] = pos[j] + FieldLen(g[i]) /\ FieldAt(w.mBuffer, pos[j], g[i], mBigEndian)
      BY <2>3, <3>1, <1>6
    <3>4. pos[j] \in Nat /\ pos[j] + FieldLen(g[i]) <= k
      BY <3>1, <3>2, <3>3, <1>5
    <3>5. k <= Len(q.mBuffer)
      BY <1>7
    <3>6. FieldAt(q.mBuffer, pos[j], g[i], mBigEndian)
      BY <3>3, <3>4, <3>5, <1>4, <1>7, FieldKeeps
    <3> QED BY <3>1, <3>2, <3>3, <3>6
  <2> QED BY <2>1, <2>2, <2>3
<1>12. At(q.mBuffer, 4, NetInt(1, 2, mBigEndian))
  <2>1. PICK c : c = NetInt(1, 2, mBigEndian)
    OBVIOUS
  <2>2. c \in Seq(Nat) /\ Len(c) = 2 /\ At(w.mBuffer, 4, c)
    BY <2>1, NetIntIs DEF Layout
  <2>3. 4 + Len(c) <= k /\ k <= Len(q.mBuffer)
    BY <2>2, <1>7
  <2>4. PICK b1, b2 : b1 = w.mBuffer /\ b2 = q.mBuffer
    OBVIOUS
  <2>5. \A i \in 1..k : i > 4 => b2[i] = b1[i]
    BY ONLY Zenon, <1>4, <2>4
  <2>6. c \in Seq(Nat) /\ b2 \in Seq(Nat) /\ k \in Nat /\ 4 \in Nat /\ At(b1, 4, c)
        /\ 4 + Len(c) <= k /\ k <= Len(b2)
    BY <2>2, <2>3, <2>4, <1>7
  <2>7. At(b2, 4, c)
    BY ONLY <2>5, <2>6, AtKeeps
  <2> QED BY <2>1, <2>4, <2>7
<1>13. Layout(pos2, q, g, mBigEndian)
  BY <1>2, <1>3, <1>4, <1>9, <1>10, <1>11, <1>12 DEF Layout, PACKET_HEAD_LEN
<1> QED BY <1>1, <1>13

\* A step that writes a field.
LEMMA FieldWritten ==
    ASSUME PacketInv, ~ writer.mIsFinish, NEW f, FieldOK(f), WroteField(writer, writer', f),
           fields' = Append(fields, f), UNCHANGED <<mBigEndian, head, fieldsRead>>
    PROVE  PacketInv'
<1>1. PICK pos : Layout(pos, writer, fields, mBigEndian) /\ ReadsOK(pos)
  BY DEF PacketInv
<1>2. PICK q : q = writer'
  OBVIOUS
<1>3. PICK pos2 : Layout(pos2, q, Append(fields, f), mBigEndian)
  BY <1>1, <1>2, LayoutGrows
<1>4. Layout(pos2, writer', fields', mBigEndian')
  BY <1>2, <1>3
<1>5. IsSeq(fields') /\ Len(fields') \in Nat
  BY <1>4 DEF Layout, IsSeq
<1>6. fieldsRead' = <<>> /\ head' = <<>> /\ ~ writer'.mIsFinish
  <2>1. fieldsRead = <<>> /\ head = <<>>
    BY <1>1 DEF ReadsOK
  <2>2. writer'.mIsFinish = writer.mIsFinish
    BY DEF WroteField
  <2> QED BY <2>1, <2>2
<1>7. IsSeq(fieldsRead') /\ Len(fieldsRead') = 0
  BY <1>6 DEF IsSeq
<1>8. Len(fieldsRead') <= Len(fields') /\ \A i \in 1..Len(fieldsRead') : fieldsRead'[i] = ReadValue(fields'[i])
  BY <1>5, <1>7
<1>9. ReadsOK(pos2)'
  BY <1>6, <1>7, <1>8 DEF ReadsOK, ReadValue, EmptyMessage, NoMessage
<1>10. Layout(pos2, writer, fields, mBigEndian)'
  BY <1>4 DEF Layout, PacketOK, FieldAt
<1> QED BY <1>9, <1>10 DEF PacketInv

\* end() puts the length in front.
LEMMA LenWritten ==
    ASSUME PacketInv, getLen
    PROVE  PacketInv'
<1>1. PICK pos : Layout(pos, writer, fields, mBigEndian) /\ ReadsOK(pos)
  BY DEF PacketInv
<1>2. PICK n, k : n = Len(fields) /\ k = writer.mPos
  OBVIOUS
<1>3. /\ PacketOK(writer) /\ IsSeq(fields) /\ n \in Nat /\ pos[0] = 6 /\ pos[n] = k
      /\ \A i \in 0..n : pos[i] \in Nat /\ pos[i] >= 6 /\ pos[i] <= k
  BY <1>1, <1>2 DEF Layout, IsSeq, PACKET_HEAD_LEN
<1>4. k \in Nat /\ k >= 6 /\ k <= Len(writer.mBuffer) /\ Len(writer.mBuffer) \in Nat
  <2>1. k \in Nat /\ k <= Len(writer.mBuffer) /\ writer.mBuffer \in Seq(Nat)
    BY <1>2, <1>3 DEF PacketOK
  <2> QED BY <1>3, <2>1
<1>5. PICK a : a = NetInt(k, 4, TRUE)
  OBVIOUS
<1>6. a \in Seq(Nat) /\ Len(a) = 4
  BY <1>4, <1>5, NetIntIs
<1>7. PICK u : u = Put(writer, 0, a)
  OBVIOUS
<1>8. /\ PacketOK(u) /\ u.mPos = k /\ Len(u.mBuffer) = Len(writer.mBuffer) /\ At(u.mBuffer, 0, a)
      /\ \A i \in 1..Len(writer.mBuffer) : i <= 0 \/ i > 0 + 4 => u.mBuffer[i] = writer.mBuffer[i]
  <2>1. 0 \in Nat /\ 0 + Len(a) <= Len(writer.mBuffer)
    BY <1>4, <1>6
  <2>2. /\ PacketOK(u) /\ u.mPos = writer.mPos /\ Len(u.mBuffer) = Len(writer.mBuffer) /\ At(u.mBuffer, 0, a)
        /\ \A i \in 1..Len(writer.mBuffer) : i <= 0 \/ i > 0 + Len(a) => u.mBuffer[i] = writer.mBuffer[i]
    BY ONLY <1>3, <1>6, <1>7, <2>1, PutIs
  <2> QED BY <1>2, <1>6, <2>2
<1>9. PICK q : q = [u EXCEPT !.mIsFinish = TRUE]
  OBVIOUS
<1>10. q.mBuffer = u.mBuffer /\ q.mPos = k /\ q.mIsFinish = TRUE /\ PacketOK(q)
  <2>1. u \in [mBuffer : Seq(Nat), mPos : Nat, mIsFinish : BOOLEAN] /\ u.mPos <= Len(u.mBuffer)
    BY <1>8 DEF PacketOK
  <2>2. q \in [mBuffer : Seq(Nat), mPos : Nat, mIsFinish : BOOLEAN] /\ q.mBuffer = u.mBuffer
        /\ q.mPos = u.mPos /\ q.mIsFinish = TRUE
    BY ONLY <1>9, <2>1
  <2> QED BY <1>8, <2>1, <2>2 DEF PacketOK
<1>11. /\ writer' = q /\ reader' = [mPos |-> 0, mMaxLen |-> k] /\ mBigEndian' = mBigEndian
       /\ fields' = fields /\ fieldsRead' = fieldsRead /\ head' = head /\ ~ writer.mIsFinish
  BY <1>2, <1>5, <1>7, <1>9 DEF getLen, NetInt
<1>12. ASSUME NEW i \in 1..n
       PROVE  /\ FieldOK(fields[i]) /\ pos[i] = pos[i - 1] + FieldLen(fields[i])
              /\ FieldAt(q.mBuffer, pos[i - 1], fields[i], mBigEndian)
  <2>1. PICK j \in 0..n : j = i - 1
    BY <1>3
  <2>2. /\ FieldOK(fields[i]) /\ pos[i] = pos[j] + FieldLen(fields[i])
        /\ FieldAt(writer.mBuffer, pos[j], fields[i], mBigEndian)
    BY <2>1, <1>1, <1>2 DEF Layout
  <2>3. pos[j] \in Nat /\ pos[j] >= 6 /\ pos[j] + FieldLen(fields[i]) <= k
    BY <2>2, <1>3
  <2>4. k <= Len(q.mBuffer) /\ q.mBuffer \in Seq(Nat)
    BY <1>10 DEF PacketOK
  <2>5. \A x \in 1..k : x > pos[j] => q.mBuffer[x] = writer.mBuffer[x]
    BY <2>3, <1>4, <1>8, <1>10
  <2>6. FieldAt(q.mBuffer, pos[j], fields[i], mBigEndian)
    BY <2>2, <2>3, <2>4, <2>5, <1>4, FieldKeeps
  <2> QED BY <2>1, <2>2, <2>6
<1>13. At(q.mBuffer, 4, NetInt(1, 2, mBigEndian))
  <2>1. PICK c : c = NetInt(1, 2, mBigEndian)
    OBVIOUS
  <2>2. c \in Seq(Nat) /\ Len(c) = 2 /\ At(writer.mBuffer, 4, c)
    BY <2>1, <1>1, NetIntIs DEF Layout
  <2>3. 4 + Len(c) <= k /\ k <= Len(q.mBuffer) /\ q.mBuffer \in Seq(Nat)
    BY <2>2, <1>4, <1>10 DEF PacketOK
  <2>4. \A x \in 1..k : x > 4 => q.mBuffer[x] = writer.mBuffer[x]
    BY <1>4, <1>8, <1>10
  <2>5. At(q.mBuffer, 4, c)
    BY <2>2, <2>3, <2>4, <1>4, AtKeeps
  <2> QED BY <2>1, <2>5
<1>14. Layout(pos, q, fields, mBigEndian)
  BY <1>2, <1>3, <1>10, <1>12, <1>13 DEF Layout, PACKET_HEAD_LEN
<1>15. Layout(pos, writer, fields, mBigEndian)'
  BY <1>11, <1>14 DEF Layout, PacketOK, FieldAt
<1>16. /\ fieldsRead = <<>> /\ head = <<>> /\ IsSeq(fieldsRead) /\ Len(fieldsRead) <= Len(fields)
       /\ \A i \in 1..Len(fieldsRead) : fieldsRead[i] = ReadValue(fields[i])
  BY <1>1, <1>11 DEF ReadsOK
<1>17. head' = <<>> /\ fieldsRead' = <<>>
  BY <1>11, <1>16
<1>18. /\ reader' = [mPos |-> IF head' = <<>> THEN 0 ELSE pos[Len(fieldsRead')], mMaxLen |-> writer'.mPos]
       /\ At(writer'.mBuffer, 0, NetInt(writer'.mPos, 4, TRUE))
  BY <1>5, <1>8, <1>10, <1>11, <1>17
<1>19. writer'.mIsFinish
  BY <1>10, <1>11
<1>20. ReadsOK(pos)'
  BY <1>11, <1>16, <1>17, <1>18, <1>19 DEF ReadsOK, ReadValue, EmptyMessage, NoMessage
<1> QED BY <1>15, <1>20 DEF PacketInv

\* The length and the opcode.
LEMMA HeadGot ==
    ASSUME PacketInv, PacketFits, readHead
    PROVE  PacketInv'
<1>1. PICK pos : Layout(pos, writer, fields, mBigEndian) /\ ReadsOK(pos)
  BY DEF PacketInv
<1>2. PICK n, r1, len : n = writer.mPos /\ r1 = [mPos |-> 4, mMaxLen |-> n] /\ len = readInt(reader, 4)
  OBVIOUS
<1>3. writer.mIsFinish /\ head = <<>> /\ fieldsRead = <<>>
  BY <1>1 DEF readHead, ReadsOK
<1>4. reader = [mPos |-> 0, mMaxLen |-> n] /\ At(writer.mBuffer, 0, NetInt(n, 4, TRUE))
  BY <1>1, <1>2, <1>3 DEF ReadsOK
<1>5. /\ PacketOK(writer) /\ IsSeq(fields) /\ At(writer.mBuffer, 4, NetInt(1, 2, mBigEndian)) /\ pos[0] = 6
      /\ \A i \in 0..Len(fields) : pos[i] >= 6 /\ pos[i] <= n
  BY <1>1, <1>2 DEF Layout, PACKET_HEAD_LEN
<1>6. n \in Nat /\ n >= 6 /\ n < TwoTo32 /\ writer.mBuffer \in Seq(Nat)
  <2>1. n \in Nat /\ n < TwoTo32 /\ writer.mBuffer \in Seq(Nat)
    BY <1>2, <1>5 DEF PacketOK, PacketFits
  <2>2. Len(fields) \in Nat
    BY <1>5 DEF IsSeq
  <2>3. 0 \in 0..Len(fields)
    BY <2>2
  <2> QED BY <1>5, <2>1, <2>3
<1>7. len.at = r1
  <2>1. reader.mPos = 0 /\ reader.mMaxLen = n /\ [reader EXCEPT !.mPos = @ + 4] = r1
    BY <1>2, <1>4
  <2> QED BY <1>2, <1>6, <2>1 DEF readInt
<1>8. mBigEndian => len.value = n
  <2>1. SUFFICES ASSUME mBigEndian PROVE len.value = n
    OBVIOUS
  <2>2. NetInt(n, 4, TRUE) = NetInt(n, 4, mBigEndian)
    BY <2>1 DEF NetInt, hostToNetwork
  <2>3. FitsIn(n, 4)
    BY <1>6, LengthFits
  <2>4. 0 + 4 <= n /\ 4 \in {1, 2, 4, 8} /\ At(writer.mBuffer, 0, NetInt(n, 4, mBigEndian))
    <3>1. 0 + 4 <= n /\ 4 \in {1, 2, 4, 8}
      BY ONLY <1>6
    <3> QED BY ONLY Zenon, <3>1, <1>4, <2>2
  <2>5. readInt([mPos |-> 0, mMaxLen |-> n], 4) = [value |-> n, at |-> [mPos |-> 0 + 4, mMaxLen |-> n]]
    BY <1>6, <2>3, <2>4, ReadIntIs
  <2> QED BY <1>2, <1>4, <2>5
<1>9. readInt(r1, 2) = [value |-> 1, at |-> [mPos |-> 6, mMaxLen |-> n]]
  <2>1. FitsIn(1, 2)
    <3>1. 1 \div 256 = 0 /\ 0 \div 256 = 0
      BY SMT
    <3>2. Quotients(1)[3] = 0
      BY <3>1 DEF Quotients
    <3> QED BY <3>2 DEF FitsIn, InRange
  <2>2. 4 + 2 <= n /\ 4 + 2 = 6
    BY <1>6
  <2>3. readInt([mPos |-> 4, mMaxLen |-> n], 2) = [value |-> 1, at |-> [mPos |-> 4 + 2, mMaxLen |-> n]]
    BY <1>5, <1>6, <2>1, <2>2, ReadIntIs
  <2> QED BY <1>2, <2>2, <2>3
<1>10. PICK l : l = len.value
  OBVIOUS
<1>11. /\ reader' = [mPos |-> 6, mMaxLen |-> n] /\ head' = <<l, 1>>
       /\ writer' = writer /\ mBigEndian' = mBigEndian /\ fields' = fields /\ fieldsRead' = fieldsRead
  BY <1>2, <1>7, <1>9, <1>10 DEF readHead
<1>12. head' # <<>> /\ head'[1] = l /\ head'[2] = 1
  BY <1>11
<1>13. Len(fieldsRead') = 0 /\ reader' = [mPos |-> pos[Len(fieldsRead')], mMaxLen |-> writer'.mPos]
  BY <1>2, <1>3, <1>5, <1>11
<1>14. /\ IsSeq(fieldsRead') /\ Len(fieldsRead') <= Len(fields')
       /\ \A i \in 1..Len(fieldsRead') : fieldsRead'[i] = ReadValue(fields'[i])
  BY <1>1, <1>11 DEF ReadsOK
<1>15. writer'.mIsFinish /\ At(writer'.mBuffer, 0, NetInt(writer'.mPos, 4, TRUE))
  BY <1>2, <1>3, <1>4, <1>11
<1>16. ReadsOK(pos)'
  BY <1>2, <1>8, <1>10, <1>11, <1>12, <1>13, <1>14, <1>15 DEF ReadsOK, ReadValue, EmptyMessage, NoMessage
<1>17. Layout(pos, writer, fields, mBigEndian)'
  BY <1>1, <1>11 DEF Layout, PacketOK, FieldAt
<1> QED BY <1>16, <1>17 DEF PacketInv

\* A step that reads a field.
LEMMA FieldGot ==
    ASSUME PacketInv, PacketFits, readField
    PROVE  PacketInv'
<1>1. PICK pos : Layout(pos, writer, fields, mBigEndian) /\ ReadsOK(pos)
  BY DEF PacketInv
<1>2. PICK n, k, b : n = Len(fields) /\ k = Len(fieldsRead) /\ b = writer.mPos
  OBVIOUS
<1>3. /\ writer.mIsFinish /\ IsSeq(fieldsRead) /\ k \in Nat /\ n \in Nat /\ k < n
      /\ reader = [mPos |-> pos[k], mMaxLen |-> b] /\ At(writer.mBuffer, 0, NetInt(writer.mPos, 4, TRUE))
      /\ \A i \in 1..k : fieldsRead[i] = ReadValue(fields[i])
      /\ head # <<>> /\ head[2] = 1 /\ (mBigEndian => head[1] = writer.mPos)
  <2>1. writer.mIsFinish /\ head # <<>> /\ k < n
    BY <1>1, <1>2 DEF readField, ReadsOK
  <2>2. IsSeq(fields) /\ IsSeq(fieldsRead)
    BY <1>1 DEF Layout, ReadsOK
  <2>3. n \in Nat /\ k \in Nat
    BY <1>2, <2>2 DEF IsSeq
  <2> QED BY <1>1, <1>2, <2>1, <2>2, <2>3 DEF ReadsOK
<1>4. k + 1 \in 1..n /\ k \in 0..n /\ k + 1 \in 0..n /\ (k + 1) - 1 = k
  BY <1>3
<1>5. PICK f : f = fields[k + 1]
  OBVIOUS
<1>6. FieldOK(f) /\ pos[k + 1] = pos[k] + FieldLen(f) /\ FieldAt(writer.mBuffer, pos[k], f, mBigEndian)
  BY <1>1, <1>2, <1>4, <1>5 DEF Layout
<1>7. pos[k] \in Nat /\ pos[k + 1] \in Nat /\ pos[k + 1] <= b /\ PacketOK(writer)
  BY <1>1, <1>2, <1>4 DEF Layout
<1>8. b \in Nat /\ writer.mBuffer \in Seq(Nat) /\ b < TwoTo32
  BY <1>2, <1>7 DEF PacketOK, PacketFits
<1>9. PICK got :
          got = IF f.type = "binary" THEN readBinary(reader)
                ELSE IF f.type = "pb" THEN deserializePBMsgToPacket(reader)
                ELSE readInt(reader, Width[f.type])
  OBVIOUS
<1>10. got = [value |-> ReadValue(f), at |-> [mPos |-> pos[k + 1], mMaxLen |-> b]]
  <2>1. CASE IsBinary(f)
    <3>1. PICK s \in Seq(Nat) : s = f.value
      BY <2>1, <1>6 DEF FieldOK
    <3>2. PICK m \in Nat : m = Len(s)
      OBVIOUS
    <3>3. pos[k + 1] = pos[k] + (4 + m)
      BY <2>1, <3>1, <3>2, <1>6 DEF FieldLen
    <3>4. pos[k + 1] = pos[k] + 4 + m /\ pos[k] + 4 + m <= b /\ m < TwoTo32
      <4>1. PICK o, e, z : o = pos[k] /\ e = pos[k + 1] /\ z = TwoTo32
        OBVIOUS
      <4>2. o \in Nat /\ e \in Nat /\ z \in Nat /\ e = o + (4 + m) /\ e <= b /\ b \in Nat /\ b < z
        BY <4>1, <3>3, <1>7, <1>8, TwoTo32Is
      <4>3. e = o + 4 + m /\ o + 4 + m <= b /\ m < z
        BY ONLY <4>2, m \in Nat
      <4> QED BY <4>1, <4>3
    <3>5. FitsIn(m, 4)
      BY <3>4, LengthFits
    <3>6. At(writer.mBuffer, pos[k], NetInt(m, 4, mBigEndian)) /\ At(writer.mBuffer, pos[k] + 4, s)
      BY <2>1, <3>1, <3>2, <1>6 DEF FieldAt
    <3>7. PICK o : o = pos[k]
      OBVIOUS
    <3>8. BytesLie(o, b, f)
      BY <2>1, <3>1, <3>2, <3>4, <3>5, <3>6, <3>7, <1>7, <1>8 DEF BytesLie
    <3>9. ReadBytes(f, [mPos |-> o, mMaxLen |-> b]) =
              [value |-> ReadValue(f), at |-> [mPos |-> o + 4 + Len(f.value), mMaxLen |-> b]]
      BY ONLY <3>8, ReadBinaryIs
    <3>10. got = ReadBytes(f, [mPos |-> o, mMaxLen |-> b])
      BY <2>1, <3>7, <1>3, <1>9 DEF IsBinary, ReadBytes
    <3>11. pos[k + 1] = o + 4 + Len(f.value)
      BY <3>1, <3>2, <3>4, <3>7
    <3> QED BY <3>9, <3>10, <3>11
  <2>2. CASE ~ IsBinary(f)
    <3>1. PICK w : w = Width[f.type]
      OBVIOUS
    <3>2. w \in {1, 2, 4, 8} /\ FitsIn(f.value, w)
      BY <2>2, <3>1, <1>6, WidthIs DEF FieldOK
    <3>3. pos[k + 1] = pos[k] + w /\ At(writer.mBuffer, pos[k], NetInt(f.value, w, mBigEndian))
      BY <2>2, <3>1, <1>6 DEF FieldLen, FieldAt
    <3>4. pos[k] + w <= b
      BY <3>3, <1>7
    <3>5. PICK o, v : o = pos[k] /\ v = f.value
      OBVIOUS
    <3>6. o \in Nat /\ b \in Nat /\ w \in {1, 2, 4, 8} /\ FitsIn(v, w) /\ o + w <= b
          /\ writer.mBuffer \in Seq(Nat) /\ At(writer.mBuffer, o, NetInt(v, w, mBigEndian))
      BY <3>2, <3>3, <3>4, <3>5, <1>7, <1>8
    <3>7. readInt([mPos |-> o, mMaxLen |-> b], w) = [value |-> v, at |-> [mPos |-> o + w, mMaxLen |-> b]]
      BY ONLY <3>6, ReadIntIs
    <3>8. readInt(reader, w) = [value |-> f.value, at |-> [mPos |-> pos[k] + w, mMaxLen |-> b]]
      BY <3>5, <3>7, <1>3
    <3>9. got = readInt(reader, w) /\ ReadValue(f) = f.value
      BY <2>2, <3>1, <1>9 DEF IsBinary, ReadValue, EmptyMessage
    <3> QED BY <3>3, <3>8, <3>9
  <2> QED BY <2>1, <2>2
<1>11. /\ reader' = got.at /\ fieldsRead' = Append(fieldsRead, got.value)
       /\ writer' = writer /\ mBigEndian' = mBigEndian /\ fields' = fields /\ head' = head
  BY <1>2, <1>5, <1>9 DEF readField
<1>12. got.at = [mPos |-> pos[k + 1], mMaxLen |-> b] /\ got.value = ReadValue(f)
  BY <1>10
<1>13. /\ IsSeq(fieldsRead') /\ Len(fieldsRead') = k + 1
       /\ \A i \in 1..k : fieldsRead'[i] = fieldsRead[i]
       /\ fieldsRead'[k + 1] = ReadValue(f)
  BY <1>2, <1>3, <1>11, <1>12, PushIs
<1>14. \A i \in 1..(k + 1) : fieldsRead'[i] = ReadValue(fields'[i])
  <2>1. \A i \in 1..(k + 1) : i \in 1..k \/ i = k + 1
    BY <1>3
  <2> QED BY <2>1, <1>3, <1>5, <1>11, <1>13
<1>15. Len(fieldsRead') <= Len(fields')
  BY <1>2, <1>3, <1>11, <1>13
<1>16. writer'.mIsFinish /\ reader' = [mPos |-> pos[Len(fieldsRead')], mMaxLen |-> writer'.mPos]
       /\ At(writer'.mBuffer, 0, NetInt(writer'.mPos, 4, TRUE))
  BY <1>2, <1>3, <1>11, <1>12, <1>13
<1>17. ReadsOK(pos)'
  BY <1>3, <1>11, <1>13, <1>14, <1>15, <1>16 DEF ReadsOK, ReadValue, EmptyMessage, NoMessage
<1>18. Layout(pos, writer, fields, mBigEndian)'
  BY <1>1, <1>11 DEF Layout, PacketOK, FieldAt
<1> QED BY <1>17, <1>18 DEF PacketInv

\* A field that the user writes.
LEMMA WriteFieldStep ==
    ASSUME PacketInv, NEW type, NEW value, FieldOK([type |-> type, value |-> value]), writeField(type, value)
    PROVE  PacketInv'
<1>1. PICK f : f = [type |-> type, value |-> value]
  OBVIOUS
<1>2. f.type = type /\ f.value = value /\ FieldOK(f)
  BY <1>1
<1>3. /\ ~ writer.mIsFinish /\ fields' = Append(fields, f)
      /\ mBigEndian' = mBigEndian /\ head' = head /\ fieldsRead' = fieldsRead
  BY <1>1 DEF writeField
<1>4. PacketOK(writer)
  BY DEF PacketInv, Layout
<1>5. \A len : Fits(len) => HasRoom(writer, len)
  BY DEF Fits, HasRoom, mMaxLen
<1>6. CASE type = "binary"
  <2>1. Fits(4 + Len(value)) /\ writer' = writeBinary(writer, value)
    BY <1>6 DEF writeField
  <2>2. IsBinary(f)
    BY <1>2, <1>6 DEF IsBinary
  <2>3. HasRoom(writer, 4 + Len(f.value))
    BY <1>2, <1>5, <2>1
  <2>4. WroteField(writer, writer', f)
    BY <1>2, <1>4, <2>1, <2>2, <2>3, WriteBinaryIs
  <2> QED BY <1>2, <1>3, <2>4, FieldWritten
<1>7. CASE type = "pb"
  <2>1. Fits(4 + Len(value)) /\ writer' = claimBinary(writer, value)
    BY <1>7 DEF writeField
  <2>2. IsBinary(f)
    BY <1>2, <1>7 DEF IsBinary
  <2>3. HasRoom(writer, 4 + Len(f.value))
    BY <1>2, <1>5, <2>1
  <2>4. WroteField(writer, writer', f)
    BY <1>2, <1>4, <2>1, <2>2, <2>3, ClaimBinaryIs
  <2> QED BY <1>2, <1>3, <2>4, FieldWritten
<1>8. CASE type \notin {"binary", "pb"}
  <2>1. Fits(Width[type]) /\ writer' = writeInt(writer, value, Width[type])
    BY <1>8 DEF writeField
  <2>2. ~ IsBinary(f)
    BY <1>2, <1>8 DEF IsBinary
  <2>3. HasRoom(writer, Width[f.type])
    BY <1>2, <1>5, <2>1
  <2>4. WroteField(writer, writer', f)
    BY <1>2, <1>4, <2>1, <2>2, <2>3, WriteIntIs
  <2> QED BY <1>2, <1>3, <2>4, FieldWritten
<1> QED BY <1>6, <1>7, <1>8

\* Every step keeps the fields in their places.
LEMMA PacketStep ==
    ASSUME PacketInv, PacketFits, [PacketNext]_packetVars
    PROVE  PacketInv'
<1>1. ASSUME NEW type \in DOMAIN Width, NEW v \in FieldInts, InRange(v, Width[type]), writeField(type, v)
      PROVE  PacketInv'
  <2>1. PICK f : f = [type |-> type, value |-> v]
    OBVIOUS
  <2>2. v \in Nat
    BY PacketAssumption
  <2>3. f.type = type /\ f.value = v /\ type \in {"u8", "u16", "u32", "u64"}
    BY <2>1, WidthIs
  <2>4. FitsIn(v, Width[type])
    BY <1>1, <2>2, <2>3, WidthIs DEF FitsIn
  <2>5. FieldOK(f)
    BY <2>3, <2>4 DEF FieldOK, IsBinary
  <2> QED BY <1>1, <2>1, <2>5, WriteFieldStep
<1>2. ASSUME NEW type \in {"binary", "pb"}, NEW bytes \in FieldBinaries, writeField(type, bytes)
      PROVE  PacketInv'
  <2>1. PICK f : f = [type |-> type, value |-> bytes]
    OBVIOUS
  <2>2. bytes \in Seq(Nat)
    BY PacketAssumption
  <2>3. FieldOK(f)
    BY <2>1, <2>2 DEF FieldOK, IsBinary
  <2> QED BY <1>2, <2>1, <2>3, WriteFieldStep
<1>3. CASE UNCHANGED packetVars
  BY <1>3 DEF packetVars, PacketInv, Layout, ReadsOK, PacketOK, FieldAt, ReadValue, EmptyMessage, NoMessage
<1> QED BY <1>1, <1>2, <1>3, LenWritten, HeadGot, FieldGot DEF PacketNext

\* The invariant says what is read.
LEMMA PacketImplies ==
    ASSUME PacketInv, PacketFits
    PROVE  FieldsReadBack
<1>1. PICK pos : Layout(pos, writer, fields, mBigEndian) /\ ReadsOK(pos)
  BY DEF PacketInv
<1>2. \A i \in DOMAIN fieldsRead : EmptyMessage(fields[i]) \/ fieldsRead[i] = fields[i].value
  <2>1. IsSeq(fieldsRead)
    BY <1>1 DEF ReadsOK
  <2>2. DOMAIN fieldsRead = 1..Len(fieldsRead)
    BY <2>1 DEF IsSeq
  <2> QED BY <1>1, <2>2 DEF ReadsOK, ReadValue
<1>3. PICK b : b = writer.mPos
  OBVIOUS
<1>4. b \in Nat /\ b < TwoTo32 /\ writer.mBuffer \in Seq(Nat)
  <2>1. PacketOK(writer)
    BY <1>1 DEF Layout
  <2> QED BY <1>3, <2>1 DEF PacketOK, PacketFits
<1>5. ASSUME writer.mIsFinish
      PROVE  HostValue(Reverse(SubSeq(writer.mBuffer, 1, 4))) = reader.mMaxLen
  <2>1. reader.mMaxLen = b /\ At(writer.mBuffer, 0, NetInt(b, 4, TRUE))
    <3>1. /\ reader = [mPos |-> IF head = <<>> THEN 0 ELSE pos[Len(fieldsRead)], mMaxLen |-> writer.mPos]
          /\ At(writer.mBuffer, 0, NetInt(writer.mPos, 4, TRUE))
      BY <1>1, <1>5 DEF ReadsOK
    <3>2. PICK l : reader = [mPos |-> l, mMaxLen |-> b]
      BY <3>1, <1>3
    <3>3. reader.mMaxLen = b
      BY ONLY <3>2
    <3> QED BY <3>1, <3>3, <1>3
  <2>2. PICK a : a = NetInt(b, 4, TRUE)
    OBVIOUS
  <2>3. FitsIn(b, 4)
    BY <1>4, LengthFits
  <2>4. a \in Seq(Nat) /\ Len(a) = 4 /\ HostValue(networkToHost(a, TRUE)) = b
    BY <1>4, <2>2, <2>3, NetIntIs
  <2>5. SubSeq(writer.mBuffer, 0 + 1, 0 + 4) = a
    BY <1>4, <2>1, <2>2, <2>4, ReadPartIs
  <2>6. SubSeq(writer.mBuffer, 1, 4) = a
    BY <2>5
  <2>7. networkToHost(a, TRUE) = Reverse(a)
    BY DEF networkToHost
  <2> QED BY <2>1, <2>4, <2>6, <2>7
<1>6. ASSUME head # <<>> PROVE reader = [mPos |-> pos[Len(fieldsRead)], mMaxLen |-> b]
  BY <1>1, <1>3, <1>6 DEF ReadsOK
<1>7. ASSUME head # <<>> PROVE head[2] = 1 /\ (mBigEndian => head[1] = reader.mMaxLen)
  <2>1. reader.mMaxLen = b
    BY <1>6, <1>7
  <2> QED BY <1>1, <1>3, <1>7, <2>1 DEF ReadsOK
<1>8. ASSUME head # <<>>, Len(fieldsRead) = Len(fields) PROVE reader.mPos = reader.mMaxLen
  <2>1. pos[Len(fields)] = b
    BY <1>1, <1>3 DEF Layout
  <2> QED BY <1>6, <1>8, <2>1
<1> QED BY <1>2, <1>5, <1>7, <1>8 DEF FieldsReadBack

\* As long as the length of a packet fits in its four bytes, the reader gets
\* back the fields that were written, integers of each width and strings of
\* any length, all but the empty message, and ends where the writer ended.
THEOREM FieldsArrive == PacketSpec /\ []PacketFits => []FieldsReadBack
<1>1. PacketInit => PacketInv
  BY PacketStart
<1>2. PacketInv /\ PacketFits /\ [PacketNext]_packetVars => PacketInv'
  BY PacketStep
<1>3. PacketInv /\ PacketFits => FieldsReadBack
  BY PacketImplies
<1> QED BY <1>1, <1>2, <1>3, PTL DEF PacketSpec
=============================================================================
