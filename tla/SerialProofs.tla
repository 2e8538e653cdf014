---------------------------- MODULE SerialProofs ----------------------------
(***************************************************************************)
(* Proofs about SerialPort for a ring and a FIFO of any size: the indices   *)
(* stay in the ring, and every step of the FIFO, the ring and the readers   *)
(* is a step of the one queue of bytes that serial.h promises.              *)
(***************************************************************************)
EXTENDS SerialPort, SequenceTheorems, TLAPS

\* Filled and InRing for any indices and contents of the ring.
Fill(w, r) == (w + N - r) % N
Held(b, r, n) == [i \in 1 .. n |-> b[(r + i - 1) % N]]
-----------------------------------------------------------------------------
(***************************************************************************)
(* Indices that roll over.                                                 *)
(***************************************************************************)
\* Rolling over once.
LEMMA ModFacts ==
  /\ N \in Nat /\ N > 1
  /\ \A a \in 0 .. N - 1 : a % N = a
  /\ \A a \in N .. 2 * N - 1 : a % N = a - N
PROOF
  <1>1. N \in Nat /\ N > 1
    BY SerialAssumption
  <1>2. ASSUME NEW a \in 0 .. N - 1 PROVE a % N = a
    BY <1>1
  <1>3. ASSUME NEW a \in N .. 2 * N - 1 PROVE a % N = a - N
    BY <1>1
  <1> QED BY <1>1, <1>2, <1>3

\* The number of bytes in the ring, and how a read and a write change it.
LEMMA FillFacts ==
  ASSUME NEW w \in Index, NEW r \in Index
  PROVE  /\ Fill(w, r) \in 0 .. N - 1
         /\ Fill(w, r) = IF r <= w THEN w - r ELSE w + N - r
         /\ Advanced(w, 1) \in Index
         /\ Fill(w, r) # N - 1 => Fill(Advanced(w, 1), r) = Fill(w, r) + 1
         /\ \A k \in 0 .. Fill(w, r) :
                /\ Advanced(r, k) \in Index
                /\ Fill(w, Advanced(r, k)) = Fill(w, r) - k
PROOF
  <1>1. w \in 0 .. N - 1 /\ r \in 0 .. N - 1 /\ N \in Nat /\ N > 1
    BY ModFacts DEF Index
  <1>2. \A v, s \in 0 .. N - 1 : Fill(v, s) = IF s <= v THEN v - s ELSE v + N - s
    BY <1>1, ModFacts DEF Fill
  <1>3. \A v \in 0 .. N - 1, k \in 0 .. N - 1 :
            Advanced(v, k) = IF v + k < N THEN v + k ELSE v + k - N
    BY <1>1, ModFacts DEF Advanced
  <1>4. Fill(w, r) \in 0 .. N - 1
    BY <1>1, <1>2
  <1>5. Advanced(w, 1) \in 0 .. N - 1
    BY <1>1, <1>3
  <1>6. Fill(w, r) # N - 1 => Fill(Advanced(w, 1), r) = Fill(w, r) + 1
    <2>1. Advanced(w, 1) = IF w + 1 < N THEN w + 1 ELSE 0
      BY <1>1, <1>3
    <2>2. /\ Fill(w, r) = IF r <= w THEN w - r ELSE w + N - r
          /\ Fill(Advanced(w, 1), r) = IF r <= Advanced(w, 1) THEN Advanced(w, 1) - r
                                       ELSE Advanced(w, 1) + N - r
      BY <1>1, <1>2, <1>5
    <2> QED BY <1>1, <2>1, <2>2
  <1>7. ASSUME NEW k \in 0 .. Fill(w, r)
        PROVE  /\ Advanced(r, k) \in 0 .. N - 1
               /\ Fill(w, Advanced(r, k)) = Fill(w, r) - k
    <2>1. k \in 0 .. N - 1
      BY <1>1, <1>4
    <2>2. Advanced(r, k) \in 0 .. N - 1
      BY <1>1, <1>3, <2>1
    <2>3. Advanced(r, k) = IF r + k < N THEN r + k ELSE r + k - N
      BY <1>1, <1>3, <2>1
    <2>4. /\ Fill(w, r) = IF r <= w THEN w - r ELSE w + N - r
          /\ Fill(w, Advanced(r, k)) = IF Advanced(r, k) <= w THEN w - Advanced(r, k)
                                       ELSE w + N - Advanced(r, k)
      BY <1>1, <1>2, <2>2
    <2>5. k <= Fill(w, r) /\ k \in Nat
      BY <1>4
    <2> QED BY <1>1, <2>2, <2>3, <2>4, <2>5
  <1> QED
    BY <1>1, <1>2, <1>4, <1>5, <1>6, <1>7 DEF Index

\* The bytes in the ring.
LEMMA HeldFacts ==
  ASSUME NEW b \in [Index -> Byte], NEW r \in Index, NEW n \in 0 .. N - 1
  PROVE  /\ Held(b, r, n) \in Seq(Byte) /\ Len(Held(b, r, n)) = n
         /\ \A i \in 1 .. n : Held(b, r, n)[i] = b[(r + i - 1) % N]
PROOF
  <1>1. r \in 0 .. N - 1 /\ N \in Nat /\ N > 1 /\ n \in Nat
    BY ModFacts DEF Index
  <1>2. ASSUME NEW i \in 1 .. n
        PROVE  (r + i - 1) % N \in Index /\ b[(r + i - 1) % N] \in Byte
    <2>1. r + i - 1 \in 0 .. 2 * N - 1
      BY <1>1
    <2>2. (r + i - 1) % N \in 0 .. N - 1
      BY <1>1, <2>1, ModFacts
    <2> QED BY <2>2 DEF Index
  <1>3. Held(b, r, n) \in [1 .. n -> Byte]
    BY <1>2 DEF Held
  <1>4. Held(b, r, n) \in Seq(Byte)
    BY <1>1, <1>3, SeqDef
  <1>5. Len(Held(b, r, n)) = n
    BY <1>1, <1>3, <1>4, LenProperties
  <1> QED
    BY <1>4, <1>5 DEF Held

\* The slots of the bytes in the ring: none is the one that is written next, which comes
\* right after them, and the slots after a read are the later ones before it.
LEMMA SlotFacts ==
  ASSUME NEW w \in Index, NEW r \in Index
  PROVE  /\ \A i \in 1 .. N : (r + i - 1) % N \in Index
         /\ \A i \in 1 .. Fill(w, r) : (r + i - 1) % N # w
         /\ (r + Fill(w, r)) % N = w
         /\ \A k \in 0 .. N - 1, i \in 1 .. N - 1 :
                k + i < N => (Advanced(r, k) + i - 1) % N = (r + k + i - 1) % N
PROOF
  <1>1. w \in 0 .. N - 1 /\ r \in 0 .. N - 1 /\ N \in Nat /\ N > 1
    BY ModFacts DEF Index
  <1>2. \A a \in 0 .. 2 * N - 1 : a % N = IF a < N THEN a ELSE a - N
    BY <1>1, ModFacts
  <1>3. ASSUME NEW i \in 1 .. N
        PROVE  (r + i - 1) % N = IF r + i - 1 < N THEN r + i - 1 ELSE r + i - 1 - N
    <2>1. r + i - 1 \in 0 .. 2 * N - 1
      BY <1>1
    <2> QED BY <1>1, <2>1
  <1>4. Fill(w, r) \in 0 .. N - 1 /\ Fill(w, r) = IF r <= w THEN w - r ELSE w + N - r
    BY FillFacts
  <1>5. \A i \in 1 .. N : (r + i - 1) % N \in 0 .. N - 1
    BY <1>1, <1>3
  <1>6. ASSUME NEW i \in 1 .. Fill(w, r)
        PROVE  (r + i - 1) % N # w
    <2>1. i \in 1 .. N /\ i <= Fill(w, r)
      BY <1>1, <1>4
    <2>2. (r + i - 1) % N = IF r + i - 1 < N THEN r + i - 1 ELSE r + i - 1 - N
      BY <1>3, <2>1
    <2> QED BY <1>1, <1>4, <2>1, <2>2
  <1>7. (r + Fill(w, r)) % N = w
    <2>1. r + Fill(w, r) \in 0 .. 2 * N - 1
      BY <1>1, <1>4
    <2>2. (r + Fill(w, r)) % N = IF r + Fill(w, r) < N THEN r + Fill(w, r) ELSE r + Fill(w, r) - N
      BY <1>1, <1>4, <2>1
    <2> QED BY <1>1, <1>4, <2>2
  <1>8. ASSUME NEW k \in 0 .. N - 1, NEW i \in 1 .. N - 1, k + i < N
        PROVE  (Advanced(r, k) + i - 1) % N = (r + k + i - 1) % N
    <2>1. r + k \in 0 .. 2 * N - 1 /\ r + k + i - 1 \in 0 .. 2 * N - 1
      BY <1>1, <1>8
    <2>2. Advanced(r, k) = IF r + k < N THEN r + k ELSE r + k - N
      BY <1>1, <2>1 DEF Advanced
    <2>3. (r + k + i - 1) % N = IF r + k + i - 1 < N THEN r + k + i - 1 ELSE r + k + i - 1 - N
      BY <1>1, <2>1
    <2>4. Advanced(r, k) + i - 1 \in 0 .. 2 * N - 1
      BY <1>1, <1>8, <2>2
    <2>5. (Advanced(r, k) + i - 1) % N = IF Advanced(r, k) + i - 1 < N THEN Advanced(r, k) + i - 1
                                         ELSE Advanced(r, k) + i - 1 - N
      BY <1>1, <2>2, <2>4
    <2> QED BY <1>1, <1>8, <2>2, <2>3, <2>5
  <1> QED
    BY <1>5, <1>6, <1>7, <1>8 DEF Index
-----------------------------------------------------------------------------
(***************************************************************************)
(* The queue: the bytes in the ring, then those of the FIFO.               *)
(***************************************************************************)
\* Its length and its bytes.
LEMMA QueueFacts ==
  ASSUME NEW b \in [Index -> Byte], NEW r \in Index, NEW n \in 0 .. N - 1, NEW f \in Seq(Byte)
  PROVE  /\ Held(b, r, n) \o f \in Seq(Byte)
         /\ Len(f) \in Nat /\ Len(Held(b, r, n) \o f) = n + Len(f)
         /\ \A i \in 1 .. n : (Held(b, r, n) \o f)[i] = b[(r + i - 1) % N]
         /\ \A i \in n + 1 .. n + Len(f) : (Held(b, r, n) \o f)[i] = f[i - n]
PROOF
  <1> DEFINE h == Held(b, r, n)
  <1>1. h \in Seq(Byte) /\ Len(h) = n /\ \A i \in 1 .. n : h[i] = b[(r + i - 1) % N]
    BY HeldFacts
  <1>2. Len(f) \in Nat /\ n \in Nat
    BY LenProperties, ModFacts
  <1> HIDE DEF h
  <1>3. /\ h \o f \in Seq(Byte) /\ Len(h \o f) = n + Len(f)
        /\ \A i \in 1 .. n + Len(f) : (h \o f)[i] = IF i <= n THEN h[i] ELSE f[i - n]
    BY <1>1, ConcatProperties
  <1>4. /\ \A i \in 1 .. n : (h \o f)[i] = b[(r + i - 1) % N]
        /\ \A i \in n + 1 .. n + Len(f) : (h \o f)[i] = f[i - n]
    BY <1>1, <1>2, <1>3
  <1> QED
    BY <1>2, <1>3, <1>4 DEF h

\* Moving a byte from the FIFO to the ring does not change the queue.
LEMMA MovedByte ==
  ASSUME NEW b \in [Index -> Byte], NEW w \in Index, NEW r \in Index, Fill(w, r) # N - 1,
         NEW f \in Seq(Byte), f # <<>>
  PROVE  LET c == [b EXCEPT ![w] = Head(f)]
             v == Advanced(w, 1)
         IN  Held(c, r, Fill(v, r)) \o Tail(f) = Held(b, r, Fill(w, r)) \o f
PROOF
  <1> DEFINE c == [b EXCEPT ![w] = Head(f)]
             n == Fill(w, r)
             old == Held(b, r, n) \o f
             new == Held(c, r, n + 1) \o Tail(f)
  <1>1. n \in 0 .. N - 1 /\ n + 1 \in 0 .. N - 1 /\ N \in Nat /\ Fill(Advanced(w, 1), r) = n + 1
    <2>1. n \in 0 .. N - 1 /\ n # N - 1 /\ Fill(Advanced(w, 1), r) = n + 1
      BY FillFacts
    <2>2. N \in Nat /\ N > 1
      BY ModFacts
    <2> QED BY <2>1, <2>2
  <1>2. /\ Head(f) \in Byte /\ Head(f) = f[1] /\ Tail(f) \in Seq(Byte)
        /\ Len(f) \in Nat /\ Len(Tail(f)) = Len(f) - 1 /\ Len(f) > 0
        /\ \A i \in 1 .. Len(f) - 1 : Tail(f)[i] = f[i + 1]
    BY HeadTailProperties, LenProperties, EmptySeq
  <1>3. c \in [Index -> Byte] /\ c[w] = Head(f) /\ \A i \in Index : i # w => c[i] = b[i]
    BY <1>2
  <1>4. \A i \in 1 .. N : (r + i - 1) % N \in Index
    BY SlotFacts
  <1>5. \A i \in 1 .. n : (r + i - 1) % N # w
    BY SlotFacts
  <1>6. (r + (n + 1) - 1) % N = w
    <2>1. r + (n + 1) - 1 = r + n
      BY <1>1, ModFacts DEF Index
    <2> QED BY <2>1, SlotFacts
  <1> HIDE DEF c, n
  <1>7. /\ old \in Seq(Byte) /\ Len(old) = n + Len(f)
        /\ \A i \in 1 .. n : old[i] = b[(r + i - 1) % N]
        /\ \A i \in n + 1 .. n + Len(f) : old[i] = f[i - n]
    BY <1>1, QueueFacts
  <1>8. /\ new \in Seq(Byte) /\ Len(new) = n + 1 + Len(Tail(f))
        /\ \A i \in 1 .. n + 1 : new[i] = c[(r + i - 1) % N]
        /\ \A i \in n + 2 .. n + 1 + Len(Tail(f)) : new[i] = Tail(f)[i - (n + 1)]
    <2> DEFINE m == n + 1
               t == Tail(f)
    <2>1. m \in 0 .. N - 1 /\ t \in Seq(Byte) /\ m + 1 = n + 2
      BY <1>1, <1>2
    <2>2. c \in [Index -> Byte]
      BY <1>3
    <2> HIDE DEF m, t
    <2>3. /\ Held(c, r, m) \o t \in Seq(Byte) /\ Len(Held(c, r, m) \o t) = m + Len(t)
          /\ \A i \in 1 .. m : (Held(c, r, m) \o t)[i] = c[(r + i - 1) % N]
          /\ \A i \in m + 1 .. m + Len(t) : (Held(c, r, m) \o t)[i] = t[i - m]
      BY <2>1, <2>2, QueueFacts
    <2> QED BY <2>1, <2>3 DEF m, t
  <1> HIDE DEF old, new
  <1>9. Len(new) = Len(old)
    BY <1>1, <1>2, <1>7, <1>8
  <1>10. ASSUME NEW i \in 1 .. Len(new)
         PROVE  new[i] = old[i]
    <2>1. CASE i <= n
      <3>1. i \in 1 .. n /\ i \in 1 .. n + 1 /\ i \in 1 .. N
        BY <1>1, <1>2, <1>8, <2>1
      <3>2. c[(r + i - 1) % N] = b[(r + i - 1) % N]
        BY <1>3, <1>4, <1>5, <3>1
      <3> QED BY <1>7, <1>8, <3>1, <3>2
    <2>2. CASE i = n + 1
      <3>1. i \in 1 .. n + 1 /\ i \in n + 1 .. n + Len(f) /\ i - n = 1
        BY <1>1, <1>2, <2>2
      <3>2. new[i] = c[w]
        BY <1>6, <1>8, <2>2, <3>1
      <3> QED BY <1>2, <1>3, <1>7, <3>1, <3>2
    <2>3. CASE i > n + 1
      <3>1. /\ i \in n + 2 .. n + 1 + Len(Tail(f)) /\ i \in n + 1 .. n + Len(f)
            /\ i - (n + 1) \in 1 .. Len(f) - 1 /\ i - (n + 1) + 1 = i - n
        BY <1>1, <1>2, <1>8, <2>3
      <3>2. new[i] = f[i - n]
        BY <1>2, <1>8, <3>1
      <3> QED BY <1>7, <3>1, <3>2
    <2> QED BY <1>1, <1>2, <1>8, <2>1, <2>2, <2>3
  <1>11. new = old
    BY <1>7, <1>8, <1>9, <1>10, SeqEqual
  <1> QED
    BY <1>1, <1>11 DEF new, old, c, n

\* A read takes the oldest bytes and leaves the others.
LEMMA TakenBytes ==
  ASSUME NEW b \in [Index -> Byte], NEW w \in Index, NEW r \in Index, NEW f \in Seq(Byte),
         NEW k \in 0 .. Fill(w, r)
  PROVE  LET q == Held(b, r, Fill(w, r)) \o f
             s == Advanced(r, k)
         IN  /\ k <= Len(q) /\ k <= N - 1 /\ k \in 0 .. N - 1
             /\ Held(b, r, k) = SubSeq(q, 1, k)
             /\ Held(b, s, Fill(w, s)) \o f = SubSeq(q, k + 1, Len(q))
PROOF
  <1> DEFINE n == Fill(w, r)
             s == Advanced(r, k)
             q == Held(b, r, n) \o f
             rest == Held(b, s, n - k) \o f
  <1>1. n \in 0 .. N - 1 /\ N \in Nat /\ N > 1
    BY ModFacts, FillFacts
  <1>2. k \in 0 .. n /\ k \in 0 .. N - 1 /\ n - k \in 0 .. N - 1 /\ k \in Nat
    BY <1>1
  <1>3. s \in Index /\ Fill(w, s) = n - k
    BY FillFacts
  <1>4. \A m \in 0 .. N - 1, i \in 1 .. N - 1 :
            m + i < N => (Advanced(r, m) + i - 1) % N = (r + m + i - 1) % N
    BY SlotFacts
  <1>5. r \in 0 .. N - 1
    BY DEF Index
  <1>6. \A i \in 1 .. n - k : (s + i - 1) % N = (r + (k + i) - 1) % N
    <2>1. ASSUME NEW i \in 1 .. n - k
          PROVE  (s + i - 1) % N = (r + (k + i) - 1) % N
      <3>1. i \in 1 .. N - 1 /\ k + i < N
        BY <1>1, <1>2
      <3>2. (s + i - 1) % N = (r + k + i - 1) % N
        BY <1>2, <1>4, <3>1
      <3>3. r + (k + i) - 1 = r + k + i - 1
        BY <1>2, <1>5, <3>1
      <3> QED BY <3>2, <3>3
    <2> QED BY <2>1
  <1>7. Held(b, r, k) \in Seq(Byte) /\ Len(Held(b, r, k)) = k
        /\ \A i \in 1 .. k : Held(b, r, k)[i] = b[(r + i - 1) % N]
    BY <1>2, HeldFacts
  <1> HIDE DEF n, s
  <1>8. /\ q \in Seq(Byte) /\ Len(f) \in Nat /\ Len(q) = n + Len(f)
        /\ \A i \in 1 .. n : q[i] = b[(r + i - 1) % N]
        /\ \A i \in n + 1 .. n + Len(f) : q[i] = f[i - n]
    BY <1>1, QueueFacts
  <1>9. /\ rest \in Seq(Byte) /\ Len(rest) = n - k + Len(f)
        /\ \A i \in 1 .. n - k : rest[i] = b[(s + i - 1) % N]
        /\ \A i \in n - k + 1 .. n - k + Len(f) : rest[i] = f[i - (n - k)]
    <2> DEFINE m == n - k
    <2>1. m \in 0 .. N - 1
      BY <1>2
    <2> HIDE DEF m
    <2>2. /\ Held(b, s, m) \o f \in Seq(Byte) /\ Len(Held(b, s, m) \o f) = m + Len(f)
          /\ \A i \in 1 .. m : (Held(b, s, m) \o f)[i] = b[(s + i - 1) % N]
          /\ \A i \in m + 1 .. m + Len(f) : (Held(b, s, m) \o f)[i] = f[i - m]
      BY <1>3, <2>1, QueueFacts
    <2> QED BY <2>2 DEF m
  <1> HIDE DEF q, rest
  <1>10. \A i \in 1 .. Len(q) : q[i] \in Byte
    BY <1>8, ElementOfSeq
  <1>11. Held(b, r, k) = SubSeq(q, 1, k)
    <2>1. \A i \in 1 .. k : q[i] \in Byte
      BY <1>1, <1>2, <1>8, <1>10
    <2>2. /\ SubSeq(q, 1, k) \in Seq(Byte)
          /\ Len(SubSeq(q, 1, k)) = IF 1 <= k THEN k - 1 + 1 ELSE 0
          /\ \A i \in 1 .. k - 1 + 1 : SubSeq(q, 1, k)[i] = q[1 + i - 1]
      BY <1>2, <2>1, SubSeqProperties
    <2>3. Len(SubSeq(q, 1, k)) = k
      BY <1>2, <2>2
    <2>4. \A i \in 1 .. k : SubSeq(q, 1, k)[i] = Held(b, r, k)[i]
      <3>1. ASSUME NEW i \in 1 .. k
            PROVE  SubSeq(q, 1, k)[i] = Held(b, r, k)[i]
        <4>1. i \in 1 .. k - 1 + 1 /\ 1 + i - 1 = i /\ i \in 1 .. n
          BY <1>1, <1>2
        <4>2. SubSeq(q, 1, k)[i] = q[i]
          BY <2>2, <4>1
        <4> QED BY <1>7, <1>8, <4>1, <4>2
      <3> QED BY <3>1
    <2> QED BY <1>7, <2>2, <2>3, <2>4, SeqEqual
  <1>12. rest = SubSeq(q, k + 1, Len(q))
    <2>1. \A i \in k + 1 .. Len(q) : q[i] \in Byte
      BY <1>1, <1>2, <1>8, <1>10
    <2>2. k + 1 \in Int /\ Len(q) \in Int
      BY <1>1, <1>2, <1>8
    <2>3. /\ SubSeq(q, k + 1, Len(q)) \in Seq(Byte)
          /\ Len(SubSeq(q, k + 1, Len(q)))
                 = IF k + 1 <= Len(q) THEN Len(q) - (k + 1) + 1 ELSE 0
          /\ \A i \in 1 .. Len(q) - (k + 1) + 1 :
                 SubSeq(q, k + 1, Len(q))[i] = q[(k + 1) + i - 1]
      BY <2>1, <2>2, SubSeqProperties
    <2>4. Len(SubSeq(q, k + 1, Len(q))) = Len(rest)
      BY <1>1, <1>2, <1>8, <1>9, <2>3
    <2>5. ASSUME NEW i \in 1 .. Len(rest)
          PROVE  SubSeq(q, k + 1, Len(q))[i] = rest[i]
      <3>1. i \in 1 .. Len(q) - (k + 1) + 1 /\ (k + 1) + i - 1 = k + i
        BY <1>1, <1>2, <1>8, <1>9
      <3>2. SubSeq(q, k + 1, Len(q))[i] = q[k + i]
        BY <2>3, <3>1
      <3>3. CASE i <= n - k
        <4>1. i \in 1 .. n - k /\ k + i \in 1 .. n
          BY <1>1, <1>2, <1>8, <1>9, <3>3
        <4>2. q[k + i] = b[(r + (k + i) - 1) % N]
          BY <1>8, <4>1
        <4>3. rest[i] = b[(s + i - 1) % N]
          BY <1>9, <4>1
        <4>4. (s + i - 1) % N = (r + (k + i) - 1) % N
          BY <1>6, <4>1 DEF n, s
        <4> QED BY <3>2, <4>2, <4>3, <4>4
      <3>4. CASE i > n - k
        <4>1. /\ i \in n - k + 1 .. n - k + Len(f) /\ k + i \in n + 1 .. n + Len(f)
              /\ i - (n - k) = (k + i) - n
          BY <1>1, <1>2, <1>8, <1>9, <3>4
        <4>2. q[k + i] = f[(k + i) - n]
          <5> DEFINE j == k + i
          <5>1. j \in n + 1 .. n + Len(f)
            BY <4>1
          <5> HIDE DEF j
          <5>2. q[j] = f[j - n]
            BY <1>8, <5>1
          <5> QED BY <5>2 DEF j
        <4>3. rest[i] = f[i - (n - k)]
          BY <1>9, <4>1
        <4> QED BY <3>2, <4>1, <4>2, <4>3
      <3>5. i <= n - k \/ i > n - k
        BY <1>1, <1>2, <1>8, <1>9
      <3> QED BY <3>3, <3>4, <3>5
    <2> QED BY <1>9, <2>3, <2>4, <2>5, SeqEqual
  <1>13. k <= Len(q) /\ k <= N - 1
    BY <1>1, <1>2, <1>8
  <1> QED
    BY <1>2, <1>3, <1>11, <1>12, <1>13 DEF q, rest, n, s

\* serial_copy_rx_buffer copies bytes in their order, across the rollover.
LEMMA CopiedFacts ==
  ASSUME SerialTypeOK, NEW size \in 0 .. N - 1
  PROVE  Copied(size) = Held(ring, readI, size)
PROOF
  <1> DEFINE before == Least(size, N - readI)
             after == size - before
             s == [i \in 1 .. before |-> ring[readI + i - 1]]
             t == [i \in 1 .. after |-> ring[i - 1]]
             h == Held(ring, readI, size)
  <1>1. N \in Nat /\ N > 1 /\ readI \in 0 .. N - 1 /\ ring \in [0 .. N - 1 -> Byte]
    BY ModFacts DEF SerialTypeOK, Index
  <1>2. /\ before \in 0 .. size /\ before <= N - readI /\ after \in 0 .. size
        /\ before = size \/ before = N - readI
        /\ before \in Nat /\ after \in Nat /\ before + after = size
    BY <1>1 DEF Least
  <1>3. /\ h \in Seq(Byte) /\ Len(h) = size
        /\ \A i \in 1 .. size : h[i] = ring[(readI + i - 1) % N]
    BY HeldFacts DEF SerialTypeOK
  <1>4. Copied(size) = s \o t
    BY DEF Copied
  <1> HIDE DEF before, after
  <1>5. s \in Seq(Byte) /\ Len(s) = before
    <2>1. s \in [1 .. before -> Byte]
      BY <1>1, <1>2
    <2> QED BY <1>2, <2>1, SeqDef, LenProperties
  <1>6. t \in Seq(Byte) /\ Len(t) = after
    <2>1. t \in [1 .. after -> Byte]
      BY <1>1, <1>2
    <2> QED BY <1>2, <2>1, SeqDef, LenProperties
  <1>7. /\ \A i \in 1 .. before : s[i] = ring[readI + i - 1]
        /\ \A i \in 1 .. after : t[i] = ring[i - 1]
    OBVIOUS
  <1> HIDE DEF s, t, h
  <1>8. /\ s \o t \in Seq(Byte) /\ Len(s \o t) = size
        /\ \A i \in 1 .. before + after :
               (s \o t)[i] = IF i <= before THEN s[i] ELSE t[i - before]
    BY <1>2, <1>5, <1>6, ConcatProperties
  <1>9. ASSUME NEW i \in 1 .. size
        PROVE  (s \o t)[i] = h[i]
    <2>1. readI + i - 1 \in 0 .. 2 * N - 1
      BY <1>1
    <2>2. CASE i <= before
      <3>1. i \in 1 .. before /\ readI + i - 1 < N /\ i \in 1 .. before + after
        BY <1>1, <1>2, <2>2
      <3>2. (readI + i - 1) % N = readI + i - 1
        BY <1>1, <2>1, <3>1
      <3> QED BY <1>3, <1>7, <1>8, <2>2, <3>1, <3>2
    <2>3. CASE i > before
      <3>1. /\ before = N - readI /\ i - before \in 1 .. after /\ i \in 1 .. before + after
            /\ (i - before) - 1 = readI + i - 1 - N /\ ~(i <= before)
        BY <1>1, <1>2, <2>3
      <3>2. (readI + i - 1) % N = readI + i - 1 - N
        BY <1>1, <2>1, <3>1
      <3>3. h[i] = ring[readI + i - 1 - N]
        BY <1>3, <3>2
      <3>4. (s \o t)[i] = t[i - before]
        BY <1>8, <3>1
      <3>5. t[i - before] = ring[(i - before) - 1]
        BY <1>7, <3>1
      <3> QED BY <3>1, <3>3, <3>4, <3>5
    <2>4. i <= before \/ i > before
      BY <1>1, <1>2
    <2> QED BY <2>2, <2>3, <2>4
  <1> QED
    BY <1>3, <1>4, <1>8, <1>9, SeqEqual DEF s, t, h

\* A copy of the bytes in the ring ends in a line where the search for one stops.
LEMMA LineFacts ==
  ASSUME NEW s \in Seq(Byte), NEW k \in 1 .. Len(s)
  PROVE  Queue!IsLine(SubSeq(s, 1, k)) <=> k \in LineEnds(s)
PROOF
  <1>1. Len(s) \in Nat /\ DOMAIN s = 1 .. Len(s) /\ k \in Nat /\ k > 0 /\ k <= Len(s)
    BY LenProperties
  <1>2. \A i \in 1 .. k : s[i] \in Byte
    BY <1>1, ElementOfSeq
  <1>3. /\ SubSeq(s, 1, k) \in Seq(Byte)
        /\ Len(SubSeq(s, 1, k)) = IF 1 <= k THEN k - 1 + 1 ELSE 0
        /\ \A i \in 1 .. k - 1 + 1 : SubSeq(s, 1, k)[i] = s[1 + i - 1]
    BY <1>1, <1>2, SubSeqProperties
  <1>4. Len(SubSeq(s, 1, k)) = k
    BY <1>1, <1>3
  <1>5. SubSeq(s, 1, k) # <<>>
    BY <1>1, <1>4, EmptySeq
  <1>6. ASSUME NEW i \in 1 .. k
        PROVE  SubSeq(s, 1, k)[i] = s[i]
    <2>1. i \in 1 .. k - 1 + 1 /\ 1 + i - 1 = i
      BY <1>1
    <2> QED BY <1>3, <2>1
  <1>7. SubSeq(s, 1, k)[k] = s[k] /\ \A i \in 1 .. k - 1 : SubSeq(s, 1, k)[i] = s[i]
    BY <1>1, <1>6
  <1> QED
    BY <1>1, <1>4, <1>5, <1>7 DEF Queue!IsLine, LineEnds
-----------------------------------------------------------------------------
(***************************************************************************)
(* The type invariant.                                                     *)
(***************************************************************************)
\* The state of the ring and of app_uart.
LEMMA RingFacts ==
  ASSUME SerialTypeOK
  PROVE  /\ Filled = Fill(writeI, readI) /\ Filled \in 0 .. N - 1
         /\ InRing = Held(ring, readI, Fill(writeI, readI))
         /\ uart.fifo \in Seq(Byte) /\ uart.on \in BOOLEAN
         /\ \A f : [uart EXCEPT !.fifo = f] = [on |-> uart.on, fifo |-> f]
PROOF
  <1>1. Filled = Fill(writeI, readI)
    BY DEF Filled, Fill
  <1>2. Filled \in 0 .. N - 1
    BY <1>1, FillFacts DEF SerialTypeOK
  <1>3. InRing = Held(ring, readI, Fill(writeI, readI))
    BY <1>1 DEF InRing, Held
  <1>4. uart.fifo \in Seq(Byte) /\ uart.on \in BOOLEAN
        /\ \A f : [uart EXCEPT !.fifo = f] = [on |-> uart.on, fifo |-> f]
    BY DEF SerialTypeOK
  <1> QED BY <1>1, <1>2, <1>3, <1>4

\* After a reset.
LEMMA EmptyRing ==
  /\ 0 \in Index /\ [i \in Index |-> Nul] \in [Index -> Byte]
  /\ [on |-> FALSE, fifo |-> <<>>] \in [on : BOOLEAN, fifo : Seq(Byte)] /\ Len(<<>>) <= FifoSize
  /\ NothingTaken \in [line : BOOLEAN, bytes : Seq(Byte)]
  /\ \A b \in [Index -> Byte] : Held(b, 0, Fill(0, 0)) \o <<>> = <<>>
PROOF
  <1>1. N \in Nat /\ N > 1 /\ FifoSize \in Nat
    BY ModFacts, SerialAssumption
  <1>2. 0 \in Index
    BY <1>1 DEF Index
  <1>3. [i \in Index |-> Nul] \in [Index -> Byte]
    BY SerialAssumption
  <1>4. <<>> \in Seq(Byte) /\ Len(<<>>) = 0
    BY EmptySeq
  <1>5. [on |-> FALSE, fifo |-> <<>>] \in [on : BOOLEAN, fifo : Seq(Byte)] /\ Len(<<>>) <= FifoSize
    BY <1>1, <1>4
  <1>6. NothingTaken \in [line : BOOLEAN, bytes : Seq(Byte)]
    BY <1>4 DEF NothingTaken
  <1>7. ASSUME NEW b \in [Index -> Byte]
        PROVE  Held(b, 0, Fill(0, 0)) \o <<>> = <<>>
    <2>1. Fill(0, 0) \in 0 .. N - 1 /\ Fill(0, 0) = IF 0 <= 0 THEN 0 - 0 ELSE 0 + N - 0
      BY <1>2, FillFacts
    <2>2. Fill(0, 0) = 0
      BY <2>1
    <2>3. 0 \in 0 .. N - 1
      BY <1>1
    <2>4. Held(b, 0, 0) \in Seq(Byte) /\ Len(Held(b, 0, 0)) = 0
      BY <1>2, <2>3, HeldFacts
    <2>5. Held(b, 0, 0) = <<>>
      BY <2>4, EmptySeq
    <2>6. Held(b, 0, Fill(0, 0)) = <<>>
      BY <2>2, <2>5
    <2> QED BY <1>4, <2>6, ConcatEmptySeq
  <1> QED BY <1>2, <1>3, <1>5, <1>6, <1>7

\* The indices and the FIFO, step by step.
LEMMA TypeStep == SerialTypeOK /\ [Next]_vars => SerialTypeOK'
PROOF
  <1> SUFFICES ASSUME SerialTypeOK, [Next]_vars PROVE SerialTypeOK'
    OBVIOUS
  <1> DEFINE Taken == [line : BOOLEAN, bytes : Seq(Byte)]
             Uart == [on : BOOLEAN, fifo : Seq(Byte)]
  <1>1. /\ state \in {"INIT", "CLOSED", "OPENED", "ERROR"} /\ main \in MainPc
        /\ ring \in [Index -> Byte] /\ readI \in Index /\ writeI \in Index
        /\ uart \in Uart /\ Len(uart.fifo) <= FifoSize /\ taken \in Taken
    BY DEF SerialTypeOK
  <1>2. NothingTaken \in Taken
    BY EmptyRing
  <1>3. Quiet => taken' \in Taken
    BY <1>2 DEF Quiet
  <1>4. GetByte => SerialTypeOK' \/ main' \notin MainPc
    <2> SUFFICES ASSUME GetByte, main' \in MainPc PROVE SerialTypeOK'
      OBVIOUS
    <2>1. uart.fifo # <<>> /\ uart.fifo \in Seq(Byte)
      BY RingFacts DEF GetByte
    <2>2. /\ Head(uart.fifo) \in Byte /\ Tail(uart.fifo) \in Seq(Byte)
          /\ Len(uart.fifo) \in Nat /\ Len(Tail(uart.fifo)) = Len(uart.fifo) - 1
      BY <2>1, HeadTailProperties, LenProperties
    <2>3. uart' = [on |-> uart.on, fifo |-> Tail(uart.fifo)]
      BY RingFacts DEF GetByte
    <2>4. uart' \in Uart /\ Len(uart'.fifo) <= FifoSize
      BY <1>1, <2>2, <2>3, SerialAssumption
    <2>5. writeI' \in Index
      BY <1>1, FillFacts DEF GetByte
    <2>6. ring' \in [Index -> Byte]
      BY <1>1, <2>2 DEF GetByte
    <2>7. taken' \in Taken
      BY <1>3 DEF GetByte
    <2> QED BY <1>1, <2>4, <2>5, <2>6, <2>7 DEF GetByte, SerialTypeOK
  <1>5. ASSUME NEW k \in 0 .. Fill(writeI, readI),
               readI' = Advanced(readI, k), taken'.bytes = Copied(k), taken'.line \in BOOLEAN,
               taken' = [line |-> taken'.line, bytes |-> taken'.bytes]
        PROVE  readI' \in Index /\ taken' \in Taken
    <2>1. Advanced(readI, k) \in Index
      BY <1>1, FillFacts
    <2>2. Fill(writeI, readI) \in 0 .. N - 1
      BY <1>1, FillFacts
    <2>3. k \in 0 .. N - 1
      BY <2>2, ModFacts
    <2>4. Copied(k) \in Seq(Byte)
      BY <1>1, <2>3, CopiedFacts, HeldFacts
    <2> QED BY <1>5, <2>1, <2>4
  <1>6. CASE Tasks \/ NextTurn \/ OpenEnd \/ Close \/ LineStart \/ LineNone
    BY <1>1, <1>3, <1>6
    DEF Tasks, NextTurn, OpenEnd, Close, LineStart, LineNone, At, Goto, indices, MainPc, SerialTypeOK
  <1>7. CASE GetNone /\ main' \in MainPc
    BY <1>1, <1>3, <1>7 DEF GetNone, indices, SerialTypeOK
  <1>8. CASE Fetch
    BY <1>4, <1>7, <1>8 DEF Fetch, Goto, MainPc
  <1>9. CASE Refill
    BY <1>4, <1>7, <1>9 DEF Refill, Goto, MainPc
  <1>10. CASE OpenStart
    <2>1. <<>> \in Seq(Byte) /\ Len(<<>>) <= FifoSize
      BY EmptyRing, EmptySeq
    <2> QED BY <1>1, <1>3, <1>10, <2>1 DEF OpenStart, Goto, indices, MainPc, SerialTypeOK
  <1>11. ASSUME NEW size \in 1 .. N, ReadExisting(size)
         PROVE  SerialTypeOK'
    <2>1. Filled = Fill(writeI, readI) /\ Filled \in 0 .. N - 1 /\ size \in Nat
      BY RingFacts, ModFacts
    <2>2. Least(Filled, size) \in 0 .. Fill(writeI, readI)
      BY <2>1 DEF Least
    <2>3. readI' \in Index /\ taken' \in Taken
      BY <1>5, <1>11, <2>2 DEF ReadExisting
    <2> QED BY <1>1, <1>11, <2>3 DEF ReadExisting, SerialTypeOK
  <1>12. CASE LineFound
    <2>1. PICK k \in LineEnds(Copied(Filled)) :
              /\ taken' = [line |-> TRUE, bytes |-> Copied(k)]
              /\ readI' = Advanced(readI, k)
      BY <1>12 DEF LineFound
    <2>2. Copied(Filled) \in Seq(Byte) /\ Len(Copied(Filled)) = Fill(writeI, readI)
      BY <1>1, RingFacts, CopiedFacts, HeldFacts
    <2>3. k \in 0 .. Fill(writeI, readI)
      BY <2>2, LenProperties DEF LineEnds
    <2>4. readI' \in Index /\ taken' \in Taken
      BY <1>5, <2>1, <2>3
    <2> QED BY <1>1, <1>12, <2>4 DEF LineFound, Goto, MainPc, SerialTypeOK
  <1>13. CASE LineFull
    <2>1. Fill(writeI, readI) = N - 1 /\ N \in Nat /\ N > 1
      BY <1>13, RingFacts, ModFacts DEF LineFull, Full
    <2>2. 1 \in 0 .. Fill(writeI, readI)
      BY <2>1
    <2>3. readI' \in Index
      BY <1>1, <1>13, <2>2, FillFacts DEF LineFull
    <2> QED BY <1>1, <1>3, <1>13, <2>3 DEF LineFull, Goto, MainPc, SerialTypeOK
  <1>14. ASSUME NEW b \in Byte, ByteArrives(b)
         PROVE  SerialTypeOK'
    <2>1. uart.fifo \in Seq(Byte) /\ uart' = [on |-> uart.on, fifo |-> Append(uart.fifo, b)]
      BY <1>14, RingFacts DEF ByteArrives
    <2>2. /\ Append(uart.fifo, b) \in Seq(Byte) /\ Len(uart.fifo) \in Nat
          /\ Len(Append(uart.fifo, b)) = Len(uart.fifo) + 1
      BY <2>1, AppendProperties, LenProperties
    <2>3. Len(uart.fifo) < FifoSize /\ FifoSize \in Nat
      BY <1>14, SerialAssumption DEF ByteArrives
    <2>4. uart' \in Uart /\ uart'.fifo = Append(uart.fifo, b)
      BY <2>1, <2>2, RingFacts
    <2>5. Len(uart'.fifo) <= FifoSize
      BY <2>2, <2>3, <2>4
    <2> QED BY <1>1, <1>3, <1>14, <2>4, <2>5 DEF ByteArrives, indices, SerialTypeOK
  <1>15. CASE FifoError
    BY <1>1, <1>3, <1>15 DEF FifoError, indices, SerialTypeOK
  <1>16. CASE Restart
    BY <1>3, <1>16, EmptyRing DEF Restart, Goto, MainPc, SerialTypeOK
  <1>17. CASE UNCHANGED vars
    BY <1>1, <1>17 DEF vars, indices, SerialTypeOK
  <1> QED
    BY <1>6, <1>8, <1>9, <1>10, <1>11, <1>12, <1>13, <1>14, <1>15, <1>16, <1>17 DEF Next, MainStep

\* SerialTypeOK of SerialPort: whatever the bytes, the errors and the readers do, the
\* indices of serial.c stay inside the ring and the UART's FIFO inside its size.
THEOREM SerialTypeCorrect == Spec => []SerialTypeOK
PROOF
  <1>1. Init => SerialTypeOK
    <2> SUFFICES ASSUME Init PROVE SerialTypeOK
      OBVIOUS
    <2>1. /\ ring \in [Index -> Byte] /\ readI \in Index /\ writeI \in Index
          /\ taken \in [line : BOOLEAN, bytes : Seq(Byte)]
      BY EmptyRing DEF Init
    <2>2. uart \in [on : BOOLEAN, fifo : Seq(Byte)] /\ Len(uart.fifo) <= FifoSize
      BY EmptyRing DEF Init
    <2> QED BY <2>1, <2>2 DEF Init, SerialTypeOK, MainPc
  <1> QED BY <1>1, TypeStep, PTL DEF Spec
-----------------------------------------------------------------------------
(***************************************************************************)
(* The steps of the queue.                                                 *)
(***************************************************************************)
\* Every step moves, takes or gives up the queue's bytes as ByteQueue allows.
LEMMA QueueStep ==
  SerialTypeOK /\ SerialTypeOK' /\ [Next]_vars => [Queue!Next]_<<InRing \o uart.fifo, taken>>
PROOF
  <1> SUFFICES ASSUME SerialTypeOK, SerialTypeOK', [Next]_vars
               PROVE  [Queue!Next]_<<InRing \o uart.fifo, taken>>
    OBVIOUS
  <1> DEFINE Bytes(b, w, r, f) == Held(b, r, Fill(w, r)) \o f
             q == InRing \o uart.fifo
             n == Fill(writeI, readI)
  <1>1. /\ ring \in [Index -> Byte] /\ readI \in Index /\ writeI \in Index
        /\ uart.fifo \in Seq(Byte) /\ n \in 0 .. N - 1 /\ Filled = n
    BY RingFacts DEF SerialTypeOK
  <1>2. N \in Nat /\ N > 1
    BY ModFacts
  <1>3. q = Bytes(ring, writeI, readI, uart.fifo) /\ InRing = Held(ring, readI, n)
    BY RingFacts
  <1>4. q' = Bytes(ring', writeI', readI', uart'.fifo)
    BY DEF InRing, Held, Filled, Fill
  <1>5. q \in Seq(Byte) /\ Len(q) = n + Len(uart.fifo) /\ Len(uart.fifo) \in Nat
    BY <1>1, <1>3, QueueFacts
  <1>6. InRing \in Seq(Byte) /\ Len(InRing) = n
    BY <1>1, <1>3, HeldFacts
  <1>7. ASSUME NEW k \in 0 .. n
        PROVE  /\ k <= Len(q) /\ k <= N - 1 /\ k \in 0 .. N - 1
               /\ Held(ring, readI, k) = SubSeq(q, 1, k)
               /\ Bytes(ring, writeI, Advanced(readI, k), uart.fifo) = SubSeq(q, k + 1, Len(q))
    BY <1>1, <1>3, TakenBytes
  <1> HIDE DEF Bytes, n
  <1>8. ASSUME Quiet, q' = q
        PROVE  Queue!Next
    BY <1>8 DEF Queue!Next, Queue!Idle, Quiet, NothingTaken, Queue!NothingTaken
  <1>9. ASSUME Quiet, UNCHANGED <<ring, indices, uart>>
        PROVE  Queue!Next
    <2>1. Bytes(ring', writeI', readI', uart'.fifo) = Bytes(ring, writeI, readI, uart.fifo)
      BY <1>9 DEF indices
    <2> QED BY <1>3, <1>4, <1>8, <1>9, <2>1
  <1>10. CASE Tasks \/ NextTurn \/ OpenEnd \/ Close \/ LineStart \/ LineNone \/ FifoError
    BY <1>9, <1>10
    DEF Tasks, NextTurn, OpenEnd, Close, LineStart, LineNone, FifoError, indices
  <1>11. ASSUME GetNone
         PROVE  Queue!Next
    BY <1>9, <1>11 DEF GetNone
  <1>12. ASSUME GetByte
         PROVE  Queue!Next
    <2>1. Fill(writeI, readI) # N - 1 /\ uart.fifo # <<>>
      BY <1>1, <1>12 DEF GetByte, Full, n
    <2>2. /\ ring' = [ring EXCEPT ![writeI] = Head(uart.fifo)] /\ readI' = readI
          /\ writeI' = Advanced(writeI, 1) /\ Quiet
      BY <1>12 DEF GetByte
    <2>3. uart'.fifo = Tail(uart.fifo)
      BY <1>12, RingFacts DEF GetByte
    <2>4. Bytes(ring', writeI', readI', uart'.fifo) = Bytes(ring, writeI, readI, uart.fifo)
      BY ZenonT(40), <1>1, <2>1, <2>2, <2>3, MovedByte DEF Bytes
    <2> QED BY <1>3, <1>4, <1>8, <2>2, <2>4
  <1>13. CASE Fetch \/ Refill
    BY <1>11, <1>12, <1>13 DEF Fetch, Refill
  <1>14. CASE OpenStart
    <2>1. n \in 0 .. n /\ 0 \in 0 .. n
      BY <1>1, <1>2
    <2>2. uart'.fifo = <<>> /\ UNCHANGED <<ring, indices>> /\ Quiet
      BY <1>14 DEF OpenStart
    <2>3. q' = Held(ring, readI, n) \o <<>>
      BY <1>4, <2>2 DEF Bytes, n, indices
    <2>4. q' = SubSeq(q, 1, n)
      BY <1>3, <1>6, <1>7, <2>1, <2>3, ConcatEmptySeq
    <2>5. n \in 0 .. N - 1 /\ n <= Len(q) /\ n <= N - 1
      BY <1>7, <2>1
    <2> QED BY <2>2, <2>4, <2>5
        DEF Queue!Next, Queue!DropNewest, Quiet, NothingTaken, Queue!NothingTaken
  <1>15. ASSUME NEW k \in 0 .. n, NEW line \in BOOLEAN,
                taken' = [line |-> line, bytes |-> Copied(k)], readI' = Advanced(readI, k),
                UNCHANGED <<ring, writeI, uart>>
         PROVE  /\ k <= Len(q) /\ k <= N - 1 /\ k \in 0 .. N - 1
                /\ taken' = [line |-> line, bytes |-> SubSeq(q, 1, k)]
                /\ q' = SubSeq(q, k + 1, Len(q))
    <2>1. k \in 0 .. N - 1
      BY <1>7
    <2>2. Copied(k) = SubSeq(q, 1, k)
      BY <1>7, <2>1, CopiedFacts
    <2>3. q' = Bytes(ring, writeI, Advanced(readI, k), uart.fifo)
      BY <1>4, <1>15
    <2> QED BY <1>7, <1>15, <2>2, <2>3
  <1>16. ASSUME NEW size \in 1 .. N, ReadExisting(size)
         PROVE  Queue!Next
    <2> DEFINE k == Least(Filled, size)
    <2>1. k \in 0 .. n
      BY <1>1, <1>2 DEF Least
    <2>2. /\ taken' = [line |-> FALSE, bytes |-> Copied(k)] /\ readI' = Advanced(readI, k)
          /\ UNCHANGED <<ring, writeI, uart>>
      BY <1>16 DEF ReadExisting
    <2> HIDE DEF k
    <2>3. /\ k <= Len(q) /\ k <= N - 1 /\ k \in 0 .. N - 1
          /\ taken' = [line |-> FALSE, bytes |-> SubSeq(q, 1, k)]
          /\ q' = SubSeq(q, k + 1, Len(q))
      BY <1>15, <2>1, <2>2
    <2>4. Queue!TakeSome(k)
      BY <2>3 DEF Queue!TakeSome, Queue!Take
    <2> QED BY <2>3, <2>4 DEF Queue!Next
  <1>17. Copied(Filled) = InRing
    BY <1>1, <1>3, CopiedFacts
  <1>18. ASSUME NEW k \in 1 .. n
         PROVE  SubSeq(InRing, 1, k) = SubSeq(q, 1, k)
    <2>1. k \in 0 .. Fill(writeI, readI) /\ <<>> \in Seq(Byte)
      BY <1>1, <1>2, EmptySeq DEF n
    <2>2. InRing \o <<>> = InRing
      BY <1>6, ConcatEmptySeq
    <2>3. Held(ring, readI, k) = SubSeq(Held(ring, readI, Fill(writeI, readI)) \o <<>>, 1, k)
      BY <1>1, <2>1, TakenBytes
    <2>4. Held(ring, readI, k) = SubSeq(InRing, 1, k)
      BY <1>3, <2>2, <2>3 DEF n
    <2> QED BY <1>7, <2>1, <2>4 DEF n
  <1>19. ASSUME NEW k \in 1 .. n
         PROVE  Queue!IsLine(SubSeq(q, 1, k)) <=> k \in LineEnds(Copied(Filled))
    <2>1. k \in 1 .. Len(InRing)
      BY <1>6
    <2>2. Queue!IsLine(SubSeq(InRing, 1, k)) <=> k \in LineEnds(InRing)
      BY <1>6, <2>1, LineFacts
    <2> QED BY <1>17, <1>18, <2>2
  <1>20. CASE LineFound
    <2>1. PICK k \in LineEnds(Copied(Filled)) :
              /\ taken' = [line |-> TRUE, bytes |-> Copied(k)]
              /\ readI' = Advanced(readI, k)
      BY <1>20 DEF LineFound
    <2>2. k \in 1 .. n /\ k \in 0 .. n
      BY <1>1, <1>2, <1>6, <1>17, LenProperties DEF LineEnds
    <2>3. UNCHANGED <<ring, writeI, uart>>
      BY <1>20 DEF LineFound
    <2>4. /\ k <= Len(q) /\ k <= N - 1 /\ k \in 0 .. N - 1
          /\ taken' = [line |-> TRUE, bytes |-> SubSeq(q, 1, k)]
          /\ q' = SubSeq(q, k + 1, Len(q))
      BY <1>15, <2>1, <2>2, <2>3
    <2>5. Queue!IsLine(SubSeq(q, 1, k))
      BY <1>19, <2>2
    <2>6. Queue!TakeLine(k)
      BY <2>4, <2>5 DEF Queue!TakeLine, Queue!Take
    <2> QED BY <2>4, <2>6 DEF Queue!Next
  <1>21. CASE LineFull
    <2>1. n = N - 1 /\ 1 \in 0 .. n /\ n \in 0 .. n
      BY <1>1, <1>2, <1>21 DEF LineFull, Full
    <2>2. Quiet /\ readI' = Advanced(readI, 1) /\ UNCHANGED <<ring, writeI, uart>>
      BY <1>21 DEF LineFull
    <2>3. q' = SubSeq(q, 1 + 1, Len(q))
      BY <1>4, <1>7, <2>1, <2>2
    <2>4. q # <<>> /\ Len(q) >= N - 1
      BY <1>2, <1>5, <2>1, EmptySeq
    <2>5. q' = Tail(q)
      <3> DEFINE s == q
      <3>1. s \in Seq(Byte) /\ s # <<>>
        BY <1>5, <2>4
      <3> HIDE DEF s
      <3>2. Tail(s) = SubSeq(s, 2, Len(s))
        BY <3>1, TailIsSubSeq
      <3>3. 1 + 1 = 2
        OBVIOUS
      <3> QED BY <2>3, <3>2, <3>3 DEF s
    <2>6. SubSeq(q, 1, N - 1) = InRing
      BY <1>3, <1>7, <2>1
    <2>7. ASSUME NEW k \in 1 .. Len(InRing)
          PROVE  ~Queue!IsLine(SubSeq(InRing, 1, k))
      <3>1. k \notin LineEnds(InRing)
        BY <1>17, <1>21 DEF LineFull
      <3> QED BY <1>6, <3>1, LineFacts
    <2>8. ~Queue!HasLine(SubSeq(q, 1, N - 1))
      BY <2>6, <2>7 DEF Queue!HasLine
    <2>9. Queue!DropOldest
      BY <2>2, <2>4, <2>5, <2>8 DEF Queue!DropOldest, Quiet, NothingTaken, Queue!NothingTaken
    <2> QED BY <2>9 DEF Queue!Next
  <1>22. ASSUME NEW b \in Byte, ByteArrives(b)
         PROVE  Queue!Next
    <2>1. Len(uart.fifo) < FifoSize /\ Quiet /\ UNCHANGED <<ring, indices>>
      BY <1>22 DEF ByteArrives
    <2>2. uart'.fifo = Append(uart.fifo, b)
      BY <1>22, RingFacts DEF ByteArrives
    <2>3. q' = InRing \o Append(uart.fifo, b)
      BY <1>3, <1>4, <2>1, <2>2 DEF Bytes, n, indices
    <2>4. <<b>> \in Seq(Byte)
      OBVIOUS
    <2>5. Append(uart.fifo, b) = uart.fifo \o <<b>> /\ Append(q, b) = q \o <<b>>
      BY <1>1, <1>5, AppendIsConcat
    <2>6. InRing \o (uart.fifo \o <<b>>) = q \o <<b>>
      <3> DEFINE r == InRing
                 f == uart.fifo
                 t == <<b>>
      <3>1. r \in Seq(Byte) /\ f \in Seq(Byte) /\ t \in Seq(Byte)
        BY <1>1, <1>6, <2>4
      <3> HIDE DEF r, f, t
      <3>2. (r \o f) \o t = r \o (f \o t)
        BY <3>1, ConcatAssociative
      <3> QED BY <3>2 DEF r, f, t
    <2>7. Len(q) < N - 1 + FifoSize
      BY <1>1, <1>2, <1>5, <2>1, SerialAssumption
    <2>8. Queue!Arrives(b)
      BY <2>1, <2>3, <2>5, <2>6, <2>7
      DEF Queue!Arrives, Quiet, NothingTaken, Queue!NothingTaken
    <2> QED BY <2>8 DEF Queue!Next
  <1>23. CASE Restart
    <2>1. /\ ring' = [i \in Index |-> Nul] /\ readI' = 0 /\ writeI' = 0
          /\ uart' = [on |-> FALSE, fifo |-> <<>>] /\ Quiet
      BY <1>23 DEF Restart
    <2>2. q' = <<>>
      BY <1>4, <2>1, EmptyRing DEF Bytes
    <2>3. SubSeq(q, 1, 0) = <<>>
      BY <1>5, SubSeqEmpty
    <2>4. 0 \in 0 .. N - 1 /\ 0 <= Len(q) /\ 0 <= N - 1
      BY <1>1, <1>2, <1>5
    <2> QED BY <2>1, <2>2, <2>3, <2>4
        DEF Queue!Next, Queue!DropNewest, Quiet, NothingTaken, Queue!NothingTaken
  <1>24. CASE UNCHANGED vars
    <2>1. q' = q /\ taken' = taken
      BY <1>3, <1>4, <1>24 DEF vars, indices
    <2> QED BY <2>1
  <1> QED
    BY <1>10, <1>13, <1>14, <1>16, <1>20, <1>21, <1>22, <1>23, <1>24 DEF Next, MainStep

\* ImplementsQueue of SerialPort: through the FIFO, the ring that rolls over and both
\* readers, the bytes a peer sends are returned in order and once, and lines are lines.
THEOREM SerialImplementsQueue == Spec => ImplementsQueue
PROOF
  <1>1. Init => Queue!Init
    <2> SUFFICES ASSUME Init PROVE Queue!Init
      OBVIOUS
    <2>1. InRing \o uart.fifo = Held(ring, 0, Fill(0, 0)) \o <<>>
      BY DEF Init, InRing, Held, Filled, Fill
    <2>2. ring \in [Index -> Byte]
      BY EmptyRing DEF Init
    <2> QED BY <2>1, <2>2, EmptyRing DEF Init, Queue!Init, NothingTaken, Queue!NothingTaken
  <1> QED
    BY <1>1, QueueStep, SerialTypeCorrect, PTL DEF Spec, ImplementsQueue, Queue!Spec
=============================================================================
