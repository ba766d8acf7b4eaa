-------------------------- MODULE AudioPathProofs --------------------------
(***************************************************************************)
(* Proofs about the way of a sample, for any sizes of the ring and of the  *)
(* server's buffer, any delay, numbering and number of faults: AudioPath   *)
(* implements AudioFlow, a fault spoils at most one sample, and without    *)
(* faults the samples are played in their order.                           *)
(***************************************************************************)
EXTENDS AudioPath, FunctionTheorems, FiniteSetTheorems, TLAPS

-----------------------------------------------------------------------------
\* Numbers.

\* The remainder of a number that is written with a quotient.
LEMMA Remainder == ASSUME NEW N \in Nat \ {0}, NEW q \in Nat, NEW r \in 0 .. N - 1
                   PROVE  (N * q + r) % N = r
OBVIOUS

\* Every number has a quotient and a remainder.
LEMMA Divide == ASSUME NEW N \in Nat \ {0}, NEW x \in Nat
                PROVE  \E q \in Nat, r \in 0 .. N - 1 : x = N * q + r
<1>1. x = N * (x \div N) + (x % N) /\ x \div N \in Nat /\ x % N \in 0 .. N - 1
  OBVIOUS
<1> QED BY <1>1

\* What is added to a remainder is added to the number.
LEMMA AddMod == ASSUME NEW N \in Nat \ {0}, NEW x \in Nat, NEW y \in Nat
                PROVE  (x + y) % N = ((x % N) + y) % N
<1>1. PICK q \in Nat, r \in 0 .. N - 1 : x = N * q + r
  BY Divide
<1>2. x % N = r
  BY <1>1, Remainder
<1>3. PICK p \in Nat, s \in 0 .. N - 1 : r + y = N * p + s
  <2>1. r + y \in Nat
    OBVIOUS
  <2> QED BY <2>1, Divide
<1>4. (r + y) % N = s
  BY <1>3, Remainder
<1>5. x + y = N * (q + p) + s /\ q + p \in Nat
  <2>1. N * (q + p) = N * q + N * p
    OBVIOUS
  <2> QED BY <2>1, <1>1, <1>3
<1>6. (x + y) % N = s
  BY <1>5, Remainder
<1> QED BY <1>2, <1>4, <1>6

-----------------------------------------------------------------------------
\* The samples that bytes stand for, counted by their second halves.

Numbering == 0 .. Numbers - 1
Byte == [half : {"hi", "lo"}, n : Numbering]

\* Numbers that are moved by the same distance stay as many.
LEMMA Shifted == ASSUME NEW S \in SUBSET Int, IsFiniteSet(S), NEW d \in Int
                 PROVE  /\ IsFiniteSet({x + d : x \in S})
                        /\ Cardinality({x + d : x \in S}) = Cardinality(S)
<1> DEFINE T == {x + d : x \in S}
           f == [x \in S |-> x + d]
<1>1. f \in Bijection(S, T)
  <2>1. f \in [S -> T]
    OBVIOUS
  <2>2. \A a, b \in S : f[a] = f[b] => a = b
    OBVIOUS
  <2>3. \A t \in T : \E s \in S : f[s] = t
    OBVIOUS
  <2> HIDE DEF f, T
  <2> QED BY <2>1, <2>2, <2>3, Fun_IsBij
<1>2. ExistsBijection(S, T)
  BY <1>1 DEF ExistsBijection
<1> HIDE DEF T
<1>3. IsFiniteSet(T) /\ Cardinality(T) = Cardinality(S)
  BY <1>2, FS_Bijection
<1> QED BY <1>3 DEF T

\* A line of bytes has finitely many.
LEMMA LosFinite == ASSUME NEW s \in Seq(Byte)
                   PROVE  IsFiniteSet(Los(s)) /\ Cardinality(Los(s)) \in Nat
<1>1. IsFiniteSet(1 .. Len(s))
  BY FS_Interval
<1>2. Los(s) \in SUBSET (1 .. Len(s))
  BY DEF Los
<1>3. IsFiniteSet(Los(s))
  BY <1>1, <1>2, FS_Subset
<1> QED BY <1>3, FS_CardinalityType

\* The first byte is taken.
LEMMA LosTail ==
    ASSUME NEW s \in Seq(Byte), s # <<>>
    PROVE  Cardinality(Los(Tail(s))) =
               Cardinality(Los(s)) - (IF Head(s).half = "lo" THEN 1 ELSE 0)
<1> DEFINE R == Los(s) \ {1}
<1>1. Los(s) \in SUBSET Int /\ IsFiniteSet(Los(s)) /\ IsFiniteSet(R)
  BY LosFinite, FS_RemoveElement DEF Los
<1>2. Los(Tail(s)) = {x + (-1) : x \in R}
  <2>1. Tail(s) \in Seq(Byte) /\ Len(Tail(s)) = Len(s) - 1 /\ Len(s) \in Nat
    OBVIOUS
  <2>2. \A i \in 1 .. Len(s) - 1 : Tail(s)[i] = s[i + 1]
    OBVIOUS
  <2>3. ASSUME NEW i \in Los(Tail(s)) PROVE i \in {x + (-1) : x \in R}
    <3>1. i + 1 \in R /\ i = (i + 1) + (-1)
      BY <2>1, <2>2, <2>3 DEF Los
    <3> QED BY <3>1
  <2>4. ASSUME NEW x \in R PROVE x + (-1) \in Los(Tail(s))
    <3>1. x - 1 \in 1 .. Len(s) - 1 /\ x \in 1 .. Len(s) /\ s[x].half = "lo"
      BY <2>1, <2>4 DEF Los
    <3>2. Tail(s)[x - 1] = s[x]
      BY <2>2, <3>1
    <3> QED BY <2>1, <3>1, <3>2 DEF Los
  <2> QED BY <2>3, <2>4
<1>3. Cardinality(Los(Tail(s))) = Cardinality(R)
  <2> DEFINE d == -1
  <2>1. R \in SUBSET Int /\ d \in Int
    BY <1>1
  <2> HIDE DEF R, d
  <2>2. Cardinality({x + d : x \in R}) = Cardinality(R)
    BY <1>1, <2>1, Shifted
  <2> QED BY <1>2, <2>2 DEF d
<1>4. 1 \in Los(s) <=> Head(s).half = "lo"
  BY DEF Los
<1>5. Cardinality(R) = IF 1 \in Los(s) THEN Cardinality(Los(s)) - 1 ELSE Cardinality(Los(s))
  BY <1>1, FS_RemoveElement
<1>6. Cardinality(Los(s)) \in Nat
  BY LosFinite
<1> HIDE DEF R
<1> QED BY <1>3, <1>4, <1>5, <1>6

\* Bytes are appended.
LEMMA LosConcat ==
    ASSUME NEW s \in Seq(Byte), NEW t \in Seq(Byte)
    PROVE  Cardinality(Los(s \o t)) = Cardinality(Los(s)) + Cardinality(Los(t))
<1> DEFINE T == {x + Len(s) : x \in Los(t)}
<1>1. Los(t) \in SUBSET Int /\ IsFiniteSet(Los(t)) /\ IsFiniteSet(Los(s)) /\ Len(s) \in Nat
  BY LosFinite DEF Los
<1>2. IsFiniteSet(T) /\ Cardinality(T) = Cardinality(Los(t))
  <2> DEFINE L == Los(t)
             d == Len(s)
  <2>1. L \in SUBSET Int /\ IsFiniteSet(L) /\ d \in Int
    BY <1>1
  <2> HIDE DEF L, d
  <2>2. /\ IsFiniteSet({x + d : x \in L})
        /\ Cardinality({x + d : x \in L}) = Cardinality(L)
    BY <2>1, Shifted
  <2> QED BY <2>2 DEF L, d
<1>3. Los(s \o t) = Los(s) \cup T
  <2>1. Len(s \o t) = Len(s) + Len(t) /\ Len(s) \in Nat /\ Len(t) \in Nat
    OBVIOUS
  <2>2. \A i \in 1 .. Len(s) : (s \o t)[i] = s[i]
    OBVIOUS
  <2>3. \A i \in 1 .. Len(t) : (s \o t)[i + Len(s)] = t[i]
    OBVIOUS
  <2>4. ASSUME NEW i \in Los(s \o t) PROVE i \in Los(s) \cup T
    <3>1. i \in 1 .. Len(s) + Len(t) /\ (s \o t)[i].half = "lo"
      BY <2>1, <2>4 DEF Los
    <3>2. CASE i <= Len(s)
      BY <2>1, <2>2, <3>1, <3>2 DEF Los
    <3>3. CASE i > Len(s)
      <4>1. i - Len(s) \in 1 .. Len(t) /\ i = (i - Len(s)) + Len(s)
        BY <2>1, <3>1, <3>3
      <4>2. i - Len(s) \in Los(t)
        BY <2>3, <3>1, <4>1 DEF Los
      <4> QED BY <4>1, <4>2
    <3> QED BY <2>1, <3>1, <3>2, <3>3
  <2>5. Los(s) \subseteq Los(s \o t)
    BY <2>1, <2>2 DEF Los
  <2>6. ASSUME NEW x \in Los(t) PROVE x + Len(s) \in Los(s \o t)
    BY <2>1, <2>3, <2>6 DEF Los
  <2> QED BY <2>4, <2>5, <2>6
<1>4. Los(s) \cap T = {}
  BY <1>1 DEF Los
<1> HIDE DEF T
<1>5. Cardinality(Los(s) \cup T) = Cardinality(Los(s)) + Cardinality(T) - Cardinality({})
  BY <1>1, <1>2, <1>4, FS_Union
<1> QED BY <1>2, <1>3, <1>5, LosFinite, FS_EmptySet

\* Only some of the first bytes are left.
LEMMA LosSub ==
    ASSUME NEW s \in Seq(Byte), NEW k \in 0 .. Len(s)
    PROVE  /\ SubSeq(s, 1, k) \in Seq(Byte)
           /\ Cardinality(Los(SubSeq(s, 1, k))) <= Cardinality(Los(s))
<1>1. Len(SubSeq(s, 1, k)) = k /\ \A i \in 1 .. k : SubSeq(s, 1, k)[i] = s[i]
  OBVIOUS
<1>2. Los(SubSeq(s, 1, k)) \subseteq Los(s)
  BY <1>1 DEF Los
<1> QED BY <1>2, LosFinite, FS_Subset

\* The two bytes of each sample, one by one.
LEMMA BytesOf ==
    ASSUME NEW b \in Seq(Numbering)
    PROVE  /\ Bytes(b) \in Seq(Byte) /\ Len(Bytes(b)) = 2 * Len(b)
           /\ \A j \in 1 .. Len(b) : /\ Bytes(b)[2 * j - 1] = Hi(b[j])
                                     /\ Bytes(b)[2 * j] = Lo(b[j])
           /\ \A i \in 1 .. 2 * Len(b) :
                 \E j \in 1 .. Len(b) : i = 2 * j - 1 \/ i = 2 * j
<1>1. Len(b) \in Nat /\ \A j \in 1 .. Len(b) : b[j] \in Numbering
  OBVIOUS
<1>2. ASSUME NEW j \in 1 .. Len(b)
      PROVE  Bytes(b)[2 * j - 1] = Hi(b[j]) /\ Bytes(b)[2 * j] = Lo(b[j])
  <2>1. /\ 2 * j - 1 \in 1 .. 2 * Len(b) /\ ((2 * j - 1) + 1) \div 2 = j
        /\ 2 - ((2 * j - 1) % 2) = 1
    BY <1>1
  <2>2. 2 * j \in 1 .. 2 * Len(b) /\ (2 * j + 1) \div 2 = j /\ 2 - ((2 * j) % 2) = 2
    BY <1>1
  <2> QED BY <2>1, <2>2 DEF Bytes, Encoded
<1>3. ASSUME NEW i \in 1 .. 2 * Len(b)
      PROVE  \E j \in 1 .. Len(b) : i = 2 * j - 1 \/ i = 2 * j
  <2>1. (i + 1) \div 2 \in 1 .. Len(b) /\ (i = 2 * ((i + 1) \div 2) - 1 \/ i = 2 * ((i + 1) \div 2))
    BY <1>1
  <2> QED BY <2>1
<1>4. ASSUME NEW i \in 1 .. 2 * Len(b) PROVE Bytes(b)[i] \in Byte
  <2>1. PICK j \in 1 .. Len(b) : i = 2 * j - 1 \/ i = 2 * j
    BY <1>3
  <2>2. Bytes(b)[i] = Hi(b[j]) \/ Bytes(b)[i] = Lo(b[j])
    BY <1>2, <2>1
  <2> QED BY <1>1, <2>2 DEF Hi, Lo, Byte
<1>5. DOMAIN Bytes(b) = 1 .. 2 * Len(b) /\ Bytes(b) = [i \in 1 .. 2 * Len(b) |-> Bytes(b)[i]]
  BY DEF Bytes
<1>6. Bytes(b) \in Seq(Byte) /\ Len(Bytes(b)) = 2 * Len(b)
  BY <1>1, <1>4, <1>5
<1> QED BY <1>2, <1>3, <1>6

\* The bytes of samples stand for as many.
LEMMA LosBytes ==
    ASSUME NEW b \in Seq(Numbering)
    PROVE  Cardinality(Los(Bytes(b))) = Len(b)
<1> DEFINE S == 1 .. Len(b)
           T == Los(Bytes(b))
           f == [j \in S |-> 2 * j]
<1>1. T = {2 * j : j \in S}
  <2>1. ASSUME NEW i \in T PROVE i \in {2 * j : j \in S}
    <3>1. i \in 1 .. 2 * Len(b) /\ Bytes(b)[i].half = "lo"
      BY <2>1, BytesOf DEF Los
    <3>2. PICK j \in S : i = 2 * j - 1 \/ i = 2 * j
      BY <3>1, BytesOf
    <3>3. i # 2 * j - 1
      <4>1. Bytes(b)[2 * j - 1] = Hi(b[j]) /\ Hi(b[j]).half = "hi"
        BY BytesOf DEF Hi
      <4> QED BY <3>1, <4>1
    <3> QED BY <3>2, <3>3
  <2>2. ASSUME NEW j \in S PROVE 2 * j \in T
    <3>1. 2 * j \in 1 .. 2 * Len(b) /\ Bytes(b)[2 * j] = Lo(b[j]) /\ Len(Bytes(b)) = 2 * Len(b)
      BY BytesOf
    <3> QED BY <3>1 DEF Los, Lo
  <2> QED BY <2>1, <2>2
<1>2. f \in Bijection(S, T)
  <2> HIDE DEF T
  <2>1. f \in [S -> T]
    BY <1>1
  <2>2. \A a, c \in S : f[a] = f[c] => a = c
    OBVIOUS
  <2>3. \A t \in T : \E s \in S : f[s] = t
    BY <1>1
  <2> HIDE DEF f, S
  <2> QED BY <2>1, <2>2, <2>3, Fun_IsBij
<1>3. IsFiniteSet(S) /\ Cardinality(S) = Len(b)
  <2>1. Len(b) \in Nat
    OBVIOUS
  <2>2. Cardinality(1 .. Len(b)) = IF 1 > Len(b) THEN 0 ELSE Len(b) - 1 + 1
    BY <2>1, FS_Interval
  <2> QED BY <2>1, <2>2, FS_Interval
<1>4. ExistsBijection(S, T)
  BY <1>2 DEF ExistsBijection
<1> HIDE DEF S, T
<1>5. Cardinality(T) = Cardinality(S)
  BY <1>3, <1>4, FS_Bijection
<1> QED BY <1>3, <1>5 DEF T

-----------------------------------------------------------------------------
\* AudioPath implements AudioFlow.  The types suffice, and that a server that is
\* not serving is the mark of a fault.

PathInv ==
  /\ mode \in {"wait", "connected"}
  /\ audio_read \in 0 .. AudioSize - 1 /\ audio_write \in 0 .. AudioSize - 1
  /\ audio_tmp \in Numbering /\ number \in Numbering
  /\ rxisr \in {"returns", "spins"}
  /\ fifo \in Nat /\ inq \in Nat /\ faults \in Nat /\ torn \in Nat
  /\ batch \in Seq(Numbering) /\ down \in Seq(Byte)
  /\ server \in {"down", "clearing", "serving"}
  /\ server # "serving" => faults > 0

\* The length of the ring as its indices move.
LEMMA RingLength ==
    ASSUME NEW r \in 0 .. AudioSize - 1, NEW w \in 0 .. AudioSize - 1
    PROVE  LET length(a, b) == (b + AudioSize - a) % AudioSize
           IN  /\ Inc(r) \in 0 .. AudioSize - 1
               /\ length(r, w) \in 0 .. AudioSize - 1
               /\ length(r, w) = 0 <=> r = w
               /\ length(r, w) = AudioSize - 1 <=> Inc(w) = r
               /\ r # w => length(Inc(r), w) = length(r, w) - 1
               /\ Inc(w) # r => length(r, Inc(w)) = length(r, w) + 1
<1> DEFINE A == AudioSize
           length(a, b) == (b + A - a) % A
           size(a, b) == IF a <= b THEN b - a ELSE b + A - a
           next(i) == IF i = A - 1 THEN 0 ELSE i + 1
<1>0. A \in Nat \ {0}
  BY PathAssumption
<1>1. ASSUME NEW x \in 0 .. A - 1 PROVE x % A = x /\ (x + A) % A = x
  <2>1. x = A * 0 + x /\ x + A = A * 1 + x
    BY <1>0
  <2> QED BY <1>0, <2>1, Remainder
<1>2. \A i \in 0 .. A - 1 : Inc(i) = next(i) /\ next(i) \in 0 .. A - 1
  <2> TAKE i \in 0 .. A - 1
  <2>1. CASE i = A - 1
    <3>1. (0 + A) % A = 0
      BY <1>0, <1>1
    <3> QED BY <1>0, <2>1, <3>1 DEF Inc
  <2>2. CASE i # A - 1
    <3>1. (i + 1) % A = i + 1
      BY <1>0, <1>1, <2>2
    <3> QED BY <1>0, <2>2, <3>1 DEF Inc
  <2> QED BY <2>1, <2>2
<1>3. \A a, b \in 0 .. A - 1 : length(a, b) = size(a, b)
  <2> TAKE a, b \in 0 .. A - 1
  <2>1. CASE a <= b
    <3>1. b - a \in 0 .. A - 1 /\ b + A - a = (b - a) + A
      BY <1>0, <2>1
    <3> QED BY <1>1, <2>1, <3>1
  <2>2. CASE ~ (a <= b)
    <3>1. b + A - a \in 0 .. A - 1
      BY <1>0, <2>2
    <3> QED BY <1>1, <2>2, <3>1
  <2> QED BY <2>1, <2>2
<1> HIDE DEF length, A
<1>4. /\ Inc(r) \in 0 .. A - 1
      /\ length(r, w) \in 0 .. A - 1
      /\ length(r, w) = 0 <=> r = w
      /\ length(r, w) = A - 1 <=> Inc(w) = r
      /\ r # w => length(Inc(r), w) = length(r, w) - 1
      /\ Inc(w) # r => length(r, Inc(w)) = length(r, w) + 1
  <2>0. r \in 0 .. A - 1 /\ w \in 0 .. A - 1
    BY DEF A
  <2>1. /\ Inc(r) = next(r) /\ Inc(w) = next(w) /\ length(r, w) = size(r, w)
        /\ length(next(r), w) = size(next(r), w) /\ length(r, next(w)) = size(r, next(w))
    BY <1>2, <1>3, <2>0
  <2> QED BY <1>0, <2>0, <2>1
<1> QED BY <1>4 DEF length, A

\* Nothing is on its way.
LEMMA InitPath == Init => PathInv /\ F!Init
<1> SUFFICES ASSUME Init PROVE PathInv /\ F!Init
  OBVIOUS
<1>1. PathInv
  BY PathAssumption DEF Init, McuInit, PathInv, Numbering
<1>2. audio_length = 0
  BY <1>1, RingLength DEF PathInv, Init, McuInit, audio_length
<1>3. Los(down) = {}
  BY DEF Init, Los
<1>4. outstanding = 0
  BY <1>3, FS_EmptySet DEF Init, McuInit, outstanding
<1> QED BY <1>1, <1>2, <1>4 DEF Init, McuInit, F!Init

\* What is outstanding is a number.
LEMMA Outstanding == PathInv => outstanding \in Nat /\ Cardinality(Los(down)) \in Nat
BY LosFinite DEF PathInv, outstanding

LEMMA TimerPath == PathInv /\ Timer4_ISR => PathInv' /\ F!Tick
<1> SUFFICES ASSUME PathInv, Timer4_ISR PROVE PathInv' /\ F!Tick
  OBVIOUS
<1>1. /\ audio_length \in 0 .. AudioSize - 1
      /\ audio_length = 0 <=> audio_empty
      /\ Inc(audio_read) \in 0 .. AudioSize - 1
      /\ ~ audio_empty /\ audio_read' = Inc(audio_read) /\ audio_write' = audio_write
            => audio_length' = audio_length - 1
  BY RingLength DEF PathInv, audio_length, audio_empty
<1>2. PathInv'
  BY <1>1 DEF Timer4_ISR, PathInv, RequestSample, host, history
<1>3. outstanding' = outstanding + 1
  BY Outstanding DEF Timer4_ISR, RequestSample, host, outstanding, PathInv
<1>4. audio_read' = audio_read => audio_length' = audio_length
  BY DEF Timer4_ISR, audio_length
<1> QED BY <1>1, <1>2, <1>3, <1>4
        DEF Timer4_ISR, PathInv, F!Tick, F!RequestSample, F!CanStart, history

\* It is after a step, too.
LEMMA OutstandingNext == PathInv' => outstanding' \in Nat
BY LosFinite DEF PathInv, outstanding

\* Everything that the abstract state is made of stays as it is.
Still == UNCHANGED <<mode, audio_length, outstanding, rxisr, faults>>

\* A first half changes nothing; a second half is an arrival.
LEMMA ReceivePath == PathInv /\ UART0_ISR => PathInv' /\ (F!Arrive \/ Still)
<1> SUFFICES ASSUME PathInv, UART0_ISR PROVE PathInv' /\ (F!Arrive \/ Still)
  OBVIOUS
<1> DEFINE c == Head(down)
<1>1. /\ down \in Seq(Byte) /\ down # <<>> /\ down' = Tail(down)
      /\ UNCHANGED <<mode, audio_read, fifo, server, inq, batch, number, faults>>
      /\ rxisr = "returns"
  BY DEF PathInv, UART0_ISR, host
<1>2. c \in Byte /\ Tail(down) \in Seq(Byte)
  BY <1>1
<1>3. c.half \in {"hi", "lo"} /\ c.n \in Numbering
  BY <1>2 DEF Byte
<1>4. Cardinality(Los(down')) = Cardinality(Los(down)) - (IF c.half = "lo" THEN 1 ELSE 0)
  BY <1>1, LosTail
<1> HIDE DEF c
<1>5. outstanding' = outstanding - (IF c.half = "lo" THEN 1 ELSE 0)
  BY <1>1, <1>4, Outstanding DEF outstanding, PathInv
<1>6. CASE c.half = "hi"
  <2>1. audio_tmp' = c.n /\ UNCHANGED <<audio_write, audio_buf, rxisr, torn>>
    BY <1>6 DEF UART0_ISR, c
  <2>2. PathInv'
    BY <1>1, <1>2, <1>3, <2>1 DEF PathInv
  <2>3. Still
    BY <1>1, <1>5, <1>6, <2>1, Outstanding DEF Still, audio_length
  <2> QED BY <2>2, <2>3
<1>7. CASE c.half = "lo" /\ audio_full
  <2>1. rxisr' = "spins" /\ UNCHANGED <<audio_tmp, audio_write, audio_buf, torn>>
    BY <1>7 DEF UART0_ISR, c
  <2>2. PathInv'
    BY <1>1, <1>2, <1>3, <2>1 DEF PathInv
  <2>3. audio_length = AudioSize - 1 /\ audio_length' = audio_length
    BY <1>1, <1>7, <2>1, RingLength DEF PathInv, audio_full, audio_length
  <2>4. outstanding > 0
    BY <1>5, <1>7, <2>2, Outstanding, OutstandingNext
  <2> QED BY <1>1, <1>5, <1>7, <2>1, <2>2, <2>3, <2>4 DEF F!Arrive
<1>8. CASE c.half = "lo" /\ ~ audio_full
  <2>1. /\ audio_write' = Inc(audio_write) /\ UNCHANGED <<audio_tmp, rxisr>>
        /\ torn' = torn + (IF audio_tmp = c.n THEN 0 ELSE 1)
    BY <1>8 DEF UART0_ISR, audio_put, c
  <2>2. PathInv'
    BY <1>1, <1>2, <1>3, <2>1, RingLength DEF PathInv
  <2>3. audio_length # AudioSize - 1 /\ audio_length' = audio_length + 1
    BY <1>1, <1>8, <2>1, RingLength DEF PathInv, audio_full, audio_length
  <2>4. outstanding > 0
    BY <1>5, <1>8, <2>2, Outstanding, OutstandingNext
  <2> QED BY <1>1, <1>5, <1>8, <2>1, <2>2, <2>3, <2>4 DEF F!Arrive
<1> QED BY <1>3, <1>6, <1>7, <1>8

\* Requests are lost when nobody has the port open.
LEMMA UplinkPath == PathInv /\ Uplink => PathInv' /\ (F!Lose \/ Still)
<1> SUFFICES ASSUME PathInv, Uplink PROVE PathInv' /\ (F!Lose \/ Still)
  OBVIOUS
<1>1. /\ fifo > 0 /\ fifo' = fifo - 1
      /\ inq' = IF server = "down" THEN inq ELSE inq + 1
      /\ UNCHANGED <<mode, audio_read, audio_write, audio_tmp, rxisr, server, batch, number,
                     down, faults, torn>>
  BY DEF Uplink, ring, history
<1>2. PathInv'
  BY <1>1 DEF PathInv
<1>3. audio_length' = audio_length
  BY <1>1 DEF audio_length
<1>4. CASE server = "down"
  <2>1. outstanding' = outstanding - 1 /\ 1 \in 0 .. outstanding
    BY <1>1, <1>2, <1>4, Outstanding DEF outstanding, PathInv
  <2>2. faults # 0 /\ faults' # 0
    BY <1>1, <1>4 DEF PathInv
  <2> QED BY <1>1, <1>2, <1>3, <2>1, <2>2 DEF F!Lose
<1>5. CASE server # "down"
  <2>1. outstanding' = outstanding
    BY <1>1, <1>5, Outstanding DEF outstanding, PathInv
  <2> QED BY <1>1, <1>2, <1>3, <2>1 DEF Still
<1> QED BY <1>4, <1>5

\* A pass of the server moves requests on.
LEMMA ReadPath ==
    ASSUME PathInv, NEW n \in 1 .. INBUF_SIZE, n <= inq, Read(n)
    PROVE  PathInv' /\ Still
<1>1. /\ batch = <<>> /\ inq' = inq - n
      /\ batch' = [i \in 1 .. n |-> (number + i - 1) % Numbers]
      /\ number' = (number + n) % Numbers
      /\ UNCHANGED <<mode, audio_read, audio_write, audio_tmp, rxisr, fifo, server, down,
                     faults, torn>>
  BY DEF Read, ring, history
<1>2. n \in Nat /\ Numbers \in Nat \ {0} /\ number \in Nat
  BY PathAssumption DEF PathInv, Numbering
<1>3. \A x \in Nat : x % Numbers \in Numbering
  BY <1>2 DEF Numbering
<1>4. \A i \in 1 .. n : (number + i - 1) % Numbers \in Numbering
  <2> TAKE i \in 1 .. n
  <2>1. number + i - 1 \in Nat
    BY <1>2
  <2> QED BY <1>3, <2>1
<1>5. batch' \in Seq(Numbering) /\ Len(batch') = n
  BY <1>1, <1>2, <1>4
<1>6. number' \in Numbering
  <2>1. number + n \in Nat
    BY <1>2
  <2> QED BY <1>1, <1>3, <2>1
<1>7. PathInv'
  BY <1>1, <1>2, <1>5, <1>6 DEF PathInv
<1>8. audio_length' = audio_length
  BY <1>1 DEF audio_length
<1>9. outstanding' = outstanding
  <2>1. Len(batch) = 0
    BY <1>1
  <2> QED BY <1>1, <1>2, <1>5, <2>1, Outstanding DEF outstanding, PathInv
<1> QED BY <1>1, <1>7, <1>8, <1>9 DEF Still

\* The samples written are as many as their bytes stand for.
LEMMA WritePath == PathInv /\ Write => PathInv' /\ Still
<1> SUFFICES ASSUME PathInv, Write PROVE PathInv' /\ Still
  OBVIOUS
<1>1. /\ down' = down \o Bytes(batch) /\ batch' = <<>>
      /\ UNCHANGED <<mode, audio_read, audio_write, audio_tmp, rxisr, fifo, server, inq, number,
                     faults, torn>>
      /\ batch \in Seq(Numbering) /\ down \in Seq(Byte)
  BY DEF Write, ring, history, PathInv
<1>2. Bytes(batch) \in Seq(Byte)
  BY <1>1, BytesOf
<1>3. down' \in Seq(Byte) /\ batch' \in Seq(Numbering) /\ Len(batch') = 0
  BY <1>1, <1>2
<1>4. Cardinality(Los(down')) = Cardinality(Los(down)) + Len(batch)
  BY <1>1, <1>2, LosConcat, LosBytes
<1>5. PathInv'
  BY <1>1, <1>3 DEF PathInv
<1>6. audio_length' = audio_length
  BY <1>1 DEF audio_length
<1>7. outstanding' = outstanding
  <2>1. Len(batch) \in Nat
    BY <1>1
  <2> QED BY <1>1, <1>3, <1>4, <2>1, Outstanding DEF outstanding, PathInv
<1> QED BY <1>1, <1>5, <1>6, <1>7 DEF Still

\* A server that starts throws requests away.
LEMMA ClearPath == PathInv /\ Clear => PathInv' /\ (F!Lose \/ Still)
<1> SUFFICES ASSUME PathInv, Clear PROVE PathInv' /\ (F!Lose \/ Still)
  OBVIOUS
<1>1. /\ server = "clearing" /\ faults > 0
      /\ IF inq > 0
           THEN /\ inq' = IF inq > INBUF_SIZE THEN inq - INBUF_SIZE ELSE 0
                /\ UNCHANGED server
           ELSE server' = "serving" /\ UNCHANGED inq
      /\ UNCHANGED <<mode, audio_read, audio_write, audio_tmp, rxisr, fifo, batch, number, down,
                     faults, torn>>
  BY DEF Clear, ring, history, PathInv
<1>2. INBUF_SIZE \in Nat /\ inq' \in 0 .. inq
  BY <1>1, PathAssumption DEF PathInv
<1>3. PathInv'
  BY <1>1, <1>2 DEF PathInv
<1>4. audio_length' = audio_length
  BY <1>1 DEF audio_length
<1>5. inq - inq' \in 0 .. outstanding /\ outstanding' = outstanding - (inq - inq')
  <2> DEFINE rest == Len(batch) + Cardinality(Los(down))
  <2>1. rest \in Nat /\ fifo \in Nat /\ inq \in Nat
    BY Outstanding DEF PathInv
  <2> HIDE DEF rest
  <2>2. outstanding = fifo + inq + rest /\ outstanding' = fifo + inq' + rest
    <3>1. Len(batch) \in Nat /\ Cardinality(Los(down)) \in Nat
      BY Outstanding DEF PathInv
    <3> QED BY <1>1, <1>2, <2>1, <3>1 DEF outstanding, rest
  <2> DEFINE i == inq'
  <2>3. i \in 0 .. inq
    BY <1>2
  <2> HIDE DEF i
  <2>4. /\ inq - i \in 0 .. (fifo + inq + rest)
        /\ fifo + i + rest = (fifo + inq + rest) - (inq - i)
    BY ONLY <2>1, <2>3
  <2> QED BY <2>2, <2>4 DEF i
<1>6. faults # 0 /\ faults' # 0
  BY <1>1 DEF PathInv
<1> QED BY <1>1, <1>3, <1>4, <1>5, <1>6 DEF F!Lose

\* A server is started.
LEMMA StartPath == PathInv /\ Start => PathInv' /\ Still
BY DEF PathInv, Start, Still, ring, history, outstanding, audio_length

\* With a server what it holds is lost, and what it had written perhaps.
LEMMA CrashPath == PathInv /\ Crash => PathInv' /\ F!Lose
<1> SUFFICES ASSUME PathInv, Crash PROVE PathInv' /\ F!Lose
  OBVIOUS
<1>1. /\ faults' = faults + 1 /\ server' = "down" /\ inq' = 0 /\ batch' = <<>>
      /\ UNCHANGED <<mode, audio_read, audio_write, audio_tmp, rxisr, fifo, number, torn>>
  BY DEF Crash, Fault, ring
<1>2. PICK k \in 0 .. Len(down) : down' = SubSeq(down, 1, k)
  BY DEF Crash
<1>3. down' \in Seq(Byte) /\ Cardinality(Los(down')) <= Cardinality(Los(down))
  BY <1>2, LosSub DEF PathInv
<1>4. PathInv'
  BY <1>1, <1>3 DEF PathInv
<1>5. audio_length' = audio_length
  BY <1>1 DEF audio_length
<1>6. \E j \in 0 .. outstanding : outstanding' = outstanding - j
  <2>1. Len(batch) \in Nat /\ Len(batch') = 0
    BY <1>1 DEF PathInv
  <2>2. Cardinality(Los(down)) \in Nat /\ Cardinality(Los(down')) \in Nat
    BY <1>3, LosFinite DEF PathInv
  <2>3. outstanding \in Nat /\ outstanding' \in Nat /\ outstanding' <= outstanding
    BY <1>1, <1>3, <2>1, <2>2 DEF outstanding, PathInv
  <2> DEFINE o == outstanding
             p == outstanding'
  <2> HIDE DEF o, p
  <2>4. o \in Nat /\ p \in Nat /\ p <= o
    BY <2>3 DEF o, p
  <2>5. o - p \in 0 .. o /\ p = o - (o - p)
    BY ONLY <2>4
  <2> QED BY <2>5 DEF o, p
<1>7. faults' # 0
  BY <1>1 DEF PathInv
<1> QED BY <1>1, <1>4, <1>5, <1>6, <1>7 DEF F!Lose

\* The board starts again with an empty ring and an empty FIFO.
LEMMA ResetPath == PathInv /\ Reset => PathInv' /\ F!Reset
<1> SUFFICES ASSUME PathInv, Reset PROVE PathInv' /\ F!Reset
  OBVIOUS
<1>1. /\ faults' = faults + 1 /\ mode' = "wait" /\ audio_read' = 0 /\ audio_write' = 0
      /\ audio_tmp' = 0 /\ rxisr' = "returns" /\ fifo' = 0
      /\ UNCHANGED <<server, inq, batch, number, down, torn>>
  BY DEF Reset, Fault, host
<1>2. PathInv'
  BY <1>1, PathAssumption DEF PathInv, Numbering
<1>3. audio_length' = 0
  BY <1>1, <1>2, RingLength DEF PathInv, audio_length
<1>4. outstanding' \in 0 .. outstanding
  <2>1. Len(batch) \in Nat
    BY DEF PathInv
  <2> QED BY <1>1, <2>1, Outstanding DEF outstanding, PathInv
<1>5. faults' # 0
  BY <1>1 DEF PathInv
<1> QED BY <1>1, <1>2, <1>3, <1>4, <1>5 DEF F!Reset

\* A byte that is lost may have stood for a sample.
LEMMA LosePath == PathInv /\ LoseByte => PathInv' /\ F!Lose
<1> SUFFICES ASSUME PathInv, LoseByte PROVE PathInv' /\ F!Lose
  OBVIOUS
<1>1. /\ faults' = faults + 1
      /\ UNCHANGED <<mode, audio_read, audio_write, audio_tmp, rxisr, server, inq, batch, number,
                     torn>>
  BY DEF LoseByte, Fault, ring, host
<1>2. audio_length' = audio_length
  BY <1>1 DEF audio_length
<1>3. faults' # 0
  BY <1>1 DEF PathInv
<1>4. Len(batch) \in Nat
  BY DEF PathInv
<1>5. CASE down # <<>> /\ down' = Tail(down) /\ UNCHANGED fifo
  <2>1. down \in Seq(Byte) /\ down' \in Seq(Byte)
    BY <1>5 DEF PathInv
  <2>2. Cardinality(Los(down')) = Cardinality(Los(down)) - (IF Head(down).half = "lo" THEN 1 ELSE 0)
    BY <1>5, <2>1, LosTail
  <2>3. PathInv'
    BY <1>1, <1>5, <2>1 DEF PathInv
  <2>4. PICK k \in {0, 1} : outstanding' = outstanding - k
    BY <1>1, <1>4, <1>5, <2>2, Outstanding DEF outstanding, PathInv
  <2>5. k \in 0 .. outstanding
    <3>1. outstanding' \in Nat
      BY <2>3, OutstandingNext
    <3> QED BY <2>4, <3>1, Outstanding
  <2> QED BY <1>1, <1>2, <1>3, <2>3, <2>4, <2>5 DEF F!Lose
<1>6. CASE fifo > 0 /\ fifo' = fifo - 1 /\ UNCHANGED down
  <2>1. PathInv'
    BY <1>1, <1>6 DEF PathInv
  <2>2. outstanding' = outstanding - 1 /\ 1 \in 0 .. outstanding
    BY <1>1, <1>4, <1>6, Outstanding DEF outstanding, PathInv
  <2> QED BY <1>1, <1>2, <1>3, <2>1, <2>2 DEF F!Lose
<1> QED BY <1>5, <1>6 DEF LoseByte

\* Every step is one of AudioFlow or none.
LEMMA FlowStep == PathInv /\ [Next]_vars => PathInv' /\ [F!Next]_(F!vars)
<1> SUFFICES ASSUME PathInv, [Next]_vars PROVE PathInv' /\ [F!Next]_(F!vars)
  OBVIOUS
<1>1. Still => UNCHANGED F!vars
  BY DEF Still, F!vars
<1>2. CASE ReadFull \/ ReadTimeout
  <2>1. PICK n \in 1 .. INBUF_SIZE : n <= inq /\ Read(n)
    BY <1>2, PathAssumption DEF ReadFull, ReadTimeout, PathInv
  <2> QED BY <1>1, <2>1, ReadPath
<1>3. CASE UNCHANGED vars
  <2>1. PathInv' /\ Still
    BY <1>3 DEF vars, ring, host, history, PathInv, Still, outstanding, audio_length
  <2> QED BY <1>1, <2>1
<1> QED BY <1>1, <1>2, <1>3, TimerPath, ReceivePath, UplinkPath, WritePath, ClearPath, StartPath,
           CrashPath, ResetPath, LosePath DEF Next, F!Next

\* The types hold of every reachable state.
THEOREM PathInvariant == Spec => []PathInv
<1>1. PathInv /\ [Next]_vars => PathInv'
  BY FlowStep
<1> QED BY <1>1, InitPath, PTL DEF Spec

\* For every size, delay and number of faults, the indices of the ring, the two
\* bytes of a sample and the passes of the server keep what AudioFlow promises
\* (labfinal.c:39-54, 115-131, 176-190, server.cpp:193-254).
THEOREM FlowHolds == Spec => Flow
<1>1. PathInv /\ [Next]_vars => [F!Next]_(F!vars)
  BY FlowStep
<1>2. Init => F!Init
  BY InitPath
<1> QED BY <1>1, <1>2, PathInvariant, PTL DEF Spec, Flow, F!Spec

-----------------------------------------------------------------------------
\* What AudioFlow's invariant says of the board itself.

\* The ring has room for what was stored when playing started, the requests
\* made since, and the one more that made the mode switch.
RoomForDelay == StartLevel + MaxDelay + 1 < AudioSize

\* The receive interrupt of the board never reaches the endless loop it has for
\* a full ring, whatever the server, the lines and the resets do, as long as a
\* request is answered or lost within AudioSize - StartLevel - 2 ticks
\* (labfinal.c:184).
THEOREM NeverSpins == RoomForDelay => (Spec => [](rxisr = "returns"))
<1> SUFFICES ASSUME RoomForDelay PROVE Spec => [](rxisr = "returns")
  OBVIOUS
<1>0. AudioSize \in Nat \ {0} /\ StartLevel \in Nat /\ MaxDelay \in Nat \ {0}
  BY PathAssumption
<1> USE <1>0 DEF F!Modes, F!CanStart, F!RequestSample
<1>1. F!Init => F!FlowInv
  BY DEF F!Init, F!FlowInv, F!TypeOK, F!Committed
<1>2. F!FlowInv /\ [F!Next]_(F!vars) => F!FlowInv'
  <2> SUFFICES ASSUME F!FlowInv, [F!Next]_(F!vars) PROVE F!FlowInv'
    OBVIOUS
  <2> USE DEF F!FlowInv, F!TypeOK, F!Committed
  <2>1. CASE F!Tick
    BY <2>1 DEF F!Tick
  <2>2. CASE F!Arrive
    <3>1. audio_length # AudioSize - 1
      BY <2>2 DEF F!Arrive, RoomForDelay
    <3> QED BY <2>2, <3>1 DEF F!Arrive
  <2>3. CASE F!Lose
    BY <2>3 DEF F!Lose
  <2>4. CASE F!Reset
    BY <2>4 DEF F!Reset
  <2>5. CASE UNCHANGED F!vars
    BY <2>5 DEF F!vars
  <2> QED BY <2>1, <2>2, <2>3, <2>4, <2>5 DEF F!Next
<1>3. F!FlowInv => rxisr = "returns"
  BY DEF F!FlowInv
<1> QED BY <1>1, <1>2, <1>3, FlowHolds, PTL DEF Flow, F!Spec

-----------------------------------------------------------------------------
\* What a fault spoils.  Behind the first byte of the line a second half always
\* comes right after its own first half, so at most the sample that is being
\* received is torn, and only a fault makes it so.

Paired(s) == \A i \in 2 .. Len(s) : s[i].half = "lo" => s[i - 1] = Hi(s[i].n)
Spoilt(tmp, s) == s # <<>> /\ Head(s).half = "lo" /\ tmp # Head(s).n
Pending == IF Spoilt(audio_tmp, down) THEN 1 ELSE 0

ResyncInv == /\ PathInv
             /\ Paired(down)
             /\ torn + Pending <= faults

\* The bytes of samples are pairs.
LEMMA BytesPaired == ASSUME NEW b \in Seq(Numbering)
                     PROVE  /\ Paired(Bytes(b))
                            /\ Bytes(b) # <<>> => Head(Bytes(b)).half = "hi"
<1>1. Len(Bytes(b)) = 2 * Len(b) /\ Bytes(b) \in Seq(Byte) /\ Len(b) \in Nat
  BY BytesOf
<1>2. ASSUME NEW i \in 2 .. 2 * Len(b), Bytes(b)[i].half = "lo"
      PROVE  Bytes(b)[i - 1] = Hi(Bytes(b)[i].n)
  <2>1. PICK j \in 1 .. Len(b) : i = 2 * j - 1 \/ i = 2 * j
    <3>1. i \in 1 .. 2 * Len(b)
      BY <1>1
    <3> QED BY <3>1, BytesOf
  <2>2. Bytes(b)[2 * j - 1] = Hi(b[j]) /\ Bytes(b)[2 * j] = Lo(b[j])
    BY BytesOf
  <2>3. i = 2 * j
    BY <1>2, <2>1, <2>2 DEF Hi
  <2>4. i - 1 = 2 * j - 1 /\ Bytes(b)[i].n = b[j]
    BY <2>2, <2>3 DEF Lo
  <2> QED BY <2>2, <2>4
<1>3. Bytes(b) # <<>> => Head(Bytes(b)).half = "hi"
  <2> SUFFICES ASSUME Bytes(b) # <<>> PROVE Head(Bytes(b)).half = "hi"
    OBVIOUS
  <2>1. Len(b) > 0 /\ Head(Bytes(b)) = Bytes(b)[1]
    BY <1>1
  <2>2. 1 \in 1 .. Len(b) /\ 2 * 1 - 1 = 1
    BY <1>1, <2>1
  <2>3. Bytes(b)[1] = Hi(b[1])
    BY <2>2, BytesOf
  <2> QED BY <2>1, <2>3 DEF Hi
<1> QED BY <1>1, <1>2, <1>3 DEF Paired

\* Pairs are appended.
LEMMA PairedConcat ==
    ASSUME NEW s \in Seq(Byte), NEW t \in Seq(Byte), Paired(s), Paired(t),
           t # <<>> => Head(t).half = "hi"
    PROVE  Paired(s \o t)
<1>1. /\ Len(s \o t) = Len(s) + Len(t) /\ Len(s) \in Nat /\ Len(t) \in Nat
      /\ \A i \in 1 .. Len(s) : (s \o t)[i] = s[i]
      /\ \A i \in 1 .. Len(t) : (s \o t)[Len(s) + i] = t[i]
  OBVIOUS
<1> SUFFICES ASSUME NEW i \in 2 .. Len(s) + Len(t), (s \o t)[i].half = "lo"
             PROVE  (s \o t)[i - 1] = Hi((s \o t)[i].n)
  BY <1>1 DEF Paired
<1>2. CASE i <= Len(s)
  <2>1. i \in 2 .. Len(s) /\ i \in 1 .. Len(s) /\ i - 1 \in 1 .. Len(s)
    BY <1>1, <1>2
  <2> QED BY <1>1, <2>1 DEF Paired
<1>3. CASE i = Len(s) + 1
  <2>1. 1 \in 1 .. Len(t)
    BY <1>1, <1>3
  <2>2. (s \o t)[i] = t[1] /\ t[1] = Head(t) /\ t # <<>>
    BY <1>1, <1>3, <2>1
  <2> QED BY <2>2
<1>4. CASE i > Len(s) + 1
  <2>1. /\ i - Len(s) \in 2 .. Len(t) /\ i - Len(s) \in 1 .. Len(t)
        /\ (i - Len(s)) - 1 \in 1 .. Len(t)
        /\ i = Len(s) + (i - Len(s)) /\ i - 1 = Len(s) + ((i - Len(s)) - 1)
    BY <1>1, <1>4
  <2>2. (s \o t)[i] = t[i - Len(s)] /\ (s \o t)[i - 1] = t[(i - Len(s)) - 1]
    BY <1>1, <2>1
  <2> QED BY <2>1, <2>2 DEF Paired
<1> QED BY <1>1, <1>2, <1>3, <1>4

\* What is left of a line of pairs when its first byte is gone: its new first
\* byte is no second half, or it is that of the byte that is gone.
LEMMA PairedTail ==
    ASSUME NEW s \in Seq(Byte), s # <<>>, Paired(s)
    PROVE  /\ Paired(Tail(s))
           /\ (Tail(s) # <<>> /\ Head(Tail(s)).half = "lo") => Head(s) = Hi(Head(Tail(s)).n)
<1>1. /\ Len(Tail(s)) = Len(s) - 1 /\ Len(s) \in Nat \ {0} /\ Tail(s) \in Seq(Byte)
      /\ \A i \in 1 .. Len(s) - 1 : Tail(s)[i] = s[i + 1]
  OBVIOUS
<1>2. Paired(Tail(s))
  <2> SUFFICES ASSUME NEW i \in 2 .. Len(s) - 1, Tail(s)[i].half = "lo"
               PROVE  Tail(s)[i - 1] = Hi(Tail(s)[i].n)
    BY <1>1 DEF Paired
  <2>1. /\ i \in 1 .. Len(s) - 1 /\ i - 1 \in 1 .. Len(s) - 1 /\ (i - 1) + 1 = i
        /\ i + 1 \in 2 .. Len(s) /\ (i + 1) - 1 = i
    BY <1>1
  <2>2. Tail(s)[i] = s[i + 1] /\ Tail(s)[i - 1] = s[i]
    BY <1>1, <2>1
  <2> QED BY <2>1, <2>2 DEF Paired
<1>3. ASSUME Tail(s) # <<>>, Head(Tail(s)).half = "lo"
      PROVE  Head(s) = Hi(Head(Tail(s)).n)
  <2>1. Len(Tail(s)) > 0 /\ Head(Tail(s)) = Tail(s)[1]
    BY <1>1, <1>3
  <2>2. 1 \in 1 .. Len(s) - 1 /\ 2 \in 2 .. Len(s) /\ 2 - 1 = 1 /\ 1 + 1 = 2
    BY <1>1, <2>1
  <2>3. Head(Tail(s)) = s[2] /\ Head(s) = s[1]
    BY <1>1, <2>1, <2>2
  <2> QED BY <1>3, <2>2, <2>3 DEF Paired
<1> QED BY <1>2, <1>3

\* Where the line and the byte that is kept stay as they are.
LEMMA SameLine ==
    ASSUME ResyncInv, PathInv', UNCHANGED <<down, audio_tmp, torn>>, faults' >= faults
    PROVE  ResyncInv'
<1>1. Pending' = Pending
  BY DEF Pending, Spoilt
<1>2. torn \in Nat /\ faults \in Nat /\ faults' \in Nat /\ Pending \in Nat
  BY DEF ResyncInv, PathInv, Pending
<1>3. Paired(down)'
  BY DEF ResyncInv, Paired
<1> QED BY <1>1, <1>2, <1>3 DEF ResyncInv

\* A fault accounts for the one sample that it may spoil.
LEMMA OneFault ==
    ASSUME ResyncInv, PathInv', Paired(down'), UNCHANGED torn, faults' = faults + 1
    PROVE  ResyncInv'
<1>1. torn \in Nat /\ faults \in Nat /\ Pending \in 0 .. 1 /\ Pending' \in 0 .. 1
  BY DEF ResyncInv, PathInv, Pending
<1>2. torn' + Pending' <= faults'
  <2> DEFINE before == Pending
             after == Pending'
  <2>1. /\ torn + before <= faults /\ torn' = torn /\ faults' = faults + 1
        /\ torn \in Nat /\ faults \in Nat /\ before \in 0 .. 1 /\ after \in 0 .. 1
    BY <1>1 DEF ResyncInv
  <2> HIDE DEF before, after
  <2>2. torn' + after <= faults'
    BY ONLY <2>1
  <2> QED BY <2>2 DEF after
<1>3. Paired(down)'
  BY DEF Paired
<1> QED BY <1>2, <1>3 DEF ResyncInv

\* A second half that comes without its first half is torn, once.
LEMMA ReceiveResync == ResyncInv /\ PathInv' /\ UART0_ISR => ResyncInv'
<1> SUFFICES ASSUME ResyncInv, PathInv', UART0_ISR PROVE ResyncInv'
  OBVIOUS
<1> DEFINE c == Head(down)
<1>1. /\ down \in Seq(Byte) /\ down # <<>> /\ down' = Tail(down) /\ faults' = faults
      /\ Paired(down) /\ torn \in Nat /\ faults \in Nat /\ torn + Pending <= faults
  BY DEF ResyncInv, PathInv, UART0_ISR
<1>2. /\ Paired(down')
      /\ (down' # <<>> /\ Head(down').half = "lo") => c = Hi(Head(down').n)
  BY <1>1, PairedTail
<1>3. c \in Byte
  BY <1>1
<1>4. c.half \in {"hi", "lo"}
  BY <1>3 DEF Byte
<1>5. Pending' \in 0 .. 1 /\ Pending \in 0 .. 1
  BY DEF Pending
<1> HIDE DEF c
<1>6. CASE c.half = "hi"
  <2>1. audio_tmp' = c.n /\ torn' = torn
    BY <1>6 DEF UART0_ISR, c
  <2>2. Pending' = 0
    BY <1>2, <2>1 DEF Pending, Spoilt, Hi
  <2> QED BY <1>1, <1>2, <1>5, <2>1, <2>2 DEF ResyncInv, Paired
<1>7. CASE c.half = "lo"
  <2>1. Pending' = 0
    BY <1>2, <1>7 DEF Pending, Spoilt, Hi
  <2>2. torn' \in {torn, torn + (IF audio_tmp = c.n THEN 0 ELSE 1)}
    BY <1>7 DEF UART0_ISR, c
  <2>3. Pending = IF audio_tmp = c.n THEN 0 ELSE 1
    BY <1>1, <1>7 DEF Pending, Spoilt, c
  <2>4. torn' + Pending' <= faults'
    <3>1. torn' = torn \/ torn' = torn + Pending
      BY <2>2, <2>3
    <3> QED BY ONLY <1>1, <1>5, <2>1, <3>1
  <2>5. Paired(down)'
    BY <1>2 DEF Paired
  <2> QED BY <2>4, <2>5 DEF ResyncInv
<1> QED BY <1>4, <1>6, <1>7

\* What is written puts no second half at the head of the line.
LEMMA WriteResync == ResyncInv /\ PathInv' /\ Write => ResyncInv'
<1> SUFFICES ASSUME ResyncInv, PathInv', Write PROVE ResyncInv'
  OBVIOUS
<1> DEFINE t == Bytes(batch)
<1>1. /\ down \in Seq(Byte) /\ down' = down \o t /\ faults' = faults /\ torn' = torn
      /\ audio_tmp' = audio_tmp
      /\ Paired(down) /\ torn \in Nat /\ faults \in Nat /\ torn + Pending <= faults
      /\ batch \in Seq(Numbering)
  BY DEF ResyncInv, PathInv, Write, history
<1>2. t \in Seq(Byte) /\ Paired(t) /\ (t # <<>> => Head(t).half = "hi")
  BY <1>1, BytesOf, BytesPaired
<1> HIDE DEF t
<1>3. Paired(down')
  BY <1>1, <1>2, PairedConcat
<1>4. Pending' = Pending
  <2>1. CASE down = <<>>
    <3>1. down' = t
      BY <1>1, <1>2, <2>1
    <3> QED BY <1>2, <2>1, <3>1 DEF Pending, Spoilt
  <2>2. CASE down # <<>>
    <3>1. down' # <<>> /\ Head(down') = Head(down)
      BY <1>1, <1>2, <2>2
    <3> QED BY <1>1, <2>2, <3>1 DEF Pending, Spoilt
  <2> QED BY <2>1, <2>2
<1> QED BY <1>1, <1>3, <1>4 DEF ResyncInv, Paired

\* A crash cuts the line behind some byte.
LEMMA PairedSub ==
    ASSUME NEW s \in Seq(Byte), Paired(s), NEW k \in 0 .. Len(s)
    PROVE  Paired(SubSeq(s, 1, k))
<1>1. Len(SubSeq(s, 1, k)) = k /\ \A i \in 1 .. k : SubSeq(s, 1, k)[i] = s[i]
  OBVIOUS
<1>2. \A i \in 2 .. k : i \in 1 .. k /\ i - 1 \in 1 .. k /\ i \in 2 .. Len(s)
  OBVIOUS
<1> QED BY <1>1, <1>2 DEF Paired

\* Every step keeps the account.
LEMMA ResyncStep == ResyncInv /\ [Next]_vars => ResyncInv'
<1> SUFFICES ASSUME ResyncInv, [Next]_vars PROVE ResyncInv'
  OBVIOUS
<1>1. PathInv'
  BY FlowStep DEF ResyncInv
<1>2. down \in Seq(Byte) /\ Paired(down) /\ faults \in Nat
  BY DEF ResyncInv, PathInv
<1>3. CASE Timer4_ISR \/ Uplink \/ ReadFull \/ ReadTimeout \/ Clear \/ Start \/ UNCHANGED vars
  <2>1. UNCHANGED <<down, audio_tmp, torn, faults>>
    BY <1>3 DEF Timer4_ISR, Uplink, ReadFull, ReadTimeout, Read, Clear, Start, vars, history
  <2> QED BY <1>1, <1>2, <2>1, SameLine
<1>4. CASE Crash
  <2>1. PICK k \in 0 .. Len(down) : down' = SubSeq(down, 1, k)
    BY <1>4 DEF Crash
  <2>2. Paired(down')
    BY <1>2, <2>1, PairedSub
  <2> QED BY <1>1, <1>4, <2>2, OneFault DEF Crash, Fault
<1>5. CASE Reset
  <2>1. down' = down /\ torn' = torn /\ faults' = faults + 1
    BY <1>5 DEF Reset, Fault
  <2>2. Paired(down')
    BY <1>2, <2>1
  <2> QED BY <1>1, <2>1, <2>2, OneFault
<1>6. CASE LoseByte
  <2>1. torn' = torn /\ faults' = faults + 1
    BY <1>6 DEF LoseByte, Fault
  <2>2. down' = down \/ (down # <<>> /\ down' = Tail(down))
    BY <1>6 DEF LoseByte
  <2>3. Paired(down')
    BY <1>2, <2>2, PairedTail
  <2> QED BY <1>1, <2>1, <2>3, OneFault
<1> QED BY <1>1, <1>3, <1>4, <1>5, <1>6, ReceiveResync, WriteResync DEF Next

\* Every fault spoils at most one sample, for any number of faults: after a lost
\* byte, a reset or a crash the marks in the bytes get the receiver back in step
\* (labfinal.c:182-188, server.cpp:249-250).
THEOREM ResyncHolds == Spec => []Resync
<1>1. Init => ResyncInv
  <2> SUFFICES ASSUME Init PROVE ResyncInv
    OBVIOUS
  <2>1. PathInv
    BY InitPath
  <2>2. down = <<>> /\ torn = 0 /\ faults = 0
    BY DEF Init
  <2>3. Paired(down)
    BY <2>2 DEF Paired
  <2> QED BY <2>1, <2>2, <2>3 DEF ResyncInv, Pending, Spoilt
<1>2. ResyncInv => Resync
  BY DEF ResyncInv, PathInv, Pending, Resync
<1> QED BY <1>1, <1>2, ResyncStep, PTL DEF Spec

-----------------------------------------------------------------------------
\* The order of the samples.  x is the number of a request, counted on over
\* Numbers; without faults the ring, the line, the samples being answered and
\* the next number go on from the sample played last without a gap.

Sample == [hi : Numbering, lo : Numbering]

Slot(r, j) == IF r + j < AudioSize THEN r + j ELSE r + j - AudioSize
RingFrom(x, buf, r, len) == \A j \in 0 .. len - 1 : buf[Slot(r, j)] = Whole((x + j) % Numbers)

\* m samples, of the first of which tmp is the first half when off is 1.
LineFrom(x, s, tmp, off, m) ==
  /\ Len(s) + off = 2 * m
  /\ \A j \in 0 .. m - 1 :
        /\ off = 0 \/ j > 0 => s[2 * j + 1 - off] = Hi((x + j) % Numbers)
        /\ s[2 * j + 2 - off] = Lo((x + j) % Numbers)
  /\ off = 1 => tmp = x % Numbers

BatchFrom(x, b, num) == /\ \A i \in 1 .. Len(b) : b[i] = (x + i - 1) % Numbers
                        /\ num = (x + Len(b)) % Numbers

InOrder ==
  LET x == DAC1.lo + 1
  IN  /\ RingFrom(x, audio_buf, audio_read, audio_length)
      /\ \E off \in {0, 1}, m \in Nat :
            /\ LineFrom(x + audio_length, down, audio_tmp, off, m)
            /\ BatchFrom(x + audio_length + m, batch, number)

OrderInv == /\ PathInv
            /\ DAC1 \in Sample
            /\ audio_buf \in [0 .. AudioSize - 1 -> Sample]
            /\ faults = 0 /\ rxisr = "returns" => InOrder

\* Numbers count on alike from a number and from its remainder.
LEMMA CountOn ==
    ASSUME NEW x \in Nat, NEW j \in Nat
    PROVE  (x % Numbers) \in Numbering /\ ((x % Numbers) + j) % Numbers = (x + j) % Numbers
<1>1. Numbers \in Nat \ {0}
  BY PathAssumption
<1>2. ((x % Numbers) + j) % Numbers = (x + j) % Numbers
  BY <1>1, AddMod
<1>3. (x % Numbers) \in Numbering
  BY <1>1 DEF Numbering
<1> QED BY <1>2, <1>3

\* One sample is played: the next is counted from it.
LEMMA Rebase ==
    ASSUME NEW x \in Nat, NEW len \in Nat \ {0}, NEW j \in Nat
    PROVE  LET y == (x % Numbers) + 1
           IN  /\ y \in Nat
               /\ (y + j) % Numbers = (x + (1 + j)) % Numbers
               /\ (y + (len - 1) + j) % Numbers = (x + len + j) % Numbers
<1> DEFINE z == x % Numbers
<1>1. z \in Nat
  BY CountOn, PathAssumption DEF Numbering
<1>2. (z + (1 + j)) % Numbers = (x + (1 + j)) % Numbers
  BY CountOn
<1>3. (z + (len + j)) % Numbers = (x + (len + j)) % Numbers
  BY CountOn
<1> HIDE DEF z
<1>4. (z + 1) + j = z + (1 + j) /\ (z + 1) + (len - 1) + j = z + (len + j) /\ x + len + j = x + (len + j)
  BY <1>1
<1>5. z + 1 \in Nat
  BY <1>1
<1> QED BY <1>2, <1>3, <1>4, <1>5 DEF z

\* A line and a batch that go on from a number go on from any that counts alike.
LEMMA RebaseLine ==
    ASSUME NEW x \in Nat, NEW y \in Nat, \A j \in Nat : (x + j) % Numbers = (y + j) % Numbers,
           NEW s, NEW tmp, NEW off \in {0, 1}, NEW m \in Nat, LineFrom(x, s, tmp, off, m)
    PROVE  LineFrom(y, s, tmp, off, m)
<1>1. \A j \in 0 .. m - 1 : (x + j) % Numbers = (y + j) % Numbers
  OBVIOUS
<1>2. x % Numbers = y % Numbers
  <2>1. (x + 0) % Numbers = (y + 0) % Numbers /\ x + 0 = x /\ y + 0 = y
    OBVIOUS
  <2> QED BY <2>1
<1> QED BY <1>1, <1>2 DEF LineFrom

\* The same of the samples that are not written yet.
LEMMA RebaseBatch ==
    ASSUME NEW x \in Nat, NEW y \in Nat, \A j \in Nat : (x + j) % Numbers = (y + j) % Numbers,
           NEW b \in Seq(Numbering), NEW num, BatchFrom(x, b, num)
    PROVE  BatchFrom(y, b, num)
<1>1. ASSUME NEW i \in 1 .. Len(b) PROVE b[i] = (y + i - 1) % Numbers
  <2>1. i - 1 \in Nat /\ x + i - 1 = x + (i - 1) /\ y + i - 1 = y + (i - 1)
    OBVIOUS
  <2>2. (x + (i - 1)) % Numbers = (y + (i - 1)) % Numbers
    BY <2>1
  <2> QED BY <2>1, <2>2 DEF BatchFrom
<1>2. num = (y + Len(b)) % Numbers
  <2>1. Len(b) \in Nat
    OBVIOUS
  <2> QED BY <2>1 DEF BatchFrom
<1> QED BY <1>1, <1>2 DEF BatchFrom

\* The slots of the ring, from the one that is played next.
LEMMA Slots ==
    ASSUME NEW r \in 0 .. AudioSize - 1, NEW w \in 0 .. AudioSize - 1
    PROVE  LET length == (w + AudioSize - r) % AudioSize
           IN  /\ Slot(r, 0) = r /\ Slot(r, length) = w
               /\ \A j \in 0 .. length - 1 : Slot(r, j) # w /\ Slot(r, j) \in 0 .. AudioSize - 1
               /\ \A j \in 0 .. length - 2 : Slot(Inc(r), j) = Slot(r, j + 1)
<1> DEFINE A == AudioSize
           length == (w + A - r) % A
           size == IF r <= w THEN w - r ELSE w + A - r
           next(i) == IF i = A - 1 THEN 0 ELSE i + 1
           slot(a, j) == IF a + j < A THEN a + j ELSE a + j - A
<1>0. A \in Nat \ {0}
  BY PathAssumption
<1>1. ASSUME NEW x \in 0 .. A - 1 PROVE x % A = x /\ (x + A) % A = x
  <2>1. x = A * 0 + x /\ x + A = A * 1 + x
    BY <1>0
  <2> QED BY <1>0, <2>1, Remainder
<1>2. Inc(r) = next(r)
  <2>1. CASE r = A - 1
    <3>1. (0 + A) % A = 0
      BY <1>0, <1>1
    <3> QED BY <1>0, <2>1, <3>1 DEF Inc
  <2>2. CASE r # A - 1
    <3>1. (r + 1) % A = r + 1
      BY <1>0, <1>1, <2>2
    <3> QED BY <1>0, <2>2, <3>1 DEF Inc
  <2> QED BY <2>1, <2>2
<1>3. length = size
  <2>1. CASE r <= w
    <3>1. w - r \in 0 .. A - 1 /\ w + A - r = (w - r) + A
      BY <1>0, <2>1
    <3> QED BY <1>1, <2>1, <3>1
  <2>2. CASE ~ (r <= w)
    <3>1. w + A - r \in 0 .. A - 1
      BY <1>0, <2>2
    <3> QED BY <1>1, <2>2, <3>1
  <2> QED BY <2>1, <2>2
<1>4. /\ slot(r, 0) = r /\ slot(r, size) = w
      /\ \A j \in 0 .. size - 1 : slot(r, j) # w /\ slot(r, j) \in 0 .. A - 1
      /\ \A j \in 0 .. size - 2 : slot(next(r), j) = slot(r, j + 1)
  <2>1. r \in 0 .. A - 1 /\ w \in 0 .. A - 1
    OBVIOUS
  <2> HIDE DEF A
  <2> QED BY <1>0, <2>1
<1> QED BY <1>2, <1>3, <1>4 DEF Slot

\* A first half at the head of the line: its second half comes next.
LEMMA HeadHi ==
    ASSUME NEW x \in Nat, NEW s \in Seq(Byte), NEW tmp, NEW off \in {0, 1}, NEW m \in Nat,
           LineFrom(x, s, tmp, off, m), s # <<>>, Head(s).half = "hi"
    PROVE  Head(s).n = x % Numbers /\ LineFrom(x, Tail(s), Head(s).n, 1, m)
<1>1. /\ Len(Tail(s)) = Len(s) - 1 /\ Len(s) \in Nat \ {0} /\ Head(s) = s[1]
      /\ \A i \in 1 .. Len(s) - 1 : Tail(s)[i] = s[i + 1]
  OBVIOUS
<1>2. /\ Len(s) + off = 2 * m
      /\ \A j \in 0 .. m - 1 :
            /\ off = 0 \/ j > 0 => s[2 * j + 1 - off] = Hi((x + j) % Numbers)
            /\ s[2 * j + 2 - off] = Lo((x + j) % Numbers)
  BY DEF LineFrom
<1>3. m > 0 /\ 0 \in 0 .. m - 1 /\ x + 0 = x
  BY <1>1, <1>2
<1>4. off = 0
  <2> SUFFICES ASSUME off = 1 PROVE FALSE
    OBVIOUS
  <2>1. 2 * 0 + 2 - off = 1
    OBVIOUS
  <2>2. s[1] = Lo((x + 0) % Numbers)
    BY <1>2, <1>3, <2>1
  <2> QED BY <1>1, <2>2 DEF Lo
<1>5. s[1] = Hi(x % Numbers)
  <2>1. 2 * 0 + 1 - off = 1
    BY <1>4
  <2> QED BY <1>2, <1>3, <1>4, <2>1
<1>6. Head(s).n = x % Numbers
  BY <1>1, <1>5 DEF Hi
<1>7. ASSUME NEW j \in 0 .. m - 1
      PROVE  /\ j > 0 => Tail(s)[2 * j] = Hi((x + j) % Numbers)
             /\ Tail(s)[2 * j + 1] = Lo((x + j) % Numbers)
  <2>1. /\ j > 0 => 2 * j \in 1 .. Len(s) - 1
        /\ 2 * j + 1 \in 1 .. Len(s) - 1
        /\ (2 * j + 1) + 1 = 2 * j + 2 - off /\ 2 * j + 1 = 2 * j + 1 - off
    <3> DEFINE n == Len(s)
    <3>1. n \in Nat /\ n + off = 2 * m /\ off = 0 /\ m \in Nat /\ j \in 0 .. m - 1
      BY <1>1, <1>2, <1>4
    <3> HIDE DEF n
    <3>2. /\ j > 0 => 2 * j \in 1 .. n - 1
          /\ 2 * j + 1 \in 1 .. n - 1
          /\ (2 * j + 1) + 1 = 2 * j + 2 - off /\ 2 * j + 1 = 2 * j + 1 - off
      BY ONLY <3>1
    <3> QED BY <3>2 DEF n
  <2>2. Tail(s)[2 * j + 1] = s[(2 * j + 1) + 1] /\ (j > 0 => Tail(s)[2 * j] = s[2 * j + 1])
    BY <1>1, <2>1
  <2> QED BY <1>2, <1>4, <2>1, <2>2
<1>8. \A j \in 0 .. m - 1 : 2 * j + 1 - 1 = 2 * j /\ 2 * j + 2 - 1 = 2 * j + 1
  OBVIOUS
<1>9. Len(Tail(s)) + 1 = 2 * m
  <2> DEFINE n == Len(s)
             t == Len(Tail(s))
  <2>1. n \in Nat /\ t = n - 1 /\ n + off = 2 * m /\ off = 0 /\ m \in Nat
    BY <1>1, <1>2, <1>4
  <2> HIDE DEF n, t
  <2>2. t + 1 = 2 * m
    BY ONLY <2>1
  <2> QED BY <2>2 DEF t
<1> QED BY <1>6, <1>7, <1>8, <1>9 DEF LineFrom

\* A second half at the head of the line: it completes the first sample.
LEMMA HeadLo ==
    ASSUME NEW x \in Nat, NEW s \in Seq(Byte), NEW tmp, NEW off \in {0, 1}, NEW m \in Nat,
           LineFrom(x, s, tmp, off, m), s # <<>>, Head(s).half = "lo"
    PROVE  /\ Head(s).n = x % Numbers /\ tmp = x % Numbers
           /\ m - 1 \in Nat /\ LineFrom(x + 1, Tail(s), tmp, 0, m - 1)
<1>1. /\ Len(Tail(s)) = Len(s) - 1 /\ Len(s) \in Nat \ {0} /\ Head(s) = s[1]
      /\ \A i \in 1 .. Len(s) - 1 : Tail(s)[i] = s[i + 1]
  OBVIOUS
<1>2. /\ Len(s) + off = 2 * m
      /\ \A j \in 0 .. m - 1 :
            /\ off = 0 \/ j > 0 => s[2 * j + 1 - off] = Hi((x + j) % Numbers)
            /\ s[2 * j + 2 - off] = Lo((x + j) % Numbers)
      /\ off = 1 => tmp = x % Numbers
  BY DEF LineFrom
<1>3. m > 0 /\ 0 \in 0 .. m - 1 /\ x + 0 = x
  BY <1>1, <1>2
<1>4. off = 1
  <2> SUFFICES ASSUME off = 0 PROVE FALSE
    OBVIOUS
  <2>1. 2 * 0 + 1 - off = 1
    OBVIOUS
  <2>2. s[1] = Hi((x + 0) % Numbers)
    BY <1>2, <1>3, <2>1
  <2> QED BY <1>1, <2>2 DEF Hi
<1>5. s[1] = Lo(x % Numbers)
  <2>1. 2 * 0 + 2 - off = 1
    BY <1>4
  <2> QED BY <1>2, <1>3, <2>1
<1>6. Head(s).n = x % Numbers
  BY <1>1, <1>5 DEF Lo
<1>7. ASSUME NEW j \in 0 .. (m - 1) - 1
      PROVE  /\ Tail(s)[2 * j + 1] = Hi((x + 1 + j) % Numbers)
             /\ Tail(s)[2 * j + 2] = Lo((x + 1 + j) % Numbers)
  <2>1. /\ j + 1 \in 0 .. m - 1 /\ j + 1 > 0 /\ x + (j + 1) = x + 1 + j
        /\ 2 * j + 1 \in 1 .. Len(s) - 1 /\ 2 * j + 2 \in 1 .. Len(s) - 1
        /\ (2 * j + 1) + 1 = 2 * (j + 1) + 1 - off
        /\ (2 * j + 2) + 1 = 2 * (j + 1) + 2 - off
    <3> DEFINE n == Len(s)
    <3>1. /\ n \in Nat /\ n + off = 2 * m /\ off = 1 /\ m \in Nat /\ j \in 0 .. (m - 1) - 1
          /\ x \in Nat
      BY <1>1, <1>2, <1>4
    <3> HIDE DEF n
    <3>2. /\ j + 1 \in 0 .. m - 1 /\ j + 1 > 0 /\ x + (j + 1) = x + 1 + j
          /\ 2 * j + 1 \in 1 .. n - 1 /\ 2 * j + 2 \in 1 .. n - 1
          /\ (2 * j + 1) + 1 = 2 * (j + 1) + 1 - off
          /\ (2 * j + 2) + 1 = 2 * (j + 1) + 2 - off
      BY ONLY <3>1
    <3> QED BY <3>2 DEF n
  <2>2. Tail(s)[2 * j + 1] = s[(2 * j + 1) + 1] /\ Tail(s)[2 * j + 2] = s[(2 * j + 2) + 1]
    BY <1>1, <2>1
  <2>3. /\ s[2 * (j + 1) + 1 - off] = Hi((x + (j + 1)) % Numbers)
        /\ s[2 * (j + 1) + 2 - off] = Lo((x + (j + 1)) % Numbers)
    BY <1>2, <2>1
  <2> QED BY <2>1, <2>2, <2>3
<1>8. \A j \in 0 .. (m - 1) - 1 : 2 * j + 1 - 0 = 2 * j + 1 /\ 2 * j + 2 - 0 = 2 * j + 2
  OBVIOUS
<1>9. Len(Tail(s)) + 0 = 2 * (m - 1) /\ m - 1 \in Nat
  <2> DEFINE n == Len(s)
             t == Len(Tail(s))
  <2>1. n \in Nat /\ t = n - 1 /\ n + off = 2 * m /\ off = 1 /\ m \in Nat /\ m > 0
    BY <1>1, <1>2, <1>3, <1>4
  <2> HIDE DEF n, t
  <2>2. t + 0 = 2 * (m - 1) /\ m - 1 \in Nat
    BY ONLY <2>1
  <2> QED BY <2>2 DEF t
<1>10. LineFrom(x + 1, Tail(s), tmp, 0, m - 1)
  BY <1>7, <1>8, <1>9 DEF LineFrom
<1> QED BY <1>2, <1>4, <1>6, <1>9, <1>10

\* What is written goes on where the line ends.
LEMMA LineWritten ==
    ASSUME NEW x \in Nat, NEW s \in Seq(Byte), NEW tmp, NEW off \in {0, 1}, NEW m \in Nat,
           LineFrom(x, s, tmp, off, m),
           NEW b \in Seq(Numbering), NEW num, BatchFrom(x + m, b, num)
    PROVE  /\ m + Len(b) \in Nat
           /\ LineFrom(x, s \o Bytes(b), tmp, off, m + Len(b))
           /\ BatchFrom(x + (m + Len(b)), <<>>, num)
<1> DEFINE t == Bytes(b)
           l == Len(b)
<1>1. /\ t \in Seq(Byte) /\ Len(t) = 2 * l /\ l \in Nat
      /\ \A j \in 1 .. l : t[2 * j - 1] = Hi(b[j]) /\ t[2 * j] = Lo(b[j])
  BY BytesOf
<1>2. \A i \in 1 .. l : b[i] = (x + m + i - 1) % Numbers
  BY DEF BatchFrom
<1>3. /\ Len(s) + off = 2 * m
      /\ \A j \in 0 .. m - 1 :
            /\ off = 0 \/ j > 0 => s[2 * j + 1 - off] = Hi((x + j) % Numbers)
            /\ s[2 * j + 2 - off] = Lo((x + j) % Numbers)
      /\ off = 1 => tmp = x % Numbers
  BY DEF LineFrom
<1>4. num = (x + (m + l)) % Numbers
  <2>1. num = (x + m + l) % Numbers
    BY DEF BatchFrom
  <2>2. x + m + l = x + (m + l)
    BY <1>1
  <2> QED BY <2>1, <2>2
<1> HIDE DEF t, l
<1>5. /\ Len(s \o t) = Len(s) + Len(t) /\ Len(s) \in Nat
      /\ \A i \in 1 .. Len(s) : (s \o t)[i] = s[i]
      /\ \A i \in 1 .. Len(t) : (s \o t)[Len(s) + i] = t[i]
  BY <1>1
<1>6. ASSUME NEW j \in 0 .. (m + l) - 1
      PROVE  /\ off = 0 \/ j > 0 => (s \o t)[2 * j + 1 - off] = Hi((x + j) % Numbers)
             /\ (s \o t)[2 * j + 2 - off] = Lo((x + j) % Numbers)
  <2>1. CASE j < m
    <3>1. /\ j \in 0 .. m - 1
          /\ off = 0 \/ j > 0 => 2 * j + 1 - off \in 1 .. Len(s)
          /\ 2 * j + 2 - off \in 1 .. Len(s)
      BY <1>1, <1>3, <1>5, <2>1
    <3> QED BY <1>3, <1>5, <3>1
  <2>2. CASE ~ (j < m)
    <3> DEFINE i == j - m + 1
    <3>1. /\ i \in 1 .. l /\ x + m + i - 1 = x + j
          /\ 2 * i - 1 \in 1 .. Len(t) /\ 2 * i \in 1 .. Len(t)
          /\ 2 * j + 1 - off = Len(s) + (2 * i - 1) /\ 2 * j + 2 - off = Len(s) + 2 * i
      <4> DEFINE n == Len(s)
                 o == Len(t)
      <4>1. /\ n \in Nat /\ n + off = 2 * m /\ off \in {0, 1} /\ m \in Nat /\ x \in Nat
            /\ l \in Nat /\ o = 2 * l /\ j \in 0 .. (m + l) - 1 /\ ~ (j < m) /\ i = j - m + 1
        BY <1>1, <1>3, <1>5, <2>2
      <4> HIDE DEF n, o, i
      <4>2. /\ i \in 1 .. l /\ x + m + i - 1 = x + j
            /\ 2 * i - 1 \in 1 .. o /\ 2 * i \in 1 .. o
            /\ 2 * j + 1 - off = n + (2 * i - 1) /\ 2 * j + 2 - off = n + 2 * i
        BY ONLY <4>1
      <4> QED BY <4>2 DEF n, o
    <3> HIDE DEF i
    <3>2. t[2 * i - 1] = Hi(b[i]) /\ t[2 * i] = Lo(b[i]) /\ b[i] = (x + j) % Numbers
      BY <1>1, <1>2, <3>1
    <3> QED BY <1>5, <3>1, <3>2
  <2> QED BY <2>1, <2>2
<1>7. Len(s \o t) + off = 2 * (m + l) /\ m + l \in Nat
  <2> DEFINE n == Len(s)
  <2>1. /\ n \in Nat /\ n + off = 2 * m /\ off \in {0, 1} /\ m \in Nat /\ l \in Nat
        /\ Len(s \o t) = n + 2 * l
    BY <1>1, <1>3, <1>5
  <2> HIDE DEF n
  <2>2. n + 2 * l + off = 2 * (m + l) /\ m + l \in Nat
    BY ONLY <2>1
  <2> QED BY <2>1, <2>2
<1>8. LineFrom(x, s \o t, tmp, off, m + l)
  BY <1>3, <1>6, <1>7 DEF LineFrom
<1>9. BatchFrom(x + (m + l), <<>>, num)
  <2>1. x + (m + l) + 0 = x + (m + l) /\ Len(<<>>) = 0
    BY <1>1
  <2> QED BY <1>4, <2>1 DEF BatchFrom
<1> QED BY <1>7, <1>8, <1>9 DEF t, l

\* What InOrder is made of, of the values before and after a step.
LEMMA SameOrder ==
    ASSUME OrderInv, PathInv', faults' = faults, rxisr' = rxisr,
           UNCHANGED <<DAC1, audio_buf, audio_read, audio_write, down, audio_tmp, batch, number>>
    PROVE  OrderInv'
BY DEF OrderInv, InOrder, audio_length

\* After a fault the order is given up; the types stay.
LEMMA FaultyOrder ==
    ASSUME OrderInv, PathInv', faults' = faults + 1, UNCHANGED <<DAC1, audio_buf>>
    PROVE  OrderInv'
BY DEF OrderInv, PathInv

\* The values, with the number that comes next.
LEMMA Values ==
    ASSUME OrderInv
    PROVE  /\ DAC1.lo \in Nat /\ DAC1.lo + 1 \in Nat
           /\ audio_length \in 0 .. AudioSize - 1
           /\ AudioSize \in Nat \ {0}
           /\ audio_read \in 0 .. AudioSize - 1 /\ audio_write \in 0 .. AudioSize - 1
           /\ down \in Seq(Byte) /\ batch \in Seq(Numbering)
<1>1. DAC1.lo \in Numbering
  BY DEF OrderInv, Sample
<1>2. DAC1.lo \in Nat
  BY <1>1 DEF Numbering
<1>3. AudioSize \in Nat \ {0}
  BY PathAssumption
<1>4. audio_read \in 0 .. AudioSize - 1 /\ audio_write \in 0 .. AudioSize - 1
  BY DEF OrderInv, PathInv
<1>5. audio_length \in 0 .. AudioSize - 1
  BY <1>4, RingLength DEF audio_length
<1>6. down \in Seq(Byte) /\ batch \in Seq(Numbering)
  BY DEF OrderInv, PathInv
<1>7. DAC1.lo + 1 \in Nat
  BY <1>2
<1> QED BY <1>2, <1>3, <1>4, <1>5, <1>6, <1>7

\* The sample played is the next one; the rest moves up.
LEMMA PlayOrder ==
    ASSUME OrderInv, PathInv', ~ audio_empty, rxisr = "returns",
           DAC1' = audio_buf[audio_read], audio_read' = Inc(audio_read),
           UNCHANGED <<audio_write, audio_buf, down, audio_tmp, batch, number, faults, rxisr>>
    PROVE  /\ OrderInv'
           /\ faults = 0 => DAC1' = Whole((DAC1.lo + 1) % Numbers)
<1> DEFINE x == DAC1.lo + 1
           L == audio_length
           y == (x % Numbers) + 1
           r == audio_read
<1>1. /\ x \in Nat /\ L \in 0 .. AudioSize - 1 /\ AudioSize \in Nat
      /\ r \in 0 .. AudioSize - 1 /\ batch \in Seq(Numbering)
  BY Values
<1>2. L # 0 /\ audio_length' = L - 1
  BY RingLength DEF OrderInv, PathInv, audio_length, audio_empty
<1>3. /\ Slot(r, 0) = r /\ \A j \in 0 .. L - 2 : Slot(Inc(r), j) = Slot(r, j + 1)
  BY Slots DEF OrderInv, PathInv, audio_length
<1>4. DAC1' \in Sample /\ audio_buf' \in [0 .. AudioSize - 1 -> Sample]
  BY <1>1 DEF OrderInv
<1>5. ASSUME faults = 0 PROVE InOrder' /\ DAC1' = Whole(x % Numbers)
  <2>1. RingFrom(x, audio_buf, r, L)
    BY <1>5 DEF OrderInv, InOrder
  <2>2. PICK off \in {0, 1}, m \in Nat :
            /\ LineFrom(x + L, down, audio_tmp, off, m)
            /\ BatchFrom(x + L + m, batch, number)
    BY <1>5 DEF OrderInv, InOrder
  <2>3. DAC1' = Whole(x % Numbers)
    <3>1. 0 \in 0 .. L - 1 /\ x + 0 = x
      BY <1>1, <1>2
    <3> QED BY <1>3, <2>1, <3>1 DEF RingFrom
  <2>4. DAC1'.lo + 1 = y
    BY <2>3 DEF Whole
  <2>5. L \in Nat \ {0} /\ L - 1 \in Nat
    BY <1>1, <1>2
  <2>6. y \in Nat /\ \A j \in Nat : /\ (y + j) % Numbers = (x + (1 + j)) % Numbers
                                    /\ (y + (L - 1) + j) % Numbers = (x + L + j) % Numbers
    <3> HIDE DEF x, L
    <3> QED BY <1>1, <2>5, Rebase
  <2> HIDE DEF x, L, y
  <2>7. RingFrom(y, audio_buf, Inc(r), L - 1)
    <3> SUFFICES ASSUME NEW j \in 0 .. (L - 1) - 1
                 PROVE  audio_buf[Slot(Inc(r), j)] = Whole((y + j) % Numbers)
      BY DEF RingFrom
    <3>1. j \in 0 .. L - 2 /\ j + 1 \in 0 .. L - 1 /\ j \in Nat /\ x + (j + 1) = x + (1 + j)
      BY <1>1, <2>5
    <3>2. audio_buf[Slot(r, j + 1)] = Whole((x + (j + 1)) % Numbers)
      BY <2>1, <3>1 DEF RingFrom
    <3> QED BY <1>3, <2>6, <3>1, <3>2
  <2>8. LineFrom(y + (L - 1), down, audio_tmp, off, m)
    <3>1. x + L \in Nat /\ y + (L - 1) \in Nat
      BY <1>1, <2>5, <2>6
    <3> QED BY <2>2, <2>6, <3>1, RebaseLine
  <2>9. BatchFrom(y + (L - 1) + m, batch, number)
    <3>1. x + L + m \in Nat /\ y + (L - 1) + m \in Nat
      BY <1>1, <2>5, <2>6
    <3>2. ASSUME NEW j \in Nat PROVE (x + L + m + j) % Numbers = (y + (L - 1) + m + j) % Numbers
      <4>1. m + j \in Nat /\ x + L + m + j = x + L + (m + j) /\ y + (L - 1) + m + j = y + (L - 1) + (m + j)
        BY <1>1, <2>5, <2>6
      <4> QED BY <2>6, <4>1
    <3> QED BY <1>1, <2>2, <3>1, <3>2, RebaseBatch
  <2>10. InOrder'
    BY <1>2, <2>4, <2>7, <2>8, <2>9 DEF InOrder, r
  <2> QED BY <2>3, <2>10
<1>6. OrderInv'
  BY <1>4, <1>5 DEF OrderInv
<1> QED BY <1>5, <1>6

\* A byte is received: it completes a sample, or it is kept.
LEMMA ReceiveOrder == OrderInv /\ PathInv' /\ UART0_ISR => OrderInv'
<1> SUFFICES ASSUME OrderInv, PathInv', UART0_ISR PROVE OrderInv'
  OBVIOUS
<1> DEFINE x == DAC1.lo + 1
           L == audio_length
           c == Head(down)
           r == audio_read
           A == AudioSize
<1>1. /\ x \in Nat /\ L \in 0 .. A - 1 /\ A \in Nat
      /\ r \in 0 .. A - 1 /\ audio_write \in 0 .. A - 1
      /\ down \in Seq(Byte) /\ batch \in Seq(Numbering)
  BY Values
<1>2. /\ down # <<>> /\ down' = Tail(down) /\ rxisr = "returns"
      /\ UNCHANGED <<audio_read, DAC1, batch, number, faults>>
  BY DEF UART0_ISR, host
<1>3. c \in Byte
  BY <1>1, <1>2
<1>4. c.half \in {"hi", "lo"} /\ c.n \in Numbering /\ audio_tmp \in Numbering
  BY <1>3 DEF Byte, OrderInv, PathInv
<1>5. DAC1' \in Sample /\ audio_buf \in [0 .. A - 1 -> Sample]
  BY <1>2 DEF OrderInv
<1>6. CASE c.half = "hi"
  <2>1. audio_tmp' = c.n /\ UNCHANGED <<audio_write, audio_buf, rxisr>>
    BY <1>6 DEF UART0_ISR, c
  <2>2. ASSUME faults = 0 PROVE InOrder'
    <3>1. RingFrom(x, audio_buf, r, L)
      BY <1>2, <2>2 DEF OrderInv, InOrder
    <3>2. PICK off \in {0, 1}, m \in Nat :
              /\ LineFrom(x + L, down, audio_tmp, off, m)
              /\ BatchFrom(x + L + m, batch, number)
      BY <1>2, <2>2 DEF OrderInv, InOrder
    <3>3. x + L \in Nat
      BY <1>1
    <3>4. LineFrom(x + L, Tail(down), c.n, 1, m)
      <4> HIDE DEF x, L
      <4> QED BY <1>1, <1>2, <1>6, <3>2, <3>3, HeadHi
    <3>5. x' = x /\ L' = L
      BY <1>2, <2>1 DEF audio_length
    <3> QED BY <1>2, <2>1, <3>1, <3>2, <3>4, <3>5 DEF InOrder
  <2> QED BY <1>2, <1>5, <2>1, <2>2 DEF OrderInv
<1>7. CASE c.half = "lo" /\ audio_full
  <2>1. rxisr' = "spins" /\ UNCHANGED audio_buf
    BY <1>7 DEF UART0_ISR, c
  <2> QED BY <1>5, <2>1 DEF OrderInv
<1>8. CASE c.half = "lo" /\ ~ audio_full
  <2> DEFINE s == [hi |-> audio_tmp, lo |-> c.n]
  <2>1. /\ audio_buf' = [audio_buf EXCEPT ![audio_write] = s]
        /\ audio_write' = Inc(audio_write) /\ UNCHANGED <<audio_tmp, rxisr>>
    BY <1>8 DEF UART0_ISR, audio_put, c
  <2>2. s \in Sample
    BY <1>4 DEF Sample
  <2>3. audio_buf' \in [0 .. A - 1 -> Sample]
    BY <1>1, <1>5, <2>1, <2>2
  <2>4. L' = L + 1
    BY <1>1, <1>2, <1>8, <2>1, RingLength DEF audio_full, audio_length
  <2>5. /\ Slot(r, L) = audio_write
        /\ \A j \in 0 .. L - 1 : Slot(r, j) # audio_write /\ Slot(r, j) \in 0 .. A - 1
    BY <1>1, Slots DEF audio_length
  <2>6. x' = x
    BY <1>2
  <2>7. ASSUME faults = 0 PROVE InOrder'
    <3>1. RingFrom(x, audio_buf, r, L)
      BY <1>2, <2>7 DEF OrderInv, InOrder
    <3>2. PICK off \in {0, 1}, m \in Nat :
              /\ LineFrom(x + L, down, audio_tmp, off, m)
              /\ BatchFrom(x + L + m, batch, number)
      BY <1>2, <2>7 DEF OrderInv, InOrder
    <3>3. x + L \in Nat /\ L \in Nat
      BY <1>1
    <3>4. /\ c.n = (x + L) % Numbers /\ audio_tmp = (x + L) % Numbers
          /\ m - 1 \in Nat /\ LineFrom(x + L + 1, Tail(down), audio_tmp, 0, m - 1)
      <4> HIDE DEF x, L
      <4> QED BY <1>1, <1>2, <1>8, <3>2, <3>3, HeadLo
    <3>5. s = Whole((x + L) % Numbers)
      BY <3>4 DEF Whole
    <3> HIDE DEF x, L, s
    <3>6. RingFrom(x, audio_buf', r, L + 1)
      <4> SUFFICES ASSUME NEW j \in 0 .. L
                   PROVE  audio_buf'[Slot(r, j)] = Whole((x + j) % Numbers)
        BY <3>3 DEF RingFrom
      <4>1. CASE j = L
        BY <1>1, <1>5, <2>1, <2>5, <3>5, <4>1
      <4>2. CASE j # L
        <5>1. j \in 0 .. L - 1
          BY <3>3, <4>2
        <5> QED BY <1>5, <2>1, <2>5, <3>1, <5>1 DEF RingFrom
      <4> QED BY <4>1, <4>2
    <3>7. x + L + 1 = x + (L + 1) /\ x + (L + 1) + (m - 1) = x + L + m
      BY <1>1, <3>3
    <3>8. LineFrom(x + (L + 1), down', audio_tmp', 0, m - 1)
      BY <1>2, <2>1, <3>4, <3>7
    <3>9. BatchFrom(x + (L + 1) + (m - 1), batch', number')
      BY <1>2, <3>2, <3>7
    <3>10. RingFrom(x', audio_buf', audio_read', L')
      BY <1>2, <2>4, <2>6, <3>6 DEF r
    <3>11. x' + L' = x + (L + 1)
      BY <2>4, <2>6
    <3>12. \E off2 \in {0, 1}, m2 \in Nat :
              /\ LineFrom(x' + L', down', audio_tmp', off2, m2)
              /\ BatchFrom(x' + L' + m2, batch', number')
      BY <3>4, <3>8, <3>9, <3>11
    <3> QED BY <3>10, <3>12 DEF InOrder, x, L
  <2> QED BY <1>2, <1>5, <2>1, <2>3, <2>7 DEF OrderInv
<1> QED BY <1>4, <1>6, <1>7, <1>8

\* The samples answered next go on where the line ends.
LEMMA ReadOrder ==
    ASSUME OrderInv, PathInv', NEW n \in Nat, Read(n)
    PROVE  OrderInv'
<1> DEFINE x == DAC1.lo + 1
           L == audio_length
<1>1. x \in Nat /\ L \in Nat
  BY Values
<1>2. /\ batch = <<>>
      /\ batch' = [i \in 1 .. n |-> (number + i - 1) % Numbers]
      /\ number' = (number + n) % Numbers
      /\ UNCHANGED <<audio_read, audio_write, audio_buf, audio_tmp, DAC1, rxisr, down, faults>>
  BY DEF Read, ring, history
<1>3. ASSUME faults = 0, rxisr = "returns" PROVE InOrder'
  <2>1. RingFrom(x, audio_buf, audio_read, L)
    BY <1>3 DEF OrderInv, InOrder
  <2>2. PICK off \in {0, 1}, m \in Nat :
            /\ LineFrom(x + L, down, audio_tmp, off, m)
            /\ BatchFrom(x + L + m, batch, number)
    BY <1>3 DEF OrderInv, InOrder
  <2>3. x' = x /\ L' = L
    BY <1>2 DEF audio_length
  <2> HIDE DEF x, L
  <2> DEFINE y == x + L + m
  <2>4. y \in Nat
    BY <1>1
  <2>5. number = y % Numbers
    <3>1. Len(batch) = 0 /\ y + 0 = y
      BY <1>2, <2>4
    <3> QED BY <2>2, <3>1 DEF BatchFrom
  <2> HIDE DEF y
  <2>6. number \in Nat
    BY <2>4, <2>5, CountOn DEF Numbering
  <2>7. Len(batch') = n
    BY <1>2
  <2>8. ASSUME NEW i \in 1 .. n PROVE batch'[i] = (y + i - 1) % Numbers
    <3>1. i - 1 \in Nat /\ number + i - 1 = number + (i - 1) /\ y + i - 1 = y + (i - 1)
      BY <2>4, <2>6
    <3>2. (number + (i - 1)) % Numbers = (y + (i - 1)) % Numbers
      BY <2>4, <2>5, <3>1, CountOn
    <3> QED BY <1>2, <3>1, <3>2
  <2>9. number' = (y + n) % Numbers
    BY <1>2, <2>4, <2>5, CountOn
  <2>10. BatchFrom(y, batch', number')
    BY <2>7, <2>8, <2>9 DEF BatchFrom
  <2>11. BatchFrom(x' + L' + m, batch', number') /\ LineFrom(x' + L', down', audio_tmp', off, m)
    BY <1>2, <2>2, <2>3, <2>10 DEF y
  <2>12. RingFrom(x', audio_buf', audio_read', L')
    BY <1>2, <2>1, <2>3
  <2> QED BY <2>11, <2>12 DEF InOrder, x, L
<1> QED BY <1>2, <1>3 DEF OrderInv

\* The samples answered are written behind the line.
LEMMA WriteOrder == OrderInv /\ PathInv' /\ Write => OrderInv'
<1> SUFFICES ASSUME OrderInv, PathInv', Write PROVE OrderInv'
  OBVIOUS
<1> DEFINE x == DAC1.lo + 1
           L == audio_length
<1>1. x \in Nat /\ L \in Nat /\ down \in Seq(Byte) /\ batch \in Seq(Numbering)
  BY Values
<1>2. /\ down' = down \o Bytes(batch) /\ batch' = <<>>
      /\ UNCHANGED <<audio_read, audio_write, audio_buf, audio_tmp, DAC1, rxisr, number, faults>>
  BY DEF Write, ring, history
<1>3. ASSUME faults = 0, rxisr = "returns" PROVE InOrder'
  <2>1. RingFrom(x, audio_buf, audio_read, L)
    BY <1>3 DEF OrderInv, InOrder
  <2>2. PICK off \in {0, 1}, m \in Nat :
            /\ LineFrom(x + L, down, audio_tmp, off, m)
            /\ BatchFrom(x + L + m, batch, number)
    BY <1>3 DEF OrderInv, InOrder
  <2>3. x' = x /\ L' = L
    BY <1>2 DEF audio_length
  <2> HIDE DEF x, L
  <2>4. x + L \in Nat
    BY <1>1
  <2>5. /\ m + Len(batch) \in Nat
        /\ LineFrom(x + L, down', audio_tmp, off, m + Len(batch))
        /\ BatchFrom(x + L + (m + Len(batch)), <<>>, number)
    BY <1>1, <1>2, <2>2, <2>4, LineWritten
  <2>6. /\ LineFrom(x' + L', down', audio_tmp', off, m + Len(batch))
        /\ BatchFrom(x' + L' + (m + Len(batch)), batch', number')
    BY <1>2, <2>3, <2>5
  <2>7. RingFrom(x', audio_buf', audio_read', L')
    BY <1>2, <2>1, <2>3
  <2> QED BY <2>5, <2>6, <2>7 DEF InOrder, x, L
<1> QED BY <1>2, <1>3 DEF OrderInv

\* Every step keeps the order, and plays the next sample if it plays one.
LEMMA OrderStep ==
    OrderInv /\ [Next]_vars
      => /\ OrderInv'
         /\ audio_read' # audio_read /\ faults' = 0 => DAC1' = Whole((DAC1.lo + 1) % Numbers)
<1> SUFFICES ASSUME OrderInv, [Next]_vars
             PROVE  /\ OrderInv'
                    /\ audio_read' # audio_read /\ faults' = 0
                         => DAC1' = Whole((DAC1.lo + 1) % Numbers)
  OBVIOUS
<1>1. PathInv'
  BY FlowStep DEF OrderInv
<1>2. faults \in Nat
  BY DEF OrderInv, PathInv
<1>3. CASE Timer4_ISR
  <2>1. /\ rxisr = "returns"
        /\ UNCHANGED <<audio_write, audio_buf, down, audio_tmp, batch, number, faults, rxisr>>
    BY <1>3 DEF Timer4_ISR, host, history
  <2>2. CASE UNCHANGED <<audio_read, DAC1>>
    BY <1>1, <2>1, <2>2, SameOrder
  <2>3. CASE ~ audio_empty /\ DAC1' = audio_buf[audio_read] /\ audio_read' = Inc(audio_read)
    BY <1>1, <2>1, <2>3, PlayOrder
  <2> QED BY <1>3, <2>2, <2>3 DEF Timer4_ISR
<1>4. CASE UART0_ISR
  BY <1>1, <1>4, ReceiveOrder DEF UART0_ISR
<1>5. CASE Uplink \/ Clear \/ Start \/ UNCHANGED vars
  <2>1. UNCHANGED <<DAC1, audio_buf, audio_read, audio_write, down, audio_tmp, batch, number,
                    faults, rxisr>>
    BY <1>5 DEF Uplink, Clear, Start, vars, ring, host, history
  <2> QED BY <1>1, <2>1, SameOrder
<1>6. CASE ReadFull \/ ReadTimeout
  <2>1. PICK n \in Nat : Read(n)
    BY <1>6, PathAssumption DEF ReadFull, ReadTimeout
  <2>2. UNCHANGED audio_read
    BY <2>1 DEF Read, ring
  <2> QED BY <1>1, <2>1, <2>2, ReadOrder
<1>7. CASE Write
  <2>1. UNCHANGED audio_read
    BY <1>7 DEF Write, ring
  <2> QED BY <1>1, <1>7, <2>1, WriteOrder
<1>8. CASE Crash \/ Reset \/ LoseByte
  <2>1. faults' = faults + 1 /\ UNCHANGED <<DAC1, audio_buf>>
    BY <1>8 DEF Crash, Reset, LoseByte, Fault, ring
  <2>2. faults' # 0
    BY <1>2, <2>1
  <2> QED BY <1>1, <2>1, <2>2, FaultyOrder
<1> QED BY <1>3, <1>4, <1>5, <1>6, <1>7, <1>8 DEF Next

\* Nothing is played, kept, on the line or answered before the first sample.
LEMMA InitOrder == Init => OrderInv
<1> SUFFICES ASSUME Init PROVE OrderInv
  OBVIOUS
<1> DEFINE N == Numbers
           A == AudioSize
<1>1. PathInv
  BY InitPath
<1>2. N \in Nat \ {0} /\ A \in Nat \ {0}
  BY PathAssumption
<1>3. /\ audio_read = 0 /\ audio_write = 0 /\ DAC1 = Whole(N - 1) /\ number = 0
      /\ audio_buf = [i \in 0 .. A - 1 |-> Whole(0)] /\ down = <<>> /\ batch = <<>>
  BY DEF Init, McuInit
<1>4. \A n \in 0 .. N - 1 : Whole(n) \in Sample
  BY DEF Whole, Sample, Numbering
<1>5. DAC1 \in Sample /\ audio_buf \in [0 .. A - 1 -> Sample]
  BY <1>2, <1>3, <1>4
<1>6. audio_length = 0
  <2>1. 0 + A - 0 = A * 1 + 0 /\ 0 \in 0 .. A - 1
    BY <1>2
  <2>2. (A * 1 + 0) % A = 0
    BY <1>2, <2>1, Remainder
  <2> QED BY <1>3, <2>1, <2>2 DEF audio_length
<1>7. DAC1.lo + 1 = N
  BY <1>2, <1>3 DEF Whole
<1>8. N % N = 0
  <2>1. N = N * 1 + 0 /\ 0 \in 0 .. N - 1
    BY <1>2
  <2> QED BY <1>2, <2>1, Remainder
<1>9. InOrder
  <2>1. RingFrom(N, audio_buf, audio_read, 0)
    BY DEF RingFrom
  <2>2. LineFrom(N + 0, down, audio_tmp, 0, 0)
    BY <1>3 DEF LineFrom
  <2>3. BatchFrom(N + 0 + 0, batch, number)
    <3>1. Len(batch) = 0 /\ N + 0 + 0 = N /\ N + 0 = N
      BY <1>2, <1>3
    <3> QED BY <1>3, <1>8, <3>1 DEF BatchFrom
  <2> HIDE DEF N
  <2> QED BY <1>6, <1>7, <2>1, <2>2, <2>3 DEF InOrder
<1> QED BY <1>1, <1>5, <1>9 DEF OrderInv

\* What is in the ring, on the line and being answered always goes on from the
\* sample played last, as long as there was no fault: nothing is left out, comes
\* twice or overtakes (labfinal.c:92-99, 189-195, server.cpp:246-254).
THEOREM OrderInvariant == Spec => []OrderInv
<1>1. OrderInv /\ [Next]_vars => OrderInv'
  BY OrderStep
<1> QED BY <1>1, InitOrder, PTL DEF Spec

\* Without faults the samples are played whole, in the order of the requests
\* they answer, none left out and none twice, for every size of the ring and of
\* the server's reads, also where the ring wraps.
THEOREM PlayedInOrderHolds == Spec => PlayedInOrder
<1>1. OrderInv /\ [Next]_vars
        => [audio_read' # audio_read /\ faults' = 0
              => DAC1' = Whole((DAC1.lo + 1) % Numbers)]_vars
  BY OrderStep
<1> QED BY <1>1, OrderInvariant, PTL DEF Spec, PlayedInOrder
=============================================================================
