---------------------------- MODULE RxTextProofs ----------------------------
(***************************************************************************)
(* Proofs about what the board receives: the commands and log lines of     *)
(* RxText, for any number of rows, any width of a row and any characters,  *)
(* and the bytes of samples and rectangles of WireFormat, for all of them. *)
(***************************************************************************)
EXTENDS RxText, MCFormats, NaturalsInduction, WellFoundedInduction, TLAPS

-----------------------------------------------------------------------------
\* Numbers.

\* Every number has a quotient and a remainder, and no other two.
LEMMA Divide == ASSUME NEW N \in Nat \ {0}, NEW x \in Nat
                PROVE  \E q \in Nat, r \in 0 .. N - 1 : x = N * q + r /\ x % N = r
<1>1. x = N * (x \div N) + (x % N) /\ x \div N \in Nat /\ x % N \in 0 .. N - 1
  OBVIOUS
<1> QED BY <1>1

LEMMA Remainder == ASSUME NEW N \in Nat \ {0}, NEW q \in Nat, NEW r \in 0 .. N - 1
                   PROVE  (N * q + r) % N = r /\ (N * q + r) \div N = q
OBVIOUS

\* The row after row x % N is row (x + 1) % N.
LEMMA NextMod == ASSUME NEW N \in Nat \ {0}, NEW x \in Nat
                 PROVE  ((x % N) + 1) % N = (x + 1) % N
<1>1. PICK q \in Nat, r \in 0 .. N - 1 : x = N * q + r /\ x % N = r
  BY Divide
<1>2. CASE r + 1 < N
  <2>1. r + 1 \in 0 .. N - 1 /\ x + 1 = N * q + (r + 1) /\ r + 1 = N * 0 + (r + 1)
    BY <1>1, <1>2
  <2> QED BY <1>1, <2>1, Remainder
<1>3. CASE ~ (r + 1 < N)
  <2>1. r + 1 = N /\ N * (q + 1) = N * q + N
    BY <1>3
  <2>2. x + 1 = N * (q + 1) + 0 /\ r + 1 = N * 1 + 0 /\ 0 \in 0 .. N - 1 /\ q + 1 \in Nat
    BY <1>1, <2>1
  <2>3. (N * (q + 1) + 0) % N = 0 /\ (N * 1 + 0) % N = 0
    BY <2>2, Remainder
  <2> QED BY <1>1, <2>2, <2>3
<1> QED BY <1>2, <1>3

\* Numbers less than N apart have different rows.
LEMMA OtherRow == ASSUME NEW N \in Nat \ {0}, NEW x \in Nat, NEW d \in 1 .. N - 1
                  PROVE  x % N # (x + d) % N
<1>1. PICK q \in Nat, r \in 0 .. N - 1 : x = N * q + r /\ x % N = r
  BY Divide
<1>2. CASE r + d < N
  <2>1. r + d \in 0 .. N - 1 /\ x + d = N * q + (r + d) /\ r + d # r
    BY <1>1, <1>2
  <2> QED BY <1>1, <2>1, Remainder
<1>3. CASE ~ (r + d < N)
  <2>1. N * (q + 1) = N * q + N
    OBVIOUS
  <2>2. r + d - N \in 0 .. N - 1 /\ x + d = N * (q + 1) + (r + d - N) /\ r + d - N # r /\ q + 1 \in Nat
    BY <1>1, <1>3, <2>1
  <2>3. (N * (q + 1) + (r + d - N)) % N = r + d - N
    BY <2>2, Remainder
  <2> QED BY <1>1, <2>2, <2>3
<1> QED BY <1>2, <1>3

\* A set of naturals that is not empty has a least member.
LEMMA LeastMember == ASSUME NEW T, T \subseteq Nat, T # {}
                     PROVE  \E x \in T : \A y \in T : x <= y
<1> DEFINE R == {ss \in Nat \X Nat : ss[1] < ss[2]}
<1>1. IsWellFoundedOn(R, Nat)
  BY NatLessThanWellFounded DEF OpToRel
<1>2. \E x \in T : \A y \in T : ~ (<<y, x>> \in R)
  <2> HIDE DEF R
  <2> QED BY <1>1, WFMin
<1>3. PICK x \in T : \A y \in T : ~ (<<y, x>> \in R)
  BY <1>2
<1>4. ASSUME NEW y \in T PROVE x <= y
  <2>1. x \in Nat /\ y \in Nat
    OBVIOUS
  <2>2. <<y, x>> \notin R
    BY <1>3, <1>4
  <2>3. ~ (y < x)
    BY <2>1, <2>2
  <2> QED BY <2>1, <2>3
<1> QED BY <1>4

-----------------------------------------------------------------------------
\* Rows and texts.

W == LOGLINEWIDTH
C == STRBUF_COUNT
Chars == Printable \cup {NUL}
RowOf == [0 .. W -> Chars]

LEMMA Sizes == W \in Nat \ {0} /\ C \in Nat \ {0} /\ RectLength \in 2 .. W
BY TextAssumption DEF W, C

\* A row that holds s and behind it a NUL.
Holds(row, s) == /\ Len(s) <= W
                 /\ \A x \in 0 .. Len(s) - 1 : row[x] = s[x + 1]
                 /\ row[Len(s)] = NUL

\* The string in a row that holds s is s.
LEMMA HeldText ==
    ASSUME NEW row \in RowOf, NEW s \in Seq(Printable), Holds(row, s)
    PROVE  RowText(row) = s
<1> DEFINE n == Len(s)
           First(i) == row[i] = NUL /\ \A j \in 0 .. i - 1 : row[j] # NUL
           end == CHOOSE i \in 0 .. LOGLINEWIDTH : First(i)
<1>1. n \in 0 .. LOGLINEWIDTH
  BY Sizes DEF Holds, W
<1>2. \A i \in 1 .. n : s[i] \in Printable
  OBVIOUS
<1>3. ASSUME NEW x \in 0 .. n - 1 PROVE row[x] = s[x + 1] /\ row[x] # NUL
  <2>1. x + 1 \in 1 .. n
    BY <1>1
  <2> QED BY <1>2, <2>1 DEF Holds, Printable, NUL
<1>4. First(n)
  BY <1>3 DEF Holds
<1>5. ASSUME NEW i \in 0 .. LOGLINEWIDTH, First(i) PROVE i = n
  <2> HIDE DEF n
  <2>1. i >= n
    <3> SUFFICES ASSUME i < n PROVE FALSE
      BY <1>1
    <3>1. i \in 0 .. n - 1
      BY <1>1
    <3> QED BY <1>3, <1>5, <3>1
  <2>2. i <= n
    <3> SUFFICES ASSUME n < i PROVE FALSE
      BY <1>1
    <3>1. n \in 0 .. i - 1
      BY <1>1
    <3> QED BY <1>4, <1>5, <3>1
  <2> QED BY <1>1, <2>1, <2>2
<1>6. end = n
  <2> HIDE DEF First, n
  <2>1. First(end) /\ end \in 0 .. LOGLINEWIDTH
    BY <1>1, <1>4
  <2> QED BY <1>5, <2>1
<1>7. \E i \in 0 .. LOGLINEWIDTH : row[i] = NUL
  BY <1>1, <1>4
<1>8. RowText(row) = [i \in 1 .. end |-> row[i - 1]]
  BY <1>7 DEF RowText
<1>9. \A i \in 1 .. n : row[i - 1] = s[i]
  <2> TAKE i \in 1 .. n
  <2>1. i - 1 \in 0 .. n - 1 /\ (i - 1) + 1 = i
    BY <1>1
  <2> QED BY <1>3, <2>1
<1>10. s = [i \in 1 .. n |-> s[i]]
  OBVIOUS
<1> HIDE DEF end, n
<1>11. RowText(row) = [i \in 1 .. n |-> row[i - 1]]
  BY <1>6, <1>8
<1> QED BY <1>9, <1>10, <1>11

\* What the log may show of s: s, or the characters of a full row and more.
Shows(line, s) == line = s \/ (Len(s) = LOGLINEWIDTH /\ IsPrefix(s, line))

\* The string in a full row that was not ended shows its characters.
LEMMA FullText ==
    ASSUME NEW row \in RowOf, NEW s \in Seq(Printable), Len(s) = W,
           \A x \in 0 .. W - 1 : row[x] = s[x + 1]
    PROVE  Shows(RowText(row), s)
<1>1. W \in Nat \ {0}
  BY Sizes
<1>2. CASE row[W] = NUL
  <2>1. Holds(row, s)
    BY <1>1, <1>2 DEF Holds
  <2> QED BY <2>1, HeldText DEF Shows
<1>3. CASE row[W] # NUL
  <2>1. ASSUME NEW x \in 0 .. W PROVE row[x] # NUL
    <3>1. CASE x = W
      BY <1>3, <3>1
    <3>2. CASE x # W
      <4>1. x \in 0 .. W - 1 /\ x + 1 \in 1 .. Len(s)
        BY <1>1, <3>2
      <4>2. s[x + 1] \in Printable
        BY <4>1
      <4> QED BY <4>1, <4>2 DEF Printable, NUL
    <3> QED BY <3>1, <3>2
  <2> DEFINE t == [i \in 1 .. W + 1 |-> row[i - 1]]
  <2>2. RowText(row) = Append(t, RUN)
    BY <2>1 DEF RowText, W
  <2>3. \A i \in 1 .. W + 1 : row[i - 1] \in Chars
    <3> TAKE i \in 1 .. W + 1
    <3>1. i - 1 \in 0 .. W
      BY <1>1
    <3> QED BY <3>1 DEF RowOf
  <2>4. t \in Seq(Chars) /\ Len(t) = W + 1
    BY <1>1, <2>3
  <2>5. ASSUME NEW i \in 1 .. W PROVE t[i] = s[i]
    <3>1. i - 1 \in 0 .. W - 1 /\ (i - 1) + 1 = i /\ i \in 1 .. W + 1
      BY <1>1
    <3>2. row[i - 1] = s[i]
      BY <3>1
    <3> QED BY <3>1, <3>2
  <2> HIDE DEF t
  <2> DEFINE u == Append(t, RUN)
  <2>6. Len(u) = W + 2 /\ u \in Seq(Chars \cup {RUN}) /\ \A i \in 1 .. W : u[i] = s[i]
    <3>1. t \in Seq(Chars \cup {RUN}) /\ RUN \in Chars \cup {RUN}
      BY <2>4
    <3> QED BY <1>1, <2>4, <2>5, <3>1
  <2> HIDE DEF u
  <2>7. SubSeq(s, 1, W) = [i \in 1 .. W |-> s[i]] /\ SubSeq(u, 1, W) = [i \in 1 .. W |-> u[i]]
    BY <1>1, <2>6
  <2>8. IsPrefix(s, u)
    BY <1>1, <2>6, <2>7 DEF IsPrefix
  <2> QED BY <2>2, <2>8 DEF Shows, W, u
<1> QED BY <1>2, <1>3

\* A text of q full rows and t characters, of which row has the last t.
Begun(s, q, t) == Len(s) = q * W + t /\ (q > 0 => t > 0)

\* A part of a sequence is one of the same elements.
LEMMA PartOf == ASSUME NEW S, NEW s \in Seq(S), NEW a \in Nat \ {0}, NEW c \in 0 .. Len(s)
                PROVE  SubSeq(s, a, c) \in Seq(S)
OBVIOUS

LEMMA CutOf ==
    ASSUME NEW s \in Seq(Printable), NEW q \in Nat, NEW t \in 0 .. W, Begun(s, q, t)
    PROVE  /\ Cut(s) \in Seq(Seq(Printable)) /\ Len(Cut(s)) = q + 1
           /\ \A k \in 1 .. q : Cut(s)[k] = SubSeq(s, (k - 1) * W + 1, k * W)
           /\ Cut(s)[q + 1] = SubSeq(s, q * W + 1, Len(s))
<1>0. \A a \in Nat \ {0}, c \in 0 .. Len(s) : SubSeq(s, a, c) \in Seq(Printable)
  BY PartOf
<1> DEFINE n == Len(s)
           b == q * W
<1>1. W \in Nat \ {0} /\ n \in Nat /\ b \in Nat /\ n = b + t
  BY Sizes DEF Begun
<1>2. Rows(s) = q + 1
  <2>1. CASE s = <<>>
    <3>1. n = 0
      BY <2>1
    <3>2. t = 0 /\ b = 0
      <4> HIDE DEF n, b
      <4> QED BY <1>1, <3>1
    <3>3. q = 0
      BY <3>2 DEF Begun
    <3> QED BY <2>1, <3>3 DEF Rows
  <2>2. CASE s # <<>>
    <3>1. n # 0
      BY <2>2
    <3>2. t > 0
      <4>1. CASE q > 0
        BY <4>1 DEF Begun
      <4>2. CASE ~ (q > 0)
        <5>1. q = 0
          BY <4>2
        <5>2. b = 0
          BY <5>1, <1>1
        <5> HIDE DEF b, n
        <5> QED BY <1>1, <3>1, <5>2
      <4> QED BY <4>1, <4>2
    <3>3. W * (q + 1) = b + W
      BY <1>1
    <3>4. n + W - 1 = W * (q + 1) + (t - 1) /\ t - 1 \in 0 .. W - 1 /\ q + 1 \in Nat
      <4> HIDE DEF n, b
      <4> QED BY <1>1, <3>2, <3>3
    <3>5. (n + W - 1) \div W = q + 1
      BY <1>1, <3>4, Remainder
    <3> QED BY <2>2, <3>5 DEF Rows, W
  <2> QED BY <2>1, <2>2
<1> DEFINE piece(k) == SubSeq(s, (k - 1) * W + 1, IF k < q + 1 THEN k * W ELSE Len(s))
<1>3. Cut(s) = [k \in 1 .. q + 1 |-> piece(k)]
  BY <1>2 DEF Cut, W
<1>4. ASSUME NEW k \in 1 .. q + 1 PROVE piece(k) \in Seq(Printable)
  <2>1. CASE k < q + 1
    <3>1. k \in 1 .. q /\ k - 1 \in Nat
      BY <2>1
    <3>2. k * W <= b /\ (k - 1) * W \in Nat /\ k * W \in Nat
      BY <1>1, <3>1
    <3>3. k * W <= n
      <4> HIDE DEF n, b
      <4> QED BY <1>1, <3>2
    <3>4. SubSeq(s, (k - 1) * W + 1, k * W) \in Seq(Printable)
      <4> DEFINE a == (k - 1) * W + 1
                 c == k * W
      <4>1. a \in Nat \ {0} /\ c \in 0 .. Len(s)
        BY <3>2, <3>3
      <4> HIDE DEF a, c
      <4>2. SubSeq(s, a, c) \in Seq(Printable)
        BY ONLY <1>0, <4>1
      <4> QED BY <4>2 DEF a, c
    <3> QED BY <2>1, <3>4
  <2>2. CASE ~ (k < q + 1)
    <3>1. k = q + 1
      BY <2>2
    <3>2. (k - 1) * W = b
      BY <3>1
    <3>3. SubSeq(s, b + 1, Len(s)) \in Seq(Printable)
      <4> DEFINE a == b + 1
      <4>1. a \in Nat \ {0} /\ Len(s) \in 0 .. Len(s)
        BY <1>1
      <4> HIDE DEF a
      <4>2. SubSeq(s, a, Len(s)) \in Seq(Printable)
        BY ONLY <1>0, <4>1
      <4> QED BY <4>2 DEF a
    <3> QED BY <2>2, <3>2, <3>3
  <2> QED BY <2>1, <2>2
<1>5. piece(q + 1) = SubSeq(s, q * W + 1, Len(s))
  <2>1. ~ (q + 1 < q + 1) /\ (q + 1) - 1 = q
    OBVIOUS
  <2> QED BY <2>1
<1>6. ASSUME NEW k \in 1 .. q
      PROVE  piece(k) = SubSeq(s, (k - 1) * W + 1, k * W) /\ k \in 1 .. q + 1
  <2>1. k < q + 1 /\ k \in 1 .. q + 1
    OBVIOUS
  <2> QED BY <2>1
<1>7. q + 1 \in 1 .. q + 1
  OBVIOUS
<1> HIDE DEF piece
<1>8. Cut(s) \in Seq(Seq(Printable)) /\ Len(Cut(s)) = q + 1
  BY <1>3, <1>4
<1>9. \A k \in 1 .. q + 1 : Cut(s)[k] = piece(k)
  BY <1>3
<1> QED BY <1>5, <1>6, <1>7, <1>8, <1>9

\* A part within s is the same when a character is added to s.
LEMMA PartKept ==
    ASSUME NEW S, NEW s \in Seq(S), NEW c \in S, NEW a \in Nat \ {0}, NEW b \in 0 .. Len(s)
    PROVE  SubSeq(Append(s, c), a, b) = SubSeq(s, a, b)
<1>1. /\ Append(s, c) \in Seq(S) /\ Len(Append(s, c)) = Len(s) + 1
      /\ \A i \in 1 .. Len(s) : Append(s, c)[i] = s[i]
  OBVIOUS
<1> DEFINE u == Append(s, c)
<1> HIDE DEF u
<1>2. ASSUME NEW v \in {s, u}
      PROVE  SubSeq(v, a, b) = [i \in 1 .. b - a + 1 |-> v[i + a - 1]]
  <2>1. v \in Seq(S)
    BY <1>1 DEF u
  <2> QED BY <2>1
<1>3. \A i \in 1 .. b - a + 1 : u[i + a - 1] = s[i + a - 1]
  <2> TAKE i \in 1 .. b - a + 1
  <2>1. i + a - 1 \in 1 .. Len(s)
    OBVIOUS
  <2> QED BY <1>1, <2>1 DEF u
<1>4. SubSeq(u, a, b) = SubSeq(s, a, b)
  BY <1>2, <1>3
<1> QED BY <1>4 DEF u

\* The full rows of a text.
FullRow(s, k) == SubSeq(s, (k - 1) * W + 1, k * W)

LEMMA FullRowKept ==
    ASSUME NEW s \in Seq(Printable), NEW c \in Printable, NEW q \in Nat, NEW t \in 0 .. W,
           Begun(s, q, t), NEW k \in 1 .. q
    PROVE  FullRow(Append(s, c), k) = FullRow(s, k)
<1> DEFINE a == (k - 1) * W + 1
           b == k * W
           d == q * W
<1>1. W \in Nat \ {0} /\ Len(s) = d + t
  BY Sizes DEF Begun
<1>2. k - 1 \in Nat /\ k \in Nat /\ k <= q
  OBVIOUS
<1>3. (k - 1) * W \in Nat /\ b \in Nat /\ b <= d /\ d \in Nat
  BY <1>1, <1>2
<1>4. a \in Nat \ {0} /\ b \in 0 .. Len(s)
  <2>1. a \in Nat \ {0}
    BY <1>3
  <2> HIDE DEF a, b, d
  <2> QED BY <1>1, <1>3, <2>1
<1> HIDE DEF a, b
<1>5. SubSeq(Append(s, c), a, b) = SubSeq(s, a, b)
  BY <1>4, PartKept
<1> QED BY <1>5 DEF a, b, FullRow

\* What follows the full rows of a text, and the row that holds it.
Remains(s, q) == SubSeq(s, q * W + 1, Len(s))
RowHas(row, s, q, t) == \A x \in 0 .. t - 1 : row[x] = s[q * W + x + 1]

LEMMA RemainsOf ==
    ASSUME NEW s \in Seq(Printable), NEW q \in Nat, NEW t \in 0 .. W, Begun(s, q, t),
           NEW row, RowHas(row, s, q, t)
    PROVE  /\ Remains(s, q) \in Seq(Printable) /\ Len(Remains(s, q)) = t
           /\ \A x \in 0 .. t - 1 : row[x] = Remains(s, q)[x + 1]
<1> DEFINE d == q * W
           n == Len(s)
           u == SubSeq(s, d + 1, n)
<1>1. W \in Nat \ {0} /\ n = d + t /\ d \in Nat /\ n \in Nat /\ t \in Nat
  BY Sizes DEF Begun
<1>2. \A x \in 0 .. t - 1 : row[x] = s[d + x + 1]
  BY DEF RowHas
<1> HIDE DEF d
<1>3. u \in Seq(Printable) /\ Len(u) = t /\ \A i \in 1 .. t : u[i] = s[d + i]
  <2>1. d + 1 \in Nat \ {0} /\ n \in 0 .. Len(s)
    BY <1>1
  <2>2. u \in Seq(Printable)
    BY <2>1, PartOf
  <2>3. u = [i \in 1 .. t |-> s[d + i]]
    <3>1. u = [i \in 1 .. n - (d + 1) + 1 |-> s[i + (d + 1) - 1]]
      BY <1>1
    <3>2. n - (d + 1) + 1 = t /\ \A i \in 1 .. t : i + (d + 1) - 1 = d + i
      <4> HIDE DEF n
      <4> QED BY <1>1
    <3> QED BY <3>1, <3>2
  <2> HIDE DEF u
  <2> QED BY <1>1, <2>2, <2>3
<1> HIDE DEF u
<1>4. \A x \in 0 .. t - 1 : x + 1 \in 1 .. t /\ d + (x + 1) = d + x + 1
  BY <1>1
<1>5. \A x \in 0 .. t - 1 : row[x] = u[x + 1]
  BY <1>2, <1>3, <1>4
<1> QED BY <1>3, <1>5 DEF u, d, n, Remains

\* The row is ended: it holds what remains.
LEMMA EndedHolds ==
    ASSUME NEW s \in Seq(Printable), NEW q \in Nat, NEW t \in 0 .. W, Begun(s, q, t),
           NEW row \in RowOf, RowHas(row, s, q, t)
    PROVE  LET ended == [row EXCEPT ![t] = NUL]
           IN  ended \in RowOf /\ Holds(ended, Remains(s, q))
<1> DEFINE ended == [row EXCEPT ![t] = NUL]
           u == Remains(s, q)
<1>1. u \in Seq(Printable) /\ Len(u) = t /\ \A x \in 0 .. t - 1 : row[x] = u[x + 1]
  BY RemainsOf
<1>2. W \in Nat \ {0}
  BY Sizes
<1> HIDE DEF u
<1>3. /\ ended \in RowOf /\ ended[t] = NUL
      /\ \A x \in 0 .. t - 1 : ended[x] = row[x]
  BY <1>2 DEF RowOf, Chars
<1> HIDE DEF ended
<1>4. Holds(ended, u)
  BY <1>1, <1>2, <1>3 DEF Holds
<1> QED BY <1>3, <1>4 DEF ended, u

\* What RowText gives is a line.
Line == Seq(Chars \cup {RUN})

LEMMA RowTextLine == ASSUME NEW row \in RowOf PROVE RowText(row) \in Line
<1>1. W \in Nat \ {0} /\ W = LOGLINEWIDTH
  BY Sizes DEF W
<1>2. ASSUME NEW n \in 0 .. W + 1 PROVE [i \in 1 .. n |-> row[i - 1]] \in Line
  <2>1. \A i \in 1 .. n : row[i - 1] \in Chars \cup {RUN}
    <3> TAKE i \in 1 .. n
    <3>1. i - 1 \in 0 .. W
      BY <1>1
    <3> QED BY <3>1 DEF RowOf
  <2> QED BY <2>1 DEF Line
<1>3. CASE \E i \in 0 .. LOGLINEWIDTH : row[i] = NUL
  <2> DEFINE First(i) == row[i] = NUL /\ \A j \in 0 .. i - 1 : row[j] # NUL
             T == {i \in 0 .. W : row[i] = NUL}
  <2>1. \E i \in 0 .. LOGLINEWIDTH : First(i)
    <3>1. T \subseteq Nat /\ T # {}
      BY <1>1, <1>3
    <3>2. PICK i \in T : \A j \in T : i <= j
      <4> HIDE DEF T
      <4> QED BY <3>1, LeastMember
    <3>3. i \in 0 .. W /\ row[i] = NUL
      OBVIOUS
    <3>4. ASSUME NEW j \in 0 .. i - 1, row[j] = NUL PROVE FALSE
      <4>1. j \in T /\ j < i
        BY <1>1, <3>3, <3>4
      <4> QED BY <3>2, <4>1
    <3> QED BY <1>1, <3>3, <3>4
  <2> DEFINE end == CHOOSE i \in 0 .. LOGLINEWIDTH : First(i)
  <2>2. end \in 0 .. W + 1
    <3>1. end \in 0 .. LOGLINEWIDTH
      <4> HIDE DEF First
      <4> QED BY <2>1
    <3> QED BY <1>1, <3>1
  <2>3. RowText(row) = [i \in 1 .. end |-> row[i - 1]]
    BY <1>3 DEF RowText
  <2> HIDE DEF end
  <2> QED BY <1>2, <2>2, <2>3
<1>4. CASE ~ \E i \in 0 .. LOGLINEWIDTH : row[i] = NUL
  <2> DEFINE u == [i \in 1 .. W + 1 |-> row[i - 1]]
  <2>1. u \in Line
    BY <1>1, <1>2
  <2>2. RowText(row) = Append(u, RUN)
    BY <1>1, <1>4 DEF RowText
  <2> HIDE DEF u
  <2> QED BY <2>1, <2>2 DEF Line
<1> QED BY <1>3, <1>4

-----------------------------------------------------------------------------
\* The type invariant.
Result == {Effect(cmd, row) : cmd \in Line, row \in RowOf}

RxType ==
  /\ strbuf \in [0 .. C - 1 -> RowOf]
  /\ strbuf_read \in 0 .. C - 1 /\ strbuf_write \in 0 .. C - 1 /\ stri \in 0 .. W
  /\ pc \in {"outside", "drawing"} /\ cmdbuf \in Line
  /\ text \in Seq(Printable)
  /\ due \in Seq(Seq(Printable)) /\ got \in Seq(Seq(Printable))
  /\ shown \in Seq(Line) /\ handled \in Seq(Result)
  /\ overrun \in BOOLEAN

\* The log: the full rows of the unfinished text have been shown, the row that is
\* written holds the rest of it, and all lines before it were shown as sent.
LogAt(q) ==
  /\ Begun(text, q, stri) /\ RowHas(Row, text, q, stri)
  /\ Len(shown) = Len(due) + q
  /\ \A i \in 1 .. Len(due) : Shows(shown[i], due[i])
  /\ \A k \in 1 .. q : Shows(shown[Len(due) + k], FullRow(text, k))
LinesInv == \E q \in Nat : LogAt(q)

\* The commands: while no more wait than there are rows, each has a row of its own
\* that still holds it, and main() draws the oldest.
Waiting(buf) == \A a \in Len(handled) .. Len(got) - 1 : Holds(buf[a % C], got[a + 1])
Served ==
  /\ Len(handled) <= Len(got) /\ Len(got) - Len(handled) < C
  /\ Waiting(strbuf)
  /\ \A i \in 1 .. Len(handled) : handled[i] = Effect(got[i], Stored(got[i]))
  /\ pc = "drawing" => Len(handled) < Len(got) /\ cmdbuf = got[Len(handled) + 1]
CommandsInv ==
  /\ strbuf_write = Len(got) % C /\ strbuf_read = Len(handled) % C
  /\ ~ overrun => Served

RxInv == RxType /\ LinesInv /\ CommandsInv

\* The row of the interrupt is none of those that wait.
LEMMA OthersKept ==
    ASSUME NEW h \in Nat, NEW g \in Nat, h <= g, g - h < C, NEW a \in h .. g - 1
    PROVE  a % C # g % C /\ a % C \in 0 .. C - 1
<1>1. C \in Nat \ {0} /\ a \in Nat /\ g - a \in 1 .. C - 1 /\ a + (g - a) = g
  BY Sizes
<1>2. a % C # (a + (g - a)) % C
  BY <1>1, OtherRow
<1>3. a % C \in 0 .. C - 1
  BY <1>1
<1> QED BY <1>1, <1>2, <1>3

\* A command draws the same from a row that holds it as from the command itself.
LEMMA EffectHeld ==
    ASSUME NEW s \in Seq(Printable), NEW row, Holds(row, s)
    PROVE  Effect(s, row) = Effect(s, Stored(s))
<1>1. CASE Len(s) = RectLength
  <2>1. RectLength \in Nat
    BY Sizes
  <2>2. ASSUME NEW i \in 1 .. RectLength PROVE row[i] = Stored(s)[i]
    <3>1. i \in 0 .. Len(s)
      BY <1>1, <2>1
    <3>2. CASE i < Len(s)
      BY <2>1, <3>1, <3>2 DEF Holds, Stored
    <3>3. CASE ~ (i < Len(s))
      <4>1. i = Len(s)
        BY <1>1, <2>1, <3>3
      <4> QED BY <3>1, <3>3, <4>1 DEF Holds, Stored
    <3> QED BY <3>2, <3>3
  <2>3. [i \in 1 .. RectLength |-> row[i]] = [i \in 1 .. RectLength |-> Stored(s)[i]]
    BY <2>2
  <2> QED BY <2>3 DEF Effect
<1>2. CASE Len(s) # RectLength
  BY <1>2 DEF Effect
<1> QED BY <1>1, <1>2

LEMMA RxInit == Init => RxInv
<1> SUFFICES ASSUME Init PROVE RxInv
  OBVIOUS
<1>1. W \in Nat \ {0} /\ C \in Nat \ {0} /\ W = LOGLINEWIDTH /\ C = STRBUF_COUNT
  BY Sizes DEF W, C
<1>2. RxType
  <2>1. PICK junk \in {NUL, "a"} :
          strbuf = [k \in 0 .. STRBUF_COUNT - 1 |-> [i \in 0 .. LOGLINEWIDTH |-> junk]]
    BY DEF Init
  <2>2. junk \in Chars
    BY DEF Chars, Printable
  <2>3. strbuf \in [0 .. C - 1 -> RowOf]
    BY <1>1, <2>1, <2>2 DEF RowOf
  <2> QED BY <1>1, <2>3 DEF Init, RxType, Line
<1>3. LogAt(0)
  BY <1>1 DEF Init, LogAt, Begun, RowHas
<1>4. CommandsInv
  <2>1. 0 % C = 0
    BY <1>1
  <2> QED BY <1>1, <2>1 DEF Init, CommandsInv, Served, Waiting
<1> QED BY <1>2, <1>3, <1>4 DEF RxInv, LinesInv

-----------------------------------------------------------------------------
\* Writing into the row of the interrupt changes none of those that wait.
LEMMA WaitingKept ==
    ASSUME RxType, CommandsInv, ~ overrun, NEW new \in RowOf
    PROVE  Waiting([strbuf EXCEPT ![strbuf_write] = new])
<1> DEFINE h == Len(handled)
           g == Len(got)
<1>1. h \in Nat /\ g \in Nat /\ h <= g /\ g - h < C /\ strbuf_write = g % C
  BY DEF CommandsInv, Served, RxType
<1>2. strbuf \in [0 .. C - 1 -> RowOf] /\ \A a \in h .. g - 1 : Holds(strbuf[a % C], got[a + 1])
  BY DEF CommandsInv, Served, RxType, Waiting
<1> HIDE DEF h, g
<1>3. ASSUME NEW a \in h .. g - 1 PROVE [strbuf EXCEPT ![g % C] = new][a % C] = strbuf[a % C]
  <2>1. a % C # g % C /\ a % C \in 0 .. C - 1
    BY <1>1, OthersKept
  <2> QED BY <1>2, <2>1
<1> QED BY <1>1, <1>2, <1>3 DEF Waiting, h, g

\* A newline.
LEMMA NewlineType == RxInv /\ Newline => RxType' /\ CommandsInv'
<1> SUFFICES ASSUME RxInv, Newline PROVE RxType' /\ CommandsInv'
  OBVIOUS
<1>1. PICK q \in Nat : LogAt(q)
  BY DEF RxInv, LinesInv
<1>2. RxType /\ CommandsInv /\ W \in Nat \ {0} /\ C \in Nat \ {0}
  BY Sizes DEF RxInv
<1>3. Row \in RowOf /\ Begun(text, q, stri) /\ RowHas(Row, text, q, stri)
  BY <1>1, <1>2 DEF RxType, Row, LogAt
<1>4. Ended \in RowOf
  BY <1>2, <1>3, EndedHolds DEF Ended, RxType
<1>5. Cut(text) \in Seq(Seq(Printable))
  BY <1>2, <1>3, CutOf DEF RxType
<1>6. RowText(Ended) \in Line
  BY <1>4, RowTextLine
<1>7. RxType'
  BY <1>2, <1>4, <1>5, <1>6 DEF RxType, Newline, Receive, EndAndShowRow, main
<1>8. CommandsInv'
  <2> SUFFICES ASSUME ~ overrun PROVE Waiting(strbuf)'
    BY <1>2 DEF CommandsInv, Served, Newline, Receive, EndAndShowRow, main
  <2>1. Waiting(strbuf')
    BY <1>2, <1>4, WaitingKept DEF Newline, EndAndShowRow
  <2> QED BY <2>1 DEF Waiting, Newline, Receive, main
<1> QED BY <1>7, <1>8

\* The full rows of the unfinished text, and a log that shows what is due.
FullRows(parts, q) == \A k \in 1 .. q : parts[k] = FullRow(text, k)
AsDue(log, lines) ==
  Len(log) = Len(lines) /\ \A i \in 1 .. Len(lines) : Shows(log[i], lines[i])

LEMMA LinesDue ==
    ASSUME NEW q \in Nat, RxType, LogAt(q),
           NEW parts \in Seq(Seq(Printable)), Len(parts) \in {q, q + 1}, FullRows(parts, q),
           NEW log \in Seq(Line), Len(log) = Len(due) + Len(parts),
           \A i \in 1 .. Len(shown) : log[i] = shown[i],
           Len(parts) = q + 1 => Shows(log[Len(log)], parts[q + 1])
    PROVE  AsDue(log, due \o parts)
<1> DEFINE all == due \o parts
           n == Len(due)
<1>1. /\ n \in Nat /\ Len(shown) = n + q /\ Len(parts) \in Nat
      /\ Len(all) = n + Len(parts) /\ Len(log) = n + Len(parts)
  BY DEF RxType, LogAt
<1>2. /\ \A i \in 1 .. n : all[i] = due[i]
      /\ \A k \in 1 .. Len(parts) : all[n + k] = parts[k]
  <2>1. due \in Seq(Seq(Printable))
    BY DEF RxType
  <2>2. \A i \in 1 .. n + Len(parts) : all[i] = IF i <= n THEN due[i] ELSE parts[i - n]
    BY <2>1
  <2> HIDE DEF all
  <2>3. ASSUME NEW k \in 1 .. Len(parts) PROVE all[n + k] = parts[k]
    <3>1. n + k \in 1 .. n + Len(parts) /\ ~ (n + k <= n) /\ (n + k) - n = k
      BY <1>1
    <3> QED BY <2>2, <3>1
  <2>4. ASSUME NEW i \in 1 .. n PROVE all[i] = due[i]
    <3>1. i \in 1 .. n + Len(parts) /\ i <= n
      BY <1>1
    <3> QED BY <2>2, <3>1
  <2> QED BY <2>3, <2>4
<1>3. /\ \A i \in 1 .. n : Shows(shown[i], due[i])
      /\ \A k \in 1 .. q : Shows(shown[n + k], parts[k])
  BY DEF LogAt, FullRows
<1> HIDE DEF all, n
<1>4. ASSUME NEW i \in 1 .. n + Len(parts) PROVE Shows(log[i], all[i])
  <2>1. CASE i \in 1 .. n
    <3>1. i \in 1 .. Len(shown)
      BY <1>1, <2>1
    <3> QED BY <1>2, <1>3, <2>1, <3>1
  <2>2. CASE i \in n + 1 .. n + q
    <3>1. /\ i - n \in 1 .. q /\ i - n \in 1 .. Len(parts) /\ n + (i - n) = i
          /\ i \in 1 .. Len(shown)
      BY <1>1, <2>2
    <3> QED BY <1>2, <1>3, <3>1
  <2>3. CASE i > n + q
    <3>1. Len(parts) = q + 1 /\ i = n + (q + 1) /\ q + 1 \in 1 .. Len(parts) /\ i = Len(log)
      BY <1>1, <2>3
    <3> QED BY <1>2, <3>1
  <2> QED BY <1>1, <2>1, <2>2, <2>3
<1> QED BY <1>1, <1>4 DEF all, AsDue

LEMMA NewlineLines == RxInv /\ Newline => LinesInv'
<1> SUFFICES ASSUME RxInv, Newline PROVE LogAt(0)'
  BY DEF LinesInv
<1>1. PICK q \in Nat : LogAt(q)
  BY DEF RxInv, LinesInv
<1>2. RxType /\ W \in Nat \ {0}
  BY Sizes DEF RxInv
<1>3. Row \in RowOf /\ Begun(text, q, stri) /\ RowHas(Row, text, q, stri)
  BY <1>1, <1>2 DEF RxType, Row, LogAt
<1>4. Ended \in RowOf /\ Holds(Ended, Remains(text, q))
  BY <1>2, <1>3, EndedHolds DEF Ended, RxType
<1>5. /\ Cut(text) \in Seq(Seq(Printable)) /\ Len(Cut(text)) = q + 1
      /\ \A k \in 1 .. q : Cut(text)[k] = FullRow(text, k)
      /\ Cut(text)[q + 1] = Remains(text, q)
  BY <1>2, <1>3, CutOf DEF RxType, FullRow, Remains
<1>6. RowText(Ended) = Remains(text, q)
  <2>1. Remains(text, q) \in Seq(Printable)
    BY <1>2, <1>3, RemainsOf DEF RxType
  <2> QED BY <1>4, <2>1, HeldText
<1>7. AsDue(shown', due')
  <2> DEFINE parts == Cut(text)
             log == Append(shown, RowText(Ended))
  <2>1. shown' = log /\ due' = due \o parts
    BY DEF Newline, EndAndShowRow
  <2>2. parts \in Seq(Seq(Printable)) /\ Len(parts) = q + 1 /\ FullRows(parts, q)
    BY <1>5 DEF FullRows
  <2>3. log \in Seq(Line) /\ Len(log) = Len(shown) + 1
        /\ (\A i \in 1 .. Len(shown) : log[i] = shown[i]) /\ log[Len(log)] = RowText(Ended)
    <3>1. shown \in Seq(Line) /\ RowText(Ended) \in Line
      BY <1>2, <1>4, RowTextLine DEF RxType
    <3> QED BY <3>1
  <2>4. Shows(RowText(Ended), parts[q + 1])
    BY <1>5, <1>6 DEF Shows
  <2>5. Len(shown) = Len(due) + q /\ Len(due) \in Nat
    BY <1>1, <1>2 DEF LogAt, RxType
  <2> HIDE DEF parts, log
  <2>6. Len(log) = Len(due) + Len(parts) /\ Len(log) \in 1 .. Len(log)
    BY <2>2, <2>3, <2>5
  <2>7. AsDue(log, due \o parts)
    <3>1. log[Len(log)] = RowText(Ended)
      BY <2>3
    <3> QED BY <1>1, <1>2, <2>2, <2>3, <2>4, <2>6, <3>1, LinesDue
  <2> QED BY <2>1, <2>7
<1>8. text' = <<>> /\ stri' = 0
  BY DEF Newline
<1>9. Begun(<<>>, 0, 0) /\ \A row : RowHas(row, <<>>, 0, 0)
  BY <1>2 DEF Begun, RowHas
<1>10. Len(due') \in Nat
  BY <1>2, NewlineType DEF RxType
<1> QED BY <1>7, <1>8, <1>9, <1>10 DEF LogAt, AsDue

-----------------------------------------------------------------------------
\* A tab.
LEMMA TabCut ==
    ASSUME RxInv, NEW q \in Nat, LogAt(q)
    PROVE  /\ Front(Cut(text)) \in Seq(Seq(Printable)) /\ Len(Front(Cut(text))) = q
           /\ FullRows(Front(Cut(text)), q)
           /\ Last(Cut(text)) = Remains(text, q) /\ Last(Cut(text)) \in Seq(Printable)
           /\ Ended \in RowOf /\ Holds(Ended, Last(Cut(text)))
<1>1. RxType
  BY DEF RxInv
<1>2. Row \in RowOf /\ Begun(text, q, stri) /\ RowHas(Row, text, q, stri)
  BY <1>1 DEF RxType, Row, LogAt
<1>3. Ended \in RowOf /\ Holds(Ended, Remains(text, q))
  BY <1>1, <1>2, EndedHolds DEF Ended, RxType
<1> DEFINE s == Cut(text)
<1>4. /\ s \in Seq(Seq(Printable)) /\ Len(s) = q + 1
      /\ \A k \in 1 .. q : s[k] = FullRow(text, k)
      /\ s[q + 1] = Remains(text, q)
  BY <1>1, <1>2, CutOf DEF RxType, FullRow, Remains
<1>5. Remains(text, q) \in Seq(Printable)
  BY <1>1, <1>2, RemainsOf DEF RxType
<1> HIDE DEF s
<1>6. Last(s) = Remains(text, q)
  BY <1>4 DEF Last
<1>7. Front(s) \in Seq(Seq(Printable)) /\ Len(Front(s)) = q /\ \A k \in 1 .. q : Front(s)[k] = s[k]
  <2>1. Front(s) = SubSeq(s, 1, q)
    BY <1>4 DEF Front
  <2>2. q \in 0 .. Len(s)
    BY <1>4
  <2> QED BY <1>4, <2>1, <2>2
<1>8. FullRows(Front(s), q)
  BY <1>4, <1>7 DEF FullRows
<1> QED BY <1>3, <1>5, <1>6, <1>7, <1>8 DEF s

LEMMA TabType == RxInv /\ Tab => RxType' /\ CommandsInv'
<1> SUFFICES ASSUME RxInv, Tab PROVE RxType' /\ CommandsInv'
  OBVIOUS
<1>1. PICK q \in Nat : LogAt(q)
  BY DEF RxInv, LinesInv
<1>2. RxType /\ CommandsInv /\ W \in Nat \ {0} /\ C \in Nat \ {0} /\ C = STRBUF_COUNT
  BY Sizes DEF RxInv, C
<1> DEFINE cmd == Last(Cut(text))
           before == Front(Cut(text))
           h == Len(handled)
           g == Len(got)
<1>3. /\ before \in Seq(Seq(Printable)) /\ cmd \in Seq(Printable)
      /\ Ended \in RowOf /\ Holds(Ended, cmd)
  BY <1>1, TabCut
<1>4. /\ strbuf' = [strbuf EXCEPT ![strbuf_write] = Ended]
      /\ strbuf_write' = (strbuf_write + 1) % C
      /\ stri' = 0 /\ due' = due \o before /\ got' = Append(got, cmd) /\ text' = <<>>
      /\ overrun' = (overrun \/ g + 1 - h >= C)
      /\ UNCHANGED <<shown, strbuf_read, pc, cmdbuf, handled>>
  BY <1>2 DEF Tab, Receive, main, NextRow
<1>5. g \in Nat /\ h \in Nat /\ Len(got') = g + 1 /\ got'[g + 1] = cmd
      /\ \A i \in 1 .. g : got'[i] = got[i]
  BY <1>2, <1>3, <1>4 DEF RxType
<1> HIDE DEF before, cmd
<1>6. strbuf_write' \in 0 .. C - 1
  BY <1>2, <1>4 DEF RxType
<1>7. RxType'
  BY <1>2, <1>3, <1>4, <1>6 DEF RxType
<1>8. strbuf_write' = Len(got') % C
  <2>1. strbuf_write = g % C
    BY <1>2 DEF CommandsInv
  <2>2. ((g % C) + 1) % C = (g + 1) % C
    BY <1>2, <1>5, NextMod
  <2> QED BY <1>4, <1>5, <2>1, <2>2
<1>9. ASSUME ~ overrun' PROVE Served'
  <2>1. ~ overrun /\ Served /\ g + 1 - h < C
    <3>1. ~ overrun /\ ~ (g + 1 - h >= C)
      BY <1>4, <1>9
    <3> QED BY <1>2, <1>5, <3>1 DEF CommandsInv
  <2>2. \A a \in h .. g - 1 : Holds(strbuf'[a % C], got[a + 1])
    <3>1. Waiting([strbuf EXCEPT ![strbuf_write] = Ended])
      BY <1>2, <1>3, <2>1, WaitingKept
    <3> QED BY <1>4, <3>1 DEF Waiting
  <2>3. h <= g
    BY <2>1 DEF Served
  <2>4. \A i \in 1 .. h : handled[i] = Effect(got[i], Stored(got[i]))
    BY <2>1 DEF Served
  <2>5. pc = "drawing" => h < g /\ cmdbuf = got[h + 1]
    BY <2>1 DEF Served
  <2>6. handled' = handled /\ Len(handled') = h
    BY <1>4
  <2>7. strbuf'[g % C] = Ended
    BY <1>2, <1>4 DEF CommandsInv, RxType
  <2> HIDE DEF h, g
  <2>8. Waiting(strbuf)'
    <3>1. ASSUME NEW a \in h .. g PROVE Holds(strbuf'[a % C], got'[a + 1])
      <4>1. CASE a = g
        BY <1>3, <1>5, <2>7, <4>1
      <4>2. CASE a # g
        <5>1. a \in h .. g - 1 /\ a + 1 \in 1 .. g
          BY <1>5, <4>2
        <5> QED BY <1>5, <2>2, <5>1
      <4> QED BY <4>1, <4>2
    <3>2. (g + 1) - 1 = g
      BY <1>5
    <3> QED BY <1>5, <2>6, <3>1, <3>2 DEF Waiting
  <2>9. \A i \in 1 .. h : handled'[i] = Effect(got'[i], Stored(got'[i]))
    <3>1. \A i \in 1 .. h : i \in 1 .. g
      BY <1>5, <2>3
    <3> QED BY <1>5, <2>4, <2>6, <3>1
  <2>10. pc' = "drawing" => h < g + 1 /\ cmdbuf' = got'[h + 1]
    <3>1. h < g => h < g + 1 /\ h + 1 \in 1 .. g
      BY <1>5
    <3> QED BY <1>4, <1>5, <2>5, <3>1
  <2>11. h <= g + 1 /\ (g + 1) - h < C
    BY <1>5, <2>1, <2>3
  <2> QED BY <1>5, <2>6, <2>8, <2>9, <2>10, <2>11 DEF Served
<1>10. strbuf_read' = Len(handled') % C
  BY <1>2, <1>4 DEF CommandsInv
<1> QED BY <1>7, <1>8, <1>9, <1>10 DEF CommandsInv

LEMMA TabLines == RxInv /\ Tab => LinesInv'
<1> SUFFICES ASSUME RxInv, Tab PROVE LogAt(0)'
  BY DEF LinesInv
<1>1. PICK q \in Nat : LogAt(q)
  BY DEF RxInv, LinesInv
<1>2. RxType /\ W \in Nat \ {0}
  BY Sizes DEF RxInv
<1> DEFINE parts == Front(Cut(text))
<1>3. parts \in Seq(Seq(Printable)) /\ Len(parts) = q /\ FullRows(parts, q)
  BY <1>1, TabCut
<1>4. shown' = shown /\ due' = due \o parts /\ text' = <<>> /\ stri' = 0
  BY DEF Tab
<1> HIDE DEF parts
<1>5. AsDue(shown', due')
  <2>1. shown \in Seq(Line) /\ Len(shown) = Len(due) + q
    BY <1>1, <1>2 DEF RxType, LogAt
  <2>2. Len(parts) # q + 1
    BY <1>3
  <2> QED BY <1>1, <1>2, <1>3, <1>4, <2>1, <2>2, LinesDue
<1>6. Begun(<<>>, 0, 0) /\ \A row : RowHas(row, <<>>, 0, 0)
  BY <1>2 DEF Begun, RowHas
<1>7. Len(due') \in Nat
  BY <1>2, TabType DEF RxType
<1> QED BY <1>4, <1>5, <1>6, <1>7 DEF LogAt, AsDue

-----------------------------------------------------------------------------
\* Any other character.
At == IF RowFull THEN 0 ELSE stri

LEMMA CharacterType ==
    ASSUME RxInv, NEW c \in Printable, Character(c)
    PROVE  /\ RxType' /\ CommandsInv' /\ Row' = [Row EXCEPT ![At] = c]
           /\ At \in 0 .. W - 1 /\ Row \in RowOf
<1>1. RxType /\ CommandsInv /\ W \in Nat \ {0} /\ C \in Nat \ {0} /\ W = LOGLINEWIDTH
  BY Sizes DEF RxInv, W
<1> DEFINE new == [Row EXCEPT ![At] = c]
<1>2. At \in 0 .. W - 1 /\ Row \in RowOf
  BY <1>1 DEF At, RowFull, RxType, Row
<1>3. new \in RowOf
  BY <1>1, <1>2 DEF RowOf, Chars
<1>4. strbuf' = [strbuf EXCEPT ![strbuf_write] = new]
  BY DEF Character, At, Row
<1>5. /\ stri' = At + 1 /\ text' = Append(text, c)
      /\ shown' = IF RowFull THEN Append(shown, RowText(Row)) ELSE shown
      /\ UNCHANGED <<strbuf_write, due, got, overrun, strbuf_read, pc, cmdbuf, handled>>
  BY DEF Character, Receive, main, At
<1>6. Row' = new
  BY <1>1, <1>4, <1>5 DEF Row, RxType
<1> HIDE DEF new
<1>7. RowText(Row) \in Line
  BY <1>2, RowTextLine
<1>8. At + 1 \in 0 .. W
  BY <1>1, <1>2
<1>9. RxType'
  BY <1>1, <1>3, <1>4, <1>5, <1>7, <1>8 DEF RxType
<1>10. CommandsInv'
  <2> SUFFICES ASSUME ~ overrun PROVE Waiting(strbuf)'
    BY <1>1, <1>5 DEF CommandsInv, Served
  <2>1. Waiting(strbuf')
    BY <1>1, <1>3, <1>4, WaitingKept
  <2> QED BY <1>5, <2>1 DEF Waiting
<1> QED BY <1>2, <1>6, <1>9, <1>10 DEF new

\* A row that is not full gets the next character of the text.
LEMMA CharacterNext ==
    ASSUME RxInv, NEW c \in Printable, Character(c), ~ RowFull, NEW q \in Nat, LogAt(q)
    PROVE  LogAt(q)'
<1> DEFINE d == q * W
           t == Append(text, c)
<1>1. RxType /\ RxType' /\ W \in Nat \ {0} /\ d \in Nat
  BY CharacterType, Sizes DEF RxInv
<1>2. /\ Row' = [Row EXCEPT ![stri] = c] /\ stri \in 0 .. W - 1 /\ Row \in RowOf
  BY CharacterType DEF At
<1>3. text' = t /\ stri' = stri + 1 /\ shown' = shown /\ due' = due
  BY DEF Character
<1>4. Len(text) = d + stri /\ \A x \in 0 .. stri - 1 : Row[x] = text[d + x + 1]
  BY DEF LogAt, Begun, RowHas
<1>5. text \in Seq(Printable) /\ Len(t) = d + stri + 1 /\ t[d + stri + 1] = c
      /\ \A i \in 1 .. d + stri : t[i] = text[i]
  BY <1>1, <1>4 DEF RxType
<1>6. \A k \in 1 .. q : FullRow(t, k) = FullRow(text, k)
  BY <1>1, FullRowKept DEF LogAt, RxType
<1> HIDE DEF t, d
<1>7. Len(t) = d + (stri + 1) /\ stri + 1 > 0
  BY <1>1, <1>2, <1>5
<1>8. ASSUME NEW x \in 0 .. (stri + 1) - 1 PROVE Row'[x] = t[d + x + 1]
  <2>1. CASE x = stri
    BY <1>1, <1>2, <1>5, <2>1 DEF RowOf
  <2>2. CASE x # stri
    <3>1. x \in 0 .. stri - 1 /\ d + x + 1 \in 1 .. d + stri
      BY <1>1, <1>2, <2>2
    <3>2. Row'[x] = Row[x]
      BY <1>1, <1>2, <3>1 DEF RowOf
    <3> QED BY <1>4, <1>5, <3>1, <3>2
  <2> QED BY <2>1, <2>2
<1>9. Begun(t, q, stri + 1) /\ RowHas(Row', t, q, stri + 1)
  BY <1>7, <1>8 DEF Begun, RowHas, d
<1> QED BY <1>3, <1>6, <1>9 DEF LogAt

\* A full row has been shown, and the text goes on in it from its start.
LEMMA CharacterFull ==
    ASSUME RxInv, NEW c \in Printable, Character(c), RowFull, NEW q \in Nat, LogAt(q)
    PROVE  LogAt(q + 1)'
<1> DEFINE d == q * W
           e == (q + 1) * W
           t == Append(text, c)
<1>1. RxType /\ RxType' /\ W \in Nat \ {0} /\ W = LOGLINEWIDTH
  BY CharacterType, Sizes DEF RxInv, W
<1>2. Row' = [Row EXCEPT ![0] = c] /\ Row \in RowOf
  BY CharacterType DEF At
<1>3. text' = t /\ stri' = 1 /\ shown' = Append(shown, RowText(Row)) /\ due' = due
  BY DEF Character
<1>4. stri = W
  BY <1>1 DEF RowFull, RxType
<1>5. d \in Nat /\ e = d + W
  BY <1>1
<1>6. text \in Seq(Printable) /\ Len(text) = e /\ Begun(text, q, W) /\ RowHas(Row, text, q, W)
  BY <1>1, <1>4, <1>5 DEF LogAt, Begun, RxType
<1>7. Len(t) = e + 1 /\ t[e + 1] = c
  BY <1>5, <1>6
<1>8. \A k \in 1 .. q : FullRow(t, k) = FullRow(text, k)
  BY <1>1, <1>4, <1>6, FullRowKept
<1>9. FullRow(t, q + 1) = Remains(text, q)
  <2>1. SubSeq(t, d + 1, e) = SubSeq(text, d + 1, e)
    <3>1. d + 1 \in Nat \ {0} /\ e \in 0 .. Len(text)
      BY <1>1, <1>5, <1>6
    <3> HIDE DEF d, e
    <3> QED BY <1>6, <3>1, PartKept
  <2>2. ((q + 1) - 1) * W = d
    OBVIOUS
  <2> QED BY <1>6, <2>1, <2>2 DEF FullRow, Remains
<1>10. Shows(RowText(Row), Remains(text, q))
  <2>1. /\ Remains(text, q) \in Seq(Printable) /\ Len(Remains(text, q)) = W
        /\ \A x \in 0 .. W - 1 : Row[x] = Remains(text, q)[x + 1]
    <3>1. W \in 0 .. W
      BY <1>1
    <3> QED BY <1>6, <3>1, RemainsOf
  <2> QED BY <1>2, <2>1, FullText
<1>11. Begun(t, q + 1, 1)
  BY <1>7 DEF Begun
<1>12. RowHas(Row', t, q + 1, 1)
  <2>1. Row'[0] = c
    BY <1>1, <1>2 DEF RowOf
  <2>2. e + 0 + 1 = e + 1
    BY <1>1
  <2> HIDE DEF e, t
  <2>3. \A x \in 0 .. 1 - 1 : Row'[x] = t[e + x + 1]
    BY <1>7, <2>1, <2>2
  <2> QED BY <2>3 DEF RowHas, e
<1> DEFINE n == Len(due)
           log == Append(shown, RowText(Row))
<1>13. /\ n \in Nat /\ Len(shown) = n + q
       /\ \A i \in 1 .. n : Shows(shown[i], due[i])
       /\ \A k \in 1 .. q : Shows(shown[n + k], FullRow(text, k))
  BY <1>1 DEF LogAt, RxType
<1>14. /\ Len(log) = Len(shown) + 1 /\ log[Len(shown) + 1] = RowText(Row)
       /\ \A i \in 1 .. Len(shown) : log[i] = shown[i]
  <2>1. RowText(Row) \in Line /\ shown \in Seq(Line)
    BY <1>1, <1>2, RowTextLine DEF RxType
  <2> QED BY <2>1
<1> HIDE DEF d, e, t, n, log
<1>15. Len(log) = n + (q + 1) /\ \A i \in 1 .. n : Shows(log[i], due[i])
  <2>1. \A i \in 1 .. n : i \in 1 .. Len(shown)
    BY <1>13
  <2> QED BY <1>13, <1>14, <2>1
<1>16. ASSUME NEW k \in 1 .. q + 1 PROVE Shows(log[n + k], FullRow(t, k))
  <2>1. CASE k \in 1 .. q
    <3>1. n + k \in 1 .. Len(shown)
      BY <1>13, <2>1
    <3> QED BY <1>8, <1>13, <1>14, <2>1, <3>1
  <2>2. CASE k = q + 1
    <3>1. n + k = Len(shown) + 1
      BY <1>13, <2>2
    <3> QED BY <1>9, <1>10, <1>14, <2>2, <3>1
  <2> QED BY <2>1, <2>2
<1> QED BY <1>3, <1>11, <1>12, <1>15, <1>16 DEF LogAt, n, log

-----------------------------------------------------------------------------
\* The steps of main() leave the rows and the log alone.
LEMMA MainLines == RxType /\ LinesInv /\ UNCHANGED <<rx, rxHistory>> => LinesInv'
<1> SUFFICES ASSUME LinesInv, UNCHANGED <<rx, rxHistory>> PROVE LinesInv'
  OBVIOUS
<1>1. PICK q \in Nat : LogAt(q)
  BY DEF LinesInv
<1>2. LogAt(q)'
  BY <1>1 DEF LogAt, rx, rxHistory, Row
<1> QED BY <1>2 DEF LinesInv

LEMMA LookStep == RxInv /\ Look => RxInv'
<1> SUFFICES ASSUME RxInv, Look PROVE RxInv'
  OBVIOUS
<1>1. RxType /\ LinesInv /\ CommandsInv
  BY DEF RxInv
<1>2. UNCHANGED <<strbuf, strbuf_write, stri, text, due, shown, got, overrun, strbuf_read, handled>>
  BY DEF Look, rx, rxHistory
<1> DEFINE row == strbuf[strbuf_read]
           h == Len(handled)
           g == Len(got)
<1>3. row \in RowOf
  BY <1>1 DEF RxType
<1>4. RxType'
  <2>1. RowText(row) \in Line
    BY <1>3, RowTextLine
  <2> QED BY <1>1, <1>2, <2>1 DEF RxType, Look
<1>5. LinesInv'
  BY <1>1, MainLines DEF Look
<1>6. ASSUME ~ overrun, pc' = "drawing" PROVE h < g /\ cmdbuf' = got[h + 1]
  <2>1. pc = "outside" /\ strbuf_read # strbuf_write /\ cmdbuf' = RowText(row)
    BY <1>6 DEF Look
  <2>2. h \in Nat /\ g \in Nat /\ h <= g /\ Waiting(strbuf)
        /\ strbuf_read = h % C /\ strbuf_write = g % C
    BY <1>1, <1>6 DEF CommandsInv, Served, RxType
  <2>3. h < g
    BY <2>1, <2>2
  <2>4. Holds(strbuf[h % C], got[h + 1])
    <3>1. h \in h .. g - 1
      BY <2>2, <2>3
    <3> HIDE DEF h, g
    <3>2. \A a \in h .. g - 1 : Holds(strbuf[a % C], got[a + 1])
      BY <2>2 DEF Waiting, h, g
    <3> QED BY <3>1, <3>2
  <2>5. got[h + 1] \in Seq(Printable)
    <3>1. h + 1 \in 1 .. g
      BY <2>2, <2>3
    <3> QED BY <1>1, <3>1 DEF RxType
  <2>6. RowText(row) = got[h + 1]
    BY <1>3, <2>2, <2>4, <2>5, HeldText
  <2> QED BY <2>1, <2>3, <2>6
<1>7. CommandsInv'
  BY <1>1, <1>2, <1>6 DEF CommandsInv, Served, Waiting
<1> QED BY <1>4, <1>5, <1>7 DEF RxInv

LEMMA DrawStep == RxInv /\ Draw => RxInv'
<1> SUFFICES ASSUME RxInv, Draw PROVE RxInv'
  OBVIOUS
<1>1. RxType /\ LinesInv /\ CommandsInv /\ C \in Nat \ {0} /\ C = STRBUF_COUNT
  BY Sizes DEF RxInv, C
<1> DEFINE row == strbuf[strbuf_read]
           h == Len(handled)
           g == Len(got)
           drawn == Effect(cmdbuf, row)
<1>2. /\ UNCHANGED <<strbuf, strbuf_write, stri, text, due, shown, got, overrun>>
      /\ handled' = Append(handled, drawn) /\ strbuf_read' = (strbuf_read + 1) % C
      /\ pc = "drawing" /\ pc' = "outside" /\ cmdbuf' = <<>>
  BY <1>1 DEF Draw, Free, NextRow, rx, rxHistory
<1>3. drawn \in Result
  BY <1>1 DEF RxType, Result
<1>4. h \in Nat /\ g \in Nat /\ Len(handled') = h + 1 /\ handled'[h + 1] = drawn
      /\ \A i \in 1 .. h : handled'[i] = handled[i]
  <2> HIDE DEF drawn
  <2> QED BY <1>1, <1>2, <1>3 DEF RxType
<1>5. RxType'
  <2>1. strbuf_read' \in 0 .. C - 1
    BY <1>1, <1>2 DEF RxType
  <2> HIDE DEF drawn
  <2> QED BY <1>1, <1>2, <1>3, <2>1 DEF RxType, Line
<1>6. LinesInv'
  BY <1>1, MainLines DEF Draw
<1>7. strbuf_read' = (h + 1) % C
  <2>1. strbuf_read = h % C
    BY <1>1 DEF CommandsInv
  <2> QED BY <1>1, <1>2, <1>4, <2>1, NextMod
<1>8. ASSUME ~ overrun PROVE Served'
  <2>1. /\ h < g /\ cmdbuf = got[h + 1] /\ g - h < C /\ Waiting(strbuf)
        /\ \A i \in 1 .. h : handled[i] = Effect(got[i], Stored(got[i]))
        /\ strbuf_read = h % C
    BY <1>1, <1>2, <1>8 DEF CommandsInv, Served
  <2>2. Holds(row, got[h + 1]) /\ got[h + 1] \in Seq(Printable)
    <3>1. h \in h .. g - 1 /\ h + 1 \in 1 .. g
      BY <1>4, <2>1
    <3>2. got[h + 1] \in Seq(Printable)
      BY <1>1, <3>1 DEF RxType
    <3> HIDE DEF h, g
    <3>3. \A a \in h .. g - 1 : Holds(strbuf[a % C], got[a + 1])
      BY <2>1 DEF Waiting, h, g
    <3> QED BY <2>1, <3>1, <3>2, <3>3
  <2>3. drawn = Effect(got[h + 1], Stored(got[h + 1]))
    BY <2>1, <2>2, EffectHeld
  <2>4. \A a \in h .. g - 1 : Holds(strbuf[a % C], got[a + 1])
    BY <2>1 DEF Waiting
  <2> HIDE DEF h, g, drawn
  <2>5. \A i \in 1 .. h + 1 : handled'[i] = Effect(got[i], Stored(got[i]))
    <3> TAKE i \in 1 .. h + 1
    <3>1. i \in 1 .. h \/ i = h + 1
      BY <1>4
    <3> QED BY <1>4, <2>1, <2>3, <3>1
  <2>6. \A a \in h + 1 .. g - 1 : Holds(strbuf[a % C], got[a + 1])
    <3>1. \A a \in h + 1 .. g - 1 : a \in h .. g - 1
      BY <1>4
    <3> QED BY <2>4, <3>1
  <2>7. h + 1 <= g /\ g - (h + 1) < C
    BY <1>1, <1>4, <2>1
  <2> QED BY <1>2, <1>4, <2>5, <2>6, <2>7 DEF Served, Waiting, g
<1>9. CommandsInv'
  BY <1>1, <1>2, <1>4, <1>7, <1>8 DEF CommandsInv
<1> QED BY <1>5, <1>6, <1>9 DEF RxInv

LEMMA RxStep == RxInv /\ [Next]_vars => RxInv'
<1> SUFFICES ASSUME RxInv, [Next]_vars PROVE RxInv'
  OBVIOUS
<1>1. CASE Newline
  BY <1>1, NewlineType, NewlineLines DEF RxInv
<1>2. CASE Tab
  BY <1>2, TabType, TabLines DEF RxInv
<1>3. ASSUME NEW c \in Printable, Character(c) PROVE RxInv'
  <2>1. PICK q \in Nat : LogAt(q)
    BY DEF RxInv, LinesInv
  <2>2. CASE RowFull
    <3>1. LogAt(q + 1)'
      BY <1>3, <2>1, <2>2, CharacterFull
    <3>2. q + 1 \in Nat
      OBVIOUS
    <3> QED BY <1>3, <3>1, <3>2, CharacterType DEF RxInv, LinesInv
  <2>3. CASE ~ RowFull
    BY <1>3, <2>1, <2>3, CharacterType, CharacterNext DEF RxInv, LinesInv
  <2> QED BY <2>2, <2>3
<1>4. CASE Look
  BY <1>4, LookStep
<1>5. CASE Draw
  BY <1>5, DrawStep
<1>6. CASE UNCHANGED vars
  <2>1. RxType'
    BY <1>6 DEF RxInv, RxType, vars, rx, main, rxHistory
  <2>2. LinesInv'
    BY <1>6, MainLines DEF RxInv, vars
  <2>3. CommandsInv'
    BY <1>6 DEF RxInv, CommandsInv, Served, Waiting, vars, rx, main, rxHistory
  <2> QED BY <2>1, <2>2, <2>3 DEF RxInv
<1> QED BY <1>1, <1>2, <1>3, <1>4, <1>5, <1>6 DEF Next, UART0_ISR

\* The rows hold the commands that wait and the text that is being received,
\* whatever bytes come and whenever main() looks at them.
THEOREM RxInvariant == Spec => []RxInv
<1>1. Init => RxInv
  BY RxInit
<1>2. RxInv /\ [Next]_vars => RxInv'
  BY RxStep
<1> QED BY <1>1, <1>2, PTL DEF Spec

\* As long as a row is free, the commands are carried out in order, each once and
\* as received (UART0_ISR and handle_one_command, labfinal.c:150-208).
THEOREM CommandsInOrderHolds == Spec => []CommandsInOrder
<1>1. RxInv => CommandsInOrder
  BY DEF RxInv, CommandsInv, Served, CommandsInOrder
<1> QED BY <1>1, RxInvariant, PTL

\* The log shows every line as it was sent, cut into rows.
THEOREM LinesAsSentHolds == Spec => []LinesAsSent
<1>1. RxInv => LinesAsSent
  <2> SUFFICES ASSUME RxInv, text = <<>> PROVE LinesAsSent
    BY DEF LinesAsSent
  <2>1. PICK q \in Nat : LogAt(q)
    BY DEF RxInv, LinesInv
  <2>2. W \in Nat \ {0} /\ stri \in Nat /\ Len(due) \in Nat
    BY Sizes DEF RxInv, RxType
  <2>3. q = 0
    <3>1. 0 = q * W + stri /\ (q > 0 => stri > 0)
      BY <2>1 DEF LogAt, Begun
    <3>2. q * W \in Nat
      BY <2>2
    <3> QED BY <2>2, <3>1, <3>2
  <2> QED BY <2>1, <2>2, <2>3 DEF LogAt, Shows, LinesAsSent
<1> QED BY <1>1, RxInvariant, PTL

-----------------------------------------------------------------------------
(* The bytes of samples and rectangles (WireFormat). *)

\* For every 16-bit sample of the server: the two bytes the server writes make
\* UART0_ISR store exactly the sample's upper 12 bits.
THEOREM SampleRoundTrip == \A u16 \in U16 : SampleArrives(u16)
<1> SUFFICES ASSUME NEW u16 \in U16 PROVE SampleArrives(u16)
  OBVIOUS
<1> DEFINE d == dat(u16)
<1>1. d \in 0 .. 4095
  BY DEF U16, dat
<1> HIDE DEF d
<1> DEFINE h == d \div 64
           l == d % 64
<1>2. h \in 0 .. 63 /\ l \in 0 .. 63 /\ d = 64 * h + l
  BY <1>1
<1>3. FirstByte(d) = 128 + h /\ SecondByte(d) = 192 + l
  BY DEF FirstByte, SecondByte
<1> HIDE DEF h, l
<1>4. Kind(128 + h) = "first"
  <2>1. ((128 + h) \div 128) % 2 = 1 /\ ((128 + h) \div 64) % 2 = 0
    BY <1>2
  <2> QED
    BY <2>1 DEF Kind
<1>5. Kind(192 + l) = "second"
  <2>1. ((192 + l) \div 128) % 2 = 1 /\ ((192 + l) \div 64) % 2 = 1
    BY <1>2
  <2> QED
    BY <2>1 DEF Kind
<1>6. SampleOf(128 + h, 192 + l) = d
  BY <1>2 DEF SampleOf
<1> QED
  BY <1>1, <1>3, <1>4, <1>5, <1>6 DEF SampleArrives, d

\* For every pair of 9-bit coordinates: the bytes of protocol.h give both back,
\* although the two share a byte.
THEOREM CornerRoundTrip ==
  \A x \in Coordinate, y \in Coordinate : CornerArrives(x, y)
<1> SUFFICES ASSUME NEW x \in Coordinate, NEW y \in Coordinate
             PROVE  CornerArrives(x, y)
  OBVIOUS
<1>1. ReadX(High6(x), Shared(x, y)) = x
  BY DEF Coordinate, ReadX, High6, Shared
<1>2. ReadY(Shared(x, y), Low6(y)) = y
  BY DEF Coordinate, ReadY, Shared, Low6
<1> QED
  BY <1>1, <1>2 DEF CornerArrives

\* For every rectangle and colour: no byte of the command is taken for the end of
\* a line or of a command, for a sample, or for the end of a string.
THEOREM RectangleBytesAreText ==
  \A x \in Coordinate, y \in Coordinate, r \in Red, g \in Green :
    RectangleIsText(x, y, r, g)
<1> SUFFICES ASSUME NEW x \in Coordinate, NEW y \in Coordinate,
                    NEW r \in Red, NEW g \in Green,
                    NEW c \in {High6(x), Shared(x, y), Low6(y),
                               Color5(r), Color6(g)}
             PROVE  Kind(c) = "text" /\ c # 0
  BY DEF RectangleIsText
<1>1. c \in 64 .. 127
  BY DEF Coordinate, Red, Green, High6, Shared, Low6, Color5, Color6
<1>2. (c \div 128) % 2 = 0
  BY <1>1
<1> QED
  BY <1>1, <1>2 DEF Kind

\* For every colour: the bytes of protocol.h give its parts back.
LEMMA ColorRoundTrip == \A r \in Red, g \in Green : ColorArrives(r, g)
BY SMT DEF Red, Green, ColorArrives, Color5, Color6, ReadColor5, ReadColor6

\* The inputs are numbers, and the one that follows an input is an input.
LEMMA InputIsNumber == ASSUME NEW x \in U16 PROVE x \in Nat
BY SMTT(30) DEF U16

LEMMA InputRange == ASSUME NEW x \in Nat PROVE x % 65536 \in U16
BY SMTT(30) DEF U16

LEMMA NextInput == ASSUME NEW x \in Nat PROVE (x + 1) % 65536 \in U16
<1>1. x + 1 \in Nat
  OBVIOUS
<1> QED BY <1>1, InputRange

\* The input of a run stays a number of 16 bits.
LEMMA InputType == FormatsSpec => [](input \in U16)
<1>1. FormatsInit => input \in U16
  BY DEF FormatsInit
<1>2. input \in U16 /\ [FormatsNext]_input => (input \in U16)'
  <2> SUFFICES ASSUME input \in U16, [FormatsNext]_input PROVE input' \in U16
    OBVIOUS
  <2>1. CASE FormatsNext
    BY <2>1, InputIsNumber, NextInput DEF FormatsNext
  <2>2. CASE input' = input
    BY <2>2
  <2> QED BY <2>1, <2>2
<1> QED BY <1>1, <1>2, PTL DEF FormatsSpec

\* The parts that are cut out of an input are coordinates and colours.
LEMMA PartsOfInput == ASSUME NEW x \in U16
                      PROVE  /\ x % 512 \in Coordinate /\ x \div 128 \in Coordinate
                             /\ x % 32 \in Red /\ x % 64 \in Green
<1>1. x \in Nat /\ x < 65536
  BY SMT DEF U16
<1>2. x % 512 \in 0 .. 511
  BY <1>1, SMT
<1>3. x \div 128 \in 0 .. 511
  BY <1>1, SMT
<1>4. x % 32 \in 0 .. 31
  BY <1>1, SMT
<1>5. x % 64 \in 0 .. 63
  BY <1>1, SMT
<1> QED BY <1>2, <1>3, <1>4, <1>5, Zenon DEF Coordinate, Red, Green

\* Every sample of the server and every rectangle arrives as it was sent, and no
\* byte of a rectangle is taken for anything else (server.cpp:246-251,
\* labfinal.c:182-188, protocol.h:10-31).
THEOREM AllBytesArriveHolds == FormatsSpec => []AllBytesArrive
<1>1. input \in U16 => AllBytesArrive
  <2> SUFFICES ASSUME input \in U16 PROVE AllBytesArrive
    OBVIOUS
  <2>1. /\ input % 512 \in Coordinate /\ input \div 128 \in Coordinate
        /\ input % 32 \in Red /\ input % 64 \in Green
    BY PartsOfInput
  <2>2. SampleArrives(input)
    BY SampleRoundTrip
  <2>3. CornerArrives(input % 512, input \div 128)
    BY <2>1, CornerRoundTrip
  <2>4. ColorArrives(input % 32, input % 64)
    BY <2>1, ColorRoundTrip
  <2>5. RectangleIsText(input % 512, input \div 128, input % 32, input % 64)
    BY <2>1, RectangleBytesAreText
  <2> QED BY <2>2, <2>3, <2>4, <2>5, Zenon DEF AllBytesArrive
<1> QED BY <1>1, InputType, PTL
=============================================================================
