--------------------------- MODULE TxFifoProofs ----------------------------
(***************************************************************************)
(* For every FIFO, banner and line rate within TxAssumption: the FIFO      *)
(* never fills up, no byte in it is ever forgotten, and the bytes leave in *)
(* the order they came.                                                    *)
(***************************************************************************)
EXTENDS TxFifo, TLAPS

\* The step of ____putchar with the interrupts locked out stores one byte more.
LEMMA EnqueueStores ==
  ASSUME TypeOK, Count < FifoSize - 1, NEW c \in Byte, Enqueue(c)
  PROVE  /\ cpu' = cpu
         /\ fiforead' = fiforead
         /\ fifowrite' \in 0 .. FifoSize - 1
         /\ charfifo' \in [0 .. FifoSize - 1 -> Byte]
         /\ Count' = Count + 1
         /\ TI0' = IF putchar_stopped = 1 THEN 1 ELSE TI0
         /\ putchar_stopped' = 0
<1> USE TxAssumption DEF TxAssumption, TypeOK, Count, Enqueue, fifoenque, Restart, Inc
<1>1. ~ fifofull
  BY DEF fifofull
<1>2. Count' = Count + 1
  BY <1>1
<1> QED
  BY <1>1, <1>2

\* The first half of LoadInv'.
LEMMA TypeStep == LoadInv /\ [Next]_vars => TypeOK'
<1> SUFFICES ASSUME LoadInv, [Next]_vars PROVE TypeOK'
  OBVIOUS
<1> USE TxAssumption DEF TxAssumption
<1>1. Count < FifoSize - 1
  BY DEF LoadInv, Work, TypeOK, Count
<1>2. CASE Timer4_ISR
  <2>1. Count <= IsrThreshold
    BY DEF LoadInv, Work, TypeOK, Count
  <2>2. Enqueue(Request)
    BY <1>2, <2>1 DEF Timer4_ISR, fifocount, Count, LoadInv, TypeOK
  <2>3. Request \in Byte
    BY DEF Request, Byte
  <2>4. /\ cpu' = cpu
        /\ fiforead' = fiforead
        /\ fifowrite' \in 0 .. FifoSize - 1
        /\ charfifo' \in [0 .. FifoSize - 1 -> Byte]
        /\ TI0' \in {0, 1}
        /\ putchar_stopped' = 0
    BY <1>1, <2>2, <2>3, EnqueueStores DEF LoadInv, TypeOK
  <2> QED
    BY <1>2, <2>4 DEF Timer4_ISR, LoadInv, TypeOK
<1>3. CASE UART0_ISR
  BY <1>3 DEF UART0_ISR, fifodeque, LoadInv, TypeOK, Inc, prog
<1>4. CASE Shifted
  BY <1>4 DEF Shifted, LoadInv, TypeOK, prog
<1>5. CASE ReadWrite
  BY <1>5 DEF ReadWrite, LoadInv, TypeOK, fifo
<1>6. CASE Compare
  BY <1>6 DEF Compare, LoadInv, TypeOK, fifo
<1>7. CASE PutChar
  <2>1. todo \in Byte /\ todo > 0 /\ Enqueue(todo)
    BY <1>7 DEF PutChar, LoadInv, TypeOK, Byte
  <2>2. /\ cpu' = cpu
        /\ fiforead' = fiforead
        /\ fifowrite' \in 0 .. FifoSize - 1
        /\ charfifo' \in [0 .. FifoSize - 1 -> Byte]
        /\ TI0' \in {0, 1}
        /\ putchar_stopped' = 0
    BY <1>1, <2>1, EnqueueStores DEF LoadInv, TypeOK
  <2> QED
    BY <1>7, <2>1, <2>2 DEF PutChar, LoadInv, TypeOK
<1>8. CASE NewKey
  BY <1>8 DEF NewKey, LoadInv, TypeOK, fifo
<1>9. CASE UNCHANGED vars
  BY <1>9 DEF vars, fifo, prog, LoadInv, TypeOK
<1> QED
  BY <1>2, <1>3, <1>4, <1>5, <1>6, <1>7, <1>8, <1>9 DEF Next

\* The bound on what waits, step by step: a tick adds a request and forgets what
\* has left, a message adds what it begins with, the rest only moves bytes on.
LEMMA LoadStep == LoadInv /\ Wakeup /\ [Next]_vars => LoadInv'
<1> SUFFICES ASSUME LoadInv, Wakeup, [Next]_vars PROVE LoadInv'
  OBVIOUS
<1> USE TxAssumption DEF TxAssumption
<1>1. TypeOK /\ TypeOK'
  BY TypeStep DEF LoadInv
<1>2. Count < FifoSize - 1 /\ Count \in Nat
  BY DEF LoadInv, Work, TypeOK, Count
<1>3. CASE Timer4_ISR
  <2>1. Count <= IsrThreshold
    BY DEF LoadInv, Work, TypeOK, Count
  <2>2. Enqueue(Request) /\ Request \in Byte
    BY <1>3, <2>1
    DEF Timer4_ISR, fifocount, Count, LoadInv, TypeOK, Request, Byte
  <2>3. cpu' = cpu /\ Count' = Count + 1
    BY <1>1, <1>2, <2>2, EnqueueStores
  <2>4. Work' = Work + 1
    BY <1>1, <1>2, <1>3, <2>3 DEF Timer4_ISR, Work, TypeOK
  <2>5. Work <= Banner + KeyMessage
    BY <1>1, <1>2, <1>3 DEF Timer4_ISR, LoadInv, Work, TypeOK
  <2> QED
    BY <1>1, <1>2, <1>3, <2>3, <2>4, <2>5 DEF Timer4_ISR, LoadInv, TypeOK, Work
<1>4. CASE UART0_ISR
  <2>1. CASE fifoempty
    <3>1. Count' = Count /\ Count = 0
      BY <1>1, <1>4, <2>1 DEF UART0_ISR, fifoempty, Count, TypeOK
    <3>2. line' = line /\ todo' = todo /\ started' = started /\ cpu' = cpu
      BY <1>4, <2>1 DEF UART0_ISR, prog
    <3>3. line = None
      BY <1>1, <1>4 DEF UART0_ISR, Wakeup, TypeOK
    <3>4. Work' = todo /\ idle' = 1
      BY <1>1, <1>4, <2>1, <3>1, <3>2, <3>3 DEF UART0_ISR, Work, TypeOK
    <3> QED
      BY <1>1, <3>2, <3>4 DEF LoadInv, TypeOK
  <2>2. CASE ~ fifoempty
    <3>1. Count' = Count - 1
      <4>1. fiforead' = Inc(fiforead) /\ fifowrite' = fifowrite
        BY <1>4, <2>2 DEF UART0_ISR, fifodeque
      <4> QED
        BY <1>1, <2>2, <4>1 DEF fifoempty, Count, TypeOK, Inc
    <3>2. line = None
      BY <1>1, <1>4 DEF UART0_ISR, Wakeup, TypeOK
    <3>3. todo' = todo /\ started' = started
      BY <1>4 DEF UART0_ISR, prog
    <3>4. cpu' = cpu /\ sent' = sent /\ idle' = idle
      BY <1>4, <2>2 DEF UART0_ISR
    <3>5. Work' <= Work
      BY <1>1, <1>2, <3>1, <3>2, <3>3 DEF Work, TypeOK
    <3> QED
      BY <1>1, <1>2, <3>1, <3>3, <3>4, <3>5 DEF LoadInv, Work, TypeOK
  <2> QED
    BY <2>1, <2>2
<1>5. CASE Shifted
  <2>1. Count' = Count
    BY <1>5 DEF Shifted, Count
  <2> QED
    BY <1>1, <1>2, <1>5, <2>1 DEF Shifted, LoadInv, Work, TypeOK, prog
<1>6. CASE PutChar
  <2>1. todo \in Byte /\ todo > 0 /\ Enqueue(todo)
    BY <1>1, <1>6 DEF PutChar, TypeOK, Byte
  <2>2. cpu' = cpu /\ Count' = Count + 1
    BY <1>1, <1>2, <2>1, EnqueueStores
  <2> QED
    BY <1>1, <1>2, <1>6, <2>1, <2>2 DEF PutChar, LoadInv, Work, TypeOK
<1>7. CASE NewKey
  <2>1. Count' = Count
    BY <1>7 DEF NewKey, Count, fifo
  <2> QED
    BY <1>1, <1>2, <1>7, <2>1 DEF NewKey, LoadInv, Work, TypeOK, fifo
<1>8. CASE ReadWrite \/ Compare \/ UNCHANGED vars
  <2>1. Count' = Count
    BY <1>8 DEF ReadWrite, Compare, Count, vars, fifo
  <2> QED
    BY <1>1, <1>2, <1>8, <2>1
    DEF ReadWrite, Compare, LoadInv, Work, TypeOK, vars, fifo, prog
<1> QED
  BY <1>3, <1>4, <1>5, <1>6, <1>7, <1>8 DEF Next

\* At the start the banner is all there is to print.
LEMMA LoadInit == Init => LoadInv
<1> USE TxAssumption DEF TxAssumption
<1> SUFFICES ASSUME Init PROVE LoadInv
  OBVIOUS
<1>1. TypeOK
  BY DEF Init, TypeOK, Byte, Request
<1>2. Work = Banner
  BY DEF Init, Work, Count
<1> QED
  BY <1>1, <1>2 DEF Init, LoadInv

\* The flags that restart the transmitter, step by step: only UART0_ISR starts a
\* byte or stops, and only with TI0 set.
LEMMA WakeupStep == LoadInv /\ Wakeup /\ [Next]_vars => Wakeup'
<1> USE TxAssumption DEF TxAssumption
<1> SUFFICES ASSUME LoadInv, Wakeup, [Next]_vars PROVE Wakeup'
  OBVIOUS
<1>1. TypeOK /\ Count < FifoSize - 1
  BY DEF LoadInv, Work, TypeOK, Count
<1>2. ASSUME NEW c \in Byte, Enqueue(c), UNCHANGED line PROVE Wakeup'
  <2>1. /\ TI0' = IF putchar_stopped = 1 THEN 1 ELSE TI0
        /\ putchar_stopped' = 0
    BY <1>1, <1>2, EnqueueStores
  <2> QED
    BY <1>1, <1>2, <2>1 DEF Wakeup, TypeOK
<1>3. CASE Timer4_ISR
  <2>1. Count <= IsrThreshold
    BY DEF LoadInv, Work, TypeOK, Count
  <2>2. Enqueue(Request) /\ Request \in Byte
    BY <1>1, <1>3, <2>1 DEF Timer4_ISR, fifocount, Count, TypeOK, Request, Byte
  <2> QED
    BY <1>2, <1>3, <2>2 DEF Timer4_ISR
<1>4. CASE UART0_ISR
  BY <1>1, <1>4 DEF UART0_ISR, Wakeup, TypeOK, fifoempty, Byte, None, prog
<1>5. CASE Shifted
  BY <1>1, <1>5 DEF Shifted, Wakeup, TypeOK, fifoempty
<1>6. CASE PutChar
  BY <1>1, <1>2, <1>6 DEF PutChar, TypeOK, Byte
<1>7. CASE NewKey \/ ReadWrite \/ Compare \/ UNCHANGED vars
  BY <1>7 DEF NewKey, ReadWrite, Compare, vars, fifo, Wakeup, fifoempty
<1> QED
  BY <1>3, <1>4, <1>5, <1>6, <1>7 DEF Next

-----------------------------------------------------------------------------
\* Neither half is inductive without the other: that the FIFO is empty bounds
\* the load only if nothing is on the line when UART0_ISR finds it so.
THEOREM TxInvariant == Spec => [](LoadInv /\ Wakeup)
<1>1. Init => Wakeup
  BY DEF Init, Wakeup, fifoempty
<1> QED
  BY <1>1, LoadInit, LoadStep, WakeupStep, PTL DEF Spec

\* No interrupt and no putchar ever spins with the interrupts locked out, for
\* every FIFO size, banner and line rate within TxAssumption.
THEOREM NoSpinHolds == Spec => []NoSpin
<1>1. LoadInv => NoSpin
  BY DEF LoadInv, NoSpin
<1> QED
  BY <1>1, TxInvariant, PTL

\* TI0, putchar_stopped and the shift register always agree: SBUF0 is written
\* only when the line is idle, and no byte is left behind in the FIFO.
THEOREM WakeupHolds == Spec => []Wakeup
  BY TxInvariant, PTL
-----------------------------------------------------------------------------
(* The bytes leave in order.                                               *)

\* A sequence with one element more is what Append makes, and with the first one
\* less what Tail leaves.
LEMMA IsAppend ==
  ASSUME NEW S, NEW s \in Seq(S), NEW t \in Seq(S), NEW e \in S,
         Len(t) = Len(s) + 1, \A i \in 1 .. Len(s) : t[i] = s[i], t[Len(s) + 1] = e
  PROVE  t = Append(s, e)
OBVIOUS

LEMMA IsTail ==
  ASSUME NEW S, NEW s \in Seq(S), NEW t \in Seq(S),
         Len(s) = Len(t) + 1, \A i \in 1 .. Len(t) : t[i] = s[i + 1]
  PROVE  s # <<>> /\ t = Tail(s) /\ Head(s) = s[1]
OBVIOUS

\* What Contents is, cell by cell.
ContentsInv ==
  /\ Count \in 0 .. FifoSize - 1
  /\ Contents \in Seq(Byte) /\ Len(Contents) = Count
  /\ \A i \in 1 .. Count : Contents[i] = charfifo[Cell(i)] /\ Cell(i) \in 0 .. FifoSize - 1

\* It is that whatever the indices are.
LEMMA ContentsIs == TypeOK => ContentsInv
<1> SUFFICES ASSUME TypeOK PROVE ContentsInv
  OBVIOUS
<1>1. Count \in 0 .. FifoSize - 1
  BY TxAssumption DEF TypeOK, Count, TxAssumption
<1>2. \A i \in 1 .. Count : Cell(i) \in 0 .. FifoSize - 1
  BY TxAssumption DEF TypeOK, Cell, Count, TxAssumption
<1>3. \A i \in 1 .. Count : charfifo[Cell(i)] \in Byte
  BY <1>2 DEF TypeOK
<1>4. /\ Contents \in Seq(Byte) /\ Len(Contents) = Count
      /\ \A i \in 1 .. Count : Contents[i] = charfifo[Cell(i)]
  <2> DEFINE n == Count
             f == [i \in 1 .. n |-> charfifo[Cell(i)]]
  <2>1. n \in Nat /\ f \in [1 .. n -> Byte] /\ \A i \in 1 .. n : f[i] = charfifo[Cell(i)]
    BY <1>1, <1>3
  <2>2. f = Contents
    BY DEF Contents
  <2> HIDE DEF n, f
  <2>3. f \in Seq(Byte) /\ Len(f) = n
    BY <2>1
  <2> QED
    BY <2>1, <2>2, <2>3 DEF n
<1> QED
  BY <1>1, <1>2, <1>4 DEF ContentsInv

\* fifoenque appends.
LEMMA EnqueueAppends ==
  ASSUME TypeOK, TypeOK', Count < FifoSize - 1, NEW c \in Byte, Enqueue(c)
  PROVE  Contents' = Append(Contents, c) /\ asked' = c
<1>1. ContentsInv /\ ContentsInv'
  BY ContentsIs, PTL
<1>2. /\ charfifo' = [charfifo EXCEPT ![fifowrite] = c]
      /\ fiforead' = fiforead /\ asked' = c
  <2>1. ~ fifofull
    BY TxAssumption DEF fifofull, TypeOK, Count, TxAssumption
  <2> QED
    BY <2>1 DEF Enqueue, fifoenque
<1>3. Count' = Count + 1
  BY EnqueueStores
<1>4. \A i : Cell(i)' = Cell(i)
  BY <1>2 DEF Cell
<1>5. Cell(Count + 1) = fifowrite /\ \A i \in 1 .. Count : Cell(i) # fifowrite
  BY TxAssumption DEF Cell, Count, TypeOK, TxAssumption
<1>6. \A i \in 1 .. Count + 1 : Contents'[i] = charfifo'[Cell(i)]
  BY <1>1, <1>3, <1>4 DEF ContentsInv
<1>7. \A i \in 1 .. Count : Contents'[i] = Contents[i]
  <2> SUFFICES ASSUME NEW i \in 1 .. Count PROVE Contents'[i] = Contents[i]
    OBVIOUS
  <2>1. i \in 1 .. Count + 1
    BY <1>1 DEF ContentsInv
  <2>2. charfifo'[Cell(i)] = charfifo[Cell(i)]
    BY <1>1, <1>2, <1>5 DEF ContentsInv, TypeOK
  <2> QED
    BY <1>1, <1>6, <2>1, <2>2 DEF ContentsInv
<1>8. Contents'[Count + 1] = c
  <2>1. Contents'[Count + 1] = charfifo'[fifowrite]
    <3>1. Count + 1 \in 1 .. Count + 1
      BY <1>1 DEF ContentsInv
    <3> QED
      BY ONLY <1>5, <1>6, <3>1
  <2> QED
    BY <1>2, <2>1 DEF TypeOK
<1>9. Contents' = Append(Contents, c)
  <2> DEFINE s == Contents
             t == Contents'
  <2>1. /\ s \in Seq(Byte) /\ t \in Seq(Byte) /\ Len(t) = Len(s) + 1
        /\ \A i \in 1 .. Len(s) : t[i] = s[i]
        /\ t[Len(s) + 1] = c
    BY <1>1, <1>3, <1>7, <1>8 DEF ContentsInv
  <2> HIDE DEF s, t
  <2>2. t = Append(s, c)
    BY <2>1, IsAppend
  <2> QED
    BY <2>2 DEF s, t
<1> QED
  BY <1>2, <1>9

\* fifodeque takes the first byte away.
LEMMA DequeueTakes ==
  ASSUME TypeOK, TypeOK', ~ fifoempty, fiforead' = fifodeque,
         UNCHANGED <<charfifo, fifowrite>>
  PROVE  /\ Contents # <<>> /\ Contents' = Tail(Contents)
         /\ charfifo[fiforead] = Head(Contents)
<1>1. ContentsInv /\ ContentsInv'
  BY ContentsIs, PTL
<1>2. /\ Count = Count' + 1
      /\ Cell(1) = fiforead
      /\ \A i \in 1 .. Count' : Cell(i)' = Cell(i + 1)
  BY TxAssumption DEF Cell, Count, TypeOK, TxAssumption, fifoempty, fifodeque, Inc
<1>3. \A i \in 1 .. Count' : Contents'[i] = Contents[i + 1]
  <2> SUFFICES ASSUME NEW i \in 1 .. Count' PROVE Contents'[i] = Contents[i + 1]
    OBVIOUS
  <2>1. i + 1 \in 1 .. Count /\ Cell(i)' = Cell(i + 1)
    BY <1>1, <1>2 DEF ContentsInv
  <2>2. Contents[i + 1] = charfifo[Cell(i + 1)]
    BY ONLY <1>1, <2>1 DEF ContentsInv
  <2>3. Contents'[i] = charfifo'[Cell(i)']
    BY ONLY <1>1, i \in 1 .. Count' DEF ContentsInv
  <2> QED
    BY ONLY <2>1, <2>2, <2>3, charfifo' = charfifo
<1>4. Contents[1] = charfifo[fiforead]
  <2>1. 1 \in 1 .. Count
    <3>1. Count \in Int /\ Count # 0 /\ Count >= 0
      BY <1>1, TxAssumption DEF ContentsInv, TxAssumption, fifoempty, Count, TypeOK
    <3> QED
      BY <3>1
  <2>2. Contents[1] = charfifo[Cell(1)]
    BY ONLY <1>1, <2>1 DEF ContentsInv
  <2> QED
    BY ONLY <1>2, <2>2
<1> DEFINE s == Contents
           t == Contents'
<1>5. /\ s \in Seq(Byte) /\ t \in Seq(Byte) /\ Len(s) = Len(t) + 1
      /\ \A i \in 1 .. Len(t) : t[i] = s[i + 1]
  BY <1>1, <1>2, <1>3 DEF ContentsInv
<1> HIDE DEF s, t
<1>6. s # <<>> /\ t = Tail(s) /\ Head(s) = s[1]
  BY <1>5, IsTail
<1> QED
  BY <1>4, <1>6 DEF s, t

\* Every step of the transmit side is one of the queue, or none.
LEMMA QueueStep ==
  ASSUME LoadInv, LoadInv', Wakeup, [Next]_vars
  PROVE  [Q!QNext]_(Q!qvars)
<1>1. TypeOK /\ TypeOK'
  BY DEF LoadInv
<1>2. Count < FifoSize - 1 /\ Count <= IsrThreshold
  BY TxAssumption DEF LoadInv, Work, TypeOK, Count, TxAssumption
<1>3. ASSUME NEW c \in Byte, Enqueue(c), UNCHANGED line PROVE Q!Put
  BY <1>1, <1>2, <1>3, EnqueueAppends DEF Q!Put
<1>4. CASE Timer4_ISR
  <2>1. Enqueue(Request) /\ Request \in Byte
    BY TxAssumption, <1>1, <1>2, <1>4
    DEF Timer4_ISR, fifocount, Count, TypeOK, Request, Byte, TxAssumption
  <2> QED
    BY <1>3, <1>4, <2>1 DEF Timer4_ISR, Q!QNext
<1>5. CASE PutChar
  <2>1. Enqueue(todo) /\ todo \in Byte /\ line' = line
    BY <1>1, <1>5 DEF PutChar, TypeOK, Byte
  <2> QED
    BY <1>3, <2>1 DEF Q!QNext
<1>6. CASE UART0_ISR
  <2>1. CASE fifoempty
    <3>1. UNCHANGED <<charfifo, fiforead, fifowrite, line, asked>>
      BY <1>6, <2>1 DEF UART0_ISR
    <3>2. Contents' = Contents
      BY <3>1 DEF Contents, Count, Cell
    <3> QED
      BY <3>1, <3>2 DEF Q!qvars
  <2>2. CASE ~ fifoempty
    <3>1. /\ line' = charfifo[fiforead] /\ fiforead' = fifodeque
          /\ UNCHANGED <<charfifo, fifowrite, asked>>
      BY <1>6, <2>2 DEF UART0_ISR
    <3>2. line = None
      BY <1>1, <1>6 DEF UART0_ISR, Wakeup, TypeOK
    <3>3. Q!Take
      BY <1>1, <2>2, <3>1, <3>2, DequeueTakes DEF Q!Take
    <3> QED
      BY <3>3 DEF Q!QNext
  <2> QED
    BY <2>1, <2>2
<1>7. CASE Shifted
  <2>1. Contents' = Contents
    BY <1>7 DEF Shifted, Contents, Count, Cell
  <2> QED
    BY <1>7, <2>1 DEF Shifted, Q!QNext, Q!Done
<1>8. CASE NewKey \/ ReadWrite \/ Compare \/ UNCHANGED vars
  <2>1. UNCHANGED <<charfifo, fiforead, fifowrite, line, asked>>
    BY <1>8 DEF NewKey, ReadWrite, Compare, vars, fifo
  <2>2. Contents' = Contents
    BY <2>1 DEF Contents, Count, Cell
  <2> QED
    BY <2>1, <2>2 DEF Q!qvars
<1> QED
  BY <1>4, <1>5, <1>6, <1>7, <1>8 DEF Next

\* What main() and the timer put into the FIFO leaves in order and once: the
\* transmit side implements the safety part of ByteQueue.
THEOREM InOrderHolds == Spec => InOrder
<1>1. Init => Q!QInit
  <2> SUFFICES ASSUME Init PROVE Q!QInit
    OBVIOUS
  <2>1. Count = 0 /\ asked \in Byte /\ line = None
    BY TxAssumption DEF Init, Count, Byte, Request, TxAssumption
  <2>2. Contents = <<>>
    BY <2>1 DEF Contents
  <2> QED
    BY <2>1, <2>2 DEF Q!QInit
<1> QED
  BY <1>1, TxInvariant, QueueStep, PTL DEF Spec, InOrder, Q!QSafe
=============================================================================
