------------------------------- MODULE TxFifo -------------------------------
(***************************************************************************)
(* The transmit side of the microcontroller: charfifo, ____putchar as      *)
(* called by main() and by Timer4_ISR, the TI0 half of UART0_ISR and the   *)
(* UART that raises TI0 when a byte has left.                              *)
(*                                                                         *)
(* The two interrupts have the same priority, so neither interrupts the    *)
(* other; both may interrupt main() anywhere outside EA = 0 .. EA = 1.     *)
(* The receive half of UART0_ISR leaves everything here alone.             *)
(***************************************************************************)
EXTENDS Integers, Sequences

CONSTANTS
  FifoSize,       \* 256: fiforead and fifowrite are unsigned chars
  MainThreshold,  \* 128, of putchar
  IsrThreshold,   \* 250, of the request in Timer4_ISR
  Banner,         \* 51: characters of the two lines printed at start
  KeyMessage,     \* 3: characters of "p%c\n"
  Rate            \* ENVIRONMENT: bytes the UART can send between two ticks
                  \* (5.76 at 460800 baud and 8000 ticks a second)

\* The FIFO must take the banner, the key messages of two loops and a request
\* before the interrupt's threshold, and the line be faster than what is printed.
ASSUME TxAssumption ==
  /\ FifoSize \in Nat /\ MainThreshold \in Nat /\ IsrThreshold \in Nat
  /\ Banner \in Nat /\ KeyMessage \in Nat /\ Rate \in Nat
  /\ KeyMessage <= Banner
  /\ KeyMessage < Rate
  /\ Banner + 2 * KeyMessage + 1 <= IsrThreshold
  /\ Banner + 2 * KeyMessage + 2 < FifoSize

VARIABLES
  charfifo, fiforead, fifowrite,
  putchar_stopped,  \* 1: the next byte has to raise TI0 by hand
  TI0,              \* transmit interrupt flag
  line,             \* the byte in the UART's shift register, or None
  todo,             \* characters main() still has to print
  pc,               \* where main() is in ____putchar
  reg,              \* fifowrite as main() has read it for fifocount()
  cpu,              \* "spins": in a loop with the interrupts locked out
  sent,             \* bytes that left since the last tick, counted up to Rate
  started,          \* characters of the message main() began since the tick
  idle,             \* 1: the FIFO has been empty since the last tick
  asked             \* history: the byte ____putchar was called with last

fifo == <<charfifo, fiforead, fifowrite, putchar_stopped, TI0, asked>>
prog == <<todo, pc, reg, started>>
vars == <<fifo, line, prog, cpu, sent, idle>>

None == -1
Request == 0                  \* 0x8F; the characters of main() are numbered
Byte == 0 .. Banner

\* Indices are unsigned chars and wrap when incremented.
Inc(i) == IF i = FifoSize - 1 THEN 0 ELSE i + 1

\* The comparisons are made on promoted ints: fifocount() is negative once
\* fifowrite has wrapped, and fifofull() misses fifowrite = FifoSize - 1.
fifocount(w, r) == w - r
fifofull == fifowrite + 1 = fiforead
fifoempty == fifowrite = fiforead

\* How many bytes there really are, and what they are.
Count == IF fifowrite >= fiforead THEN fifowrite - fiforead
                                  ELSE fifowrite - fiforead + FifoSize

Cell(i) == IF fiforead + i - 1 < FifoSize THEN fiforead + i - 1
                                          ELSE fiforead + i - 1 - FifoSize
Contents == [i \in 1 .. Count |-> charfifo[Cell(i)]]

Init ==
  /\ charfifo = [i \in 0 .. FifoSize - 1 |-> Request]
  /\ fiforead = 0 /\ fifowrite = 0
  /\ putchar_stopped = 1 /\ TI0 = 1
  /\ line = None
  /\ todo = Banner /\ pc = "read" /\ reg = 0 /\ started = 0
  /\ cpu = "runs"
  /\ sent = 0 /\ idle = 0
  /\ asked = Request

-----------------------------------------------------------------------------
\* fifoenque.  (Mutant: the index is incremented before the byte is stored.)
EnqueueAhead(c) ==
  /\ charfifo' = [charfifo EXCEPT ![Inc(fifowrite)] = c]
  /\ fifowrite' = Inc(fifowrite)
fifoenque(c) ==
  /\ charfifo' = [charfifo EXCEPT ![fifowrite] = c]
  /\ fifowrite' = Inc(fifowrite)

\* The next index of fifodeque.  (Mutant: it stays.)
DequeueAgain == fiforead
fifodeque == Inc(fiforead)

\* A stopped transmitter is started by hand.  (Mutant: it is not.)
NoRestart == UNCHANGED TI0 /\ putchar_stopped' = 0
Restart ==
  /\ TI0' = IF putchar_stopped = 1 THEN 1 ELSE TI0
  /\ putchar_stopped' = 0

\* ____putchar from EA = 0 to EA = 1, after the wait.
Enqueue(c) ==
  IF fifofull
    THEN /\ cpu' = "spins"
         /\ UNCHANGED fifo
    ELSE /\ fifoenque(c)
         /\ Restart
         /\ asked' = c
         /\ UNCHANGED <<fiforead, cpu>>

\* Timer4_ISR asks for a sample.  In here the wait for room can never end: the
\* interrupt that makes room is held off.  There is a tick only after Rate bytes
\* could be sent, and none between the two reads of fifocount() in main(): they
\* are a few instructions apart, and the comparison is of what the timer leaves
\* alone, so that a tick there comes to the same as one after it.
Timer4_ISR ==
  /\ cpu = "runs"
  /\ sent >= Rate \/ idle = 1
  /\ pc # "compare"
  /\ IF fifocount(fifowrite, fiforead) > IsrThreshold
       THEN cpu' = "spins" /\ UNCHANGED fifo
       ELSE Enqueue(Request)
  /\ sent' = 0 /\ idle' = 0 /\ started' = 0
  /\ UNCHANGED <<line, todo, pc, reg>>

\* UART0_ISR when TI0 is set: the next byte goes to SBUF0, or the FIFO is empty.
UART0_ISR ==
  /\ cpu = "runs"
  /\ TI0 = 1
  /\ TI0' = 0
  /\ IF fifoempty
       THEN /\ putchar_stopped' = 1
            /\ idle' = 1
            /\ UNCHANGED <<fiforead, line>>
       ELSE /\ line' = charfifo[fiforead]
            /\ fiforead' = fifodeque
            /\ UNCHANGED <<putchar_stopped, idle>>
  /\ UNCHANGED <<charfifo, fifowrite, asked, prog, cpu, sent>>

\* The UART has shifted a byte out.
Shifted ==
  /\ line # None
  /\ line' = None
  /\ TI0' = 1
  /\ sent' = IF sent < Rate THEN sent + 1 ELSE sent
  /\ UNCHANGED <<charfifo, fiforead, fifowrite, putchar_stopped, asked, prog, cpu,
                 idle>>

\* main() in ____putchar: fifocount() reads fifowrite first and fiforead later,
\* and an interrupt may come between the two and before fifolock().
ReadWrite ==
  /\ cpu = "runs" /\ todo > 0 /\ pc = "read"
  /\ reg' = fifowrite
  /\ pc' = "compare"
  /\ UNCHANGED <<fifo, line, todo, started, cpu, sent, idle>>

Compare ==
  /\ cpu = "runs" /\ pc = "compare"
  /\ pc' = IF fifocount(reg, fiforead) > MainThreshold THEN "read" ELSE "lock"
  /\ UNCHANGED <<fifo, line, todo, reg, started, cpu, sent, idle>>

PutChar ==
  /\ cpu = "runs" /\ pc = "lock"
  /\ Enqueue(todo)
  /\ todo' = todo - 1
  /\ pc' = "read"
  /\ UNCHANGED <<line, reg, started, sent, idle>>

\* One turn of main()'s loop with a new key.  A turn takes longer than a tick.
NewKey ==
  /\ cpu = "runs" /\ todo = 0 /\ started = 0
  /\ todo' = KeyMessage
  /\ started' = KeyMessage
  /\ UNCHANGED <<fifo, line, pc, reg, cpu, sent, idle>>

Next ==
  \/ Timer4_ISR \/ UART0_ISR \/ Shifted
  \/ ReadWrite \/ Compare \/ PutChar \/ NewKey

Spec == Init /\ [][Next]_vars

\* The UART shifts whatever it holds, interrupts are served, and main() runs
\* whenever no interrupt does.
FairSpec ==
  /\ Spec
  /\ WF_vars(Shifted) /\ WF_vars(UART0_ISR)
  /\ WF_vars(ReadWrite) /\ WF_vars(Compare) /\ WF_vars(PutChar)

-----------------------------------------------------------------------------
(* Properties. *)

\* ____putchar never ends in "while(1)" on a full FIFO, and Timer4_ISR never
\* waits for room that only another interrupt could make (labfinal.c:135, 137).
NoSpin == cpu = "runs"

\* A byte is written to SBUF0 only when the line is idle, and no byte waits in
\* the FIFO with nothing left to raise TI0: putchar_stopped, TI0 and the shift
\* register always agree (labfinal.c:139-142, 209-217).
Wakeup ==
  /\ (line # None) => TI0 = 0 /\ putchar_stopped = 0
  /\ (line = None /\ TI0 = 0) => putchar_stopped = 1
  /\ putchar_stopped = 1 => fifoempty

\* Everything main() and the timer put into the FIFO leaves in order and once,
\* although fifocount() and fifofull() are wrong after a wrap.
Q == INSTANCE ByteQueue WITH queue <- Contents
InOrder == Q!QSafe

\* main() gets through every message although it may have to wait for room, and
\* no byte waits for ever in the FIFO or on the line, although the transmitter
\* stops whenever UART0_ISR finds the FIFO empty.
Printed == []<>(todo = 0) /\ Q!QLive

TypeOK ==
  /\ charfifo \in [0 .. FifoSize - 1 -> Byte]
  /\ fiforead \in 0 .. FifoSize - 1
  /\ fifowrite \in 0 .. FifoSize - 1
  /\ putchar_stopped \in {0, 1}
  /\ TI0 \in {0, 1}
  /\ line \in Byte \cup {None}
  /\ todo \in 0 .. Banner
  /\ pc \in {"read", "compare", "lock"}
  /\ (pc # "read") => todo > 0
  /\ reg \in 0 .. FifoSize - 1
  /\ started \in 0 .. KeyMessage
  /\ cpu \in {"runs", "spins"}
  /\ sent \in 0 .. Rate
  /\ idle \in {0, 1}

\* What keeps NoSpin: the bytes that wait, are on the line or are still to be
\* printed.  Once empty in a tick, the FIFO only has main()'s message to take;
\* otherwise what has left since the tick makes up for what was added.
Work == Count + todo + (IF line = None THEN 0 ELSE 1)

LoadInv ==
  /\ TypeOK
  /\ cpu = "runs"
  /\ idle = 1 => Work <= Banner + started
  /\ idle = 0 => Work + sent <= Banner + KeyMessage + 1 + started
=============================================================================
