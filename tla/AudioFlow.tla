----------------------------- MODULE AudioFlow -----------------------------
(***************************************************************************)
(* What the audio path of the band promises, counted in samples.           *)
(*                                                                         *)
(* Every Timer4 overflow of the microcontroller (8000 a second) asks the   *)
(* server for one sample and, while the board is connected, plays one.     *)
(* The answers are kept in the ring audio_buf.  A request is outstanding   *)
(* from the tick that makes it to the arrival of its sample, wherever it   *)
(* is meanwhile: in the transmit FIFO, on the wire, in the kernel's serial *)
(* buffers or in the server.  The contents and the indices of the ring are *)
(* left to AudioPath, which implements this specification.                 *)
(***************************************************************************)
EXTENDS Integers

CONSTANTS
  AudioSize,   \* slots of audio_buf (1024); one always stays unused
  StartLevel,  \* playing starts above this many samples (512)
  MaxDelay     \* ENVIRONMENT: a request is answered, or lost, within this
               \* many ticks; one request a tick, so this many outstanding

ASSUME FlowAssumption ==
  /\ AudioSize \in Nat \ {0}
  /\ StartLevel \in Nat
  /\ MaxDelay \in Nat \ {0}

VARIABLES
  mode,         \* MODE_WAIT_CONNECTION or MODE_CONNECTED
  length,       \* audio_length()
  outstanding,  \* requests neither answered nor lost
  rxisr,        \* "spins" once UART0_ISR is in "if (audio_full()) while(1)"
  faults        \* history: "none" until something is lost or the board is reset

vars == <<mode, length, outstanding, rxisr, faults>>

Modes == {"wait", "connected"}

TypeOK ==
  /\ mode \in Modes
  /\ length \in 0 .. AudioSize - 1
  /\ outstanding \in 0 .. MaxDelay
  /\ rxisr \in {"returns", "spins"}
  /\ faults \in {"none", "some"}

Init ==
  /\ mode = "wait"
  /\ length = 0
  /\ outstanding = 0
  /\ rxisr = "returns"
  /\ faults = "none"

-----------------------------------------------------------------------------
\* Enough is stored to start playing.  (Mutants: one sample more, any sample.)
CanStartLate == length > StartLevel + 1
CanStartEarly == length > 0
CanStart == length > StartLevel

\* One more sample is asked for.  (Mutant: only while playing.)
RequestOnlyConnected ==
  outstanding' = IF mode = "connected" THEN outstanding + 1 ELSE outstanding
RequestSample == outstanding' = outstanding + 1

\* Timer4_ISR: the mode switches or one sample goes to the DAC, and in every
\* mode one more sample is requested.
Tick ==
  /\ rxisr = "returns"
  /\ outstanding < MaxDelay
  /\ RequestSample
  /\ \/ /\ mode = "wait"
        /\ mode' = IF CanStart THEN "connected" ELSE "wait"
        /\ UNCHANGED length
     \/ /\ mode = "connected" /\ length = 0
        /\ mode' = "wait"
        /\ UNCHANGED length
     \/ /\ mode = "connected" /\ length > 0
        /\ length' = length - 1
        /\ UNCHANGED mode
  /\ UNCHANGED <<rxisr, faults>>

\* UART0_ISR on the second byte of a sample: store it, or spin for ever in the
\* interrupt if the ring is full.
Arrive ==
  /\ rxisr = "returns"
  /\ outstanding > 0
  /\ outstanding' = outstanding - 1
  /\ IF length = AudioSize - 1
       THEN rxisr' = "spins" /\ UNCHANGED length
       ELSE length' = length + 1 /\ UNCHANGED rxisr
  /\ UNCHANGED <<mode, faults>>

\* Requests or their answers disappear: sent while no server has the port open,
\* cleared from its serial buffer by a server that starts, or lost as bytes on
\* the wire.  (A fault that takes no request is one, too.)
Lose ==
  /\ \E k \in 0 .. outstanding : outstanding' = outstanding - k
  /\ faults' = "some"
  /\ UNCHANGED <<mode, length, rxisr>>

\* The board is reset or powered up again: its variables have their initial values,
\* the requests in its transmit FIFO are gone, what is already on its way to the
\* server or back stays on its way.
Reset ==
  /\ mode' = "wait"
  /\ length' = 0
  /\ rxisr' = "returns"
  /\ faults' = "some"
  /\ \E k \in 0 .. outstanding : outstanding' = k

Next == Tick \/ Arrive \/ Lose \/ Reset

Spec == Init /\ [][Next]_vars

\* The timer is a free-running counter, and as long as nothing is lost the
\* server's thread answers, so neither may stop once it can go on.
Fairness ==
  /\ WF_vars(faults = "none" /\ Tick)
  /\ WF_vars(faults = "none" /\ Arrive)

FairSpec == Spec /\ Fairness

-----------------------------------------------------------------------------
(* Properties. *)

\* The receive interrupt never reaches the endless loop it enters when a
\* sample arrives and the ring is full ("need to debug", labfinal.c:184),
\* whatever is lost and however often the board restarts.
NeverFull == rxisr = "returns"

\* What makes NeverFull inductive: the samples that are stored or may still
\* arrive never exceed what was let in before playing started.
Committed == length + outstanding

FlowInv ==
  /\ TypeOK
  /\ mode = "wait" => Committed <= StartLevel + MaxDelay
  /\ mode = "connected" => Committed <= StartLevel + 1 + MaxDelay
  /\ rxisr = "returns"

\* While nothing is lost, playing that has started is never interrupted by an
\* empty ring: that is what waiting for more than StartLevel samples is for.
NoUnderrun ==
  [][mode = "connected" /\ faults' = "none" => mode' = "connected"]_vars

\* What makes NoUnderrun inductive: once playing, more is stored or on its way
\* than one round trip can keep away from the ring.
ReserveInv ==
  /\ TypeOK
  /\ mode = "connected" /\ faults = "none" => Committed >= StartLevel + 2

\* Unless something is lost, the board gets connected and stays connected.
EventuallyConnected == <>(faults = "some") \/ <>[](mode = "connected")
=============================================================================
