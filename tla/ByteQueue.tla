----------------------------- MODULE ByteQueue -----------------------------
(***************************************************************************)
(* What a buffered serial transmitter promises: bytes that were accepted   *)
(* leave one at a time, in order, each exactly once (QSafe), and none      *)
(* stays behind for ever (QLive).                                          *)
(***************************************************************************)
EXTENDS Sequences

CONSTANTS
  Byte,  \* the bytes that can be sent
  None   \* the line is idle

VARIABLES
  queue,  \* accepted and not yet on the line
  line,   \* the byte that is being shifted out, or None
  asked   \* the byte that was accepted last

qvars == <<queue, line, asked>>

QInit ==
  /\ queue = <<>>
  /\ line = None
  /\ asked \in Byte

Put ==
  /\ asked' \in Byte
  /\ queue' = Append(queue, asked')
  /\ UNCHANGED line

Take ==
  /\ line = None
  /\ queue # <<>>
  /\ line' = Head(queue)
  /\ queue' = Tail(queue)
  /\ UNCHANGED asked

Done ==
  /\ line # None
  /\ line' = None
  /\ UNCHANGED <<queue, asked>>

QNext == Put \/ Take \/ Done

QSafe == QInit /\ [][QNext]_qvars
QLive == WF_qvars(Take) /\ WF_qvars(Done)
=============================================================================
