----------------------------- MODULE ScreenQueue ----------------------------
(***************************************************************************)
(* The text for the board's screen: screen_queue, a std::queue<char> that  *)
(* no lock guards.  The mqtt thread prints a line for every sound a page   *)
(* plays, the serial thread one for every key, and the serial thread sends *)
(* one character a pass.                                                   *)
(*                                                                         *)
(* The queue is a std::deque; its two ends are modelled as indices into    *)
(* one array.  A push stores the character and then advances the end.  If  *)
(* two threads push at once, the end may be advanced from what a thread    *)
(* read before or from what it is now.  That a deque is made of blocks,    *)
(* and what a race does where one ends, is left out.                       *)
(***************************************************************************)
EXTENDS Integers, Sequences, SequencesExt, ServerThreads

CONSTANTS
  Lines,     \* the lines that are printed, sequences of characters
  MaxLines   \* BOUND: lines printed

ASSUME ScreenAssumption ==
  /\ Lines \subseteq Seq({"a", "b", "c"}) /\ IsFiniteSet(Lines)
  /\ MaxLines \in Nat

VARIABLES
  cells,          \* the characters of the deque, by index
  start, finish,  \* its ends: finish is the index after the last character
  rest,           \* what each thread still has to push of its line
  at,             \* where it has stored a character, before it advances finish
  sending,        \* the serial thread is between ser.write and pop
  \* history
  printed,        \* the lines, in the order screen_println was called
  sent,           \* the characters written to the serial port
  mixed           \* two calls of screen_println have overlapped

queue == <<cells, start, finish>>
screenVars == <<queue, rest, at, sending, printed, sent, mixed>>

Newline == "NL"
Stale == "stale"  \* a cell nothing was stored in
None == -1

\* BOUND: more cells than all lines together take.
Cells == 0 .. MaxLines * (1 + Max({Len(l) : l \in Lines}))

Text(lines) == FlattenSeq([i \in 1 .. Len(lines) |-> Append(lines[i], Newline)])

ScreenInit ==
  /\ cells = [i \in Cells |-> Stale]
  /\ start = 0 /\ finish = 0
  /\ rest = [t \in Threads |-> <<>>]
  /\ at = [t \in Threads |-> None]
  /\ sending = FALSE
  /\ printed = <<>> /\ sent = <<>> /\ mixed = FALSE

-----------------------------------------------------------------------------
\* screen_println is called: by the mqtt thread at any time, by the serial thread
\* when it is not sending.
Println(t) ==
  /\ rest[t] = <<>>
  /\ t = "serial" => ~ sending
  /\ Len(printed) < MaxLines
  /\ \E l \in Lines :
       /\ rest' = [rest EXCEPT ![t] = Append(l, Newline)]
       /\ printed' = Append(printed, l)
  /\ mixed' = (mixed \/ \E u \in Threads : rest[u] # <<>>)
  /\ UNCHANGED <<queue, at, sending, sent>>

\* screen_queue.push: the character is stored and the end advanced.  (Mutant of
\* the first: it is stored one further.)
StoredAhead(t) == [cells EXCEPT ![finish + 1] = Head(rest[t])]
Stored(t) == [cells EXCEPT ![finish] = Head(rest[t])]
Store(t) ==
  /\ rest[t] # <<>> /\ at[t] = None
  /\ cells' = Stored(t)
  /\ at' = [at EXCEPT ![t] = finish]
  /\ UNCHANGED <<start, finish, rest, sending, printed, sent, mixed>>

Advance(t) ==
  /\ at[t] # None
  /\ finish' \in {at[t] + 1, finish + 1}
  /\ at' = [at EXCEPT ![t] = None]
  /\ rest' = [rest EXCEPT ![t] = Tail(@)]
  /\ UNCHANGED <<cells, start, sending, printed, sent, mixed>>

\* screen_sendone, once a pass: screen_queue.size() and front, ser.write.  A size
\* below zero is a large one.  (Mutant: the last character stays.)
NotLast == finish - start > 1
NotEmpty == finish # start
SendOne ==
  /\ rest["serial"] = <<>> /\ ~ sending
  /\ IF NotEmpty /\ start \in Cells
       THEN sent' = Append(sent, cells[start]) /\ sending' = TRUE
       ELSE UNCHANGED <<sent, sending>>
  /\ UNCHANGED <<queue, rest, at, printed, mixed>>

\* screen_queue.pop.
Pop ==
  /\ sending
  /\ start' = start + 1
  /\ sending' = FALSE
  /\ UNCHANGED <<cells, finish, rest, at, printed, sent, mixed>>

ScreenNext ==
  \/ \E t \in Threads : Println(t) \/ Store(t) \/ Advance(t)
  \/ SendOne \/ Pop

\* Calls return, and the serial thread makes its passes.
ScreenSpec ==
  /\ ScreenInit /\ [][ScreenNext]_screenVars
  /\ \A t \in Threads : WF_screenVars(Store(t) \/ Advance(t))
  /\ WF_screenVars(SendOne) /\ WF_screenVars(Pop)

-----------------------------------------------------------------------------
(* Properties. *)

\* Unless two calls of screen_println overlap, what is sent are the lines, whole
\* and in order, also while characters are taken out and put in at once
\* (server.cpp:114-127).
LinesWhole == ~ mixed => IsPrefix(sent, Text(printed))

\* And every line is sent to its end.
LinesSent == []<>(mixed \/ sent = Text(printed))
=============================================================================
