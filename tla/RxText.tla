------------------------------- MODULE RxText -------------------------------
(***************************************************************************)
(* What the board does with bytes below 0x80: UART0_ISR collects them in   *)
(* the rows of strbuf; a newline shows the row as a log line, a tab leaves *)
(* it to main() as a command, and a row that is full is shown and used     *)
(* again.  main() looks at the rows with handle_one_command.               *)
(*                                                                         *)
(* Bytes come in any order: what a server sends, the rest of what it sent  *)
(* before the board was reset, and what losses make of it.  log_push and   *)
(* draw_rectangle belong to a library outside the repository; here they    *)
(* record what they are called with.                                       *)
(***************************************************************************)
EXTENDS Integers, Sequences, SequencesExt

CONSTANTS
  STRBUF_COUNT,  \* rows (16)
  LOGLINEWIDTH,  \* characters of a log line; a row has one more
  RectLength,    \* length of a command "d" (9)
  MaxChars       \* BOUND: bytes received

ASSUME TextAssumption ==
  /\ STRBUF_COUNT \in 1 .. 256
  /\ LOGLINEWIDTH \in 1 .. 254
  /\ RectLength \in 2 .. LOGLINEWIDTH
  /\ MaxChars \in Nat

VARIABLES
  strbuf, strbuf_read, strbuf_write, stri,
  pc,       \* main() is "outside" handle_one_command or "drawing"
  cmdbuf,   \* the command main() has taken the length and first character of
  \* history
  text,     \* characters since the last newline or tab
  due,      \* log lines that should have been shown
  shown,    \* log lines given to log_push
  got,      \* commands received
  handled,  \* what handle_one_command drew for each command it removed
  overrun,  \* STRBUF_COUNT commands have waited at once
  received  \* number of characters

rx == <<strbuf, strbuf_write, stri>>
main == <<strbuf_read, pc, cmdbuf, handled>>
rxHistory == <<text, due, shown, got, overrun, received>>
vars == <<rx, main, rxHistory>>

\* Characters: NUL ends a string, NL is the newline, TAB the tab, "d" and "c" are
\* the first characters of commands and "a" any other; RUN stands for what
\* follows a row without a NUL.
NUL == "NUL"
NL == "NL"
TAB == "TAB"
RUN == "RUN"
Printable == {"a", "c", "d"}

\* The string in a row.
RowText(row) ==
  IF \E i \in 0 .. LOGLINEWIDTH : row[i] = NUL
    THEN LET end == CHOOSE i \in 0 .. LOGLINEWIDTH :
                      row[i] = NUL /\ \A j \in 0 .. i - 1 : row[j] # NUL
         IN  [i \in 1 .. end |-> row[i - 1]]
    ELSE Append([i \in 1 .. LOGLINEWIDTH + 1 |-> row[i - 1]], RUN)

\* xdata is not cleared at start (STARTUP.A51): strbuf holds anything.
Init ==
  /\ \E junk \in {NUL, "a"} :
       strbuf = [k \in 0 .. STRBUF_COUNT - 1 |-> [i \in 0 .. LOGLINEWIDTH |-> junk]]
  /\ strbuf_read = 0 /\ strbuf_write = 0 /\ stri = 0
  /\ pc = "outside" /\ cmdbuf = <<>>
  /\ text = <<>> /\ due = <<>> /\ shown = <<>>
  /\ got = <<>> /\ handled = <<>>
  /\ overrun = FALSE /\ received = 0

-----------------------------------------------------------------------------
\* A text as UART0_ISR should cut it: rows of LOGLINEWIDTH and the rest.
Rows(s) == IF s = <<>> THEN 1 ELSE (Len(s) + LOGLINEWIDTH - 1) \div LOGLINEWIDTH
Cut(s) ==
  [k \in 1 .. Rows(s) |->
     SubSeq(s, (k - 1) * LOGLINEWIDTH + 1,
            IF k < Rows(s) THEN k * LOGLINEWIDTH ELSE Len(s))]

NextRow(k) == (k + 1) % STRBUF_COUNT
Row == strbuf[strbuf_write]
Ended == [Row EXCEPT ![stri] = NUL]

Receive ==
  /\ received < MaxChars
  /\ received' = received + 1
  /\ UNCHANGED main

\* A newline: the row is ended and shown.  (Mutant: it is not ended.)
ShowRow ==
  /\ shown' = Append(shown, RowText(Row))
  /\ UNCHANGED strbuf
EndAndShowRow ==
  /\ strbuf' = [strbuf EXCEPT ![strbuf_write] = Ended]
  /\ shown' = Append(shown, RowText(Ended))
Newline ==
  /\ Receive
  /\ EndAndShowRow
  /\ stri' = 0
  /\ due' = due \o Cut(text) /\ text' = <<>>
  /\ UNCHANGED <<strbuf_write, got, overrun>>

\* A tab: the row is ended and left to main(), whether a row is free or not.
Tab ==
  /\ Receive
  /\ strbuf' = [strbuf EXCEPT ![strbuf_write] = Ended]
  /\ strbuf_write' = NextRow(strbuf_write)
  /\ stri' = 0
  /\ due' = due \o Front(Cut(text)) /\ got' = Append(got, Last(Cut(text)))
  /\ text' = <<>>
  /\ overrun' = (overrun \/ Len(got) + 1 - Len(handled) >= STRBUF_COUNT)
  /\ UNCHANGED shown

\* Any other character: a full row is shown, without an end of its own, and
\* begun again.  (Of the bytes below 0x80 a zero, which would end a row before its
\* newline, is left out: the server's lines and commands have none.)
RowFull == stri >= LOGLINEWIDTH
Character(c) ==
  /\ Receive
  /\ LET at == IF RowFull THEN 0 ELSE stri IN
       /\ strbuf' = [strbuf EXCEPT ![strbuf_write][at] = c]
       /\ stri' = at + 1
  /\ shown' = IF RowFull THEN Append(shown, RowText(Row)) ELSE shown
  /\ text' = Append(text, c)
  /\ UNCHANGED <<strbuf_write, due, got, overrun>>

UART0_ISR == Newline \/ Tab \/ \E c \in Printable : Character(c)

-----------------------------------------------------------------------------
\* What a command with this length and first character draws, and the bytes of
\* the row it takes for a DrawRect_t: the last of them is the NUL.
Effect(cmd, row) ==
  IF cmd[1] = "d" /\ Len(cmd) = RectLength
    THEN <<"rectangle", [i \in 1 .. RectLength |-> row[i]]>>
  ELSE IF cmd = <<"c">> THEN <<"clear">> ELSE <<>>

\* handle_one_command, up to the calls of draw_rectangle.  It returns at once if
\* no command waits or the next one is empty, and leaves that where it is.
Look ==
  /\ pc = "outside"
  /\ LET cmd == RowText(strbuf[strbuf_read]) IN
     IF strbuf_read = strbuf_write \/ cmd = <<>>
       THEN UNCHANGED <<pc, cmdbuf>>
       ELSE pc' = "drawing" /\ cmdbuf' = cmd
  /\ UNCHANGED <<strbuf_read, handled, rx, rxHistory>>

\* The rectangle is drawn and the command removed.  (Mutant: two rows
\* are freed.)
FreeTwo == strbuf_read' = NextRow(NextRow(strbuf_read))
Free == strbuf_read' = NextRow(strbuf_read)
Draw ==
  /\ pc = "drawing"
  /\ handled' = Append(handled, Effect(cmdbuf, strbuf[strbuf_read]))
  /\ Free
  /\ pc' = "outside" /\ cmdbuf' = <<>>
  /\ UNCHANGED <<rx, rxHistory>>

Next == UART0_ISR \/ Look \/ Draw

\* main() loops for ever.
Spec == Init /\ [][Next]_vars /\ WF_vars(Look) /\ WF_vars(Draw)

-----------------------------------------------------------------------------
(* Properties. *)

Stored(s) == [i \in 0 .. Len(s) |-> IF i < Len(s) THEN s[i + 1] ELSE NUL]

\* As long as a row is free, the commands are carried out in order, each once
\* and as received, although the interrupt goes on writing into strbuf while
\* main() reads it, and although log lines and commands share the rows.
CommandsInOrder ==
  ~ overrun =>
    /\ Len(handled) <= Len(got)
    /\ \A i \in 1 .. Len(handled) : handled[i] = Effect(got[i], Stored(got[i]))

\* Every command is carried out in the end unless the rows were overrun or an
\* empty command came before it, which is never removed (labfinal.c:159).
Spoiled == overrun \/ \E i \in 1 .. Len(got) : got[i] = <<>>
CommandsHandled ==
  \A n \in 1 .. MaxChars :
    Len(got) >= n ~> Len(handled) >= n \/ Spoiled

\* The log shows every line as it was sent, cut into rows; only what follows the
\* characters of a full row is not known ("auto new line", labfinal.c:200-201).
LinesAsSent ==
  text = <<>> =>
    /\ Len(shown) = Len(due)
    /\ \A i \in 1 .. Len(due) :
         \/ shown[i] = due[i]
         \/ Len(due[i]) = LOGLINEWIDTH /\ IsPrefix(due[i], shown[i])
=============================================================================
