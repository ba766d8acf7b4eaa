------------------------------ MODULE ReadLines -----------------------------
(***************************************************************************)
(* readline and readlines of the serial library (serial.cc:162-236) on the *)
(* bytes that one-byte reads return until one of them times out.           *)
(*                                                                         *)
(* The end of a line is looked for in the eol_len bytes before             *)
(* read_so_far.  While fewer have been read these bytes begin before the   *)
(* buffer: whatever is there, they may be equal to eol or not.  Junk is    *)
(* what is there.                                                          *)
(***************************************************************************)
EXTENDS Integers, SequencesExt

(* The eol_len bytes before position i of s. *)
Before(junk, s, i, eol) == LET all == junk \o SubSeq(s, 1, i)
                           IN  SubSeq(all, Len(all) - Len(eol) + 1, Len(all))

(* The bytes that a call of size takes out of s before it is timed out. *)
Read(s, size) == SubSeq(s, 1, IF Len(s) < size THEN Len(s) ELSE size)

(* A size of 0 is never reached: readline reads on, past its buffer. *)
readline(junk, s, size, eol) ==
    LET got == IF size = 0 THEN s ELSE Read(s, size)
        ends == {i \in 1..Len(got) : Before(junk, got, i, eol) = eol}
    IN  IF ends = {} THEN got ELSE SubSeq(got, 1, CHOOSE i \in ends : \A j \in ends : i <= j)

(* A round of the loop of readlines, which has read i bytes: the lines and *)
(* start_of_line.  (Mutant: start_of_line is not moved.)                   *)
RoundFromStart(so, junk, s, i, eol) ==
    IF Before(junk, s, i, eol) = eol
    THEN [lines |-> Append(so.lines, SubSeq(s, so.start_of_line + 1, i)),
          start_of_line |-> so.start_of_line]
    ELSE so
Round(so, junk, s, i, eol) ==
    IF Before(junk, s, i, eol) = eol
    THEN [lines |-> Append(so.lines, SubSeq(s, so.start_of_line + 1, i)), start_of_line |-> i]
    ELSE so

(* The loop over the bytes s. *)
Loop(junk, s, eol) ==
    LET after[i \in 0..Len(s)] == IF i = 0 THEN [lines |-> <<>>, start_of_line |-> 0]
                                  ELSE Round(after[i - 1], junk, s, i, eol)
    IN  after[Len(s)]

(* What is left when the time or the room is over is the last line. *)
readlines(junk, s, size, eol) ==
    LET got == Read(s, size)
        end == Loop(junk, got, eol)
    IN  IF end.start_of_line = Len(got) THEN end.lines
        ELSE Append(end.lines, SubSeq(got, end.start_of_line + 1, Len(got)))

-----------------------------------------------------------------------------
Ends(line, eol) == IsSuffix(eol, line)

(* Reading a stream in lines of at most size bytes by one call of          *)
(* readlines gives the lines that readline gives one after the other, none *)
(* of their bytes is lost or doubled, and every line but the last ends at  *)
(* its first eol.  (With an eol of one byte, or of two different ones of    *)
(* which the first is not the byte before the buffer.)                     *)
LinesSplit(junk, s, size, eol) ==
    LET lines == readlines(junk, s, size, eol)
    IN  /\ FlattenSeq(lines) = Read(s, size)
        /\ \A k \in DOMAIN lines :
               /\ k < Len(lines) => Ends(lines[k], eol)
               /\ \A i \in 1..(Len(lines[k]) - 1) : ~ Ends(SubSeq(lines[k], 1, i), eol)
        /\ lines # <<>> => lines[1] = readline(junk, s, size, eol)
=============================================================================
