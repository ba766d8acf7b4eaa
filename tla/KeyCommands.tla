----------------------------- MODULE KeyCommands ----------------------------
(***************************************************************************)
(* The keys of the board, from main()'s printf("p%c\n") over the line to   *)
(* the serial thread of the server, which cuts commands out of the string  *)
(* indat and plays a note for each.                                        *)
(*                                                                         *)
(* The requests for samples share the line with the messages; they make    *)
(* the thread pass over indat again and again, and are left out otherwise: *)
(* a read returns any number of the waiting characters, also none.         *)
(***************************************************************************)
EXTENDS Integers, Sequences, SequencesExt

CONSTANTS
  Keys,        \* the keys that are pressed, of 0 .. 15
  MaxKeys,     \* BOUND: keys pressed
  MaxBacklog,  \* BOUND: messages sent and not cut out yet
  MaxLost      \* BOUND: characters lost on the line

ASSUME KeyAssumption ==
  /\ Keys \subseteq 0 .. 15
  /\ {MaxKeys, MaxBacklog, MaxLost} \subseteq Nat

VARIABLES
  wire,     \* characters sent and not read
  indat,    \* the server's string
  server,   \* "runs", or "aborted" by an assert
  played,   \* history: notes played
  pressed,  \* history: keys pressed
  burst,    \* history: three messages have waited at once
  lost      \* history: characters lost

keyVars == <<wire, indat, server, played, pressed, burst, lost>>

\* A message is the characters p, the key's hexadecimal digit and a newline.
\* Digits are the keys themselves; NL and P are not keys.
NL == 16
P == 17
Message(k) == <<P, k, NL>>

\* The note of a key: the octaves 4 and 5 from "41!" to "57!" and "61!".
NoNote == 0
Note(k) ==
  CASE k \in 1 .. 7   -> 40 + k
    [] k = 0          -> 52
    [] k = 9          -> 51
    [] k \in 10 .. 14 -> 43 + k
    [] k = 15         -> 61
    [] OTHER          -> NoNote

\* What a key plays: its note, or nothing.
Plays(k) == IF Note(k) = NoNote THEN <<>> ELSE <<Note(k)>>

\* The newlines among some characters.
Messages(s) == Cardinality({i \in 1 .. Len(s) : s[i] = NL})

KeyInit ==
  /\ wire = <<>> /\ indat = <<>>
  /\ server = "runs"
  /\ played = <<>> /\ pressed = <<>>
  /\ burst = FALSE /\ lost = 0

-----------------------------------------------------------------------------
\* main() has found a new key.
Press ==
  /\ Len(pressed) < MaxKeys
  /\ Messages(indat \o wire) < MaxBacklog
  /\ \E k \in Keys :
       /\ wire' = wire \o Message(k)
       /\ pressed' = Append(pressed, k)
  /\ burst' = (burst \/ Messages(indat \o wire) >= 2)
  /\ UNCHANGED <<indat, server, played, lost>>

\* What a command plays: a key's note or nothing; anything after p that is no
\* digit fails the assert.
IsKeyCommand(cmd) == Len(cmd) = 2 /\ cmd[1] = P
Aborts(cmd) == IsKeyCommand(cmd) /\ cmd[2] \notin 0 .. 15
Notes(cmd) == IF IsKeyCommand(cmd) THEN Plays(cmd[2]) ELSE <<>>

\* A round of for (i=0; i<indat.length(); ++i), with what is left of the string and
\* the notes played so far; nothing more happens after the last one.  Indices count
\* from 0 as in the source.
Round(loop, i) ==
  IF ~ loop.ok \/ i >= Len(loop.rest) \/ loop.rest[i + 1] # NL THEN loop
  ELSE LET cmd == SubSeq(loop.rest, 1, i) IN
    [rest |-> SubSeq(loop.rest, i + 2, Len(loop.rest)),
     notes |-> loop.notes \o (IF Aborts(cmd) THEN <<>> ELSE Notes(cmd)),
     ok |-> ~ Aborts(cmd)]

\* The end of the loop over the string s, as a set of one: when a command is cut out
\* the string gets shorter, and the index goes on counting where it was.
Scan(s) ==
  LET after[n \in 0 .. Len(s)] ==
        IF n = 0 THEN {[rest |-> s, notes |-> <<>>, ok |-> TRUE]}
        ELSE {Round(loop, n - 1) : loop \in after[n - 1]}
  IN  after[Len(s)]

\* The loop over indat = s.  (Mutants: what is left is dropped; nothing is taken
\* out.)
Heard(scan) == /\ played' = played \o scan.notes
               /\ server' = IF scan.ok THEN "runs" ELSE "aborted"
ParseAndForget(s) == \E scan \in Scan(s) : Heard(scan) /\ indat' = <<>>
ParseAndKeep(s) == \E scan \in Scan(s) : Heard(scan) /\ indat' = s
Parse(s) == \E scan \in Scan(s) : Heard(scan) /\ indat' = scan.rest

\* One pass of the serial thread, with k of the waiting characters.  (Mutant: the
\* string is looked at only when there are new characters.)
PassIfNew(k) ==
  /\ server = "runs" /\ k > 0
  /\ wire' = SubSeq(wire, k + 1, Len(wire))
  /\ Parse(indat \o SubSeq(wire, 1, k))
  /\ UNCHANGED <<pressed, burst, lost>>
Pass(k) ==
  /\ server = "runs"
  /\ wire' = SubSeq(wire, k + 1, Len(wire))
  /\ Parse(indat \o SubSeq(wire, 1, k))
  /\ UNCHANGED <<pressed, burst, lost>>

\* A character is lost on the line.
Lose ==
  /\ lost < MaxLost
  /\ \E i \in 1 .. Len(wire) : wire' = RemoveAt(wire, i)
  /\ lost' = lost + 1
  /\ UNCHANGED <<indat, server, played, pressed, burst>>

KeyNext ==
  \/ Press
  \/ \E k \in 0 .. Len(wire) : Pass(k)
  \/ Lose

\* The thread passes for ever and what waits is read in the end.
KeySpec == KeyInit /\ [][KeyNext]_keyVars /\ WF_keyVars(Pass(Len(wire)))

-----------------------------------------------------------------------------
(* Properties. *)

Quiet == wire = <<>> /\ Messages(indat) = 0

NotesOf(keys) == FlattenSeq([i \in 1 .. Len(keys) |-> Plays(keys[i])])

\* What is played is played in the order of the keys, each at most once, and
\* nothing is played that no key was pressed for, also if characters are lost.
PlayedInOrder ==
  \E at \in [1 .. Len(played) -> 1 .. Len(pressed)] :
    \A i, j \in 1 .. Len(played) :
      <<played[i]>> = Plays(pressed[at[i]]) /\ (i < j => at[i] < at[j])

\* Unless characters are lost or three messages wait at once, every key that has a
\* note has played it as soon as nothing is left to read or to cut out, wherever
\* the reads have cut the messages.
NoKeyLost == Quiet /\ lost = 0 /\ ~ burst => played = NotesOf(pressed)

\* Nothing stays on the line and no complete command in indat for ever, unless the
\* assert of server.cpp:224 has ended the server.  That takes three lost characters:
\* they can make the command "pp" of two messages.
AlwaysQuiet == []<>(Quiet \/ (server = "aborted" /\ lost >= 3))
=============================================================================
