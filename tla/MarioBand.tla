------------------------------ MODULE MarioBand ------------------------------
(***************************************************************************)
(* The Mario pages and the server: a button sends "play", the server       *)
(* answers "start" with the ID of the play, and the button of the theme    *)
(* turns the theme off again by sending "stop" with the ID the page has    *)
(* recorded.  Every page is subscribed to band/# and so hears the answers  *)
(* to all pages.                                                           *)
(*                                                                         *)
(* The broker is external: it keeps the order of the messages of one       *)
(* client, and with QoS 0 delivers each once while connections last.       *)
(* IDs are numbered where the server draws random ones (see PlayPool): an  *)
(* ID that comes back once its play has ended, and a play_add that returns *)
(* 0 because five draws in a row were taken, are left out.                 *)
(***************************************************************************)
EXTENDS Integers, Sequences

CONSTANTS
  Pages,    \* the pages that are open
  Buttons,  \* of 1 (the theme) and 11 .. 19
  MaxPlays, \* BOUND: plays the server starts
  Careful   \* ENVIRONMENT: the pages whose user clicks only on the theme, and
            \* only when the last click is answered

ASSUME BandAssumption == MaxPlays \in Nat /\ Careful \subseteq Pages

VARIABLES
  wait_id, record_id,  \* of every page; record_id 0 is none
  requests,            \* from every page to the server
  answers,             \* "start" messages on their way to every page
  plays,               \* what the server is playing
  lastID,              \* the ID given last
  stopped              \* history: pairs of a stop's page and the play it stopped

pageVars == <<wait_id, record_id>>
vars == <<wait_id, record_id, requests, answers, plays, lastID, stopped>>

Theme == 1

Init ==
  /\ wait_id = [c \in Pages |-> FALSE]
  /\ record_id = [c \in Pages |-> 0]
  /\ requests = [c \in Pages |-> <<>>]
  /\ answers = [c \in Pages |-> <<>>]
  /\ plays = {}
  /\ lastID = 0
  /\ stopped = {}

\* Nothing of page c is on its way.  The answers it ignores may be.
Answered(c) ==
  /\ requests[c] = <<>>
  /\ \A i \in 1 .. Len(answers[c]) : answers[c][i].to # c

-----------------------------------------------------------------------------
Send(c, m) == requests' = [requests EXCEPT ![c] = Append(@, m)]

\* play(i): the theme's button stops what is recorded, everything else plays.
Click(c, i) ==
  /\ c \in Careful => i = Theme /\ Answered(c)
  /\ IF i = Theme /\ record_id[c] # 0
       THEN /\ Send(c, [op |-> "stop", ID |-> record_id[c]])
            /\ record_id' = [record_id EXCEPT ![c] = 0]
            /\ UNCHANGED wait_id
       ELSE /\ lastID + Len(requests[c]) < MaxPlays
            /\ Send(c, [op |-> "play", sound |-> i])
            /\ wait_id' = [wait_id EXCEPT ![c] = TRUE]
            /\ UNCHANGED record_id
  /\ UNCHANGED <<answers, plays, lastID, stopped>>

\* An answer a page records.  (Mutant: any page's answer.)
RecordedAny(c, m) == wait_id[c]
Recorded(c, m) == m.to = c /\ wait_id[c]

\* mqtt_message_arrive on the oldest answer.
Arrive(c) ==
  /\ answers[c] # <<>>
  /\ answers' = [answers EXCEPT ![c] = Tail(@)]
  /\ LET m == Head(answers[c]) IN
     IF Recorded(c, m)
       THEN /\ record_id' = [record_id EXCEPT ![c] = m.ID]
            /\ wait_id' = [wait_id EXCEPT ![c] = FALSE]
       ELSE UNCHANGED pageVars
  /\ UNCHANGED <<requests, plays, lastID, stopped>>

\* message_callback: play_add and the answer to the page.
Play(c) ==
  /\ requests[c] # <<>> /\ Head(requests[c]).op = "play"
  /\ lastID < MaxPlays
  /\ lastID' = lastID + 1
  /\ plays' = plays \cup
       {[ID |-> lastID + 1, page |-> c, sound |-> Head(requests[c]).sound]}
  /\ answers' = [p \in Pages |-> Append(answers[p], [to |-> c, ID |-> lastID + 1])]
  /\ requests' = [requests EXCEPT ![c] = Tail(@)]
  /\ UNCHANGED <<pageVars, stopped>>

\* message_callback: play_remove.  Its answer "end" is of no interest to a page.
Stop(c) ==
  /\ requests[c] # <<>> /\ Head(requests[c]).op = "stop"
  /\ LET hit == {p \in plays : p.ID = Head(requests[c]).ID} IN
       /\ plays' = plays \ hit
       /\ stopped' = stopped \cup {<<c, p>> : p \in hit}
  /\ requests' = [requests EXCEPT ![c] = Tail(@)]
  /\ UNCHANGED <<pageVars, answers, lastID>>

\* A sound has been played to its end.
Finish ==
  /\ \E p \in plays : plays' = plays \ {p}
  /\ UNCHANGED <<pageVars, requests, answers, lastID, stopped>>

Next ==
  \/ \E c \in Pages, i \in Buttons : Click(c, i)
  \/ \E c \in Pages : Arrive(c) \/ Play(c) \/ Stop(c)
  \/ Finish

Spec == Init /\ [][Next]_vars

-----------------------------------------------------------------------------
(* Properties. *)

\* A page never stops what another page plays, although it hears all answers.
StopsOwn == \A s \in stopped : s[2].page = s[1]

\* What makes StopsOwn inductive: an ID a page has recorded, may still record or
\* has sent to be stopped is that of a play of its own, or of one that is over.
Request == [op : {"play"}, sound : Buttons] \cup [op : {"stop"}, ID : Nat]
Answer == [to : Pages, ID : Nat]

TypeOK ==
  /\ record_id \in [Pages -> Nat]
  /\ requests \in [Pages -> Seq(Request)]
  /\ answers \in [Pages -> Seq(Answer)]
  /\ plays \subseteq [ID : Nat, page : Pages, sound : Buttons]
  /\ lastID \in Nat

Given(ID, c) == ID <= lastID /\ \A p \in plays : p.ID = ID => p.page = c

OwnInv ==
  /\ TypeOK
  /\ \A p \in plays : p.ID \in 1 .. lastID
  /\ \A c \in Pages : Given(record_id[c], c)
  /\ \A c \in Pages : \A i \in DOMAIN answers[c] :
       Given(answers[c][i].ID, answers[c][i].to)
  /\ \A c \in Pages : \A i \in DOMAIN requests[c] :
       requests[c][i].op = "stop" => Given(requests[c][i].ID, c)
  /\ StopsOwn

\* A careful user, who takes the theme's button for a switch (html/mario/index.html
\* :65-79), can always stop the theme, whatever the users of the other pages
\* click: if it is playing and everything is answered, the button will stop it.
ThemeCanBeStopped ==
  \A c \in Careful : Answered(c) =>
    \A p \in plays : p.page = c /\ p.sound = Theme => record_id[c] = p.ID

\* "Clicking the theme plays the theme, clicking again cancels it"
\* (report/report.md:51): no click on the theme's button stops another sound.
ThemeStopsTheme == \A s \in stopped : s[2].sound = Theme
=============================================================================
