-------------------------- MODULE MarioBandProofs ---------------------------
(***************************************************************************)
(* For every number of pages and buttons, and any clicks: no page stops    *)
(* another page's play, and a user who takes the theme's button for a      *)
(* switch can always stop the theme.                                       *)
(***************************************************************************)
EXTENDS MarioBand, TLAPS

\* What Append and Tail leave in a sequence.
LEMMA AppendElements ==
  ASSUME NEW S, NEW s \in Seq(S), NEW e \in S
  PROVE  /\ Append(s, e) \in Seq(S)
         /\ \A i \in DOMAIN Append(s, e) :
              \/ i \in DOMAIN s /\ Append(s, e)[i] = s[i]
              \/ Append(s, e)[i] = e
OBVIOUS

LEMMA TailElements ==
  ASSUME NEW S, NEW s \in Seq(S), s # <<>>
  PROVE  /\ Tail(s) \in Seq(S)
         /\ Head(s) = s[1] /\ Head(s) \in S /\ 1 \in DOMAIN s
         /\ \A i \in DOMAIN Tail(s) : i + 1 \in DOMAIN s /\ Tail(s)[i] = s[i + 1]
OBVIOUS

\* A click: what it sends to be stopped is what the page has recorded.
LEMMA ClickOwn ==
  ASSUME OwnInv, NEW c \in Pages, NEW i \in Buttons, Click(c, i)
  PROVE  OwnInv'
<1>1. TypeOK
  BY DEF OwnInv
<1>2. plays' = plays /\ lastID' = lastID /\ answers' = answers /\ stopped' = stopped
  BY DEF Click
<1>3. \A ID, d : Given(ID, d)' <=> Given(ID, d)
  BY <1>2 DEF Given
<1>4. PICK m \in Request :
        /\ requests' = [requests EXCEPT ![c] = Append(@, m)]
        /\ m.op = "stop" => Given(m.ID, c)
  <2>1. CASE i = Theme /\ record_id[c] # 0
    <3> DEFINE m == [op |-> "stop", ID |-> record_id[c]]
    <3>1. m \in Request /\ Given(m.ID, c)
      BY <1>1 DEF OwnInv, Request, TypeOK
    <3> QED
      BY <2>1, <3>1 DEF Click, Send
  <2>2. CASE ~ (i = Theme /\ record_id[c] # 0)
    <3> DEFINE m == [op |-> "play", sound |-> i]
    <3>1. m \in Request /\ m.op # "stop"
      BY DEF Request
    <3> QED
      BY <2>2, <3>1 DEF Click, Send
  <2> QED
    BY <2>1, <2>2
<1>5. requests' \in [Pages -> Seq(Request)]
  BY <1>1, <1>4, AppendElements DEF TypeOK
<1>6. /\ record_id' \in [Pages -> Nat]
      /\ \A d \in Pages : record_id'[d] = record_id[d] \/ record_id'[d] = 0
  <2>1. record_id' = [record_id EXCEPT ![c] = 0] \/ record_id' = record_id
    BY DEF Click
  <2> QED
    BY <1>1, <2>1 DEF TypeOK
<1>7. TypeOK'
  BY <1>1, <1>2, <1>5, <1>6 DEF TypeOK
<1>8. \A d \in Pages : Given(record_id[d], d)'
  <2>1. \A d \in Pages : Given(0, d)
    BY <1>1 DEF OwnInv, Given, TypeOK
  <2> QED
    BY <1>3, <1>6, <2>1 DEF OwnInv
<1>9. ASSUME NEW d \in Pages, NEW k \in DOMAIN requests'[d],
             requests'[d][k].op = "stop"
      PROVE  Given(requests[d][k].ID, d)'
  <2>1. CASE d = c
    BY <1>1, <1>3, <1>4, <1>9, <2>1, AppendElements DEF OwnInv, TypeOK
  <2>2. CASE d # c
    BY <1>1, <1>3, <1>4, <1>9, <2>2 DEF OwnInv, TypeOK
  <2> QED
    BY <2>1, <2>2
<1> QED
  BY <1>2, <1>3, <1>7, <1>8, <1>9 DEF OwnInv, StopsOwn

\* An answer: a page records only what is addressed to it.
LEMMA ArriveOwn ==
  ASSUME OwnInv, NEW c \in Pages, Arrive(c)
  PROVE  OwnInv'
<1>1. TypeOK
  BY DEF OwnInv
<1>2. plays' = plays /\ lastID' = lastID /\ requests' = requests /\ stopped' = stopped
  BY DEF Arrive
<1>3. \A ID, d : Given(ID, d)' <=> Given(ID, d)
  BY <1>2 DEF Given
<1>4. /\ answers[c] \in Seq(Answer) /\ answers[c] # <<>>
      /\ answers' = [answers EXCEPT ![c] = Tail(answers[c])]
  BY <1>1 DEF Arrive, TypeOK
<1>5. Head(answers[c]) \in Answer
  BY <1>4, TailElements
<1>6. Given(Head(answers[c]).ID, Head(answers[c]).to)
  BY <1>4, TailElements DEF OwnInv
<1>7. /\ record_id' \in [Pages -> Nat]
      /\ \A d \in Pages : Given(record_id'[d], d)
  <2>1. CASE Recorded(c, Head(answers[c]))
    <3>1. record_id' = [record_id EXCEPT ![c] = Head(answers[c]).ID]
      BY <2>1 DEF Arrive
    <3>2. Head(answers[c]).to = c
      BY <2>1 DEF Recorded
    <3> QED
      BY <1>1, <1>5, <1>6, <3>1, <3>2 DEF OwnInv, TypeOK, Answer
  <2>2. CASE ~ Recorded(c, Head(answers[c]))
    <3>1. record_id' = record_id
      BY <2>2 DEF Arrive, pageVars
    <3> QED
      BY <1>1, <3>1 DEF OwnInv, TypeOK
  <2> QED
    BY <2>1, <2>2
<1>8. answers' \in [Pages -> Seq(Answer)]
  BY <1>1, <1>4, TailElements DEF TypeOK
<1>9. ASSUME NEW d \in Pages, NEW k \in DOMAIN answers'[d]
      PROVE  Given(answers'[d][k].ID, answers'[d][k].to)
  <2>1. CASE d = c
    <3>1. answers'[c] = Tail(answers[c])
      BY <1>1, <1>4 DEF TypeOK
    <3>2. k + 1 \in DOMAIN answers[c] /\ answers'[c][k] = answers[c][k + 1]
      BY <1>4, <1>9, <2>1, <3>1, TailElements
    <3> QED
      BY <2>1, <3>2 DEF OwnInv
  <2>2. CASE d # c
    BY <1>1, <1>4, <1>9, <2>2 DEF OwnInv, TypeOK
  <2> QED
    BY <2>1, <2>2
<1>10. TypeOK'
  BY <1>1, <1>2, <1>7, <1>8 DEF TypeOK
<1> QED
  BY <1>2, <1>3, <1>7, <1>9, <1>10 DEF OwnInv, StopsOwn

\* A play: its ID is new, so nobody else can have it.
LEMMA PlayOwn ==
  ASSUME OwnInv, NEW c \in Pages, Play(c)
  PROVE  OwnInv'
<1> DEFINE new == [ID |-> lastID + 1, page |-> c, sound |-> Head(requests[c]).sound]
           answer == [to |-> c, ID |-> lastID + 1]
<1>1. TypeOK
  BY DEF OwnInv
<1>2. /\ lastID' = lastID + 1 /\ plays' = plays \cup {new}
      /\ record_id' = record_id /\ stopped' = stopped
      /\ answers' = [p \in Pages |-> Append(answers[p], answer)]
      /\ requests' = [requests EXCEPT ![c] = Tail(@)]
      /\ requests[c] # <<>> /\ Head(requests[c]).op = "play"
  BY DEF Play, pageVars
<1>3. \A ID \in Nat : \A d : Given(ID, d) => Given(ID, d)'
  BY <1>1, <1>2 DEF Given, TypeOK
<1>4. /\ answer \in Answer /\ lastID + 1 <= lastID'
      /\ \A p \in plays' : p.ID = lastID + 1 => p.page = c
  <2>1. \A p \in plays : p.ID # lastID + 1
    BY <1>1 DEF OwnInv, TypeOK
  <2>2. new.page = c
    OBVIOUS
  <2>3. \A p \in plays' : p.ID = lastID + 1 => p.page = c
    BY <1>2, <2>1, <2>2
  <2> QED
    BY <1>1, <1>2, <2>3 DEF TypeOK, Answer
<1>5. new \in [ID : Nat, page : Pages, sound : Buttons]
  <2>1. Head(requests[c]) \in Request
    BY <1>1, <1>2, TailElements DEF TypeOK
  <2>2. Head(requests[c]).sound \in Buttons
    BY <1>2, <2>1 DEF Request
  <2> QED
    BY <1>1, <2>2 DEF TypeOK
<1>6. requests' \in [Pages -> Seq(Request)] /\ answers' \in [Pages -> Seq(Answer)]
  BY <1>1, <1>2, <1>4, TailElements, AppendElements DEF TypeOK
<1>7. TypeOK'
  BY <1>1, <1>2, <1>5, <1>6 DEF TypeOK
<1>8. \A p \in plays' : p.ID \in 1 .. lastID'
  BY <1>1, <1>2 DEF OwnInv, TypeOK
<1>9. \A d \in Pages : Given(record_id[d], d)'
  BY <1>1, <1>2, <1>3 DEF OwnInv, TypeOK
<1>10. ASSUME NEW d \in Pages, NEW k \in DOMAIN answers'[d]
       PROVE  Given(answers[d][k].ID, answers[d][k].to)'
  <2>1. answers'[d] = Append(answers[d], answer) /\ answers[d] \in Seq(Answer)
    BY <1>1, <1>2 DEF TypeOK
  <2>2. CASE k \in DOMAIN answers[d] /\ answers'[d][k] = answers[d][k]
    <3>1. answers[d][k] \in Answer
      BY <2>1, <2>2
    <3> QED
      BY <1>3, <2>2, <3>1 DEF OwnInv, Answer
  <2>3. CASE answers'[d][k] = answer
    BY <1>4, <2>3 DEF Given
  <2> QED
    BY <1>4, <1>10, <2>1, <2>2, <2>3, AppendElements
<1>11. ASSUME NEW d \in Pages, NEW k \in DOMAIN requests'[d],
              requests'[d][k].op = "stop"
       PROVE  Given(requests[d][k].ID, d)'
  <2>1. PICK j \in DOMAIN requests[d] : requests'[d][k] = requests[d][j]
    BY <1>1, <1>2, <1>11, TailElements DEF TypeOK
  <2>2. requests[d][j].ID \in Nat
    BY <1>1, <1>11, <2>1 DEF TypeOK, Request
  <2> QED
    BY <1>3, <1>11, <2>1, <2>2 DEF OwnInv
<1> QED
  BY <1>2, <1>7, <1>8, <1>9, <1>10, <1>11 DEF OwnInv, StopsOwn

\* A stop: its ID was given to the page that sends it.
LEMMA StopOwn ==
  ASSUME OwnInv, NEW c \in Pages, Stop(c)
  PROVE  OwnInv'
<1> DEFINE ID == Head(requests[c]).ID
<1>1. TypeOK
  BY DEF OwnInv
<1>2. /\ lastID' = lastID /\ record_id' = record_id /\ answers' = answers
      /\ plays' \subseteq plays
      /\ requests' = [requests EXCEPT ![c] = Tail(@)]
      /\ requests[c] # <<>> /\ Head(requests[c]).op = "stop"
      /\ \A s \in stopped' : s \in stopped \/ \E p \in plays : s = <<c, p>> /\ p.ID = ID
  BY DEF Stop, pageVars
<1>3. \A n, d : Given(n, d) => Given(n, d)'
  BY <1>2 DEF Given
<1>4. Given(ID, c)
  BY <1>1, <1>2, TailElements DEF OwnInv, TypeOK
<1>5. StopsOwn'
  BY <1>2, <1>4 DEF OwnInv, StopsOwn, Given
<1>6. requests' \in [Pages -> Seq(Request)]
  BY <1>1, <1>2, TailElements DEF TypeOK
<1>7. TypeOK'
  BY <1>1, <1>2, <1>6 DEF TypeOK
<1>8. ASSUME NEW d \in Pages, NEW k \in DOMAIN requests'[d],
             requests'[d][k].op = "stop"
      PROVE  Given(requests[d][k].ID, d)'
  <2>1. PICK j \in DOMAIN requests[d] : requests'[d][k] = requests[d][j]
    BY <1>1, <1>2, <1>8, TailElements DEF TypeOK
  <2> QED
    BY <1>3, <1>8, <2>1 DEF OwnInv
<1> QED
  BY <1>2, <1>3, <1>5, <1>7, <1>8 DEF OwnInv

-----------------------------------------------------------------------------
\* Every step keeps IDs with the pages they were given to.
THEOREM OwnInvariant == Spec => []OwnInv
<1>1. Init => OwnInv
  BY DEF Init, OwnInv, TypeOK, Given, StopsOwn
<1>2. OwnInv /\ [Next]_vars => OwnInv'
  <2> SUFFICES ASSUME OwnInv, [Next]_vars PROVE OwnInv'
    OBVIOUS
  <2>1. ASSUME NEW c \in Pages, NEW i \in Buttons, Click(c, i) PROVE OwnInv'
    BY <2>1, ClickOwn
  <2>2. ASSUME NEW c \in Pages, Arrive(c) \/ Play(c) \/ Stop(c) PROVE OwnInv'
    BY <2>2, ArriveOwn, PlayOwn, StopOwn
  <2>3. CASE Finish
    <3>1. /\ plays' \subseteq plays
          /\ UNCHANGED <<record_id, requests, answers, lastID, stopped>>
      BY <2>3 DEF Finish, pageVars
    <3>2. \A n, d : Given(n, d) => Given(n, d)'
      BY <3>1 DEF Given
    <3> QED
      BY <3>1, <3>2 DEF OwnInv, TypeOK, StopsOwn
  <2>4. CASE UNCHANGED vars
    BY <2>4 DEF vars, OwnInv, TypeOK, Given, StopsOwn
  <2> QED
    BY <2>1, <2>2, <2>3, <2>4 DEF Next
<1> QED
  BY <1>1, <1>2, PTL DEF Spec

\* No page ever stops another page's play, for any number of pages and any clicks,
\* although the answers to every page reach them all.
THEOREM StopsOwnHolds == Spec => []StopsOwn
<1>1. OwnInv => StopsOwn
  BY DEF OwnInv
<1> QED
  BY <1>1, OwnInvariant, PTL
-----------------------------------------------------------------------------
(* The theme's button as a switch.                                         *)

\* What a page plays, and whether an answer to it is on its way.
Own(c) == {p \in plays : p.page = c}
NoAnswer(c) == \A i \in DOMAIN answers[c] : answers[c][i].to # c
OnlyAnswer(c, k) == /\ k \in DOMAIN answers[c] /\ answers[c][k].to = c
                    /\ \A i \in DOMAIN answers[c] : answers[c][i].to = c => i = k

\* A careful page is in one of four places: nothing of it is on its way and what
\* it plays is recorded; it has asked for a play while nothing of it is played;
\* the answer is on its way; or it has asked for the end of what it plays.
Settled(c) == /\ requests[c] = <<>> /\ NoAnswer(c) /\ wait_id[c] = FALSE
              /\ \A p \in Own(c) : p.ID = record_id[c]
Asking(c) == /\ Len(requests[c]) = 1 /\ Head(requests[c]).op = "play"
             /\ NoAnswer(c) /\ wait_id[c] = TRUE /\ Own(c) = {}
Hearing(c) == /\ requests[c] = <<>> /\ wait_id[c] = TRUE
              /\ \E k \in DOMAIN answers[c] :
                   /\ OnlyAnswer(c, k)
                   /\ \A p \in Own(c) : p.ID = answers[c][k].ID
Stopping(c) == /\ Len(requests[c]) = 1 /\ Head(requests[c]).op = "stop"
               /\ NoAnswer(c) /\ wait_id[c] = FALSE
               /\ \A p \in Own(c) : p.ID = Head(requests[c]).ID

Switch(c) == Settled(c) \/ Asking(c) \/ Hearing(c) \/ Stopping(c)
SwitchInv == /\ wait_id \in [Pages -> BOOLEAN]
             /\ \A c \in Careful : Switch(c)

\* A sequence of one element.
LEMMA One ==
  ASSUME NEW S, NEW e \in S
  PROVE  /\ Append(<<>>, e) \in Seq(S)
         /\ Len(Append(<<>>, e)) = 1 /\ Head(Append(<<>>, e)) = e
<1> DEFINE s == <<>>
<1>1. s \in Seq(S) /\ Len(s) = 0
  OBVIOUS
<1> HIDE DEF s
<1>2. Append(s, e) \in Seq(S) /\ Len(Append(s, e)) = 1 /\ Append(s, e)[1] = e
  BY <1>1
<1>3. Head(Append(s, e)) = e
  BY <1>2
<1> QED
  BY <1>2, <1>3 DEF s

\* Tail leaves nothing of it.
LEMMA TailOfOne ==
  ASSUME NEW S, NEW s \in Seq(S), Len(s) = 1
  PROVE  Tail(s) = <<>>
<1> DEFINE t == Tail(s)
<1>1. t \in Seq(S) /\ Len(t) = 0
  OBVIOUS
<1> HIDE DEF t
<1>2. t = <<>>
  BY <1>1
<1> QED
  BY <1>2 DEF t

\* An answer to another page behind changes nothing.
LEMMA AppendOther ==
  ASSUME NEW d \in Pages, answers[d] \in Seq(Answer), NEW e \in Answer, e.to # d,
         answers'[d] = Append(answers[d], e)
  PROVE  /\ NoAnswer(d) => NoAnswer(d)'
         /\ \A k : OnlyAnswer(d, k) => OnlyAnswer(d, k)' /\ answers'[d][k] = answers[d][k]
<1>1. /\ DOMAIN answers[d] \subseteq DOMAIN answers'[d]
      /\ \A i \in DOMAIN answers[d] : answers'[d][i] = answers[d][i]
  OBVIOUS
<1>2. \A i \in DOMAIN answers'[d] :
        (i \in DOMAIN answers[d] /\ answers'[d][i] = answers[d][i]) \/ answers'[d][i] = e
  BY AppendElements
<1> QED
  BY <1>1, <1>2 DEF NoAnswer, OnlyAnswer

\* The first answer to a page that had none on its way.
LEMMA AppendOwn ==
  ASSUME NEW d \in Pages, answers[d] \in Seq(Answer), NEW e \in Answer, e.to = d,
         answers'[d] = Append(answers[d], e), NoAnswer(d)
  PROVE  \E k \in DOMAIN answers'[d] : OnlyAnswer(d, k)' /\ answers'[d][k] = e
<1> PICK k \in Nat : k = Len(answers[d]) + 1
  OBVIOUS
<1>1. k \in DOMAIN answers'[d] /\ answers'[d][k] = e
  OBVIOUS
<1>2. \A i \in DOMAIN answers'[d] :
        i # k => i \in DOMAIN answers[d] /\ answers'[d][i] = answers[d][i]
  OBVIOUS
<1>3. OnlyAnswer(d, k)'
  BY <1>1, <1>2 DEF OnlyAnswer, NoAnswer
<1> QED
  BY <1>1, <1>3

\* The oldest answer leaves: it is the page's own, or that one moves up.
LEMMA TailOther ==
  ASSUME NEW d \in Pages, answers[d] \in Seq(Answer), answers[d] # <<>>,
         answers'[d] = Tail(answers[d])
  PROVE  /\ NoAnswer(d) => NoAnswer(d)' /\ Head(answers[d]).to # d
         /\ OnlyAnswer(d, 1) => NoAnswer(d)' /\ Head(answers[d]) = answers[d][1]
         /\ \A k : OnlyAnswer(d, k) /\ k # 1 =>
              /\ OnlyAnswer(d, k - 1)' /\ answers'[d][k - 1] = answers[d][k]
              /\ k - 1 \in DOMAIN answers'[d] /\ Head(answers[d]).to # d
<1>1. /\ Head(answers[d]) = answers[d][1] /\ 1 \in DOMAIN answers[d]
      /\ \A i \in DOMAIN answers'[d] :
           i \in Int /\ i + 1 # 1 /\ i + 1 \in DOMAIN answers[d] /\ answers'[d][i] = answers[d][i + 1]
  OBVIOUS
<1>2. \A k \in DOMAIN answers[d] : k # 1 =>
        k \in Int /\ k - 1 \in DOMAIN answers'[d] /\ answers'[d][k - 1] = answers[d][k]
  OBVIOUS
<1>3. NoAnswer(d) => NoAnswer(d)' /\ Head(answers[d]).to # d
  BY <1>1 DEF NoAnswer
<1>4. OnlyAnswer(d, 1) => NoAnswer(d)' /\ Head(answers[d]) = answers[d][1]
  BY <1>1 DEF NoAnswer, OnlyAnswer
<1>5. ASSUME NEW k, OnlyAnswer(d, k), k # 1
      PROVE  /\ OnlyAnswer(d, k - 1)' /\ answers'[d][k - 1] = answers[d][k]
             /\ k - 1 \in DOMAIN answers'[d] /\ Head(answers[d]).to # d
  <2>1. k \in DOMAIN answers[d] /\ answers[d][k].to = d
        /\ \A i \in DOMAIN answers[d] : answers[d][i].to = d => i = k
    BY <1>5 DEF OnlyAnswer
  <2>2. k \in Int /\ k - 1 \in DOMAIN answers'[d] /\ answers'[d][k - 1] = answers[d][k]
    BY <1>2, <1>5, <2>1
  <2>3. \A i \in DOMAIN answers'[d] : answers'[d][i].to = d => i = k - 1
    <3> SUFFICES ASSUME NEW i \in DOMAIN answers'[d], answers'[d][i].to = d PROVE i = k - 1
      OBVIOUS
    <3>1. i \in Int /\ i + 1 = k
      BY <1>1, <2>1
    <3> QED
      BY <2>2, <3>1
  <2>4. OnlyAnswer(d, k - 1)'
    BY <2>1, <2>2, <2>3 DEF OnlyAnswer
  <2> QED
    BY <1>1, <1>5, <2>1, <2>2, <2>4
<1> QED
  BY <1>3, <1>4, <1>5

\* A page of which nothing changes but that plays may have ended.
LEMMA SwitchSame ==
  ASSUME NEW d \in Careful, Switch(d), requests'[d] = requests[d], answers'[d] = answers[d],
         wait_id'[d] = wait_id[d], record_id'[d] = record_id[d], Own(d)' \subseteq Own(d)
  PROVE  Switch(d)'
<1>1. (NoAnswer(d)' <=> NoAnswer(d)) /\ \A k : OnlyAnswer(d, k)' <=> OnlyAnswer(d, k)
  BY DEF NoAnswer, OnlyAnswer
<1> QED
  BY <1>1 DEF Switch, Settled, Asking, Hearing, Stopping

\* A careful click finds everything settled.
LEMMA ClickSwitch ==
  ASSUME OwnInv, SwitchInv, NEW c \in Pages, NEW i \in Buttons, Click(c, i)
  PROVE  SwitchInv'
<1>1. /\ TypeOK /\ wait_id \in [Pages -> BOOLEAN] /\ Careful \subseteq Pages
      /\ \A p \in plays : p.ID \in 1 .. lastID
  BY BandAssumption DEF OwnInv, SwitchInv
<1>2. /\ answers' = answers /\ plays' = plays
      /\ \E m : requests' = [requests EXCEPT ![c] = m]
      /\ record_id' = record_id \/ record_id' = [record_id EXCEPT ![c] = 0]
      /\ wait_id' = wait_id \/ wait_id' = [wait_id EXCEPT ![c] = TRUE]
  BY DEF Click, Send
<1>3. ASSUME NEW d \in Careful, d # c PROVE Switch(d)'
  <2>1. /\ requests'[d] = requests[d] /\ answers'[d] = answers[d] /\ Own(d)' = Own(d)
        /\ wait_id'[d] = wait_id[d] /\ record_id'[d] = record_id[d]
    BY <1>1, <1>2, <1>3 DEF TypeOK, Own
  <2> QED
    BY <2>1, SwitchSame DEF SwitchInv
<1>4. ASSUME c \in Careful PROVE Switch(c)'
  <2>1. Answered(c) /\ i = Theme
    BY <1>4 DEF Click
  <2>2. Settled(c)
    BY <1>4, <2>1 DEF SwitchInv, Switch, Answered, Settled, Asking, Hearing, Stopping, OnlyAnswer
  <2>3. NoAnswer(c)' /\ Own(c)' = Own(c) /\ requests[c] = <<>>
    BY <1>2, <2>2 DEF Settled, NoAnswer, Own
  <2>4. CASE record_id[c] # 0
    <3> DEFINE m == [op |-> "stop", ID |-> record_id[c]]
    <3>1. requests'[c] = Append(<<>>, m) /\ wait_id'[c] = FALSE
      BY <1>1, <2>1, <2>2, <2>4 DEF Click, Send, Settled, TypeOK
    <3>2. m \in Request /\ m.op = "stop" /\ m.ID = record_id[c]
      BY <1>1 DEF Request, TypeOK
    <3> HIDE DEF m
    <3>3. Len(requests'[c]) = 1 /\ Head(requests'[c]) = m
      BY <3>1, <3>2, One
    <3> QED
      BY <2>2, <2>3, <3>1, <3>2, <3>3 DEF Switch, Stopping, Settled
  <2>5. CASE record_id[c] = 0
    <3> DEFINE m == [op |-> "play", sound |-> i]
    <3>1. requests'[c] = Append(<<>>, m) /\ wait_id'[c] = TRUE
      BY <1>1, <2>1, <2>3, <2>5 DEF Click, Send, TypeOK
    <3>2. m \in Request /\ m.op = "play"
      BY DEF Request
    <3> HIDE DEF m
    <3>3. Len(requests'[c]) = 1 /\ Head(requests'[c]) = m
      BY <3>1, <3>2, One
    <3>4. Own(c) = {}
      BY <1>1, <2>2, <2>5 DEF Settled, Own, TypeOK
    <3> QED
      BY <2>3, <3>1, <3>2, <3>3, <3>4 DEF Switch, Asking
  <2> QED
    BY <2>4, <2>5
<1>5. wait_id' \in [Pages -> BOOLEAN]
  BY <1>1, <1>2
<1> QED
  BY <1>3, <1>4, <1>5 DEF SwitchInv

\* A page hears its own answer, after any number of the others'.
LEMMA ArriveSwitch ==
  ASSUME OwnInv, SwitchInv, NEW c \in Pages, Arrive(c)
  PROVE  SwitchInv'
<1>1. TypeOK /\ wait_id \in [Pages -> BOOLEAN] /\ Careful \subseteq Pages
  BY BandAssumption DEF OwnInv, SwitchInv
<1> DEFINE m == Head(answers[c])
<1>2. /\ answers[c] # <<>> /\ answers' = [answers EXCEPT ![c] = Tail(answers[c])]
      /\ requests' = requests /\ plays' = plays
      /\ Recorded(c, m) => /\ record_id' = [record_id EXCEPT ![c] = m.ID]
                           /\ wait_id' = [wait_id EXCEPT ![c] = FALSE]
      /\ ~ Recorded(c, m) => record_id' = record_id /\ wait_id' = wait_id
  BY DEF Arrive, pageVars
<1>3. wait_id' \in [Pages -> BOOLEAN]
  BY <1>1, <1>2
<1>4. ASSUME NEW d \in Careful, d # c PROVE Switch(d)'
  <2>1. /\ requests'[d] = requests[d] /\ answers'[d] = answers[d] /\ Own(d)' = Own(d)
        /\ wait_id'[d] = wait_id[d] /\ record_id'[d] = record_id[d]
    BY <1>1, <1>2, <1>4 DEF TypeOK, Own
  <2> QED
    BY <2>1, SwitchSame DEF SwitchInv
<1>5. ASSUME c \in Careful PROVE Switch(c)'
  <2>1. answers[c] \in Seq(Answer) /\ answers'[c] = Tail(answers[c]) /\ Own(c)' = Own(c)
    BY <1>1, <1>2 DEF TypeOK, Own
  <2>2. /\ NoAnswer(c) => NoAnswer(c)' /\ m.to # c
        /\ OnlyAnswer(c, 1) => NoAnswer(c)' /\ m = answers[c][1]
        /\ \A k : OnlyAnswer(c, k) /\ k # 1 =>
             /\ OnlyAnswer(c, k - 1)' /\ answers'[c][k - 1] = answers[c][k]
             /\ k - 1 \in DOMAIN answers'[c] /\ m.to # c
    BY <1>2, <2>1, TailOther
  <2>3. CASE m.to # c
    <3>1. record_id' = record_id /\ wait_id' = wait_id
      BY <1>2, <2>3 DEF Recorded
    <3>2. CASE Settled(c) \/ Asking(c) \/ Stopping(c)
      BY <1>2, <2>1, <2>2, <3>1, <3>2 DEF Switch, Settled, Asking, Stopping
    <3>3. CASE Hearing(c)
      <4>1. PICK k \in DOMAIN answers[c] :
              OnlyAnswer(c, k) /\ \A p \in Own(c) : p.ID = answers[c][k].ID
        BY <3>3 DEF Hearing
      <4>2. k # 1
        BY <2>2, <2>3, <4>1 DEF OnlyAnswer
      <4>3. OnlyAnswer(c, k - 1)' /\ k - 1 \in DOMAIN answers'[c]
            /\ \A p \in Own(c)' : p.ID = answers'[c][k - 1].ID
        BY <2>1, <2>2, <4>1, <4>2
      <4> QED
        BY <1>2, <3>1, <3>3, <4>3 DEF Switch, Hearing
    <3> QED
      BY <1>5, <3>2, <3>3 DEF SwitchInv, Switch
  <2>4. CASE m.to = c
    <3>1. Hearing(c)
      BY <1>5, <2>2, <2>4 DEF SwitchInv, Switch, Settled, Asking, Stopping
    <3>2. PICK k \in DOMAIN answers[c] :
            OnlyAnswer(c, k) /\ \A p \in Own(c) : p.ID = answers[c][k].ID
      BY <3>1 DEF Hearing
    <3>3. k = 1
      BY <2>2, <2>4, <3>2
    <3>4. record_id'[c] = m.ID /\ wait_id'[c] = FALSE
      BY <1>1, <1>2, <2>4, <3>1 DEF Recorded, Hearing, TypeOK
    <3>5. NoAnswer(c)' /\ \A p \in Own(c)' : p.ID = record_id'[c]
      BY <2>1, <2>2, <3>2, <3>3, <3>4
    <3> QED
      BY <1>2, <3>1, <3>4, <3>5 DEF Switch, Settled, Hearing
  <2> QED
    BY <2>3, <2>4
<1> QED
  BY <1>3, <1>4, <1>5 DEF SwitchInv

\* The server plays what was asked for and answers to all pages.
LEMMA PlaySwitch ==
  ASSUME OwnInv, SwitchInv, NEW c \in Pages, Play(c)
  PROVE  SwitchInv'
<1> DEFINE new == [ID |-> lastID + 1, page |-> c, sound |-> Head(requests[c]).sound]
           e == [to |-> c, ID |-> lastID + 1]
<1>1. TypeOK /\ wait_id \in [Pages -> BOOLEAN] /\ Careful \subseteq Pages
  BY BandAssumption DEF OwnInv, SwitchInv
<1>2. /\ plays' = plays \cup {new} /\ record_id' = record_id /\ wait_id' = wait_id
      /\ answers' = [p \in Pages |-> Append(answers[p], e)]
      /\ requests' = [requests EXCEPT ![c] = Tail(requests[c])]
      /\ requests[c] # <<>> /\ Head(requests[c]).op = "play"
  BY DEF Play, pageVars
<1>3. e \in Answer /\ e.to = c /\ e.ID = lastID + 1 /\ new.page = c /\ new.ID = lastID + 1
  BY <1>1 DEF TypeOK, Answer
<1> HIDE DEF new, e
<1>4. ASSUME NEW d \in Careful, d # c PROVE Switch(d)'
  <2>1. /\ requests'[d] = requests[d] /\ Own(d)' = Own(d)
        /\ answers[d] \in Seq(Answer) /\ answers'[d] = Append(answers[d], e)
    BY <1>1, <1>2, <1>3, <1>4 DEF TypeOK, Own
  <2>2. /\ NoAnswer(d) => NoAnswer(d)'
        /\ \A k : OnlyAnswer(d, k) => OnlyAnswer(d, k)' /\ answers'[d][k] = answers[d][k]
    BY <1>1, <1>3, <1>4, <2>1, AppendOther
  <2>3. \A k : OnlyAnswer(d, k)' => k \in DOMAIN answers'[d]
    BY DEF OnlyAnswer
  <2>4. CASE Settled(d) \/ Asking(d) \/ Stopping(d)
    BY <1>2, <2>1, <2>2, <2>4 DEF Switch, Settled, Asking, Stopping
  <2>5. CASE Hearing(d)
    <3>1. PICK k \in DOMAIN answers[d] :
            OnlyAnswer(d, k) /\ \A p \in Own(d) : p.ID = answers[d][k].ID
      BY <2>5 DEF Hearing
    <3>2. OnlyAnswer(d, k)' /\ \A p \in Own(d)' : p.ID = answers'[d][k].ID
      BY <2>1, <2>2, <3>1
    <3> QED
      BY <1>2, <2>1, <2>3, <2>5, <3>2 DEF Switch, Hearing
  <2> QED
    BY <2>4, <2>5 DEF SwitchInv, Switch
<1>5. ASSUME c \in Careful PROVE Switch(c)'
  <2>1. Asking(c)
    BY <1>2, <1>5 DEF SwitchInv, Switch, Settled, Asking, Hearing, Stopping
  <2>2. /\ answers[c] \in Seq(Answer) /\ answers'[c] = Append(answers[c], e)
        /\ requests[c] \in Seq(Request) /\ requests'[c] = Tail(requests[c])
    BY <1>1, <1>2 DEF TypeOK
  <2>3. requests'[c] = <<>>
    BY <2>1, <2>2, TailOfOne DEF Asking
  <2>4. \E k \in DOMAIN answers'[c] : OnlyAnswer(c, k)' /\ answers'[c][k] = e
    BY <1>3, <2>1, <2>2, AppendOwn DEF Asking
  <2>5. \A p \in Own(c)' : p.ID = e.ID
    BY <1>2, <1>3, <2>1 DEF Own, Asking
  <2> QED
    BY <1>2, <2>1, <2>3, <2>4, <2>5 DEF Switch, Hearing, Asking
<1> QED
  BY <1>1, <1>2, <1>4, <1>5 DEF SwitchInv

\* The server stops all that the page plays.
LEMMA StopSwitch ==
  ASSUME OwnInv, SwitchInv, NEW c \in Pages, Stop(c)
  PROVE  SwitchInv'
<1>1. TypeOK /\ wait_id \in [Pages -> BOOLEAN] /\ Careful \subseteq Pages
  BY BandAssumption DEF OwnInv, SwitchInv
<1>2. /\ plays' \subseteq plays
      /\ \A p \in plays' : p.ID # Head(requests[c]).ID
      /\ requests' = [requests EXCEPT ![c] = Tail(requests[c])]
      /\ requests[c] # <<>> /\ Head(requests[c]).op = "stop"
      /\ record_id' = record_id /\ wait_id' = wait_id /\ answers' = answers
  BY DEF Stop, pageVars
<1>3. ASSUME NEW d \in Careful, d # c PROVE Switch(d)'
  <2>1. requests'[d] = requests[d] /\ Own(d)' \subseteq Own(d)
    BY <1>1, <1>2, <1>3 DEF TypeOK, Own
  <2> QED
    BY <1>2, <2>1, SwitchSame DEF SwitchInv
<1>4. ASSUME c \in Careful PROVE Switch(c)'
  <2>1. Stopping(c)
    BY <1>2, <1>4 DEF SwitchInv, Switch, Settled, Asking, Hearing, Stopping
  <2>2. requests'[c] = <<>>
    BY <1>1, <1>2, <2>1, TailOfOne DEF Stopping, TypeOK
  <2>3. Own(c)' = {}
    BY <1>2, <2>1 DEF Stopping, Own
  <2>4. NoAnswer(c)'
    BY <1>2, <2>1 DEF Stopping, NoAnswer
  <2> QED
    BY <1>2, <2>1, <2>2, <2>3, <2>4 DEF Switch, Settled, Stopping
<1> QED
  BY <1>1, <1>2, <1>3, <1>4 DEF SwitchInv

\* Every step keeps a careful page in one of its four places.
THEOREM SwitchInvariant == Spec => []SwitchInv
<1>1. Init => SwitchInv
  BY BandAssumption DEF Init, SwitchInv, Switch, Settled, NoAnswer, Own
<1>2. OwnInv /\ SwitchInv /\ [Next]_vars => SwitchInv'
  <2> SUFFICES ASSUME OwnInv, SwitchInv, [Next]_vars PROVE SwitchInv'
    OBVIOUS
  <2>1. ASSUME NEW c \in Pages, NEW i \in Buttons, Click(c, i) PROVE SwitchInv'
    BY <2>1, ClickSwitch
  <2>2. ASSUME NEW c \in Pages, Arrive(c) \/ Play(c) \/ Stop(c) PROVE SwitchInv'
    BY <2>2, ArriveSwitch, PlaySwitch, StopSwitch
  <2>3. CASE Finish \/ UNCHANGED vars
    <3>1. plays' \subseteq plays /\ UNCHANGED <<wait_id, record_id, requests, answers>>
      BY <2>3 DEF Finish, vars, pageVars
    <3>2. \A d \in Careful : Own(d)' \subseteq Own(d)
      BY <3>1 DEF Own
    <3> QED
      BY <3>1, <3>2, SwitchSame DEF SwitchInv
  <2> QED
    BY <2>1, <2>2, <2>3 DEF Next
<1> QED
  BY <1>1, <1>2, OwnInvariant, PTL DEF Spec

\* A user who clicks only on the theme's button, and only when the last click is
\* answered, can always stop the theme, whatever is clicked on the other pages.
THEOREM ThemeCanBeStoppedHolds == Spec => []ThemeCanBeStopped
<1>1. SwitchInv => ThemeCanBeStopped
  <2> SUFFICES ASSUME SwitchInv, NEW c \in Careful, Answered(c),
                      NEW p \in plays, p.page = c
               PROVE  record_id[c] = p.ID
    BY DEF ThemeCanBeStopped
  <2>1. Settled(c)
    BY DEF SwitchInv, Switch, Answered, Settled, Asking, Hearing, Stopping, OnlyAnswer
  <2> QED
    BY <2>1 DEF Settled, Own
<1> QED
  BY <1>1, SwitchInvariant, PTL
=============================================================================
