------------------------------ MODULE PlayPool ------------------------------
(***************************************************************************)
(* The sounds being played: the vector plays of the server, guarded by     *)
(* plays_mutex and used by two threads.  The mqtt thread adds and removes  *)
(* plays for the web pages; the serial thread adds plays for the keys of   *)
(* the board and, once a pass, mixes the next samples of every play.       *)
(***************************************************************************)
EXTENDS Integers, Sequences, SequencesExt, ServerThreads

CONSTANTS
  Sounds, Size,  \* the sounds and how many samples each has
  IDs,           \* what rand() returns (31 bits; a few values here)
  Tries,         \* tries to find a free ID (5)
  MaxLen,        \* samples mixed in one call of MyAudioCallback (0 .. 128)
  MaxPlays       \* BOUND: plays at a time

ASSUME PoolAssumption ==
  /\ Size \in [Sounds -> Nat]
  /\ {Tries, MaxLen, MaxPlays} \subseteq Nat

VARIABLES
  plays,        \* sequence of [sound, idx, ID], and the history variable age:
                \* samples mixed since the play was added, counted up to one
                \* more than the sound has
  plays_mutex,  \* the thread that holds it, or NoThread
  job           \* what each thread is doing

vars == <<plays, plays_mutex, job>>

NoThread == "none"

Idle == [op |-> "idle"]
Add(s, i) == [op |-> "add", sound |-> s, i |-> i]  \* the i-th try is next
Push(s, ID) == [op |-> "push", sound |-> s, ID |-> ID]
Drop(ID) == [op |-> "drop", ID |-> ID]
Erase(i) == [op |-> "erase", i |-> i]
Mix(len, i) == [op |-> "mix", len |-> len, i |-> i]  \* plays[i] is next

Init ==
  /\ plays = <<>>
  /\ plays_mutex = NoThread
  /\ job = [t \in Threads |-> Idle]

Smaller(a, b) == IF a < b THEN a ELSE b

\* find_idx_by_id: 0 stands for -1.
find_idx_by_id(ID) == SelectInSeq(plays, LAMBDA p : p.ID = ID)

Adding == {t \in Threads : job[t].op \in {"add", "push"}}

-----------------------------------------------------------------------------
Begin(t, j) ==
  /\ job[t] = Idle
  /\ job' = [job EXCEPT ![t] = j]
  /\ UNCHANGED <<plays, plays_mutex>>

\* A page or a key asks for a sound: play_add.
BeginAdd(t) ==
  /\ Len(plays) + (IF Adding = {} THEN 0 ELSE 1) < MaxPlays
  /\ \E s \in Sounds : Begin(t, Add(s, 1))

\* A page asks to stop a play, by any ID: play_remove.
BeginRemove == \E ID \in IDs : Begin("mqtt", Drop(ID))

\* A pass of the serial thread: MyAudioCallback for len samples.
BeginMix(len) == Begin("serial", Mix(len, 1))

\* plays_mutex.lock().  (Mutant: it is taken from another thread.)
LockAnyway(t) ==
  /\ plays_mutex # t
  /\ job[t] # Idle
  /\ plays_mutex' = t
  /\ UNCHANGED <<plays, job>>
Lock(t) ==
  /\ plays_mutex = NoThread
  /\ job[t] # Idle
  /\ plays_mutex' = t
  /\ UNCHANGED <<plays, job>>

\* The steps below are made with the mutex held; the last of a job releases it.
Continue(t, j) ==
  /\ job' = [job EXCEPT ![t] = j]
  /\ UNCHANGED plays_mutex

Return(t) ==
  /\ job' = [job EXCEPT ![t] = Idle]
  /\ plays_mutex' = NoThread

\* play_add: a random ID that no play has, or none after so many tries.
TryID(t) ==
  /\ plays_mutex = t /\ job[t].op = "add"
  /\ \E ID \in IDs :
       IF find_idx_by_id(ID) = 0
         THEN Continue(t, Push(job[t].sound, ID))
         ELSE IF job[t].i < Tries
                THEN Continue(t, Add(job[t].sound, job[t].i + 1))
                ELSE Return(t)
  /\ UNCHANGED plays

PushBack(t) ==
  /\ plays_mutex = t /\ job[t].op = "push"
  /\ plays' = Append(plays, [sound |-> job[t].sound, idx |-> 0,
                             ID |-> job[t].ID, age |-> 0])
  /\ Return(t)

\* play_remove.
Find(t) ==
  /\ plays_mutex = t /\ job[t].op = "drop"
  /\ LET i == find_idx_by_id(job[t].ID) IN
       IF i = 0 THEN Return(t) ELSE Continue(t, Erase(i))
  /\ UNCHANGED plays

EraseAt(t) ==
  /\ plays_mutex = t /\ job[t].op = "erase"
  /\ plays' = IF job[t].i <= Len(plays) THEN RemoveAt(plays, job[t].i) ELSE plays
  /\ Return(t)

\* MyAudioCallback, one play: up to len samples of it are added to the stream.
MixOne(t) ==
  /\ plays_mutex = t /\ job[t].op = "mix"
  /\ job[t].i <= Len(plays)
  /\ LET i == job[t].i
         p == plays[i]
         end == p.idx + job[t].len
     IN  plays' = [plays EXCEPT ![i].idx =
                     IF end < Size[p.sound] THEN end
                     ELSE IF p.idx < Size[p.sound] THEN Size[p.sound] ELSE p.idx]
  /\ Continue(t, Mix(job[t].len, job[t].i + 1))

\* (Mutant: one sample late.)
FinishedLate(p) == p.idx > Size[p.sound]
Finished(p) == p.idx >= Size[p.sound]

\* remove_if and erase: the plays that are not finished, in their order.
Unfinished(s) ==
  LET left[n \in 0 .. Len(s)] ==
        IF n = 0 THEN <<>>
        ELSE IF Finished(s[n]) THEN left[n - 1] ELSE Append(left[n - 1], s[n])
  IN  left[Len(s)]

\* MyAudioCallback, the end: finished plays are erased.
EraseFinished(t) ==
  /\ plays_mutex = t /\ job[t].op = "mix"
  /\ job[t].i > Len(plays)
  /\ LET older == [i \in 1 .. Len(plays) |->
                     [plays[i] EXCEPT !.age =
                        Smaller(@ + job[t].len, Size[plays[i].sound] + 1)]]
     IN  plays' = Unfinished(older)
  /\ Return(t)

Run(t) ==
  \/ TryID(t) \/ PushBack(t) \/ Find(t) \/ EraseAt(t)
  \/ MixOne(t) \/ EraseFinished(t)

Next ==
  \/ \E t \in Threads : BeginAdd(t) \/ Lock(t) \/ Run(t)
  \/ BeginRemove
  \/ \E len \in 0 .. MaxLen : BeginMix(len)

Spec == Init /\ [][Next]_vars

\* A thread that runs goes on, and gets a mutex that is free again and again; the
\* serial thread mixes at the end of every pass, and not always nothing.
FairSpec ==
  /\ Spec
  /\ \A t \in Threads : SF_vars(Lock(t)) /\ WF_vars(Run(t))
  /\ SF_vars(BeginMix(MaxLen))

-----------------------------------------------------------------------------
(* Properties. *)

\* No two plays have the same ID, although two threads choose them: a page's stop
\* has one play to mean (server.cpp:384-398).
UniqueIDs == IsInjective([i \in 1 .. Len(plays) |-> plays[i].ID])

Mixing == \E t \in Threads : plays_mutex = t /\ job[t].op = "mix"

\* Every play has advanced by just the samples mixed since it was added: no pass
\* leaves a play out or takes it twice while others are added and removed, and
\* what has been played to its end is gone.
InStep ==
  ~ Mixing => \A i \in 1 .. Len(plays) :
                /\ plays[i].idx = plays[i].age
                /\ plays[i].age > 0 => ~ Finished(plays[i])

\* Every play ends, whether a page stops it or not.
Playing(ID) == \E i \in 1 .. Len(plays) : plays[i].ID = ID
EveryPlayEnds == \A ID \in IDs : Playing(ID) ~> ~ Playing(ID)
=============================================================================
