---------------------------- MODULE ServerProofs ----------------------------
(***************************************************************************)
(* Proofs about what the two threads of the server share.  The plays, for  *)
(* any sounds, IDs, numbers of tries and lengths of a pass: the IDs are    *)
(* kept apart, and a pass takes every play on by the same samples.  The    *)
(* text for the screen, for any lines and any number of them: unless two   *)
(* calls overlap, it is sent whole and in order.  The keys of the board,   *)
(* for any of them: what is played was pressed, in that order, and no key  *)
(* is lost unless the line loses characters or three messages wait.        *)
(***************************************************************************)
EXTENDS PlayPool, ScreenQueue, KeyCommands, WellFoundedInduction, FiniteSetTheorems,
        SequenceTheorems, TLAPS

-----------------------------------------------------------------------------
(* Induction over the natural numbers, from the least member of a set.     *)

(* A set of naturals that is not empty has a least member.                 *)
LEMMA LeastMember == ASSUME NEW T, T \subseteq Nat, T # {}
                     PROVE  \E x \in T : \A y \in T : x <= y
<1> DEFINE R == {ss \in Nat \X Nat : ss[1] < ss[2]}
<1>1. IsWellFoundedOn(R, Nat)
  BY NatLessThanWellFounded DEF OpToRel
<1>2. \E x \in T : \A y \in T : ~ (<<y, x>> \in R)
  <2> HIDE DEF R
  <2> QED BY <1>1, WFMin
<1>3. PICK x \in T : \A y \in T : ~ (<<y, x>> \in R)
  BY <1>2
<1>4. ASSUME NEW y \in T PROVE x <= y
  <2>1. x \in Nat /\ y \in Nat
    OBVIOUS
  <2>2. <<y, x>> \notin R
    BY <1>3, <1>4
  <2>3. ~ (y < x)
    BY <2>1, <2>2
  <2> QED BY <2>1, <2>3
<1> QED BY <1>4

(* A set that has 0 and, with a number, the next has all of them.          *)
LEMMA SetInduction == ASSUME NEW S, 0 \in S, \A n \in Nat : n \in S => n + 1 \in S
                      PROVE  Nat \subseteq S
<1> DEFINE T == Nat \ S
<1>1. SUFFICES ASSUME T # {} PROVE FALSE
  OBVIOUS
<1>2. PICK x \in T : \A y \in T : x <= y
  BY <1>1, LeastMember
<1>3. x # 0 /\ x - 1 \in Nat
  BY <1>2
<1>4. x - 1 \in S
  BY <1>2, <1>3
<1> QED BY <1>2, <1>3, <1>4

-----------------------------------------------------------------------------
(* What find_idx_by_id and the erasing of finished plays return.           *)

Play == [sound : Sounds, idx : Nat, ID : IDs, age : Nat]
Apart(s) == \A i, j \in 1 .. Len(s) : i # j => s[i].ID # s[j].ID

(* It finds a play of the ID when there is one.                            *)
LEMMA FindIdx ==
    ASSUME plays \in Seq(Play), NEW ID
    PROVE  /\ find_idx_by_id(ID) \in 0 .. Len(plays)
           /\ find_idx_by_id(ID) = 0 => \A i \in 1 .. Len(plays) : plays[i].ID # ID
<1> DEFINE I == {i \in 1 .. Len(plays) : plays[i].ID = ID}
<1>1. find_idx_by_id(ID) = IF I # {} THEN Min(I) ELSE 0
  BY DEF find_idx_by_id, SelectInSeq
<1>2. ASSUME I # {} PROVE Min(I) \in I
  <2>1. I \subseteq Nat
    OBVIOUS
  <2>2. \E x \in I : \A y \in I : x <= y
    BY <1>2, <2>1, LeastMember
  <2> QED BY <2>2 DEF Min
<1>3. CASE I = {}
  BY <1>1, <1>3
<1>4. CASE I # {}
  <2>1. find_idx_by_id(ID) \in I
    BY <1>1, <1>2, <1>4
  <2> QED BY <2>1
<1> QED BY <1>3, <1>4

(* The function that Unfinished folds the plays with exists.               *)
Kept(s, left) == left = [n \in 0 .. Len(s) |->
    IF n = 0 THEN <<>>
    ELSE IF Finished(s[n]) THEN left[n - 1] ELSE Append(left[n - 1], s[n])]

LEMMA KeptExists == ASSUME NEW s \in Seq(Play) PROVE \E left : Kept(s, left)
<1> DEFINE Upto(m, left) == left = [n \in 0 .. m |->
               IF n = 0 THEN <<>>
               ELSE IF Finished(s[n]) THEN left[n - 1] ELSE Append(left[n - 1], s[n])]
           M == {m \in Nat : \E left : Upto(m, left)}
<1>1. 0 \in M
  <2>1. Upto(0, [n \in 0 .. 0 |-> <<>>])
    OBVIOUS
  <2> QED BY <2>1
<1>2. ASSUME NEW m \in Nat, m \in M PROVE m + 1 \in M
  <2>1. PICK left : Upto(m, left)
    BY <1>2
  <2> DEFINE more == [n \in 0 .. m + 1 |->
                 IF n <= m THEN left[n]
                 ELSE IF Finished(s[m + 1]) THEN left[m] ELSE Append(left[m], s[m + 1])]
  <2>2. \A n \in 0 .. m : more[n] = left[n]
    OBVIOUS
  <2>3. \A n \in 0 .. m : left[n] =
            IF n = 0 THEN <<>>
            ELSE IF Finished(s[n]) THEN left[n - 1] ELSE Append(left[n - 1], s[n])
    BY <2>1
  <2>4. more[m + 1] = IF Finished(s[m + 1]) THEN left[m] ELSE Append(left[m], s[m + 1])
    OBVIOUS
  <2> DEFINE Value(n) == IF n = 0 THEN <<>>
                         ELSE IF Finished(s[n]) THEN more[n - 1] ELSE Append(more[n - 1], s[n])
  <2>5. ASSUME NEW n \in 0 .. m + 1 PROVE more[n] = Value(n)
    <3> HIDE DEF more
    <3>1. CASE n = 0
      BY <3>1, <2>2, <2>3
    <3>2. CASE n \in 1 .. m
      <4>1. n \in 0 .. m /\ n - 1 \in 0 .. m /\ n # 0
        BY <3>2
      <4> QED BY <4>1, <2>2, <2>3
    <3>3. CASE n = m + 1
      <4>1. m \in 0 .. m /\ n # 0 /\ n - 1 = m
        BY <3>3
      <4>2. more[m] = left[m]
        BY <4>1, <2>2
      <4> QED BY <4>1, <4>2, <3>3, <2>4
    <3> QED BY <3>1, <3>2, <3>3
  <2>6. more = [n \in 0 .. m + 1 |-> more[n]]
    OBVIOUS
  <2> HIDE DEF more, Value
  <2>7. more = [n \in 0 .. m + 1 |-> Value(n)]
    BY <2>5, <2>6
  <2>8. Upto(m + 1, more)
    BY <2>7 DEF Value
  <2> QED BY <2>8
<1>3. Nat \subseteq M
  <2> HIDE DEF M
  <2> QED BY <1>1, <1>2, SetInduction
<1>4. PICK left : Upto(Len(s), left)
  <2>1. Len(s) \in M
    <3> HIDE DEF M
    <3> QED BY <1>3
  <2> QED BY <2>1
<1> QED BY <1>4 DEF Kept

(* Every play that is left was one and is not finished, and their IDs stay *)
(* apart.                                                                  *)
LEMMA UnfinishedPlays ==
    ASSUME NEW s \in Seq(Play)
    PROVE  /\ Unfinished(s) \in Seq(Play)
           /\ \A i \in 1 .. Len(Unfinished(s)) :
                 /\ ~ Finished(Unfinished(s)[i])
                 /\ \E j \in 1 .. Len(s) : Unfinished(s)[i] = s[j]
           /\ Apart(s) => Apart(Unfinished(s))
<1>1. PICK left : Kept(s, left) /\ Unfinished(s) = left[Len(s)]
  <2> DEFINE chosen == CHOOSE left : Kept(s, left)
  <2>1. Kept(s, chosen)
    BY KeptExists
  <2>2. Unfinished(s) = chosen[Len(s)]
    BY DEF Unfinished, Kept
  <2> QED BY <2>1, <2>2
<1> DEFINE Good(n) == /\ left[n] \in Seq(Play)
                      /\ \A i \in 1 .. Len(left[n]) :
                            /\ ~ Finished(left[n][i])
                            /\ \E j \in 1 .. n : left[n][i] = s[j]
                      /\ Apart(s) => Apart(left[n])
           G == {n \in Nat : n <= Len(s) => Good(n)}
<1>2. 0 \in G
  <2>1. left[0] = <<>>
    BY <1>1 DEF Kept
  <2>2. <<>> \in Seq(Play) /\ Len(<<>>) = 0 /\ 1 .. 0 = {}
    OBVIOUS
  <2>3. Apart(<<>>)
    BY <2>2 DEF Apart
  <2>4. Good(0)
    BY <2>1, <2>2, <2>3
  <2> HIDE DEF Good
  <2> QED BY <2>4
<1>3. ASSUME NEW n \in Nat, n \in G PROVE n + 1 \in G
  <2> SUFFICES ASSUME n + 1 <= Len(s) PROVE Good(n + 1)
    OBVIOUS
  <2>1. Good(n)
    <3> HIDE DEF Good
    <3>1. n <= Len(s)
      OBVIOUS
    <3> QED BY <3>1, <1>3
  <2>2. left[n + 1] = IF Finished(s[n + 1]) THEN left[n] ELSE Append(left[n], s[n + 1])
    <3>1. n + 1 \in 0 .. Len(s) /\ n + 1 # 0 /\ (n + 1) - 1 = n
      OBVIOUS
    <3> QED BY <3>1, <1>1 DEF Kept
  <2>3. CASE Finished(s[n + 1])
    BY <2>1, <2>2, <2>3
  <2>4. CASE ~ Finished(s[n + 1])
    <3> DEFINE old == left[n]
               new == Append(old, s[n + 1])
    <3>1. old \in Seq(Play) /\ s[n + 1] \in Play
      BY <2>1
    <3>2. left[n + 1] = new
      BY <2>2, <2>4
    <3> HIDE DEF new
    <3>3. /\ new \in Seq(Play) /\ Len(new) = Len(old) + 1
          /\ \A i \in 1 .. Len(old) : new[i] = old[i]
          /\ new[Len(old) + 1] = s[n + 1]
      <4> HIDE DEF old
      <4> QED BY <3>1 DEF new
    <3>4. ASSUME NEW i \in 1 .. Len(new)
          PROVE  ~ Finished(new[i]) /\ \E j \in 1 .. n + 1 : new[i] = s[j]
      <4>1. CASE i \in 1 .. Len(old)
        BY <4>1, <3>3, <2>1
      <4>2. CASE i = Len(old) + 1
        BY <4>2, <3>3, <2>4
      <4> QED BY <4>1, <4>2, <3>1, <3>3
    <3>5. ASSUME Apart(s) PROVE Apart(new)
      <4>1. Apart(old)
        BY <3>5, <2>1
      <4>2. ASSUME NEW i \in 1 .. Len(old) PROVE new[i].ID # s[n + 1].ID
        <5>1. PICK j \in 1 .. n : old[i] = s[j]
          BY <2>1
        <5>2. j # n + 1 /\ j \in 1 .. Len(s) /\ n + 1 \in 1 .. Len(s)
          OBVIOUS
        <5> QED BY <5>1, <5>2, <3>3, <3>5 DEF Apart
      <4>3. ASSUME NEW i \in 1 .. Len(new), NEW j \in 1 .. Len(new), i # j
            PROVE  new[i].ID # new[j].ID
        <5>1. i \in 1 .. Len(old) \/ i = Len(old) + 1
          BY <3>1, <3>3
        <5>2. j \in 1 .. Len(old) \/ j = Len(old) + 1
          BY <3>1, <3>3
        <5>3. CASE i \in 1 .. Len(old) /\ j \in 1 .. Len(old)
          BY <4>1, <4>3, <5>3, <3>3 DEF Apart
        <5>4. CASE i \in 1 .. Len(old) /\ j = Len(old) + 1
          BY <4>2, <5>4, <3>3
        <5>5. CASE i = Len(old) + 1 /\ j \in 1 .. Len(old)
          BY <4>2, <5>5, <3>3
        <5> QED BY ONLY <4>3, <5>1, <5>2, <5>3, <5>4, <5>5
      <4> QED BY <4>3 DEF Apart
    <3> QED BY <3>2, <3>3, <3>4, <3>5
  <2> QED BY <2>3, <2>4
<1>4. Nat \subseteq G
  <2> HIDE DEF G
  <2> QED BY <1>2, <1>3, SetInduction
<1>5. Good(Len(s))
  BY <1>4
<1> QED BY <1>1, <1>5

-----------------------------------------------------------------------------
(* The invariant.  A thread has chosen an ID or an index, or is in the     *)
(* middle of a pass, only while it holds the mutex; the ID it has chosen   *)
(* is no play's; and during a pass the plays before the next one have been *)
(* taken on and the others have not.                                       *)

Jobs == {Idle}
    \cup [op : {"add"}, sound : Sounds, i : Nat]
    \cup [op : {"push"}, sound : Sounds, ID : IDs]
    \cup [op : {"drop"}, ID : IDs]
    \cup [op : {"erase"}, i : Nat \ {0}]
    \cup [op : {"mix"}, len : Nat, i : Nat \ {0}]

Locked(t) == \/ job[t].op \in {"push", "erase"}
             \/ job[t].op = "mix" /\ job[t].i # 1

Fresh(p) == p.age > 0 => p.age < Size[p.sound]
Before(p) == Fresh(p) /\ p.idx = p.age
After(p, len) == Fresh(p) /\ p.idx = Smaller(p.age + len, Size[p.sound])

TypeInv == /\ plays \in Seq(Play)
           /\ plays_mutex \in Threads \cup {NoThread}
           /\ job \in [Threads -> Jobs]
MutexInv == \A t \in Threads : Locked(t) => plays_mutex = t
FreeInv == \A t \in Threads : job[t].op = "push" =>
               \A i \in 1 .. Len(plays) : plays[i].ID # job[t].ID
MixInv == \A t \in Threads : (plays_mutex = t /\ job[t].op = "mix") =>
              \A i \in 1 .. Len(plays) :
                  IF i < job[t].i THEN After(plays[i], job[t].len)
                  ELSE Before(plays[i])
RestInv == ~ Mixing => \A i \in 1 .. Len(plays) : Before(plays[i])

PoolInv == TypeInv /\ MutexInv /\ Apart(plays) /\ FreeInv /\ MixInv /\ RestInv

(* A job, by its op.                                                       *)
LEMMA JobFields ==
    ASSUME NEW j \in Jobs
    PROVE  /\ j.op = "add" => j.sound \in Sounds /\ j.i \in Nat
           /\ j.op = "push" => j.sound \in Sounds /\ j.ID \in IDs
           /\ j.op = "drop" => j.ID \in IDs
           /\ j.op = "erase" => j.i \in Nat \ {0}
           /\ j.op = "mix" => j.len \in Nat /\ j.i \in Nat \ {0}
BY DEF Jobs, Idle

(* Nothing plays and nobody holds the mutex.                               *)
LEMMA InitPool == Init => PoolInv
BY DEF Init, PoolInv, TypeInv, MutexInv, Apart, FreeInv, MixInv, RestInv, Locked, Jobs, Idle

(* A job that begins holds nothing and has chosen nothing.                 *)
LEMMA BeginPool ==
    ASSUME PoolInv, NEW t \in Threads, NEW j \in Jobs, Begin(t, j),
           j.op \in {"add", "drop"} \/ (j.op = "mix" /\ j.i = 1)
    PROVE  PoolInv'
<1>1. /\ job \in [Threads -> Jobs] /\ job[t] = Idle /\ job' = [job EXCEPT ![t] = j]
      /\ plays' = plays /\ plays_mutex' = plays_mutex
  BY DEF Begin, PoolInv, TypeInv
<1>2. job'[t] = j /\ \A u \in Threads : u # t => job'[u] = job[u]
  BY <1>1
<1>3. TypeInv'
  BY <1>1 DEF PoolInv, TypeInv
<1>4. MutexInv'
  BY <1>1, <1>2 DEF PoolInv, MutexInv, Locked
<1>5. Apart(plays)' /\ FreeInv'
  BY <1>1, <1>2 DEF PoolInv, FreeInv, Apart
<1>6. Mixing => Mixing'
  BY <1>1, <1>2 DEF Mixing, Idle
<1>7. RestInv'
  BY <1>1, <1>6 DEF PoolInv, RestInv
<1>8. MixInv'
  <2> SUFFICES ASSUME NEW u \in Threads, plays_mutex = u, job'[u].op = "mix",
                      NEW i \in 1 .. Len(plays)
               PROVE  IF i < job'[u].i THEN After(plays[i], job'[u].len) ELSE Before(plays[i])
    BY <1>1 DEF MixInv
  <2>1. CASE u = t
    <3>1. job'[u].i = 1 /\ ~ (i < 1)
      BY <1>2, <2>1
    <3>2. ~ Mixing
      BY <1>1, <2>1 DEF Mixing, Idle
    <3> QED BY <3>1, <3>2 DEF PoolInv, RestInv
  <2>2. CASE u # t
    BY <1>2, <2>2 DEF PoolInv, MixInv
  <2> QED BY <2>1, <2>2
<1> QED BY <1>3, <1>4, <1>5, <1>7, <1>8 DEF PoolInv

(* The mutex is taken when nobody is in the middle of anything.            *)
LEMMA LockPool == ASSUME PoolInv, NEW t \in Threads, Lock(t) PROVE PoolInv'
<1>1. /\ plays_mutex = NoThread /\ plays_mutex' = t /\ plays' = plays /\ job' = job
      /\ job \in [Threads -> Jobs]
  BY DEF Lock, PoolInv, TypeInv
<1>2. \A u \in Threads : ~ Locked(u)
  BY <1>1 DEF PoolInv, MutexInv, Threads, NoThread
<1>3. ~ Mixing
  BY <1>1 DEF Mixing, Threads, NoThread
<1>4. TypeInv' /\ Apart(plays)' /\ FreeInv'
  BY <1>1 DEF PoolInv, TypeInv, FreeInv, Apart
<1>5. MutexInv'
  BY <1>1, <1>2 DEF MutexInv, Locked
<1>6. \A i \in 1 .. Len(plays) : Before(plays[i])
  BY <1>3 DEF PoolInv, RestInv
<1>7. RestInv'
  BY <1>1, <1>6 DEF RestInv
<1>8. MixInv'
  <2> SUFFICES ASSUME job[t].op = "mix", NEW i \in 1 .. Len(plays)
               PROVE  IF i < job[t].i THEN After(plays[i], job[t].len) ELSE Before(plays[i])
    BY <1>1 DEF MixInv
  <2>1. job[t].i = 1
    BY <1>2 DEF Locked
  <2> QED BY <1>6, <2>1
<1> QED BY <1>4, <1>5, <1>7, <1>8 DEF PoolInv

(* Where nothing is mixed, a step that goes on with another job or returns *)
(* and leaves plays that are as far as they should be.                     *)
LEMMA StepPool ==
    ASSUME PoolInv, NEW t \in Threads, plays_mutex = t,
           NEW j \in Jobs, job' = [job EXCEPT ![t] = j], j.op # "mix",
           plays_mutex' \in {t, NoThread}, Locked(t)' => plays_mutex' = t,
           plays' \in Seq(Play), Apart(plays'),
           \A i \in 1 .. Len(plays') : Before(plays'[i]),
           j.op = "push" => \A i \in 1 .. Len(plays') : plays'[i].ID # j.ID
    PROVE  PoolInv'
<1>1. job \in [Threads -> Jobs] /\ job'[t] = j /\ \A u \in Threads : u # t => job'[u] = job[u]
  BY DEF PoolInv, TypeInv
<1>2. TypeInv'
  BY <1>1 DEF PoolInv, TypeInv
<1>3. \A u \in Threads : u # t => ~ Locked(u) /\ job[u].op # "push"
  BY DEF PoolInv, MutexInv, Locked
<1>4. MutexInv'
  BY <1>1, <1>3 DEF MutexInv, Locked
<1>5. FreeInv'
  BY <1>1, <1>3 DEF FreeInv
<1>6. MixInv' /\ RestInv'
  BY <1>1 DEF MixInv, RestInv, Threads, NoThread
<1>7. Apart(plays)'
  BY DEF Apart
<1> QED BY <1>2, <1>4, <1>5, <1>6, <1>7 DEF PoolInv

(* Between passes every play is where it should be.                        *)
LEMMA NotMixing ==
    ASSUME PoolInv, NEW t \in Threads, plays_mutex = t, job[t].op # "mix"
    PROVE  \A i \in 1 .. Len(plays) : Before(plays[i])
BY DEF PoolInv, RestInv, Mixing

(* An ID is kept for its play only when no play has it.                    *)
LEMMA TryIDPool == ASSUME PoolInv, NEW t \in Threads, TryID(t) PROVE PoolInv'
<1>1. /\ plays_mutex = t /\ job[t].op = "add" /\ plays' = plays
      /\ plays \in Seq(Play) /\ Apart(plays)
      /\ job[t].sound \in Sounds /\ job[t].i \in Nat
  BY JobFields DEF TryID, PoolInv, TypeInv
<1>2. \A i \in 1 .. Len(plays) : Before(plays[i])
  BY <1>1, NotMixing
<1>3. PICK ID \in IDs :
         IF find_idx_by_id(ID) = 0
           THEN Continue(t, Push(job[t].sound, ID))
           ELSE IF job[t].i < Tries
                  THEN Continue(t, Add(job[t].sound, job[t].i + 1))
                  ELSE Return(t)
  BY DEF TryID
<1>4. CASE find_idx_by_id(ID) = 0
  <2> DEFINE j == Push(job[t].sound, ID)
  <2>1. job' = [job EXCEPT ![t] = j] /\ plays_mutex' = t
    BY <1>1, <1>3, <1>4 DEF Continue
  <2>2. j \in Jobs /\ j.op = "push" /\ j.ID = ID
    BY <1>1 DEF Push, Jobs
  <2>3. \A i \in 1 .. Len(plays) : plays[i].ID # ID
    BY <1>1, <1>4, FindIdx
  <2> HIDE DEF j
  <2> QED BY <1>1, <1>2, <2>1, <2>2, <2>3, StepPool
<1>5. CASE find_idx_by_id(ID) # 0 /\ job[t].i < Tries
  <2> DEFINE j == Add(job[t].sound, job[t].i + 1)
  <2>1. job' = [job EXCEPT ![t] = j] /\ plays_mutex' = t
    BY <1>1, <1>3, <1>5 DEF Continue
  <2>2. j \in Jobs /\ j.op = "add"
    BY <1>1 DEF Add, Jobs
  <2> HIDE DEF j
  <2> QED BY <1>1, <1>2, <2>1, <2>2, StepPool
<1>6. CASE find_idx_by_id(ID) # 0 /\ ~ (job[t].i < Tries)
  <2>1. job' = [job EXCEPT ![t] = Idle] /\ plays_mutex' = NoThread
    BY <1>3, <1>6 DEF Return
  <2>2. Idle \in Jobs /\ Idle.op = "idle"
    BY DEF Idle, Jobs
  <2>3. ~ Locked(t)'
    BY <2>1, <2>2 DEF Locked, PoolInv, TypeInv
  <2> QED BY <1>1, <1>2, <2>1, <2>2, <2>3, StepPool
<1> QED BY <1>4, <1>5, <1>6

(* The play gets the ID that was free when the mutex was taken.            *)
LEMMA PushBackPool == ASSUME PoolInv, NEW t \in Threads, PushBack(t) PROVE PoolInv'
<1> DEFINE p == [sound |-> job[t].sound, idx |-> 0, ID |-> job[t].ID, age |-> 0]
<1>1. /\ plays_mutex = t /\ job[t].op = "push" /\ plays' = Append(plays, p)
      /\ job' = [job EXCEPT ![t] = Idle] /\ plays_mutex' = NoThread
      /\ plays \in Seq(Play) /\ Apart(plays)
      /\ job[t].sound \in Sounds /\ job[t].ID \in IDs
  BY JobFields DEF PushBack, Return, PoolInv, TypeInv
<1>2. \A i \in 1 .. Len(plays) : Before(plays[i]) /\ plays[i].ID # p.ID
  BY <1>1, NotMixing DEF PoolInv, FreeInv
<1>3. p \in Play /\ Before(p)
  BY <1>1 DEF Play, Before, Fresh
<1> HIDE DEF p
<1>4. /\ plays' \in Seq(Play) /\ Len(plays') = Len(plays) + 1
      /\ \A i \in 1 .. Len(plays) : plays'[i] = plays[i]
      /\ plays'[Len(plays) + 1] = p /\ Len(plays) \in Nat
  BY <1>1, <1>3
<1>5. \A i \in 1 .. Len(plays') : i \in 1 .. Len(plays) \/ i = Len(plays) + 1
  BY <1>4
<1>6. \A i \in 1 .. Len(plays') : Before(plays'[i])
  BY <1>2, <1>3, <1>4, <1>5
<1>7. Apart(plays')
  BY <1>1, <1>2, <1>4, <1>5 DEF Apart
<1>8. Idle \in Jobs /\ Idle.op = "idle"
  BY DEF Idle, Jobs
<1>9. ~ Locked(t)'
  BY <1>1, <1>8 DEF Locked, PoolInv, TypeInv
<1> QED BY <1>1, <1>4, <1>6, <1>7, <1>8, <1>9, StepPool

(* The index is that of a play, and the mutex keeps it so.                 *)
LEMMA FindPool == ASSUME PoolInv, NEW t \in Threads, Find(t) PROVE PoolInv'
<1> DEFINE i == find_idx_by_id(job[t].ID)
<1>1. /\ plays_mutex = t /\ job[t].op = "drop" /\ plays' = plays
      /\ plays \in Seq(Play) /\ Apart(plays)
      /\ IF i = 0 THEN Return(t) ELSE Continue(t, Erase(i))
  BY DEF Find, PoolInv, TypeInv
<1>2. \A n \in 1 .. Len(plays) : Before(plays[n])
  BY <1>1, NotMixing
<1>3. i \in 0 .. Len(plays)
  BY <1>1, FindIdx
<1> HIDE DEF i
<1>4. CASE i = 0
  <2>1. job' = [job EXCEPT ![t] = Idle] /\ plays_mutex' = NoThread
    BY <1>1, <1>4 DEF Return
  <2>2. Idle \in Jobs /\ Idle.op = "idle"
    BY DEF Idle, Jobs
  <2>3. ~ Locked(t)'
    BY <2>1, <2>2 DEF Locked, PoolInv, TypeInv
  <2> QED BY <1>1, <1>2, <2>1, <2>2, <2>3, StepPool
<1>5. CASE i # 0
  <2>1. job' = [job EXCEPT ![t] = Erase(i)] /\ plays_mutex' = t
    BY <1>1, <1>5 DEF Continue
  <2>2. Erase(i) \in Jobs /\ Erase(i).op = "erase"
    BY <1>3, <1>5 DEF Erase, Jobs
  <2> QED BY <1>1, <1>2, <2>1, <2>2, StepPool
<1> QED BY <1>4, <1>5

(* What is left when one play is erased.                                   *)
LEMMA RemoveAtPlays ==
    ASSUME NEW s \in Seq(Play), NEW i \in 1 .. Len(s)
    PROVE  /\ RemoveAt(s, i) \in Seq(Play)
           /\ Len(RemoveAt(s, i)) = Len(s) - 1
           /\ \A n \in 1 .. Len(s) - 1 : RemoveAt(s, i)[n] = s[IF n < i THEN n ELSE n + 1]
<1> DEFINE a == SubSeq(s, 1, i - 1)
           b == SubSeq(s, i + 1, Len(s))
<1>1. a \in Seq(Play) /\ Len(a) = i - 1 /\ \A n \in 1 .. i - 1 : a[n] = s[n]
  OBVIOUS
<1>2. b \in Seq(Play) /\ Len(b) = Len(s) - i /\ \A n \in 1 .. Len(s) - i : b[n] = s[i + n]
  OBVIOUS
<1>3. RemoveAt(s, i) = a \o b
  BY DEF RemoveAt
<1> HIDE DEF a, b
<1>4. a \o b \in Seq(Play) /\ Len(a \o b) = Len(s) - 1
  <2>1. a \in Seq(Play) /\ b \in Seq(Play)
    BY <1>1, <1>2
  <2>2. a \o b \in Seq(Play) /\ Len(a \o b) = Len(a) + Len(b)
    BY ONLY <2>1
  <2> QED BY <1>1, <1>2, <2>2
<1>5. ASSUME NEW n \in 1 .. Len(s) - 1 PROVE (a \o b)[n] = s[IF n < i THEN n ELSE n + 1]
  <2>1. CASE n < i
    BY <1>1, <1>2, <2>1
  <2>2. CASE ~ (n < i)
    <3>1. (a \o b)[n] = b[n - Len(a)]
      BY <1>1, <1>2, <2>2
    <3>2. n - Len(a) \in 1 .. Len(s) - i /\ i + (n - Len(a)) = n + 1
      BY <1>1, <2>2
    <3>3. b[n - Len(a)] = s[i + (n - Len(a))]
      BY <1>2, <3>2
    <3> QED BY <2>2, <3>1, <3>2, <3>3
  <2> QED BY <2>1, <2>2
<1> QED BY <1>3, <1>4, <1>5

(* The others stay as they are.                                            *)
LEMMA EraseAtPool == ASSUME PoolInv, NEW t \in Threads, EraseAt(t) PROVE PoolInv'
<1>1. /\ plays_mutex = t /\ job[t].op = "erase" /\ job[t].i \in Nat \ {0}
      /\ plays' = IF job[t].i <= Len(plays) THEN RemoveAt(plays, job[t].i) ELSE plays
      /\ job' = [job EXCEPT ![t] = Idle] /\ plays_mutex' = NoThread
      /\ plays \in Seq(Play) /\ Apart(plays)
  BY JobFields DEF EraseAt, Return, PoolInv, TypeInv
<1>2. \A i \in 1 .. Len(plays) : Before(plays[i])
  BY <1>1, NotMixing
<1>3. Idle \in Jobs /\ Idle.op = "idle"
  BY DEF Idle, Jobs
<1>4. ~ Locked(t)'
  BY <1>1, <1>3 DEF Locked, PoolInv, TypeInv
<1>5. CASE job[t].i <= Len(plays)
  <2> DEFINE e == job[t].i
             At(n) == IF n < e THEN n ELSE n + 1
  <2>1. e \in 1 .. Len(plays) /\ plays' = RemoveAt(plays, e)
    BY <1>1, <1>5
  <2>2. /\ plays' \in Seq(Play) /\ Len(plays') = Len(plays) - 1
        /\ \A n \in 1 .. Len(plays') : plays'[n] = plays[At(n)]
    BY <1>1, <2>1, RemoveAtPlays
  <2>3. \A n \in 1 .. Len(plays') : At(n) \in 1 .. Len(plays)
    BY <1>1, <2>1, <2>2
  <2>4. \A m, n \in 1 .. Len(plays') : m # n => At(m) # At(n)
    BY <1>1, <2>1, <2>2
  <2> HIDE DEF At
  <2>5. \A n \in 1 .. Len(plays') : Before(plays'[n])
    BY <1>2, <2>2, <2>3
  <2>6. Apart(plays')
    <3> SUFFICES ASSUME NEW m \in 1 .. Len(plays'), NEW n \in 1 .. Len(plays'), m # n
                 PROVE  plays'[m].ID # plays'[n].ID
      BY DEF Apart
    <3>1. /\ At(m) \in 1 .. Len(plays) /\ At(n) \in 1 .. Len(plays) /\ At(m) # At(n)
          /\ plays'[m] = plays[At(m)] /\ plays'[n] = plays[At(n)]
      BY <2>2, <2>3, <2>4
    <3> QED BY ONLY <1>1, <3>1 DEF Apart
  <2> QED BY <1>1, <1>3, <1>4, <2>2, <2>5, <2>6, StepPool
<1>6. CASE ~ (job[t].i <= Len(plays))
  BY <1>1, <1>2, <1>3, <1>4, <1>6, StepPool
<1> QED BY <1>5, <1>6

(* One play is taken on, as far as its sound goes.                         *)
LEMMA MixOnePool == ASSUME PoolInv, NEW t \in Threads, MixOne(t) PROVE PoolInv'
<1> DEFINE i == job[t].i
           len == job[t].len
           p == plays[i]
           Advanced == IF p.idx + len < Size[p.sound] THEN p.idx + len
                       ELSE IF p.idx < Size[p.sound] THEN Size[p.sound] ELSE p.idx
           j == Mix(len, i + 1)
<1>1. /\ plays_mutex = t /\ job[t].op = "mix" /\ i \in 1 .. Len(plays) /\ len \in Nat
      /\ plays \in Seq(Play) /\ Apart(plays) /\ job \in [Threads -> Jobs]
  BY JobFields DEF MixOne, PoolInv, TypeInv
<1>2. /\ plays' = [plays EXCEPT ![i].idx = Advanced]
      /\ job' = [job EXCEPT ![t] = j] /\ plays_mutex' = plays_mutex
  BY DEF MixOne, Continue
<1>3. p \in Play /\ Before(p) /\ Size[p.sound] \in Nat
  <2>1. p \in Play
    BY <1>1
  <2>2. Before(p)
    BY <1>1 DEF PoolInv, MixInv
  <2> QED BY <2>1, <2>2, PoolAssumption DEF Play
<1>4. /\ p.sound \in Sounds /\ p.idx \in Nat /\ p.ID \in IDs /\ p.age \in Nat
      /\ p = [sound |-> p.sound, idx |-> p.idx, ID |-> p.ID, age |-> p.age]
  BY <1>3 DEF Play
<1>5. Advanced \in Nat /\ Advanced = Smaller(p.age + len, Size[p.sound])
  BY <1>1, <1>3, <1>4 DEF Before, Fresh, Smaller
<1> DEFINE q == [sound |-> p.sound, idx |-> Advanced, ID |-> p.ID, age |-> p.age]
<1>6. plays' = [plays EXCEPT ![i] = q]
  <2> HIDE DEF Advanced
  <2>1. [p EXCEPT !.idx = Advanced] = q
    BY <1>4
  <2>2. plays' = [plays EXCEPT ![i] = [p EXCEPT !.idx = Advanced]]
    BY <1>2
  <2> QED BY <2>1, <2>2
<1>7. q \in Play /\ q.ID = p.ID /\ After(q, len)
  <2> HIDE DEF Advanced
  <2>1. q \in Play
    BY <1>4, <1>5 DEF Play
  <2> QED BY <1>3, <1>5, <2>1 DEF After, Before, Fresh
<1>8. j \in Jobs /\ j.op = "mix" /\ j.i = i + 1 /\ j.len = len
  BY <1>1 DEF Mix, Jobs
<1> HIDE DEF q, j, Advanced
<1>9. /\ plays' \in Seq(Play) /\ Len(plays') = Len(plays)
      /\ plays'[i] = q /\ \A n \in 1 .. Len(plays) : n # i => plays'[n] = plays[n]
  BY <1>1, <1>6, <1>7
<1>10. job'[t] = j /\ \A u \in Threads : u # t => job'[u] = job[u]
  BY <1>1, <1>2
<1>11. TypeInv'
  BY <1>1, <1>2, <1>8, <1>9 DEF PoolInv, TypeInv
<1>12. \A n \in 1 .. Len(plays) : plays'[n].ID = plays[n].ID
  BY <1>7, <1>9
<1>13. Apart(plays)'
  BY <1>1, <1>9, <1>12 DEF Apart
<1>14. \A u \in Threads : u # t => ~ Locked(u) /\ job[u].op # "push"
  BY <1>1 DEF PoolInv, MutexInv, Locked
<1>15. MutexInv' /\ FreeInv'
  BY <1>1, <1>2, <1>8, <1>10, <1>14 DEF MutexInv, FreeInv, Locked
<1>16. RestInv'
  BY <1>1, <1>2, <1>8, <1>10 DEF RestInv, Mixing
<1>17. MixInv'
  <2> SUFFICES ASSUME NEW n \in 1 .. Len(plays)
               PROVE  IF n < i + 1 THEN After(plays'[n], len) ELSE Before(plays'[n])
    BY <1>1, <1>2, <1>8, <1>9, <1>10 DEF MixInv
  <2>1. CASE n = i
    BY <1>1, <1>7, <1>9, <2>1
  <2>2. CASE n # i
    <3>1. IF n < i THEN After(plays[n], len) ELSE Before(plays[n])
      BY <1>1 DEF PoolInv, MixInv
    <3> QED BY <1>1, <1>9, <2>2, <3>1
  <2> QED BY <2>1, <2>2
<1> QED BY <1>11, <1>13, <1>15, <1>16, <1>17 DEF PoolInv

(* At the end of a pass the plays that go on have had just its samples.    *)
LEMMA EraseFinishedPool == ASSUME PoolInv, NEW t \in Threads, EraseFinished(t) PROVE PoolInv'
<1> DEFINE len == job[t].len
           older == [i \in 1 .. Len(plays) |->
                       [plays[i] EXCEPT !.age =
                          Smaller(@ + len, Size[plays[i].sound] + 1)]]
<1>1. /\ plays_mutex = t /\ job[t].op = "mix" /\ len \in Nat
      /\ plays \in Seq(Play) /\ Apart(plays) /\ Len(plays) \in Nat
      /\ \A i \in 1 .. Len(plays) : i < job[t].i
  BY JobFields DEF EraseFinished, PoolInv, TypeInv
<1>2. plays' = Unfinished(older) /\ job' = [job EXCEPT ![t] = Idle] /\ plays_mutex' = NoThread
  BY DEF EraseFinished, Return
<1>3. ASSUME NEW i \in 1 .. Len(plays)
      PROVE  /\ older[i] \in Play /\ older[i].ID = plays[i].ID
             /\ ~ Finished(older[i]) => Before(older[i])
  <2> DEFINE p == plays[i]
             age == Smaller(p.age + len, Size[p.sound] + 1)
  <2>1. p \in Play /\ After(p, len)
    BY <1>1 DEF PoolInv, MixInv
  <2>2. /\ p.sound \in Sounds /\ p.idx \in Nat /\ p.ID \in IDs /\ p.age \in Nat
        /\ p = [sound |-> p.sound, idx |-> p.idx, ID |-> p.ID, age |-> p.age]
    BY <2>1 DEF Play
  <2>3. Size[p.sound] \in Nat
    BY <2>2, PoolAssumption
  <2>4. older[i] = [sound |-> p.sound, idx |-> p.idx, ID |-> p.ID, age |-> age]
    BY <2>2
  <2>5. age \in Nat /\ (p.idx < Size[p.sound] => age = p.idx)
    BY <1>1, <2>1, <2>2, <2>3 DEF After, Smaller
  <2> HIDE DEF older, age, p
  <2>6. older[i] \in Play
    BY <2>2, <2>4, <2>5 DEF Play
  <2>7. ~ Finished(older[i]) => Before(older[i])
    BY <2>2, <2>3, <2>4, <2>5 DEF Finished, Before, Fresh
  <2>8. older[i].ID = plays[i].ID
    BY <2>4 DEF p
  <2> QED BY <2>6, <2>7, <2>8
<1> HIDE DEF older
<1>4. older \in Seq(Play) /\ Len(older) = Len(plays)
  <2>1. DOMAIN older = 1 .. Len(plays) /\ older = [i \in 1 .. Len(plays) |-> older[i]]
    BY DEF older
  <2> QED BY <1>1, <1>3, <2>1
<1>5. Apart(older)
  BY <1>1, <1>3, <1>4 DEF Apart
<1>6. plays' \in Seq(Play) /\ Apart(plays')
  BY <1>2, <1>4, <1>5, UnfinishedPlays
<1>7. \A i \in 1 .. Len(plays') : Before(plays'[i])
  <2> TAKE i \in 1 .. Len(plays')
  <2>1. /\ ~ Finished(plays'[i])
        /\ \E j \in 1 .. Len(older) : plays'[i] = older[j]
    BY <1>2, <1>4, UnfinishedPlays
  <2> QED BY <1>3, <1>4, <2>1
<1>8. Idle \in Jobs /\ Idle.op = "idle"
  BY DEF Idle, Jobs
<1>9. ~ Locked(t)'
  BY <1>2, <1>8 DEF Locked, PoolInv, TypeInv
<1> QED BY <1>1, <1>2, <1>6, <1>7, <1>8, <1>9, StepPool

(* The invariant holds of two threads that add, remove and mix in any      *)
(* order (server.cpp:70-96, 377-419).                                      *)
THEOREM PoolInvariant == Spec => []PoolInv
<1>1. PoolInv /\ [Next]_vars => PoolInv'
  <2> SUFFICES ASSUME PoolInv, [Next]_vars PROVE PoolInv'
    OBVIOUS
  <2>1. ASSUME NEW t \in Threads, BeginAdd(t) PROVE PoolInv'
    <3>1. PICK s \in Sounds : Begin(t, Add(s, 1))
      BY <2>1 DEF BeginAdd
    <3>2. Add(s, 1) \in Jobs /\ Add(s, 1).op = "add"
      BY DEF Add, Jobs
    <3> QED BY <3>1, <3>2, BeginPool
  <2>2. ASSUME BeginRemove PROVE PoolInv'
    <3>1. PICK ID \in IDs : Begin("mqtt", Drop(ID))
      BY <2>2 DEF BeginRemove
    <3>2. Drop(ID) \in Jobs /\ Drop(ID).op = "drop" /\ "mqtt" \in Threads
      BY DEF Drop, Jobs, Threads
    <3> QED BY <3>1, <3>2, BeginPool
  <2>3. ASSUME NEW len \in 0 .. MaxLen, BeginMix(len) PROVE PoolInv'
    <3>1. Begin("serial", Mix(len, 1))
      BY <2>3 DEF BeginMix
    <3>2. Mix(len, 1) \in Jobs /\ Mix(len, 1).op = "mix" /\ Mix(len, 1).i = 1 /\ "serial" \in Threads
      BY DEF Mix, Jobs, Threads
    <3> QED BY <3>1, <3>2, BeginPool
  <2>4. ASSUME NEW t \in Threads, Run(t) PROVE PoolInv'
    BY <2>4, TryIDPool, PushBackPool, FindPool, EraseAtPool, MixOnePool, EraseFinishedPool DEF Run
  <2>5. CASE UNCHANGED vars
    BY <2>5 DEF vars, PoolInv, TypeInv, MutexInv, Apart, FreeInv, MixInv, RestInv, Mixing, Locked
  <2> QED BY <2>1, <2>2, <2>3, <2>4, <2>5, LockPool DEF Next
<1> QED BY <1>1, InitPool, PTL DEF Spec

(* Two threads never give two plays one ID (server.cpp:384-398).           *)
THEOREM UniqueIDsHolds == Spec => []UniqueIDs
<1>1. PoolInv => UniqueIDs
  BY DEF PoolInv, Apart, UniqueIDs, IsInjective
<1> QED BY <1>1, PoolInvariant, PTL

(* Every play has been taken on by what was mixed since it was added, and  *)
(* none that has ended is kept (server.cpp:78-96).                         *)
THEOREM InStepHolds == Spec => []InStep
<1>1. PoolInv => InStep
  <2> SUFFICES ASSUME PoolInv, ~ Mixing, NEW i \in 1 .. Len(plays)
               PROVE  plays[i].idx = plays[i].age /\ (plays[i].age > 0 => ~ Finished(plays[i]))
    BY DEF InStep
  <2>1. Before(plays[i]) /\ plays[i] \in Play
    BY DEF PoolInv, RestInv, TypeInv
  <2>2. plays[i].age \in Nat /\ Size[plays[i].sound] \in Nat
    BY <2>1, PoolAssumption DEF Play
  <2> QED BY <2>1, <2>2 DEF Before, Fresh, Finished
<1> QED BY <1>1, PoolInvariant, PTL

-----------------------------------------------------------------------------
\* Sequences put together.

\* What FlattenSeq computes: the first i of the sequences in a row.
Chain(f, s, n) == f = [i \in 1 .. n |-> IF i = 1 THEN s[i] ELSE f[i - 1] \o s[i]]

\* Its values.
LEMMA ChainOf == ASSUME NEW f, NEW s, NEW n \in Nat, Chain(f, s, n), NEW i \in 1 .. n
                 PROVE  f[i] = IF i = 1 THEN s[i] ELSE f[i - 1] \o s[i]
BY DEF Chain

\* There is such a function of any length.
LEMMA ChainExists == ASSUME NEW s, NEW n \in Nat
                     PROVE  \E f : Chain(f, s, n)
<1> DEFINE Exists(m) == \E f : Chain(f, s, m)
           S == {m \in Nat : Exists(m)}
<1>1. Exists(0)
  <2> DEFINE f == [i \in 1 .. 0 |-> s]
  <2>1. f = [i \in 1 .. 0 |-> IF i = 1 THEN s[i] ELSE f[i - 1] \o s[i]]
    OBVIOUS
  <2> QED BY <2>1 DEF Chain
<1>2. ASSUME NEW m \in Nat, Exists(m) PROVE Exists(m + 1)
  <2>1. PICK f : Chain(f, s, m)
    BY <1>2
  <2> DEFINE last == IF m = 0 THEN s[1] ELSE f[m] \o s[m + 1]
             g == [i \in 1 .. (m + 1) |-> IF i <= m THEN f[i] ELSE last]
  <2>2. ASSUME NEW i \in 1 .. (m + 1)
        PROVE  g[i] = IF i = 1 THEN s[i] ELSE g[i - 1] \o s[i]
    <3>1. CASE i = m + 1
      <4>1. g[i] = last
        BY <3>1
      <4>2. m # 0 => m \in 1 .. (m + 1) /\ g[m] = f[m] /\ i - 1 = m
        BY <3>1
      <4> QED BY <3>1, <4>1, <4>2
    <3>2. CASE i # m + 1
      <4>1. i \in 1 .. m
        BY <3>2
      <4>2. g[i] = f[i]
        BY <4>1
      <4>3. i # 1 => g[i - 1] = f[i - 1]
        BY <4>1
      <4>4. f[i] = IF i = 1 THEN s[i] ELSE f[i - 1] \o s[i]
        BY <2>1, <4>1, ChainOf
      <4> HIDE DEF g
      <4> QED BY <4>2, <4>3, <4>4
    <3> QED BY <3>1, <3>2
  <2>3. g = [i \in 1 .. (m + 1) |-> g[i]]
    OBVIOUS
  <2> HIDE DEF g
  <2>4. g = [i \in 1 .. (m + 1) |-> IF i = 1 THEN s[i] ELSE g[i - 1] \o s[i]]
    BY <2>2, <2>3
  <2> QED BY <2>4 DEF Chain
<1>3. 0 \in S /\ \A m \in Nat : m \in S => m + 1 \in S
  <2>1. 0 \in S
    BY <1>1
  <2>2. ASSUME NEW m \in Nat, m \in S PROVE m + 1 \in S
    BY <1>2, <2>2
  <2> QED BY <2>1, <2>2
<1>4. n \in S
  <2> HIDE DEF S
  <2> QED BY <1>3, SetInduction
<1> QED BY <1>4

\* And it depends on nothing but the sequences.
LEMMA ChainsAgree ==
    ASSUME NEW s, NEW t, NEW n \in Nat, NEW m \in Nat, n <= m,
           \A i \in 1 .. n : s[i] = t[i],
           NEW f, NEW g, Chain(f, s, n), Chain(g, t, m)
    PROVE  \A i \in 1 .. n : f[i] = g[i]
<1> DEFINE T == {i \in 1 .. n : f[i] # g[i]}
<1>1. ASSUME T # {} PROVE FALSE
  <2>1. PICK i \in T : \A k \in T : i <= k
    <3>1. T \subseteq Nat
      OBVIOUS
    <3> HIDE DEF T
    <3> QED BY <1>1, <3>1, LeastMember
  <2>2. i \in 1 .. n /\ i \in 1 .. m /\ f[i] # g[i]
    OBVIOUS
  <2>3. f[i] = IF i = 1 THEN s[i] ELSE f[i - 1] \o s[i]
    BY <2>2, ChainOf
  <2>4. g[i] = IF i = 1 THEN t[i] ELSE g[i - 1] \o t[i]
    BY <2>2, ChainOf
  <2>5. s[i] = t[i]
    BY <2>2
  <2>6. i # 1
    BY <2>2, <2>3, <2>4, <2>5
  <2>7. i - 1 \in 1 .. n /\ ~ (i <= i - 1)
    BY <2>2, <2>6
  <2>8. i - 1 \notin T
    <3> HIDE DEF T
    <3> QED BY <2>1, <2>7
  <2>9. f[i - 1] = g[i - 1]
    BY <2>7, <2>8
  <2> QED BY <2>2, <2>3, <2>4, <2>5, <2>6, <2>9
<1> QED BY <1>1

\* FlattenSeq is the last of its values.
LEMMA FlattenIs ==
    ASSUME NEW s, Len(s) \in Nat \ {0}
    PROVE  \E f : Chain(f, s, Len(s)) /\ FlattenSeq(s) = f[Len(s)]
<1> DEFINE f == CHOOSE f : f = [i \in 1 .. Len(s) |-> IF i = 1 THEN s[i] ELSE f[i - 1] \o s[i]]
<1>1. Chain(f, s, Len(s))
  <2>1. \E h : Chain(h, s, Len(s))
    BY ChainExists
  <2> QED BY <2>1 DEF Chain
<1>2. FlattenSeq(s) = f[Len(s)]
  BY DEF FlattenSeq
<1> QED BY <1>1, <1>2

\* A sequence more is put at the end.
LEMMA FlattenMore ==
    ASSUME NEW s, NEW t, NEW n \in Nat, Len(s) = n, Len(t) = n + 1,
           \A i \in 1 .. n : s[i] = t[i]
    PROVE  FlattenSeq(t) = IF n = 0 THEN t[1] ELSE FlattenSeq(s) \o t[n + 1]
<1>1. PICK g : Chain(g, t, n + 1) /\ FlattenSeq(t) = g[n + 1]
  <2>1. Len(t) \in Nat \ {0}
    OBVIOUS
  <2> QED BY <2>1, FlattenIs
<1>2. n + 1 \in 1 .. n + 1 /\ n + 1 \in Nat /\ n <= n + 1 /\ (n + 1) - 1 = n
  OBVIOUS
<1>3. g[n + 1] = IF n + 1 = 1 THEN t[n + 1] ELSE g[n] \o t[n + 1]
  BY <1>1, <1>2, ChainOf
<1>4. CASE n = 0
  BY <1>1, <1>3, <1>4
<1>5. CASE n # 0
  <2>1. PICK f : Chain(f, s, n) /\ FlattenSeq(s) = f[n]
    <3>1. Len(s) \in Nat \ {0}
      BY <1>5
    <3> QED BY <3>1, FlattenIs
  <2>2. \A i \in 1 .. n : f[i] = g[i]
    BY <1>1, <1>2, <2>1, ChainsAgree
  <2>3. n \in 1 .. n /\ n + 1 # 1
    BY <1>5
  <2> QED BY <1>1, <1>3, <1>5, <2>1, <2>2, <2>3
<1> QED BY <1>4, <1>5

-----------------------------------------------------------------------------
\* Lines and their text.

Char == {"a", "b", "c", Newline}

\* A finite set of sequences has a longest one.
LEMMA Longest ==
    ASSUME NEW S, IsFiniteSet(S), \A l \in S : Len(l) \in Nat
    PROVE  \A l \in S : /\ Max({Len(k) : k \in S}) \in Nat
                        /\ Len(l) <= Max({Len(k) : k \in S})
<1> DEFINE L == {Len(k) : k \in S}
<1>1. PICK seq \in Seq(S) : \A l \in S : \E n \in 1 .. Len(seq) : seq[n] = l
  BY DEF IsFiniteSet
<1> DEFINE Bounded(n) == \E b \in Nat : \A i \in 1 .. n : Len(seq[i]) <= b
           T == {n \in 0 .. Len(seq) : ~ Bounded(n)}
<1>2. ASSUME T # {} PROVE FALSE
  <2>1. PICK n \in T : \A k \in T : n <= k
    <3>1. T \subseteq Nat
      OBVIOUS
    <3> HIDE DEF T
    <3> QED BY <1>2, <3>1, LeastMember
  <2>2. n \in 0 .. Len(seq) /\ ~ Bounded(n) /\ Len(seq) \in Nat
    OBVIOUS
  <2>3. n # 0
    <3>1. \A i \in 1 .. 0 : Len(seq[i]) <= 0
      OBVIOUS
    <3>2. Bounded(0)
      BY <3>1
    <3> HIDE DEF Bounded
    <3> QED BY <2>2, <3>2
  <2>4. n - 1 \in 0 .. Len(seq) /\ ~ (n <= n - 1) /\ n \in 1 .. Len(seq)
    BY <2>2, <2>3
  <2>5. n - 1 \notin T
    <3> HIDE DEF T
    <3> QED BY <2>1, <2>4
  <2>6. PICK b \in Nat : \A i \in 1 .. n - 1 : Len(seq[i]) <= b
    BY <2>4, <2>5
  <2> DEFINE e == Len(seq[n])
             d == IF b <= e THEN e ELSE b
  <2>7. e \in Nat
    BY <2>4
  <2> HIDE DEF e, T, Bounded
  <2>8. d \in Nat /\ b <= d /\ e <= d
    BY <2>7
  <2>9. ASSUME NEW i \in 1 .. n PROVE Len(seq[i]) <= d
    <3>1. CASE i = n
      BY <2>8, <3>1 DEF e
    <3>2. CASE i # n
      <4>1. i \in 1 .. n - 1 /\ i \in 1 .. Len(seq)
        BY <2>2, <3>2
      <4>2. Len(seq[i]) <= b
        BY <2>6, <4>1
      <4>3. Len(seq[i]) \in Nat
        BY <4>1
      <4> HIDE DEF d
      <4> QED BY <2>8, <4>2, <4>3
    <3> QED BY <3>1, <3>2
  <2>10. Bounded(n)
    <3> HIDE DEF d
    <3> QED BY <2>8, <2>9 DEF Bounded
  <2> QED BY <2>2, <2>10
<1>3. PICK b \in Nat : \A i \in 1 .. Len(seq) : Len(seq[i]) <= b
  <2>1. Len(seq) \in 0 .. Len(seq)
    OBVIOUS
  <2>2. Len(seq) \notin T
    <3> HIDE DEF T
    <3> QED BY <1>2
  <2> QED BY <2>1, <2>2
<1>4. \A l \in S : Len(l) <= b
  BY <1>1, <1>3
<1> DEFINE U == {c \in Nat : \A l \in S : Len(l) <= c}
<1>5. PICK c \in U : \A e \in U : c <= e
  <2>1. U \subseteq Nat /\ b \in U
    BY <1>4
  <2> HIDE DEF U
  <2> QED BY <2>1, LeastMember
<1>6. c \in Nat /\ \A l \in S : Len(l) <= c
  OBVIOUS
<1>7. ASSUME S # {} PROVE c \in L
  <2>1. SUFFICES ASSUME c \notin L PROVE FALSE
    OBVIOUS
  <2>2. \A l \in S : Len(l) # c
    BY <2>1
  <2>3. \A l \in S : Len(l) < c /\ Len(l) <= c - 1
    BY <1>6, <2>2
  <2>4. c - 1 \in Nat /\ ~ (c <= c - 1)
    BY <1>6, <1>7, <2>3
  <2>5. c - 1 \in U
    BY <2>3, <2>4
  <2> HIDE DEF U
  <2> QED BY <1>5, <2>4, <2>5
<1>8. S # {} => /\ Max(L) \in L
                /\ \A x \in L : Max(L) >= x
  <2>1. \A x \in L : c >= x
    BY <1>6
  <2> HIDE DEF L
  <2> QED BY <1>7, <2>1 DEF Max
<1> QED BY <1>8

Width == 1 + Max({Len(l) : l \in Lines})

\* A line with its newline.
LEMMA Wide == ASSUME NEW l \in Lines
              PROVE  /\ Width \in Nat /\ Len(l) + 1 <= Width
                     /\ Append(l, Newline) \in Seq(Char)
                     /\ Len(Append(l, Newline)) = Len(l) + 1
                     /\ Append(l, Newline) # <<>>
<1>1. l \in Seq({"a", "b", "c"})
  BY ScreenAssumption
<1>2. \A k \in Lines : Len(k) \in Nat
  BY ScreenAssumption
<1>3. Max({Len(k) : k \in Lines}) \in Nat /\ Len(l) <= Max({Len(k) : k \in Lines})
  BY <1>2, Longest, ScreenAssumption
<1>4. l \in Seq(Char) /\ Newline \in Char
  BY <1>1 DEF Char
<1>5. /\ Append(l, Newline) \in Seq(Char)
      /\ Len(Append(l, Newline)) = Len(l) + 1
      /\ Len(Append(l, Newline)) # 0
  BY <1>4
<1> QED BY <1>2, <1>3, <1>5 DEF Width

\* The text of nothing is nothing, and a line more puts its characters at the end.
LEMMA TextOfNone == Text(<<>>) = <<>>
BY DEF Text, FlattenSeq

LEMMA TextMore ==
    ASSUME NEW p \in Seq(Lines), NEW l \in Lines, Text(p) \in Seq(Char)
    PROVE  Text(Append(p, l)) = Text(p) \o Append(l, Newline)
<1> DEFINE q == Append(p, l)
           s == [i \in 1 .. Len(p) |-> Append(p[i], Newline)]
           t == [i \in 1 .. Len(q) |-> Append(q[i], Newline)]
<1>1. Len(p) \in Nat /\ Len(q) = Len(p) + 1 /\ q[Len(q)] = l /\ \A i \in 1 .. Len(p) : q[i] = p[i]
  OBVIOUS
<1>2. Text(p) = FlattenSeq(s) /\ Text(q) = FlattenSeq(t)
  BY DEF Text
<1> HIDE DEF q
<1>3. Len(s) = Len(p) /\ Len(t) = Len(q)
  BY <1>1
<1>4. \A i \in 1 .. Len(s) : s[i] = t[i]
  BY <1>1, <1>3
<1>5. t[Len(t)] = Append(l, Newline)
  BY <1>1, <1>3
<1>6. Len(s) = 0 => s = <<>>
  BY <1>1, <1>3
<1> HIDE DEF s, t
<1>7. FlattenSeq(t) = IF Len(p) = 0 THEN t[1] ELSE FlattenSeq(s) \o t[Len(p) + 1]
  <2>1. Len(p) \in Nat /\ Len(s) = Len(p) /\ Len(t) = Len(p) + 1
    BY <1>1, <1>3
  <2>2. \A i \in 1 .. Len(p) : s[i] = t[i]
    BY <1>3, <1>4
  <2> DEFINE n == Len(p)
  <2>3. n \in Nat /\ Len(s) = n /\ Len(t) = n + 1 /\ \A i \in 1 .. n : s[i] = t[i]
    BY <2>1, <2>2
  <2>4. FlattenSeq(t) = IF n = 0 THEN t[1] ELSE FlattenSeq(s) \o t[n + 1]
    <3> HIDE DEF n
    <3> QED BY <2>3, FlattenMore
  <2> QED BY <2>4
<1>8. CASE Len(s) = 0
  <2>1. Text(p) = <<>>
    BY <1>2, <1>6, <1>8 DEF FlattenSeq
  <2>2. Text(q) = Append(l, Newline)
    BY <1>1, <1>2, <1>3, <1>5, <1>7, <1>8
  <2>3. Append(l, Newline) \in Seq(Char)
    BY Wide
  <2>4. <<>> \o Append(l, Newline) = Append(l, Newline)
    BY <2>3
  <2> QED BY <2>1, <2>2, <2>4 DEF q
<1>9. CASE Len(s) # 0
  BY <1>1, <1>2, <1>3, <1>5, <1>7, <1>9 DEF q
<1> QED BY <1>8, <1>9

-----------------------------------------------------------------------------
\* As long as no two calls have overlapped: the cells before finish hold the
\* text so far, the thread that prints has the rest of it, and what was sent is
\* what the cells before start held, and one more while the serial thread sends.

Left(line, txt, done) ==
  /\ Len(line) = Len(txt) - done
  /\ \A i \in 1 .. Len(line) : line[i] = txt[done + i]

Printing ==
  /\ \A t \in Threads : rest[t] # <<>> => Left(rest[t], Text(printed), finish)
  /\ (\A t \in Threads : rest[t] = <<>>) => finish = Len(Text(printed))
  /\ \A t \in Threads : at[t] # None =>
        rest[t] # <<>> /\ at[t] = finish /\ cells[finish] = Head(rest[t])
  /\ \A t, u \in Threads : rest[t] # <<>> /\ rest[u] # <<>> => t = u

Taken == start + (IF sending THEN 1 ELSE 0)

Sending ==
  /\ \A i \in 0 .. finish - 1 : cells[i] = Text(printed)[i + 1]
  /\ Taken <= finish /\ Len(sent) = Taken
  /\ \A i \in 1 .. Taken : sent[i] = Text(printed)[i]

QueueType ==
  /\ printed \in Seq(Lines) /\ Len(printed) <= MaxLines
  /\ Text(printed) \in Seq(Char)
  /\ printed # <<>> => Len(Text(printed)) <= Len(printed) * Width
  /\ cells \in [Cells -> Char \cup {Stale}]
  /\ start \in Nat /\ finish \in Nat /\ finish <= Len(Text(printed))
  /\ rest \in [Threads -> Seq(Char)] /\ at \in [Threads -> Int]
  /\ sending \in BOOLEAN /\ sent \in Seq(Char)

QueueInv == /\ mixed \in BOOLEAN
            /\ ~ mixed => QueueType /\ Printing /\ Sending


\* Nothing is printed.
LEMMA InitQueue == ScreenInit => QueueInv
<1> SUFFICES ASSUME ScreenInit PROVE QueueInv
  OBVIOUS
<1>1. mixed = FALSE /\ sending = FALSE /\ start = 0 /\ finish = 0 /\ printed = <<>> /\ sent = <<>>
  BY DEF ScreenInit
<1>2. rest = [t \in Threads |-> <<>>] /\ at = [t \in Threads |-> None]
  BY DEF ScreenInit
<1>3. Text(printed) = <<>>
  BY <1>1, TextOfNone
<1>4. cells \in [Cells -> Char \cup {Stale}]
  BY DEF ScreenInit
<1>5. QueueType
  <2>1. printed \in Seq(Lines) /\ Len(printed) <= MaxLines
    BY <1>1, ScreenAssumption
  <2>2. sent \in Seq(Char) /\ Text(printed) \in Seq(Char) /\ finish <= Len(Text(printed))
    <3>1. Len(<<>>) = 0 /\ <<>> \in Seq(Char)
      OBVIOUS
    <3>2. sent \in Seq(Char)
      BY <1>1, <3>1
    <3>3. Text(printed) \in Seq(Char) /\ finish = 0 /\ Len(Text(printed)) = 0
      BY <1>1, <1>3, <3>1
    <3> QED BY <3>2, <3>3
  <2>3. rest \in [Threads -> Seq(Char)] /\ at \in [Threads -> Int]
    BY <1>2 DEF None
  <2> QED BY <1>1, <1>4, <2>1, <2>2, <2>3 DEF QueueType
<1>6. Printing
  BY <1>1, <1>2, <1>3 DEF Printing
<1>7. Sending
  BY <1>1, <1>3 DEF Sending, Taken
<1> QED BY <1>1, <1>5, <1>6, <1>7 DEF QueueInv

\* A call that overlaps no other begins when the text so far is in the queue.
LEMMA PrintlnQueue ==
    ASSUME QueueType, Printing, Sending, NEW t \in Threads, Println(t), ~ mixed'
    PROVE  QueueType' /\ Printing' /\ Sending'
<1> DEFINE T == Text(printed)
<1>1. PICK l \in Lines : /\ rest' = [rest EXCEPT ![t] = Append(l, Newline)]
                         /\ printed' = Append(printed, l)
  BY DEF Println
<1> DEFINE s == Append(l, Newline)
<1>2. /\ \A u \in Threads : rest[u] = <<>>
      /\ Len(printed) < MaxLines
      /\ UNCHANGED <<cells, start, finish, at, sending, sent>>
  BY DEF Println, queue
<1>3. Width \in Nat /\ Len(s) <= Width /\ s \in Seq(Char) /\ s # <<>> /\ Len(s) = Len(l) + 1
  BY Wide
<1>4. T \in Seq(Char) /\ printed \in Seq(Lines) /\ finish = Len(T)
  BY <1>2 DEF QueueType, Printing
<1>5. Text(printed') = T \o s
  BY <1>1, <1>4, TextMore
<1> HIDE DEF s
<1>6. /\ T \o s \in Seq(Char) /\ Len(T \o s) = Len(T) + Len(s)
      /\ \A i \in 1 .. Len(T) : (T \o s)[i] = T[i]
      /\ \A i \in 1 .. Len(s) : (T \o s)[Len(T) + i] = s[i]
  BY <1>3, <1>4
<1>7. rest' = [rest EXCEPT ![t] = s]
  BY <1>1 DEF s
<1>8. rest \in [Threads -> Seq(Char)]
  BY DEF QueueType
<1>9. rest'[t] = s /\ \A u \in Threads : u # t => rest'[u] = <<>>
  BY <1>2, <1>7, <1>8
<1>10. Len(printed') = Len(printed) + 1 /\ printed' \in Seq(Lines) /\ Len(printed) \in Nat
  BY <1>1, <1>4
<1>11. QueueType'
  <2>1. Len(T) <= Len(printed) * Width
    <3>1. CASE printed = <<>>
      <4>1. Len(T) = 0 /\ Len(printed) = 0 /\ Len(printed) * Width = 0
        BY <1>3, <3>1, TextOfNone
      <4> QED BY <4>1
    <3>2. CASE printed # <<>>
      BY <3>2 DEF QueueType
    <3> QED BY <3>1, <3>2
  <2>2. Len(printed') * Width = Len(printed) * Width + Width
    BY <1>3, <1>10
  <2>3. Len(T) \in Nat /\ Len(s) \in Nat /\ Len(printed) * Width \in Nat
    BY <1>3, <1>4, <1>10
  <2>4. Len(Text(printed')) <= Len(printed') * Width /\ Len(T) <= Len(Text(printed'))
    BY <1>3, <1>5, <1>6, <2>1, <2>2, <2>3
  <2>5. rest' \in [Threads -> Seq(Char)]
    BY <1>3, <1>7, <1>8
  <2>6. Len(printed') <= MaxLines
    BY <1>2, <1>10, ScreenAssumption
  <2>7. Text(printed') \in Seq(Char) /\ finish' <= Len(Text(printed'))
    BY <1>2, <1>4, <1>5, <1>6, <2>4
  <2> QED BY <1>2, <1>10, <2>4, <2>5, <2>6, <2>7 DEF QueueType
<1>12. Printing'
  <2>1. Left(rest'[t], Text(printed'), finish')
    BY <1>2, <1>3, <1>4, <1>5, <1>6, <1>9 DEF Left
  <2>2. \A u \in Threads : at'[u] = None
    BY <1>2 DEF Printing
  <2>3. \A u \in Threads : rest'[u] # <<>> => u = t
    BY <1>9
  <2> QED BY <1>3, <1>9, <2>1, <2>2, <2>3 DEF Printing
<1>13. Sending'
  <2>1. Taken' = Taken /\ Taken \in Nat /\ Taken <= finish
    BY <1>2 DEF Taken, QueueType, Sending
  <2>2. \A i \in 0 .. finish - 1 : i + 1 \in 1 .. Len(T)
    BY <1>4
  <2>3. \A i \in 1 .. Taken : i \in 1 .. Len(T)
    BY <1>4, <2>1
  <2>4. \A i \in 0 .. finish - 1 : cells'[i] = Text(printed')[i + 1]
    BY <1>2, <1>5, <1>6, <2>2 DEF Sending
  <2>5. \A i \in 1 .. Taken : sent'[i] = Text(printed')[i]
    BY <1>2, <1>5, <1>6, <2>3 DEF Sending
  <2> QED BY <1>2, <2>1, <2>4, <2>5 DEF Sending
<1> QED BY <1>11, <1>12, <1>13

\* The thread that prints is alone and has the rest of the text.
LEMMA AloneWith ==
    ASSUME QueueType, Printing, NEW t \in Threads, rest[t] # <<>>
    PROVE  /\ Len(rest[t]) \in Nat \ {0} /\ Len(rest[t]) = Len(Text(printed)) - finish
           /\ Head(rest[t]) = Text(printed)[finish + 1] /\ Head(rest[t]) \in Char
           /\ finish < Len(Text(printed)) /\ \A i \in 0 .. finish : i \in Cells
           /\ \A u \in Threads : u # t => rest[u] = <<>> /\ at[u] = None
<1> DEFINE T == Text(printed)
<1>1. rest[t] \in Seq(Char) /\ finish \in Nat /\ T \in Seq(Char)
  BY DEF QueueType
<1>2. Len(rest[t]) \in Nat \ {0}
  BY <1>1
<1>3. Left(rest[t], T, finish)
  BY DEF Printing
<1>4. Head(rest[t]) = rest[t][1] /\ rest[t][1] \in Char /\ rest[t][1] = T[finish + 1]
  BY <1>1, <1>2, <1>3 DEF Left
<1>5. Len(rest[t]) = Len(T) - finish /\ Len(T) \in Nat
  BY <1>1, <1>3 DEF Left
<1>6. finish < Len(T)
  BY <1>1, <1>2, <1>5
<1>7. \A i \in 0 .. finish : i \in Cells
  <2>1. T # <<>>
    BY <1>1, <1>6
  <2>2. printed # <<>>
    BY <2>1, TextOfNone
  <2>3. printed \in Seq(Lines) /\ Len(printed) <= MaxLines /\ Len(T) <= Len(printed) * Width
    BY <2>2 DEF QueueType
  <2>4. printed[1] \in Lines /\ Len(printed) \in Nat
    BY <2>2, <2>3
  <2>5. Width \in Nat
    BY <2>4, Wide
  <2>6. MaxLines \in Nat /\ MaxLines - Len(printed) \in Nat
    BY <2>3, <2>4, ScreenAssumption
  <2> DEFINE n == Len(printed)
             d == MaxLines - n
  <2>7. d \in Nat /\ n \in Nat /\ MaxLines = n + d
    BY <2>4, <2>6
  <2> HIDE DEF n, d
  <2>8. MaxLines * Width = n * Width + d * Width /\ d * Width \in Nat /\ n * Width \in Nat
    BY <2>5, <2>7
  <2>9. Len(T) <= n * Width
    BY <2>3 DEF n
  <2>10. \A i \in 0 .. finish : i \in 0 .. MaxLines * Width
    BY <1>1, <1>5, <1>6, <2>8, <2>9
  <2> QED BY <2>10 DEF Cells, Width
<1>8. \A u \in Threads : u # t => rest[u] = <<>> /\ at[u] = None
  BY DEF Printing
<1> QED BY <1>2, <1>4, <1>5, <1>6, <1>7, <1>8

\* A character is stored behind the text so far.
LEMMA StoreQueue ==
    ASSUME QueueType, Printing, Sending, NEW t \in Threads, Store(t)
    PROVE  QueueType' /\ Printing' /\ Sending'
<1> DEFINE T == Text(printed)
<1>1. /\ rest[t] # <<>> /\ at[t] = None
      /\ cells' = [cells EXCEPT ![finish] = Head(rest[t])]
      /\ at' = [at EXCEPT ![t] = finish]
      /\ UNCHANGED <<start, finish, rest, sending, printed, sent>>
  BY DEF Store, Stored
<1>2. /\ Head(rest[t]) \in Char /\ \A i \in 0 .. finish : i \in Cells
      /\ \A u \in Threads : u # t => rest[u] = <<>> /\ at[u] = None
  BY <1>1, AloneWith
<1>3. /\ cells \in [Cells -> Char \cup {Stale}] /\ at \in [Threads -> Int]
      /\ finish \in Nat
  BY DEF QueueType
<1>4. cells'[finish] = Head(rest[t]) /\ \A i \in Cells : i # finish => cells'[i] = cells[i]
  <2>1. finish \in Cells
    BY <1>2, <1>3
  <2> QED BY <1>1, <1>3, <2>1
<1>5. QueueType'
  <2>1. cells' \in [Cells -> Char \cup {Stale}] /\ at' \in [Threads -> Int]
    BY <1>1, <1>2, <1>3
  <2> QED BY <1>1, <2>1 DEF QueueType
<1>6. Printing'
  <2>1. at'[t] = finish /\ \A u \in Threads : u # t => at'[u] = None
    BY <1>1, <1>2, <1>3
  <2> QED BY <1>1, <1>4, <2>1 DEF Printing
<1>7. Sending'
  <2>1. \A i \in 0 .. finish - 1 : i \in Cells /\ i # finish
    BY <1>2, <1>3
  <2>2. \A i \in 0 .. finish - 1 : cells'[i] = cells[i]
    BY <1>4, <2>1
  <2> QED BY <1>1, <2>2 DEF Sending, Taken
<1> QED BY <1>5, <1>6, <1>7

\* It becomes part of it.
LEMMA AdvanceQueue ==
    ASSUME QueueType, Printing, Sending, NEW t \in Threads, Advance(t)
    PROVE  QueueType' /\ Printing' /\ Sending'
<1> DEFINE T == Text(printed)
           r == rest[t]
<1>1. /\ at[t] # None
      /\ finish' \in {at[t] + 1, finish + 1}
      /\ at' = [at EXCEPT ![t] = None]
      /\ rest' = [rest EXCEPT ![t] = Tail(@)]
      /\ UNCHANGED <<cells, start, sending, printed, sent>>
  BY DEF Advance
<1>2. rest[t] # <<>> /\ at[t] = finish /\ cells[finish] = Head(rest[t])
  BY <1>1 DEF Printing
<1>3. /\ Len(r) \in Nat \ {0} /\ Len(r) = Len(T) - finish
      /\ Head(r) = T[finish + 1]
      /\ finish < Len(T)
      /\ \A u \in Threads : u # t => rest[u] = <<>> /\ at[u] = None
  BY <1>2, AloneWith
<1>4. finish' = finish + 1
  BY <1>1, <1>2
<1>5. /\ rest \in [Threads -> Seq(Char)] /\ at \in [Threads -> Int]
      /\ finish \in Nat /\ T \in Seq(Char) /\ Len(T) \in Nat /\ r \in Seq(Char)
      /\ start \in Nat /\ sending \in BOOLEAN
  BY DEF QueueType
<1>6. rest'[t] = Tail(r) /\ \A u \in Threads : u # t => rest'[u] = <<>>
  BY <1>1, <1>3, <1>5
<1>7. at'[t] = None /\ \A u \in Threads : at'[u] = None
  BY <1>1, <1>3, <1>5
<1>8. /\ Tail(r) \in Seq(Char) /\ Len(Tail(r)) = Len(r) - 1
      /\ \A i \in 1 .. Len(r) - 1 : Tail(r)[i] = r[i + 1]
  BY <1>3, <1>5
<1>9. QueueType'
  <2>1. rest' \in [Threads -> Seq(Char)] /\ at' \in [Threads -> Int]
    BY <1>1, <1>5, <1>8 DEF None
  <2>2. finish' \in Nat /\ finish' <= Len(T)
    BY <1>3, <1>4, <1>5
  <2> QED BY <1>1, <2>1, <2>2 DEF QueueType
<1>10. Printing'
  <2>1. Left(r, T, finish)
    BY <1>2 DEF Printing
  <2>2. \A i \in 1 .. Len(r) - 1 : r[i + 1] = T[finish + 1 + i]
    BY <1>3, <1>5, <2>1 DEF Left
  <2>3. Left(Tail(r), T, finish + 1)
    BY <1>3, <1>5, <1>8, <2>2 DEF Left
  <2>4. Tail(r) = <<>> => finish + 1 = Len(T)
    <3> DEFINE e == Tail(r)
    <3>1. e = <<>> => Len(e) = 0
      <4> HIDE DEF e
      <4> QED OBVIOUS
    <3>2. Len(e) = Len(r) - 1
      BY <1>8
    <3> HIDE DEF r, e
    <3>3. e = <<>> => finish + 1 = Len(T)
      BY <1>3, <1>5, <3>1, <3>2
    <3> QED BY <3>3 DEF e
  <2>5. \A u \in Threads : rest'[u] # <<>> => u = t
    BY <1>6
  <2> HIDE DEF r
  <2> QED BY <1>1, <1>4, <1>6, <1>7, <2>3, <2>4, <2>5 DEF Printing
<1>11. Sending'
  <2>1. \A i \in 0 .. finish : i = finish \/ i \in 0 .. finish - 1
    BY <1>5
  <2>2. cells[finish] = T[finish + 1]
    BY <1>2, <1>3
  <2>3. \A i \in 0 .. finish : cells[i] = T[i + 1]
    BY <2>1, <2>2 DEF Sending
  <2>4. Taken' = Taken /\ Taken <= finish + 1 /\ (finish + 1) - 1 = finish
    BY <1>1, <1>5 DEF Taken, Sending
  <2> QED BY <1>1, <1>4, <2>3, <2>4 DEF Sending
<1> QED BY <1>9, <1>10, <1>11

\* What is sent comes from before finish.
LEMMA SendOneQueue ==
    ASSUME QueueType, Printing, Sending, SendOne
    PROVE  QueueType' /\ Printing' /\ Sending'
<1> DEFINE T == Text(printed)
<1>1. UNCHANGED <<cells, start, finish, rest, at, printed>> /\ ~ sending
  BY DEF SendOne, queue
<1>2. CASE UNCHANGED <<sent, sending>>
  BY <1>1, <1>2 DEF QueueType, Printing, Sending, Taken
<1>3. CASE NotEmpty /\ sent' = Append(sent, cells[start]) /\ sending' = TRUE
  <2>1. start \in Nat /\ finish \in Nat /\ finish <= Len(T) /\ T \in Seq(Char) /\ sent \in Seq(Char)
    BY DEF QueueType
  <2>2. start <= finish /\ Len(sent) = start /\ Taken = start /\ Taken' = start + 1
    BY <1>1, <1>3, <2>1 DEF Sending, Taken
  <2>3. start < finish
    BY <1>3, <2>1, <2>2 DEF NotEmpty
  <2>4. start \in 0 .. finish - 1 /\ start + 1 \in 1 .. Len(T)
    BY <2>1, <2>3
  <2>5. cells[start] = T[start + 1] /\ cells[start] \in Char
    BY <2>1, <2>4 DEF Sending
  <2>6. /\ sent' \in Seq(Char) /\ Len(sent') = start + 1 /\ sent'[start + 1] = cells[start]
        /\ \A i \in 1 .. start : sent'[i] = sent[i]
    BY <1>3, <2>1, <2>2, <2>5
  <2>7. \A i \in 1 .. start + 1 : i = start + 1 \/ i \in 1 .. start
    BY <2>1
  <2>8. \A i \in 1 .. start + 1 : sent'[i] = T[i]
    BY <2>2, <2>5, <2>6, <2>7 DEF Sending
  <2>9. Sending'
    BY <1>1, <2>1, <2>2, <2>3, <2>6, <2>8 DEF Sending
  <2> QED BY <1>1, <1>3, <2>6, <2>9 DEF QueueType, Printing
<1> QED BY <1>2, <1>3 DEF SendOne

\* What was sent is taken out.
LEMMA PopQueue ==
    ASSUME QueueType, Printing, Sending, Pop
    PROVE  QueueType' /\ Printing' /\ Sending'
<1>1. /\ UNCHANGED <<cells, finish, rest, at, printed, sent>>
      /\ sending /\ start' = start + 1 /\ sending' = FALSE
  BY DEF Pop
<1>2. start \in Nat
  BY DEF QueueType
<1>3. Taken' = Taken
  BY <1>1, <1>2 DEF Taken
<1>4. QueueType' /\ Printing'
  <2>1. start' \in Nat /\ sending' \in BOOLEAN
    <3>1. start' \in Nat
      BY <1>1, <1>2
    <3>2. sending' \in BOOLEAN
      BY <1>1
    <3> QED BY <3>1, <3>2
  <2>2. QueueType'
    BY <1>1, <2>1 DEF QueueType
  <2> QED BY <1>1, <2>2 DEF Printing
<1>5. Sending'
  BY <1>1, <1>3 DEF Sending
<1> QED BY <1>4, <1>5

\* Once calls have overlapped, they always have.
LEMMA QueueStep == QueueInv /\ [ScreenNext]_screenVars => QueueInv'
<1> SUFFICES ASSUME QueueInv, [ScreenNext]_screenVars PROVE QueueInv'
  OBVIOUS
<1>1. mixed' \in BOOLEAN /\ (~ mixed' => ~ mixed)
  BY DEF QueueInv, ScreenNext, Println, Store, Advance, SendOne, Pop, screenVars
<1>2. SUFFICES ASSUME ~ mixed' PROVE QueueType' /\ Printing' /\ Sending'
  BY <1>1 DEF QueueInv
<1>3. QueueType /\ Printing /\ Sending
  BY <1>1, <1>2 DEF QueueInv
<1>4. CASE \E t \in Threads : Println(t)
  BY <1>2, <1>3, <1>4, PrintlnQueue
<1>5. CASE \E t \in Threads : Store(t)
  BY <1>3, <1>5, StoreQueue
<1>6. CASE \E t \in Threads : Advance(t)
  BY <1>3, <1>6, AdvanceQueue
<1>7. CASE SendOne
  BY <1>3, <1>7, SendOneQueue
<1>8. CASE Pop
  BY <1>3, <1>8, PopQueue
<1>9. CASE UNCHANGED screenVars
  BY <1>3, <1>9 DEF screenVars, queue, QueueType, Printing, Sending, Taken
<1> QED BY <1>4, <1>5, <1>6, <1>7, <1>8, <1>9 DEF ScreenNext

\* The queue holds the text as screen_println was given it, while no two calls have
\* overlapped (server.cpp:114-127).
THEOREM QueueInvariant == ScreenSpec => []QueueInv
<1>1. ScreenInit => QueueInv
  BY InitQueue
<1>2. QueueInv /\ [ScreenNext]_screenVars => QueueInv'
  BY QueueStep
<1> QED BY <1>1, <1>2, PTL DEF ScreenSpec

\* What is sent to the screen are the lines, whole and in order, for any lines and
\* any interleaving of the threads in which no two calls overlap (server.cpp:114-127).
THEOREM LinesWholeHolds == ScreenSpec => []LinesWhole
<1>1. QueueInv => LinesWhole
  <2> SUFFICES ASSUME QueueInv, ~ mixed PROVE IsPrefix(sent, Text(printed))
    BY DEF LinesWhole
  <2> DEFINE T == Text(printed)
  <2>1. QueueType /\ Sending
    BY DEF QueueInv
  <2>2. sent \in Seq(Char) /\ T \in Seq(Char) /\ finish <= Len(T) /\ finish \in Nat
    BY <2>1 DEF QueueType
  <2>3. Len(sent) <= Len(T) /\ \A i \in 1 .. Len(sent) : sent[i] = T[i]
    BY <2>1, <2>2 DEF Sending
  <2> HIDE DEF T
  <2>4. SubSeq(sent, 1, Len(sent)) = SubSeq(T, 1, Len(sent))
    BY <2>2, <2>3
  <2> QED BY <2>3, <2>4 DEF IsPrefix, T
<1> QED BY <1>1, QueueInvariant, PTL

-----------------------------------------------------------------------------
(* The keys of the board.  A key's character stands for its key on the way  *)
(* through indat and, as a note, after it.                                 *)

\* The loop over indat, round by round (server.cpp:216-242).

\* What is on the line, the loop's record, and its start.
KeyChar == 0 .. 15 \cup {NL, P}
Loop == [rest : Seq(KeyChar), notes : Seq(Nat), ok : BOOLEAN]
Begun(s) == [rest |-> s, notes |-> <<>>, ok |-> TRUE]

\* f is the loop over s after each of its first m rounds.
Rounds(f, s, m) == f = [n \in 0 .. m |-> IF n = 0 THEN {Begun(s)}
                                       ELSE {Round(loop, n - 1) : loop \in f[n - 1]}]

\* There is such a function for any number of rounds.
LEMMA RoundsExist == ASSUME NEW s, NEW m \in Nat
                     PROVE  \E f : Rounds(f, s, m)
<1> DEFINE Exists(k) == \E f : Rounds(f, s, k)
           S == {k \in Nat : Exists(k)}
<1>1. Exists(0)
  <2> DEFINE f == [n \in 0 .. 0 |-> {Begun(s)}]
  <2>1. f = [n \in 0 .. 0 |-> IF n = 0 THEN {Begun(s)} ELSE {Round(loop, n - 1) : loop \in f[n - 1]}]
    OBVIOUS
  <2> QED BY <2>1 DEF Rounds
<1>2. ASSUME NEW k \in Nat, Exists(k) PROVE Exists(k + 1)
  <2>1. PICK f : Rounds(f, s, k)
    BY <1>2
  <2> DEFINE last == {Round(loop, k) : loop \in f[k]}
             g == [n \in 0 .. (k + 1) |-> IF n <= k THEN f[n] ELSE last]
             Value(h, n) == IF n = 0 THEN {Begun(s)} ELSE {Round(loop, n - 1) : loop \in h[n - 1]}
  <2>2. \A n \in 0 .. k : f[n] = Value(f, n)
    BY <2>1 DEF Rounds
  <2>3. ASSUME NEW n \in 0 .. (k + 1) PROVE g[n] = Value(g, n)
    <3>1. CASE n <= k
      <4>1. n \in 0 .. k /\ g[n] = f[n]
        BY <3>1
      <4>2. n # 0 => g[n - 1] = f[n - 1]
        BY <4>1
      <4>3. f[n] = Value(f, n)
        BY <2>2, <4>1
      <4> HIDE DEF g
      <4> QED BY <4>1, <4>2, <4>3
    <3>2. CASE ~ (n <= k)
      <4>1. n = k + 1 /\ n # 0 /\ n - 1 = k /\ g[n] = last /\ g[k] = f[k]
        BY <3>2
      <4> HIDE DEF g
      <4> QED BY <4>1
    <3> QED BY <3>1, <3>2
  <2>4. g = [n \in 0 .. (k + 1) |-> g[n]]
    OBVIOUS
  <2> HIDE DEF g
  <2>5. g = [n \in 0 .. (k + 1) |-> Value(g, n)]
    BY <2>3, <2>4
  <2> QED BY <2>5 DEF Rounds
<1>3. 0 \in S /\ \A k \in Nat : k \in S => k + 1 \in S
  <2>1. 0 \in S
    BY <1>1
  <2>2. ASSUME NEW k \in Nat, k \in S PROVE k + 1 \in S
    BY <1>2, <2>2
  <2> QED BY <2>1, <2>2
<1>4. m \in S
  <2> HIDE DEF S
  <2> QED BY <1>3, SetInduction
<1> QED BY <1>4

\* What a character plays.
LEMMA PlaysType == ASSUME NEW k \in KeyChar
                   PROVE  Note(k) \in Nat /\ Plays(k) \in Seq(Nat)
<1>1. k \in Int
  BY DEF KeyChar, NL, P
<1>2. Note(k) \in Nat
  <2>1. CASE k \in 1 .. 7
    BY <1>1, <2>1 DEF Note
  <2>2. CASE k = 0
    BY <1>1, <2>2 DEF Note
  <2>3. CASE k = 9
    BY <1>1, <2>3 DEF Note
  <2>4. CASE k \in 10 .. 14
    BY <1>1, <2>4 DEF Note
  <2>5. CASE k = 15
    BY <1>1, <2>5 DEF Note
  <2>6. CASE k \notin 1 .. 7 /\ k # 0 /\ k # 9 /\ k \notin 10 .. 14 /\ k # 15
    BY <1>1, <2>6 DEF Note, NoNote
  <2> QED BY <2>1, <2>2, <2>3, <2>4, <2>5, <2>6
<1>3. Plays(k) = <<>> \/ Plays(k) = <<Note(k)>>
  BY DEF Plays
<1>4. <<>> \in Seq(Nat) /\ \A n \in Nat : <<n>> \in Seq(Nat)
  OBVIOUS
<1>5. Plays(k) \in Seq(Nat)
  BY <1>2, <1>3, <1>4
<1> QED BY <1>2, <1>5

\* A round keeps a string a string and adds notes.
LEMMA RoundType == ASSUME NEW loop \in Loop, NEW i \in Nat
                   PROVE  Round(loop, i) \in Loop
<1>1. CASE ~ loop.ok \/ i >= Len(loop.rest) \/ loop.rest[i + 1] # NL
  BY <1>1 DEF Round
<1>2. CASE ~ (~ loop.ok \/ i >= Len(loop.rest) \/ loop.rest[i + 1] # NL)
  <2> DEFINE cmd == SubSeq(loop.rest, 1, i)
             ahead == SubSeq(loop.rest, i + 2, Len(loop.rest))
             more == IF Aborts(cmd) THEN <<>> ELSE Notes(cmd)
  <2>0. loop.rest \in Seq(KeyChar) /\ loop.notes \in Seq(Nat) /\ i < Len(loop.rest)
    BY <1>2 DEF Loop
  <2>1. ahead \in Seq(KeyChar)
    BY <2>0
  <2>2. more \in Seq(Nat)
    <3>1. <<>> \in Seq(Nat)
      OBVIOUS
    <3>2. CASE IsKeyCommand(cmd)
      <4>1. cmd \in Seq(KeyChar) /\ Len(cmd) = 2
        BY <2>0, <3>2 DEF IsKeyCommand
      <4>2. Plays(cmd[2]) \in Seq(Nat)
        BY <4>1, PlaysType
      <4> QED BY <3>1, <4>2 DEF Notes
    <3>3. CASE ~ IsKeyCommand(cmd)
      BY <3>1, <3>3 DEF Notes
    <3> QED BY <3>2, <3>3
  <2>3. loop.notes \o more \in Seq(Nat)
    <3> HIDE DEF more
    <3> QED BY <2>0, <2>2
  <2>4. (~ Aborts(cmd)) \in BOOLEAN
    BY DEF Aborts
  <2>5. Round(loop, i) = [rest |-> ahead, notes |-> loop.notes \o more, ok |-> ~ Aborts(cmd)]
    BY <1>2 DEF Round
  <2> HIDE DEF cmd, ahead, more
  <2> QED BY <2>1, <2>3, <2>4, <2>5 DEF Loop
<1> QED BY <1>1, <1>2

\* The loop is at one place after each round.
LEMMA ScanRounds ==
    ASSUME NEW s \in Seq(KeyChar)
    PROVE  \E g \in [0 .. Len(s) -> Loop] :
              /\ Scan(s) = {g[Len(s)]} /\ g[0] = Begun(s)
              /\ \A n \in 0 .. Len(s) - 1 : g[n + 1] = Round(g[n], n)
<1> DEFINE L == Len(s)
           f == CHOOSE f : f = [n \in 0 .. L |-> IF n = 0 THEN {Begun(s)}
                                       ELSE {Round(loop, n - 1) : loop \in f[n - 1]}]
<1>1. L \in Nat
  OBVIOUS
<1>2. Scan(s) = f[L]
  BY DEF Scan, Begun
<1> HIDE DEF L
<1>3. Rounds(f, s, L)
  <2>1. \E h : Rounds(h, s, L)
    BY <1>1, RoundsExist
  <2> QED BY <2>1 DEF Rounds
<1> HIDE DEF f
<1>4. f[0] = {Begun(s)}
  BY <1>1, <1>3 DEF Rounds
<1>5. \A n \in 0 .. L - 1 : f[n + 1] = {Round(loop, n) : loop \in f[n]}
  <2> TAKE n \in 0 .. L - 1
  <2>1. n + 1 \in 0 .. L /\ n + 1 # 0 /\ (n + 1) - 1 = n
    BY <1>1
  <2> QED BY <1>3, <2>1 DEF Rounds
<1> DEFINE S == {n \in Nat : n <= L => \E x \in Loop : f[n] = {x}}
<1>6. 0 \in S
  <2>1. Begun(s) \in Loop
    <3>1. <<>> \in Seq(Nat)
      OBVIOUS
    <3> QED BY <3>1 DEF Begun, Loop
  <2> QED BY <1>4, <2>1
<1>7. ASSUME NEW n \in Nat, n \in S PROVE n + 1 \in S
  <2> SUFFICES ASSUME n + 1 <= L PROVE \E x \in Loop : f[n + 1] = {x}
    OBVIOUS
  <2>1. n \in 0 .. L - 1
    BY <1>1
  <2>2. PICK x \in Loop : f[n] = {x}
    BY <1>1, <1>7, <2>1
  <2>3. f[n + 1] = {Round(x, n)}
    BY <1>5, <2>1, <2>2
  <2> QED BY <2>2, <2>3, RoundType
<1>8. Nat \subseteq S
  <2> HIDE DEF S
  <2> QED BY <1>6, <1>7, SetInduction
<1>9. \A n \in 0 .. L : \E x \in Loop : f[n] = {x}
  BY <1>1, <1>8
<1> DEFINE g == [n \in 0 .. L |-> CHOOSE x \in Loop : f[n] = {x}]
<1>10. \A n \in 0 .. L : g[n] \in Loop /\ f[n] = {g[n]}
  BY <1>9
<1>11. g \in [0 .. L -> Loop]
  BY <1>10
<1> HIDE DEF g
<1>12. g[0] = Begun(s) /\ Scan(s) = {g[L]}
  BY <1>1, <1>2, <1>4, <1>10
<1>13. \A n \in 0 .. L - 1 : g[n + 1] = Round(g[n], n)
  <2> TAKE n \in 0 .. L - 1
  <2>1. n \in 0 .. L /\ n + 1 \in 0 .. L
    BY <1>1
  <2>2. f[n + 1] = {Round(g[n], n)} /\ f[n + 1] = {g[n + 1]}
    BY <1>5, <1>10, <2>1
  <2> QED BY <2>2
<1> QED BY <1>11, <1>12, <1>13 DEF L

-----------------------------------------------------------------------------
\* Every character of a key stands for a pressed key, in the order of the keys.

\* h says for each character of a key in w which key it stands for.
IsKey(c) == c \in 0 .. 15
Tracks(h, w, keys) ==
  /\ \A i \in 1 .. Len(w) : IsKey(w[i]) => h[i] \in 1 .. Len(keys) /\ keys[h[i]] = w[i]
  /\ \A i, j \in 1 .. Len(w) : i < j /\ IsKey(w[i]) /\ IsKey(w[j]) => h[i] < h[j]
InKeys(w, keys) == \E h \in [1 .. Len(w) -> 0 .. Len(keys)] : Tracks(h, w, keys)

\* v has some of the elements of w, those at the places e, in their order.
Takes(e, v, w) ==
  /\ e \in [1 .. Len(v) -> 1 .. Len(w)]
  /\ \A i \in 1 .. Len(v) : v[i] = w[e[i]]
  /\ \A i, j \in 1 .. Len(v) : i < j => e[i] < e[j]

\* The elements of two sequences in a row.
LEMMA Joined == ASSUME NEW S, NEW s \in Seq(S), NEW t \in Seq(S)
                PROVE  /\ s \o t \in Seq(S)
                       /\ Len(s) \in Nat /\ Len(t) \in Nat
                       /\ Len(s \o t) = Len(s) + Len(t)
                       /\ \A i \in 1 .. Len(s) : (s \o t)[i] = s[i]
                       /\ \A i \in 1 .. Len(t) : (s \o t)[Len(s) + i] = t[i]
OBVIOUS

\* Characters that are left out change nothing.
LEMMA InKeysPart ==
    ASSUME NEW w, NEW keys, InKeys(w, keys), NEW v, NEW e, Takes(e, v, w)
    PROVE  InKeys(v, keys)
<1> DEFINE n == Len(v)
<1>0. /\ e \in [1 .. n -> 1 .. Len(w)]
      /\ \A i \in 1 .. n : v[i] = w[e[i]]
      /\ \A i, j \in 1 .. n : i < j => e[i] < e[j]
  BY DEF Takes
<1>1. PICK h \in [1 .. Len(w) -> 0 .. Len(keys)] : Tracks(h, w, keys)
  BY DEF InKeys
<1> DEFINE f == [i \in 1 .. n |-> h[e[i]]]
<1>2. f \in [1 .. n -> 0 .. Len(keys)]
  BY <1>0
<1>3. \A i \in 1 .. n : f[i] = h[e[i]] /\ e[i] \in 1 .. Len(w)
  BY <1>0
<1> HIDE DEF f
<1>4. ASSUME NEW i \in 1 .. n, IsKey(v[i])
      PROVE  f[i] \in 1 .. Len(keys) /\ keys[f[i]] = v[i]
  BY <1>0, <1>1, <1>3, <1>4 DEF Tracks
<1>5. ASSUME NEW i \in 1 .. n, NEW j \in 1 .. n, i < j, IsKey(v[i]), IsKey(v[j])
      PROVE  f[i] < f[j]
  BY <1>0, <1>1, <1>3, <1>5 DEF Tracks
<1>6. Tracks(f, v, keys)
  BY <1>4, <1>5 DEF Tracks
<1> QED BY <1>2, <1>6 DEF InKeys

\* A key pressed and its message, at the end.
LEMMA InKeysMore ==
    ASSUME NEW w, NEW keys \in Seq(Keys), InKeys(w, keys), NEW n \in Nat, Len(w) = n,
           NEW k \in Keys, NEW v, Len(v) = n + 3, \A i \in 1 .. n : v[i] = w[i],
           v[n + 1] = P, v[n + 2] = k, v[n + 3] = NL
    PROVE  InKeys(v, Append(keys, k))
<1>0. ~ IsKey(v[n + 1]) /\ ~ IsKey(v[n + 3])
  <2>1. ~ IsKey(P) /\ ~ IsKey(NL)
    BY DEF IsKey, P, NL
  <2> QED BY <2>1
<1>1. PICK h \in [1 .. n -> 0 .. Len(keys)] : Tracks(h, w, keys)
  BY DEF InKeys
<1> DEFINE L == Len(keys)
           more == Append(keys, k)
           f == [i \in 1 .. n + 3 |-> IF i <= n THEN h[i] ELSE L + 1]
<1>2. L \in Nat /\ Len(more) = L + 1 /\ more[L + 1] = k /\ \A i \in 1 .. L : more[i] = keys[i]
  OBVIOUS
<1>3. f \in [1 .. n + 3 -> 0 .. L + 1]
  <2>1. \A i \in 1 .. n + 3 : i <= n => h[i] \in 0 .. L
    OBVIOUS
  <2> QED BY <1>2, <2>1
<1>4. \A i \in 1 .. n + 3 : f[i] = IF i <= n THEN h[i] ELSE L + 1
  OBVIOUS
<1> HIDE DEF f, more, L
<1>5. ASSUME NEW i \in 1 .. n + 3, IsKey(v[i])
      PROVE  f[i] \in 1 .. L + 1 /\ more[f[i]] = v[i]
  <2>1. CASE i <= n
    <3>1. i \in 1 .. n /\ v[i] = w[i] /\ f[i] = h[i]
      BY <1>4, <2>1
    <3>2. h[i] \in 1 .. L /\ keys[h[i]] = w[i]
      BY <1>1, <1>5, <3>1 DEF Tracks, L
    <3> QED BY <1>2, <3>1, <3>2
  <2>2. CASE i > n
    <3>1. i = n + 1 \/ i = n + 2 \/ i = n + 3
      BY <2>2
    <3>2. i = n + 2
      BY <1>0, <1>5, <3>1
    <3> QED BY <1>2, <1>4, <3>2
  <2> QED BY <2>1, <2>2
<1>6. ASSUME NEW i \in 1 .. n + 3, NEW j \in 1 .. n + 3, i < j, IsKey(v[i]), IsKey(v[j])
      PROVE  f[i] < f[j]
  <2>1. i <= n
    <3>1. SUFFICES ASSUME i > n PROVE FALSE
      OBVIOUS
    <3>2. i = n + 1 \/ (i = n + 2 /\ j = n + 3)
      BY <1>6, <3>1
    <3> QED BY <1>0, <1>6, <3>2
  <2>2. i \in 1 .. n /\ v[i] = w[i] /\ f[i] = h[i]
    BY <1>4, <2>1
  <2>3. CASE j <= n
    <3>1. j \in 1 .. n /\ v[j] = w[j] /\ f[j] = h[j]
      BY <1>4, <2>3
    <3> QED BY <1>1, <1>6, <2>2, <3>1 DEF Tracks
  <2>4. CASE j > n
    <3>1. f[j] = L + 1
      BY <1>4, <2>4
    <3>2. h[i] \in 0 .. L
      BY <2>2 DEF L
    <3> QED BY <1>2, <2>2, <3>1, <3>2
  <2> QED BY <2>3, <2>4
<1>7. Tracks(f, v, more)
  <2>1. \A i \in 1 .. n + 3 : IsKey(v[i]) => f[i] \in 1 .. Len(more) /\ more[f[i]] = v[i]
    BY <1>2, <1>5
  <2>2. \A i, j \in 1 .. n + 3 : i < j /\ IsKey(v[i]) /\ IsKey(v[j]) => f[i] < f[j]
    BY <1>6
  <2> QED BY <2>1, <2>2 DEF Tracks
<1>8. f \in [1 .. Len(v) -> 0 .. Len(more)]
  BY <1>2, <1>3
<1>9. InKeys(v, more)
  BY <1>7, <1>8 DEF InKeys
<1> QED BY <1>9 DEF more

-----------------------------------------------------------------------------
\* Whose notes have been played, and whose characters are under way.

\* The notes are those of the keys ks, and these and the characters under way are
\* some of the keys pressed, in their order.
Sounding(ks, notes) == \A i \in 1 .. Len(notes) : IsKey(ks[i]) /\ notes[i] = Note(ks[i]) /\ notes[i] # NoNote
Traced(notes, chars, keys) ==
  \E ks \in Seq(KeyChar) : Len(ks) = Len(notes) /\ Sounding(ks, notes) /\ InKeys(ks \o chars, keys)

\* A note played has its key, in the order of the keys.
LEMMA TracedInOrder ==
    ASSUME NEW notes \in Seq(Nat), NEW chars \in Seq(KeyChar), NEW keys \in Seq(Keys),
           Traced(notes, chars, keys)
    PROVE  \E from \in [1 .. Len(notes) -> 1 .. Len(keys)] :
             \A i, j \in 1 .. Len(notes) :
               <<notes[i]>> = Plays(keys[from[i]]) /\ (i < j => from[i] < from[j])
<1>1. PICK ks \in Seq(KeyChar) : Len(ks) = Len(notes) /\ Sounding(ks, notes) /\ InKeys(ks \o chars, keys)
  BY DEF Traced
<1> DEFINE w == ks \o chars
<1>2. Len(w) = Len(ks) + Len(chars) /\ \A i \in 1 .. Len(ks) : w[i] = ks[i]
  OBVIOUS
<1> HIDE DEF w
<1>3. PICK h \in [1 .. Len(w) -> 0 .. Len(keys)] : Tracks(h, w, keys)
  BY <1>1 DEF InKeys, w
<1>4. \A i \in 1 .. Len(notes) : i \in 1 .. Len(w) /\ w[i] = ks[i] /\ IsKey(w[i])
  BY <1>1, <1>2 DEF Sounding
<1>5. \A i \in 1 .. Len(notes) : h[i] \in 1 .. Len(keys) /\ keys[h[i]] = ks[i]
  BY <1>3, <1>4 DEF Tracks
<1>6. \A i, j \in 1 .. Len(notes) : i < j => h[i] < h[j]
  BY <1>3, <1>4 DEF Tracks
<1>7. \A i \in 1 .. Len(notes) : <<notes[i]>> = Plays(ks[i])
  BY <1>1 DEF Sounding, Plays
<1> DEFINE from == [i \in 1 .. Len(notes) |-> h[i]]
<1>8. from \in [1 .. Len(notes) -> 1 .. Len(keys)]
  BY <1>5
<1>9. \A i \in 1 .. Len(notes) : from[i] = h[i]
  OBVIOUS
<1> HIDE DEF from
<1>10. \A i, j \in 1 .. Len(notes) : <<notes[i]>> = Plays(keys[from[i]]) /\ (i < j => from[i] < from[j])
  BY <1>5, <1>6, <1>7, <1>9
<1> QED BY <1>8, <1>10

\* Characters that are left out change nothing.
LEMMA TracedPart ==
    ASSUME NEW notes \in Seq(Nat), NEW chars \in Seq(KeyChar), NEW keys,
           Traced(notes, chars, keys), NEW left \in Seq(KeyChar), NEW e, Takes(e, left, chars)
    PROVE  Traced(notes, left, keys)
<1>1. PICK ks \in Seq(KeyChar) : Len(ks) = Len(notes) /\ Sounding(ks, notes) /\ InKeys(ks \o chars, keys)
  BY DEF Traced
<1> DEFINE w == ks \o chars
           v == ks \o left
           m == Len(ks)
           n == Len(left)
           d == [i \in 1 .. m + n |-> IF i <= m THEN i ELSE m + e[i - m]]
<1>2. m \in Nat /\ n \in Nat /\ Len(w) = m + Len(chars) /\ Len(v) = m + n /\ Len(chars) \in Nat
  BY Joined
<1>3. \A i \in 1 .. m : w[i] = ks[i] /\ v[i] = ks[i]
  BY Joined
<1>4. \A i \in 1 .. n : v[m + i] = left[i]
  BY Joined
<1>5. \A i \in 1 .. Len(chars) : w[m + i] = chars[i]
  BY Joined
<1>6. \A i \in 1 .. m + n : d[i] = IF i <= m THEN i ELSE m + e[i - m]
  OBVIOUS
<1>7. /\ e \in [1 .. n -> 1 .. Len(chars)]
      /\ \A i \in 1 .. n : left[i] = chars[e[i]]
      /\ \A i, j \in 1 .. n : i < j => e[i] < e[j]
  BY DEF Takes
<1> HIDE DEF w, v, m, n
<1>8. \A i \in 1 .. m + n : i > m =>
         i - m \in 1 .. n /\ e[i - m] \in 1 .. Len(chars) /\ e[i - m] \in Nat /\ i = m + (i - m)
  BY <1>2, <1>7
<1>9. d \in [1 .. m + n -> 1 .. Len(w)]
  <2> SUFFICES ASSUME NEW i \in 1 .. m + n PROVE d[i] \in 1 .. Len(w)
    OBVIOUS
  <2> HIDE DEF d
  <2>1. CASE i <= m
    BY <1>2, <1>6, <2>1
  <2>2. CASE i > m
    <3>1. d[i] = m + e[i - m]
      BY <1>2, <1>6, <2>2
    <3>2. e[i - m] \in 1 .. Len(chars)
      BY <1>8, <2>2
    <3> QED BY <1>2, <3>1, <3>2
  <2> QED BY <1>2, <2>1, <2>2
<1> HIDE DEF d
<1>10. \A i \in 1 .. m + n : v[i] = w[d[i]]
  <2> TAKE i \in 1 .. m + n
  <2>1. CASE i <= m
    <3>1. d[i] = i /\ i \in 1 .. m
      BY <1>2, <1>6, <2>1
    <3> QED BY <1>3, <3>1
  <2>2. CASE i > m
    <3>1. d[i] = m + e[i - m] /\ i - m \in 1 .. n
      BY <1>2, <1>6, <1>8, <2>2
    <3>2. v[i] = left[i - m]
      BY <1>4, <1>8, <2>2, <3>1
    <3> QED BY <1>5, <1>7, <1>8, <2>2, <3>1, <3>2
  <2> QED BY <1>2, <2>1, <2>2
<1>11. \A i, j \in 1 .. m + n : i < j => d[i] < d[j]
  <2> TAKE i, j \in 1 .. m + n
  <2> SUFFICES ASSUME i < j PROVE d[i] < d[j]
    OBVIOUS
  <2>1. CASE j <= m
    BY <1>2, <1>6, <2>1
  <2>2. CASE i <= m /\ j > m
    <3>1. d[i] = i /\ d[j] = m + e[j - m]
      BY <1>2, <1>6, <2>2
    <3>2. e[j - m] \in 1 .. Len(chars)
      BY <1>8, <2>2
    <3> QED BY <1>2, <2>2, <3>1, <3>2
  <2>3. CASE i > m
    <3>1. i - m \in 1 .. n /\ j - m \in 1 .. n /\ i - m < j - m
      BY <1>2, <2>3
    <3>2. e[i - m] < e[j - m] /\ e[i - m] \in Nat /\ e[j - m] \in Nat
      BY <1>2, <1>7, <1>8, <2>3, <3>1
    <3>3. d[i] = m + e[i - m] /\ d[j] = m + e[j - m]
      BY <1>2, <1>6, <2>3
    <3> QED BY <1>2, <3>2, <3>3
  <2> QED BY <1>2, <2>1, <2>2, <2>3
<1>12. InKeys(w, keys)
  BY <1>1 DEF w
<1>13. Takes(d, v, w)
  BY <1>2, <1>9, <1>10, <1>11 DEF Takes
<1>14. InKeys(v, keys)
  BY <1>12, <1>13, InKeysPart
<1> QED BY <1>1, <1>14 DEF Traced, v

\* A key that is played leaves the characters with the whole of its command.
LEMMA TracedPlayed ==
    ASSUME NEW notes \in Seq(Nat), NEW chars \in Seq(KeyChar), NEW keys,
           Traced(notes, chars, keys), Len(chars) >= 3, IsKey(chars[2]), Note(chars[2]) # NoNote,
           NEW left \in Seq(KeyChar), Len(left) = Len(chars) - 3,
           \A i \in 1 .. Len(left) : left[i] = chars[i + 3]
    PROVE  Traced(Append(notes, Note(chars[2])), left, keys)
<1>1. PICK ks \in Seq(KeyChar) : Len(ks) = Len(notes) /\ Sounding(ks, notes) /\ InKeys(ks \o chars, keys)
  BY DEF Traced
<1> DEFINE k == chars[2]
           w == ks \o chars
           ls == Append(ks, k)
           v == ls \o left
           m == Len(ks)
           n == Len(left)
           d == [i \in 1 .. m + 1 + n |-> IF i <= m THEN i ELSE i + (IF i = m + 1 THEN 1 ELSE 2)]
           more == Append(notes, Note(k))
<1>2. m \in Nat /\ n \in Nat /\ Len(w) = m + n + 3 /\ k \in KeyChar
  <2>1. Len(w) = m + Len(chars)
    BY Joined
  <2>2. Len(chars) \in Nat /\ k \in KeyChar
    OBVIOUS
  <2> HIDE DEF w, k
  <2> QED BY <2>1, <2>2
<1>3. ls \in Seq(KeyChar) /\ Len(ls) = m + 1 /\ ls[m + 1] = k /\ \A i \in 1 .. m : ls[i] = ks[i]
  BY <1>2
<1>4. Len(v) = m + 1 + n /\ \A i \in 1 .. m + 1 : v[i] = ls[i]
  <2> HIDE DEF ls
  <2>1. Len(v) = Len(ls) + n
    BY <1>3, Joined
  <2>2. \A i \in 1 .. Len(ls) : v[i] = ls[i]
    BY <1>3, Joined
  <2> HIDE DEF v, n, m
  <2> QED BY <1>2, <1>3, <2>1, <2>2
<1>5. \A i \in 1 .. n : v[m + 1 + i] = left[i]
  <2> HIDE DEF ls
  <2>1. \A i \in 1 .. n : v[Len(ls) + i] = left[i]
    BY <1>3, Joined
  <2> HIDE DEF v, n, m
  <2> QED BY <1>3, <2>1
<1>6. \A i \in 1 .. m : w[i] = ks[i]
  BY Joined
<1>7. \A i \in 1 .. Len(chars) : w[m + i] = chars[i]
  BY Joined
<1>8. \A i \in 1 .. m + 1 + n : d[i] = IF i <= m THEN i ELSE i + (IF i = m + 1 THEN 1 ELSE 2)
  OBVIOUS
<1>9. d \in [1 .. m + 1 + n -> 1 .. Len(w)]
  <2> HIDE DEF w, m, n
  <2> QED BY <1>2
<1>10. Len(chars) = n + 3
  OBVIOUS
<1>11. more \in Seq(Nat) => Len(more) = m + 1 /\ more[m + 1] = Note(k) /\ \A i \in 1 .. m : more[i] = notes[i]
  BY <1>1
<1>12. more \in Seq(Nat)
  <2>2. Note(k) \in Nat
    BY <1>2, PlaysType
  <2> HIDE DEF k
  <2> QED BY <2>2
<1> HIDE DEF w, v, m, n, d, ls, more, k
<1>13. \A i \in 1 .. m + 1 + n : v[i] = w[d[i]]
  <2> TAKE i \in 1 .. m + 1 + n
  <2>1. CASE i <= m
    <3>1. i \in 1 .. m /\ i \in 1 .. m + 1
      BY <1>2, <2>1
    <3>2. d[i] = i
      BY <1>8, <2>1
    <3> QED BY <1>3, <1>4, <1>6, <3>1, <3>2
  <2>2. CASE i = m + 1
    <3>1. d[i] = m + 2 /\ 2 \in 1 .. Len(chars)
      <4>1. d[i] = i + 1
        BY <1>2, <1>8, <2>2
      <4>2. 2 \in 1 .. Len(chars)
        BY <1>2, <1>10
      <4> QED BY <1>2, <2>2, <4>1, <4>2
    <3>2. w[d[i]] = k
      BY <1>7, <3>1 DEF k
    <3> QED BY <1>2, <1>3, <1>4, <2>2, <3>2
  <2>3. CASE i > m + 1
    <3> DEFINE q == i - m - 1
    <3>1. q \in 1 .. n /\ i = m + 1 + q /\ d[i] = m + (q + 3) /\ q + 3 \in 1 .. Len(chars)
      BY <1>2, <1>8, <1>10, <2>3
    <3> HIDE DEF q
    <3>2. v[i] = left[q] /\ w[d[i]] = chars[q + 3]
      BY <1>5, <1>7, <3>1
    <3> QED BY <3>1, <3>2 DEF n
  <2> QED BY <1>2, <2>1, <2>2, <2>3
<1>14. \A i, j \in 1 .. m + 1 + n : i < j => d[i] < d[j]
  <2> TAKE i, j \in 1 .. m + 1 + n
  <2>1. i \in Int /\ j \in Int
    BY <1>2
  <2>3. d[j] = IF j <= m THEN j ELSE j + (IF j = m + 1 THEN 1 ELSE 2)
    BY <1>8
  <2>4. d[i] = IF i <= m THEN i ELSE i + (IF i = m + 1 THEN 1 ELSE 2)
    BY <1>8
  <2> QED BY <1>2, <2>1, <2>3, <2>4
<1>15. InKeys(w, keys)
  BY <1>1 DEF w
<1>16. InKeys(v, keys)
  <2>1. Takes(d, v, w)
    BY <1>4, <1>9, <1>13, <1>14 DEF Takes
  <2> QED BY <1>15, <2>1, InKeysPart
<1>17. Sounding(ls, more)
  <2>1. \A i \in 1 .. m : IsKey(ks[i]) /\ notes[i] = Note(ks[i]) /\ notes[i] # NoNote
    BY <1>1 DEF Sounding, m
  <2>2. ASSUME NEW i \in 1 .. m + 1 PROVE IsKey(ls[i]) /\ more[i] = Note(ls[i]) /\ more[i] # NoNote
    <3>1. CASE i = m + 1
      BY <1>3, <1>11, <1>12, <3>1 DEF k
    <3>2. CASE i # m + 1
      <4>1. i \in 1 .. m
        BY <1>2, <3>2
      <4> QED BY <1>3, <1>11, <1>12, <2>1, <4>1
    <3> QED BY <3>1, <3>2
  <2> QED BY <1>11, <1>12, <2>2 DEF Sounding
<1>18. Traced(more, left, keys)
  BY <1>3, <1>11, <1>12, <1>16, <1>17 DEF Traced, v
<1> QED BY <1>18 DEF more, k

\* A key pressed.
LEMMA TracedPressed ==
    ASSUME NEW notes \in Seq(Nat), NEW chars \in Seq(KeyChar), NEW keys \in Seq(Keys),
           Traced(notes, chars, keys), NEW k \in Keys,
           NEW longer \in Seq(KeyChar), Len(longer) = Len(chars) + 3,
           \A i \in 1 .. Len(chars) : longer[i] = chars[i],
           longer[Len(chars) + 1] = P, longer[Len(chars) + 2] = k, longer[Len(chars) + 3] = NL
    PROVE  Traced(notes, longer, Append(keys, k))
<1>1. PICK ks \in Seq(KeyChar) : Len(ks) = Len(notes) /\ Sounding(ks, notes) /\ InKeys(ks \o chars, keys)
  BY DEF Traced
<1> DEFINE w == ks \o chars
           v == ks \o longer
           m == Len(ks)
           n == Len(chars)
<1>2. m \in Nat /\ n \in Nat /\ Len(w) = m + n /\ Len(v) = m + (n + 3)
  <2>1. m \in Nat /\ n \in Nat /\ Len(w) = m + n /\ Len(v) = m + Len(longer)
    BY Joined
  <2> HIDE DEF w, v, m
  <2> QED BY <2>1
<1>3. \A i \in 1 .. m : w[i] = ks[i] /\ v[i] = ks[i]
  BY Joined
<1>4. \A i \in 1 .. n + 3 : v[m + i] = longer[i]
  BY Joined
<1>5. \A i \in 1 .. n : w[m + i] = chars[i]
  BY Joined
<1>6. InKeys(w, keys)
  BY <1>1
<1> HIDE DEF w, v, m
<1>7. \A i \in 1 .. m + n : v[i] = w[i]
  <2> TAKE i \in 1 .. m + n
  <2>1. CASE i <= m
    BY <1>2, <1>3, <2>1
  <2>2. CASE i > m
    <3> DEFINE q == i - m
    <3>1. q \in 1 .. n /\ i = m + q /\ q \in 1 .. n + 3
      BY <1>2, <2>2
    <3> HIDE DEF q
    <3>2. v[i] = longer[q] /\ w[i] = chars[q]
      BY <1>4, <1>5, <3>1
    <3> QED BY <3>1, <3>2
  <2> QED BY <1>2, <2>1, <2>2
<1>8. v[m + n + 1] = P /\ v[m + n + 2] = k /\ v[m + n + 3] = NL
  <2>1. n + 1 \in 1 .. n + 3 /\ n + 2 \in 1 .. n + 3 /\ n + 3 \in 1 .. n + 3
    BY <1>2
  <2>2. m + (n + 1) = m + n + 1 /\ m + (n + 2) = m + n + 2 /\ m + (n + 3) = m + n + 3
    BY <1>2
  <2>3. v[m + (n + 1)] = P /\ v[m + (n + 2)] = k /\ v[m + (n + 3)] = NL
    BY <1>4, <2>1
  <2> QED BY <2>2, <2>3
<1>9. InKeys(v, Append(keys, k))
  <2> DEFINE N == m + n
  <2>1. N \in Nat /\ Len(w) = N /\ Len(v) = N + 3
    BY <1>2
  <2>2. \A i \in 1 .. N : v[i] = w[i]
    BY <1>7
  <2>3. v[N + 1] = P /\ v[N + 2] = k /\ v[N + 3] = NL
    BY <1>8
  <2> HIDE DEF N, n
  <2> QED BY <1>6, <2>1, <2>2, <2>3, InKeysMore
<1> QED BY <1>1, <1>9 DEF Traced, v

-----------------------------------------------------------------------------
\* Notes played one by one.
LEMMA OneMore == ASSUME NEW s \in Seq(Nat), NEW t \in Seq(Nat), NEW m \in Nat
                 PROVE  s \o (t \o <<m>>) = Append(s \o t, m)
<1>1. <<m>> \in Seq(Nat) /\ s \o t \in Seq(Nat)
  OBVIOUS
<1>2. (s \o t) \o <<m>> = s \o (t \o <<m>>)
  BY <1>1, ConcatAssociative
<1>3. Append(s \o t, m) = (s \o t) \o <<m>>
  BY <1>1, AppendIsConcat
<1> QED BY <1>2, <1>3

\* The characters under way after a command has been cut out.
Cut(ahead, i, left) == SubSeq(ahead, i + 2, Len(ahead)) \o left
LEMMA CutOff ==
    ASSUME NEW ahead \in Seq(KeyChar), NEW left \in Seq(KeyChar), NEW i \in Nat, i < Len(ahead)
    PROVE  /\ Cut(ahead, i, left) \in Seq(KeyChar) /\ ahead \o left \in Seq(KeyChar)
           /\ Len(Cut(ahead, i, left)) = Len(ahead \o left) - (i + 1)
           /\ \A q \in 1 .. Len(Cut(ahead, i, left)) : Cut(ahead, i, left)[q] = (ahead \o left)[q + (i + 1)]
           /\ \A q \in 1 .. Len(ahead) : (ahead \o left)[q] = ahead[q]
<1> DEFINE a == Cut(ahead, i, left)
           b == ahead \o left
<1> DEFINE c == SubSeq(ahead, i + 2, Len(ahead))
           L == Len(ahead)
<1>1. L \in Nat /\ c \in Seq(KeyChar) /\ Len(c) = L - (i + 1)
  OBVIOUS
<1>2. \A q \in 1 .. L - (i + 1) : c[q] = ahead[q + (i + 1)]
  OBVIOUS
<1>3. /\ b \in Seq(KeyChar) /\ Len(b) = L + Len(left) /\ Len(left) \in Nat
      /\ \A q \in 1 .. L : b[q] = ahead[q]
      /\ \A q \in 1 .. Len(left) : b[L + q] = left[q]
  BY Joined
<1>4. a = c \o left
  BY DEF c, Cut
<1> HIDE DEF a, b, c, L
<1>5. /\ a \in Seq(KeyChar) /\ Len(a) = Len(c) + Len(left)
      /\ \A q \in 1 .. Len(c) : a[q] = c[q]
      /\ \A q \in 1 .. Len(left) : a[Len(c) + q] = left[q]
  <2>1. a \in Seq(KeyChar) /\ Len(a) = Len(c) + Len(left)
    BY <1>1, <1>4, Joined
  <2>2. \A q \in 1 .. Len(c) : a[q] = c[q]
    <3>1. \A q \in 1 .. Len(c) : (c \o left)[q] = c[q]
      BY <1>1, Joined
    <3> QED BY <1>4, <3>1
  <2>3. \A q \in 1 .. Len(left) : a[Len(c) + q] = left[q]
    BY <1>1, <1>4, Joined
  <2> QED BY <2>1, <2>2, <2>3
<1>6. ASSUME NEW q \in 1 .. Len(a) PROVE a[q] = b[q + (i + 1)]
  <2>1. CASE q <= L - (i + 1)
    <3>1. q \in 1 .. L - (i + 1) /\ q \in 1 .. Len(c) /\ q + (i + 1) \in 1 .. L
      BY <1>1, <1>5, <2>1
    <3> QED BY <1>2, <1>3, <1>5, <3>1
  <2>2. CASE q > L - (i + 1)
    <3> DEFINE p == q - (L - (i + 1))
    <3>1. p \in 1 .. Len(left) /\ q = Len(c) + p /\ q + (i + 1) = L + p
      BY <1>1, <1>3, <1>5, <2>2
    <3> HIDE DEF p
    <3> QED BY <1>3, <1>5, <3>1
  <2> QED BY <1>1, <1>3, <1>5, <2>1, <2>2
<1>7. Len(a) = Len(b) - (i + 1)
  BY <1>1, <1>3, <1>5
<1>8. \A q \in 1 .. Len(ahead) : b[q] = ahead[q]
  BY <1>3 DEF L
<1>9. \A q \in 1 .. Len(a) : a[q] = b[q + (i + 1)]
  BY <1>6
<1> QED BY <1>3, <1>5, <1>7, <1>8, <1>9 DEF a, b

\* A round of the loop plays the keys it cuts out.
LEMMA RoundTraced ==
    ASSUME NEW before \in Seq(Nat), NEW left \in Seq(KeyChar), NEW keys, NEW loop \in Loop,
           Traced(before \o loop.notes, loop.rest \o left, keys), NEW i \in Nat,
           NEW next, next = Round(loop, i)
    PROVE  Traced(before \o next.notes, next.rest \o left, keys)
<1>0. loop.rest \in Seq(KeyChar) /\ loop.notes \in Seq(Nat)
  BY DEF Loop
<1>1. CASE ~ loop.ok \/ i >= Len(loop.rest) \/ loop.rest[i + 1] # NL
  BY <1>1 DEF Round
<1>2. CASE ~ (~ loop.ok \/ i >= Len(loop.rest) \/ loop.rest[i + 1] # NL)
  <2> DEFINE cmd == SubSeq(loop.rest, 1, i)
             more == IF Aborts(cmd) THEN <<>> ELSE Notes(cmd)
             a == Cut(loop.rest, i, left)
             b == loop.rest \o left
             notes == before \o loop.notes
  <2>1. next.notes = loop.notes \o more /\ next.rest \o left = a
    BY <1>2 DEF Round, Cut
  <2>2. i < Len(loop.rest)
    BY <1>0, <1>2
  <2>3. cmd \in Seq(KeyChar) /\ Len(cmd) = i /\ \A q \in 1 .. i : cmd[q] = loop.rest[q]
    BY <1>0, <2>2
  <2>4. notes \in Seq(Nat)
    BY <1>0
  <2>5. /\ a \in Seq(KeyChar) /\ b \in Seq(KeyChar)
        /\ Len(a) = Len(b) - (i + 1)
        /\ \A q \in 1 .. Len(a) : a[q] = b[q + (i + 1)]
        /\ \A q \in 1 .. Len(loop.rest) : b[q] = loop.rest[q]
    BY <1>0, <2>2, CutOff
  <2>6. CASE more = <<>>
    <3>1. before \o next.notes = notes
      <4>1. loop.notes \o <<>> = loop.notes
        BY <1>0, ConcatEmptySeq
      <4> HIDE DEF more
      <4> QED BY <2>1, <2>6, <4>1
    <3> DEFINE e == [q \in 1 .. Len(a) |-> q + (i + 1)]
    <3> HIDE DEF a, b
    <3>2. Takes(e, a, b)
      <4>1. Len(a) \in Nat /\ Len(b) \in Nat
        BY <2>5
      <4>2. e \in [1 .. Len(a) -> 1 .. Len(b)]
        BY <2>5, <4>1
      <4>3. \A q \in 1 .. Len(a) : e[q] = q + (i + 1)
        OBVIOUS
      <4> HIDE DEF e
      <4>4. \A p, q \in 1 .. Len(a) : p < q => e[p] < e[q]
        BY <4>1, <4>3
      <4> QED BY <2>5, <4>2, <4>3, <4>4 DEF Takes
    <3>3. Traced(notes, b, keys)
      BY DEF b
    <3> HIDE DEF e, notes
    <3>4. Traced(notes, a, keys)
      BY <2>4, <2>5, <3>2, <3>3, TracedPart
    <3> QED BY <2>1, <3>1, <3>4
  <2>7. CASE more # <<>>
    <3>1. ~ Aborts(cmd) /\ more = Notes(cmd) /\ IsKeyCommand(cmd)
      BY <2>7 DEF Notes
    <3>2. Len(cmd) = 2 /\ IsKey(cmd[2]) /\ more = Plays(cmd[2])
      BY <3>1 DEF Aborts, IsKeyCommand, Notes, IsKey
    <3>3. i = 2
      BY <2>3, <3>2
    <3>4. b[2] = cmd[2]
      <4>1. 2 \in 1 .. i /\ 2 \in 1 .. Len(loop.rest)
        BY <1>0, <2>2, <3>3
      <4> HIDE DEF b
      <4> QED BY <2>3, <2>5, <4>1
    <3>5. Note(b[2]) # NoNote /\ more = <<Note(b[2])>> /\ IsKey(b[2])
      BY <2>7, <3>2, <3>4 DEF Plays
    <3>6. Note(b[2]) \in Nat
      <4>1. b[2] \in KeyChar
        BY <3>5 DEF IsKey, KeyChar
      <4> QED BY <4>1, PlaysType
    <3>7. before \o next.notes = Append(notes, Note(b[2]))
      <4> DEFINE m == Note(b[2])
      <4>1. next.notes = loop.notes \o <<m>> /\ m \in Nat
        BY <2>1, <3>5, <3>6
      <4> HIDE DEF m
      <4>2. before \o (loop.notes \o <<m>>) = Append(before \o loop.notes, m)
        BY <1>0, <4>1, OneMore
      <4> QED BY <4>1, <4>2 DEF m
    <3>8. Len(b) >= 3 /\ Len(a) = Len(b) - 3 /\ \A q \in 1 .. Len(a) : a[q] = b[q + 3]
      <4>1. Len(b) = Len(loop.rest) + Len(left)
        BY <1>0, Joined
      <4>2. Len(loop.rest) \in Nat /\ Len(left) \in Nat
        BY <1>0
      <4> HIDE DEF a, b
      <4> QED BY <2>2, <2>5, <3>3, <4>1, <4>2
    <3>9. Traced(notes, b, keys)
      BY DEF b
    <3> HIDE DEF a, b, notes
    <3>10. Traced(Append(notes, Note(b[2])), a, keys)
      BY <2>4, <2>5, <3>5, <3>8, <3>9, TracedPlayed
    <3> QED BY <2>1, <3>7, <3>10
  <2> QED BY <2>6, <2>7
<1> QED BY <1>1, <1>2

\* And so does the whole loop.
LEMMA LoopTraced ==
    ASSUME NEW before \in Seq(Nat), NEW s \in Seq(KeyChar), NEW left \in Seq(KeyChar), NEW keys,
           Traced(before, s \o left, keys), NEW scan \in Scan(s)
    PROVE  scan \in Loop /\ Traced(before \o scan.notes, scan.rest \o left, keys)
<1> DEFINE L == Len(s)
<1>1. L \in Nat
  OBVIOUS
<1>2. PICK g \in [0 .. L -> Loop] :
        /\ Scan(s) = {g[L]} /\ g[0] = Begun(s)
        /\ \A n \in 0 .. L - 1 : g[n + 1] = Round(g[n], n)
  BY ScanRounds
<1> HIDE DEF L
<1> DEFINE S == {n \in Nat : n <= L => Traced(before \o g[n].notes, g[n].rest \o left, keys)}
<1>3. 0 \in S
  <2>1. g[0].notes = <<>> /\ g[0].rest = s
    BY <1>2 DEF Begun
  <2>2. before \o <<>> = before
    OBVIOUS
  <2> QED BY <2>1, <2>2
<1>4. ASSUME NEW n \in Nat, n \in S PROVE n + 1 \in S
  <2> SUFFICES ASSUME n + 1 <= L
               PROVE  Traced(before \o g[n + 1].notes, g[n + 1].rest \o left, keys)
    OBVIOUS
  <2>1. n \in 0 .. L - 1 /\ n \in 0 .. L /\ n <= L
    BY <1>1
  <2>2. g[n] \in Loop /\ g[n + 1] = Round(g[n], n)
    BY <1>2, <2>1
  <2>3. Traced(before \o g[n].notes, g[n].rest \o left, keys)
    BY <1>4, <2>1
  <2> QED BY <2>2, <2>3, RoundTraced
<1>5. L \in S
  <2> HIDE DEF S
  <2>1. Nat \subseteq S
    BY <1>3, <1>4, SetInduction
  <2> QED BY <1>1, <2>1
<1>6. scan = g[L] /\ g[L] \in Loop
  BY <1>1, <1>2
<1> QED BY <1>1, <1>5, <1>6

\* One command is cut out of a string of at most two messages, none of less than one.
LEMMA LoopOnce ==
    ASSUME NEW s \in Seq(KeyChar), Len(s) <= 6, Len(s) >= 1 => s[1] = P,
           Len(s) >= 2 => IsKey(s[2]), Len(s) >= 3 => s[3] = NL, NEW scan \in Scan(s)
    PROVE  scan = IF Len(s) < 3 THEN Begun(s)
                  ELSE [rest |-> SubSeq(s, 4, Len(s)), notes |-> Plays(s[2]), ok |-> TRUE]
<1> DEFINE L == Len(s)
           cut == [rest |-> SubSeq(s, 4, Len(s)), notes |-> Plays(s[2]), ok |-> TRUE]
<1>1. L \in Nat
  OBVIOUS
<1>2. PICK g \in [0 .. L -> Loop] :
        /\ Scan(s) = {g[L]} /\ g[0] = Begun(s)
        /\ \A n \in 0 .. L - 1 : g[n + 1] = Round(g[n], n)
  BY ScanRounds
<1>3. Begun(s).rest = s /\ Begun(s).ok /\ Begun(s).notes = <<>>
  BY DEF Begun
<1>4. cut.ok /\ cut.rest = SubSeq(s, 4, L)
  OBVIOUS
<1>5. L >= 3 => Len(cut.rest) = L - 3
  BY <1>1
<1>6. L >= 1 => Round(Begun(s), 0) = Begun(s)
  <2>1. L >= 1 => s[0 + 1] # NL
    BY DEF P, NL
  <2> QED BY <1>3, <2>1 DEF Round
<1>7. L >= 2 => Round(Begun(s), 1) = Begun(s)
  <2>1. L >= 2 => s[1 + 1] # NL
    BY DEF IsKey, NL
  <2> QED BY <1>3, <2>1 DEF Round
<1>8. L >= 3 => Round(Begun(s), 2) = cut
  <2> SUFFICES ASSUME L >= 3 PROVE Round(Begun(s), 2) = cut
    OBVIOUS
  <2> DEFINE cmd == SubSeq(s, 1, 2)
  <2>1. Len(cmd) = 2 /\ cmd[1] = P /\ cmd[2] = s[2] /\ cmd[2] \in 0 .. 15
    BY <1>1 DEF IsKey
  <2> HIDE DEF cmd
  <2>2. ~ Aborts(cmd) /\ Notes(cmd) = Plays(s[2])
    BY <2>1 DEF Aborts, Notes, IsKeyCommand
  <2>3. Plays(s[2]) \in Seq(Nat)
    <3>1. s[2] \in KeyChar
      BY <1>1
    <3> QED BY <3>1, PlaysType
  <2>4. <<>> \o Plays(s[2]) = Plays(s[2])
    BY <2>3
  <2>5. s[2 + 1] = NL /\ ~ (2 >= L)
    BY <1>1
  <2>6. Round(Begun(s), 2) =
          [rest |-> SubSeq(s, 2 + 2, L),
           notes |-> <<>> \o (IF Aborts(cmd) THEN <<>> ELSE Notes(cmd)), ok |-> ~ Aborts(cmd)]
    BY <1>3, <2>5 DEF Round, cmd
  <2>7. 2 + 2 = 4 /\ (~ Aborts(cmd)) = TRUE
    BY <2>2
  <2> QED BY <2>2, <2>4, <2>6, <2>7
<1>9. \A n \in Nat : n >= 3 /\ L >= 3 => Round(cut, n) = cut
  <2> SUFFICES ASSUME NEW n \in Nat, n >= 3, L >= 3 PROVE Round(cut, n) = cut
    OBVIOUS
  <2>1. n >= Len(cut.rest)
    BY <1>1, <1>5
  <2> QED BY <2>1 DEF Round
<1> HIDE DEF L, cut
<1> DEFINE S == {n \in Nat : n <= L => g[n] = IF n < 3 THEN Begun(s) ELSE cut}
<1>10. 0 \in S
  BY <1>2
<1>11. ASSUME NEW n \in Nat, n \in S PROVE n + 1 \in S
  <2> SUFFICES ASSUME n + 1 <= L PROVE g[n + 1] = IF n + 1 < 3 THEN Begun(s) ELSE cut
    OBVIOUS
  <2>1. n \in 0 .. L - 1 /\ n <= L
    BY <1>1
  <2>2. g[n + 1] = Round(g[n], n) /\ g[n] = IF n < 3 THEN Begun(s) ELSE cut
    BY <1>2, <1>11, <2>1
  <2>3. CASE n = 0
    BY <1>6, <2>2, <2>3
  <2>4. CASE n = 1
    BY <1>7, <2>2, <2>4
  <2>5. CASE n = 2
    BY <1>8, <2>2, <2>5
  <2>6. CASE n >= 3
    <3>1. L >= 3 /\ ~ (n < 3) /\ ~ (n + 1 < 3)
      BY <1>1, <2>1, <2>6
    <3> QED BY <1>9, <2>2, <2>6, <3>1
  <2> QED BY <2>3, <2>4, <2>5, <2>6
<1>12. L \in S
  <2> HIDE DEF S
  <2>1. Nat \subseteq S
    BY <1>10, <1>11, SetInduction
  <2> QED BY <1>1, <2>1
<1>13. scan = IF L < 3 THEN Begun(s) ELSE cut
  BY <1>1, <1>2, <1>12
<1> QED BY <1>13 DEF L, cut

-----------------------------------------------------------------------------
\* How many messages are under way.
LEMMA MessagesCount ==
    ASSUME NEW s \in Seq(KeyChar)
    PROVE  /\ Messages(s) \in Nat
           /\ Messages(s) = 0 => \A i \in 1 .. Len(s) : s[i] # NL
           /\ Messages(s) < 2 => \A i, j \in 1 .. Len(s) : s[i] = NL /\ s[j] = NL => i = j
<1> DEFINE M == {i \in 1 .. Len(s) : s[i] = NL}
<1>1. Len(s) \in Nat /\ Messages(s) = Cardinality(M)
  BY DEF Messages
<1>2. IsFiniteSet(M)
  <2>1. IsFiniteSet(1 .. Len(s))
    BY <1>1, FS_Interval
  <2>2. M \in SUBSET (1 .. Len(s))
    OBVIOUS
  <2> HIDE DEF M
  <2> QED BY <2>1, <2>2, FS_Subset
<1>3. \A i \in 1 .. Len(s) : s[i] = NL => i \in M
  OBVIOUS
<1> HIDE DEF M
<1>4. Cardinality(M) \in Nat
  BY <1>2, FS_CardinalityType
<1>5. Cardinality(M) = 0 => M = {}
  BY <1>2, FS_EmptySet
<1>6. ASSUME Cardinality(M) < 2, NEW i \in M, NEW j \in M PROVE i = j
  <2>1. CASE Cardinality(M) = 0
    BY <1>5, <1>6, <2>1
  <2>2. CASE Cardinality(M) = 1
    <3>1. \E x : M = {x}
      BY <1>2, <2>2, FS_Singleton
    <3> QED BY <1>6, <3>1
  <2> QED BY <1>4, <1>6, <2>1, <2>2
<1> QED BY <1>1, <1>3, <1>4, <1>5, <1>6

\* The notes of one key more.
LEMMA NotesOfMore ==
    ASSUME NEW keys \in Seq(Keys), NEW j \in Nat, j < Len(keys)
    PROVE  NotesOf(SubSeq(keys, 1, j + 1)) = NotesOf(SubSeq(keys, 1, j)) \o Plays(keys[j + 1])
<1> DEFINE a == SubSeq(keys, 1, j)
           b == SubSeq(keys, 1, j + 1)
           s == [i \in 1 .. j |-> Plays(a[i])]
           t == [i \in 1 .. j + 1 |-> Plays(b[i])]
<1>1. Len(a) = j /\ \A i \in 1 .. j : a[i] = keys[i]
  OBVIOUS
<1>2. Len(b) = j + 1 /\ \A i \in 1 .. j + 1 : b[i] = keys[i]
  OBVIOUS
<1> HIDE DEF a, b
<1>3. NotesOf(a) = FlattenSeq(s) /\ NotesOf(b) = FlattenSeq(t)
  BY <1>1, <1>2 DEF NotesOf
<1>4. \A i \in 1 .. j : s[i] = Plays(keys[i])
  BY <1>1
<1>5. \A i \in 1 .. j + 1 : t[i] = Plays(keys[i])
  BY <1>2
<1>6. Len(s) = j /\ Len(t) = j + 1
  OBVIOUS
<1>7. s \in Seq({Plays(keys[i]) : i \in 1 .. j})
  BY <1>4
<1> HIDE DEF s, t
<1>8. \A i \in 1 .. j : s[i] = t[i]
  BY <1>4, <1>5
<1>9. FlattenSeq(t) = IF j = 0 THEN t[1] ELSE FlattenSeq(s) \o t[j + 1]
  BY <1>6, <1>8, FlattenMore
<1>10. t[j + 1] = Plays(keys[j + 1])
  BY <1>5
<1>11. ASSUME j = 0 PROVE FlattenSeq(t) = FlattenSeq(s) \o Plays(keys[j + 1])
  <2>1. FlattenSeq(s) = <<>>
    <3>1. Len(s) = 0
      BY <1>6, <1>11
    <3>2. FlattenSeq(s) = s
      BY <3>1 DEF FlattenSeq
    <3> QED BY <1>7, <3>1, <3>2
  <2>2. Plays(keys[j + 1]) \in Seq(Nat)
    <3>1. keys[j + 1] \in Keys
      OBVIOUS
    <3>2. keys[j + 1] \in KeyChar
      BY <3>1, KeyAssumption DEF KeyChar
    <3> QED BY <3>2, PlaysType
  <2>3. <<>> \o Plays(keys[j + 1]) = Plays(keys[j + 1])
    BY <2>2, ConcatEmptySeq
  <2> QED BY <1>9, <1>10, <1>11, <2>1, <2>3
<1>12. FlattenSeq(t) = FlattenSeq(s) \o Plays(keys[j + 1])
  BY <1>9, <1>10, <1>11
<1> QED BY <1>3, <1>12 DEF a, b

\* The messages of the keys after the first j, complete and in order.
Carries(chars, keys, j) ==
  /\ Len(chars) = 3 * (Len(keys) - j)
  /\ \A m \in 1 .. (Len(keys) - j) :
       chars[3 * m - 2] = P /\ chars[3 * m - 1] = keys[j + m] /\ chars[3 * m] = NL

\* The keys up to the j-th have played, the others, two at most, are under way.
Waiting(j, notes, chars, keys) ==
  /\ j \in 0 .. Len(keys) /\ Len(keys) - j <= 2
  /\ notes = NotesOf(SubSeq(keys, 1, j))
  /\ Carries(chars, keys, j)

\* One more is pressed.
LEMMA WaitingPressed ==
    ASSUME NEW notes, NEW chars \in Seq(KeyChar), NEW keys \in Seq(Keys), NEW j,
           Waiting(j, notes, chars, keys), Len(keys) - j < 2, NEW k \in Keys,
           NEW longer \in Seq(KeyChar), Len(longer) = Len(chars) + 3,
           \A i \in 1 .. Len(chars) : longer[i] = chars[i],
           longer[Len(chars) + 1] = P, longer[Len(chars) + 2] = k, longer[Len(chars) + 3] = NL
    PROVE  Waiting(j, notes, longer, Append(keys, k))
<1> DEFINE more == Append(keys, k)
           d == Len(keys) - j
           n == Len(chars)
<1>1. more \in Seq(Keys) /\ Len(more) = Len(keys) + 1 /\ more[Len(keys) + 1] = k
      /\ \A i \in 1 .. Len(keys) : more[i] = keys[i]
  OBVIOUS
<1>2. Len(keys) \in Nat /\ j \in 0 .. Len(keys) /\ d \in 0 .. 1 /\ n = 3 * d /\ d = Len(keys) - j
  BY DEF Waiting, Carries
<1>3. SubSeq(more, 1, j) = SubSeq(keys, 1, j)
  BY <1>2
<1>4. \A m \in 1 .. d : chars[3 * m - 2] = P /\ chars[3 * m - 1] = keys[j + m] /\ chars[3 * m] = NL
  BY DEF Waiting, Carries
<1> HIDE DEF more, d, n
<1>5. ASSUME NEW m \in 1 .. d + 1
      PROVE  longer[3 * m - 2] = P /\ longer[3 * m - 1] = more[j + m] /\ longer[3 * m] = NL
  <2>1. CASE m = d + 1
    <3>1. 3 * m - 2 = n + 1 /\ 3 * m - 1 = n + 2 /\ 3 * m = n + 3 /\ j + m = Len(keys) + 1
      BY <1>2, <2>1
    <3> QED BY <1>1, <3>1 DEF n
  <2>2. CASE m # d + 1
    <3>1. d = 1 /\ m = 1 /\ n = 3 /\ j + 1 = Len(keys) /\ Len(keys) \in 1 .. Len(keys)
      BY <1>2, <2>2
    <3>2. chars[1] = P /\ chars[2] = keys[j + 1] /\ chars[3] = NL
      <4>1. 1 \in 1 .. d /\ 3 * 1 - 2 = 1 /\ 3 * 1 - 1 = 2 /\ 3 * 1 = 3
        BY <3>1
      <4>2. chars[3 * 1 - 2] = P /\ chars[3 * 1 - 1] = keys[j + 1] /\ chars[3 * 1] = NL
        BY <1>4, <4>1
      <4> QED BY <4>1, <4>2
    <3>3. longer[1] = chars[1] /\ longer[2] = chars[2] /\ longer[3] = chars[3]
      <4>1. 1 \in 1 .. Len(chars) /\ 2 \in 1 .. Len(chars) /\ 3 \in 1 .. Len(chars)
        BY <3>1 DEF n
      <4> QED BY <4>1
    <3>4. 3 * m - 2 = 1 /\ 3 * m - 1 = 2 /\ 3 * m = 3
      BY <3>1
    <3> QED BY <1>1, <3>1, <3>2, <3>3, <3>4
  <2> QED BY <2>1, <2>2
<1>6. Len(more) - j = d + 1 /\ Len(longer) = 3 * (d + 1)
  BY <1>1, <1>2 DEF n
<1>7. Carries(longer, more, j)
  BY <1>5, <1>6 DEF Carries
<1>8. notes = NotesOf(SubSeq(more, 1, j))
  BY <1>3 DEF Waiting
<1>9. j \in 0 .. Len(more) /\ Len(more) - j <= 2
  BY <1>1, <1>2, <1>6
<1>10. Waiting(j, notes, longer, more)
  BY <1>7, <1>8, <1>9 DEF Waiting
<1> QED BY <1>10 DEF more

\* The first of them is played.
LEMMA WaitingPlayed ==
    ASSUME NEW notes, NEW chars \in Seq(KeyChar), NEW keys \in Seq(Keys), NEW j,
           Waiting(j, notes, chars, keys), Len(chars) >= 3,
           NEW left \in Seq(KeyChar), Len(left) = Len(chars) - 3,
           \A i \in 1 .. Len(left) : left[i] = chars[i + 3]
    PROVE  Waiting(j + 1, notes \o Plays(chars[2]), left, keys)
<1> DEFINE d == Len(keys) - j
           n == Len(left)
<1>1. Len(keys) \in Nat /\ j \in 0 .. Len(keys) /\ d <= 2 /\ Len(chars) = 3 * d /\ d = Len(keys) - j
  BY DEF Waiting, Carries
<1>2. d \in 1 .. 2 /\ n = 3 * (d - 1) /\ d - 1 = Len(keys) - (j + 1)
  BY <1>1
<1>3. \A m \in 1 .. d : chars[3 * m - 2] = P /\ chars[3 * m - 1] = keys[j + m] /\ chars[3 * m] = NL
  BY DEF Waiting, Carries
<1> HIDE DEF d, n
<1>4. chars[2] = keys[j + 1]
  <2>1. 1 \in 1 .. d /\ 3 * 1 - 1 = 2
    BY <1>2
  <2>2. chars[3 * 1 - 1] = keys[j + 1]
    BY <1>3, <2>1
  <2> QED BY <2>1, <2>2
<1>5. ASSUME NEW m \in 1 .. d - 1
      PROVE  left[3 * m - 2] = P /\ left[3 * m - 1] = keys[(j + 1) + m] /\ left[3 * m] = NL
  <2>1. m = 1 /\ d = 2 /\ n = 3 /\ (j + 1) + m = j + 2 /\ 2 \in 1 .. d
    BY <1>1, <1>2
  <2>2. 3 * 2 - 2 = 4 /\ 3 * 2 - 1 = 5 /\ 3 * 2 = 6
    OBVIOUS
  <2>3. chars[3 * 2 - 2] = P /\ chars[3 * 2 - 1] = keys[j + 2] /\ chars[3 * 2] = NL
    BY <1>3, <2>1
  <2>4. 1 \in 1 .. Len(left) /\ 2 \in 1 .. Len(left) /\ 3 \in 1 .. Len(left)
    <3>1. Len(left) = 3
      BY <2>1 DEF n
    <3>2. 1 \in 1 .. 3 /\ 2 \in 1 .. 3 /\ 3 \in 1 .. 3
      OBVIOUS
    <3> QED BY ONLY <3>1, <3>2
  <2>5. left[1] = chars[1 + 3] /\ left[2] = chars[2 + 3] /\ left[3] = chars[3 + 3]
    BY <2>4
  <2>6. 1 + 3 = 4 /\ 2 + 3 = 5 /\ 3 + 3 = 6 /\ 3 * m - 2 = 1 /\ 3 * m - 1 = 2 /\ 3 * m = 3
    BY <2>1
  <2> QED BY <2>1, <2>2, <2>3, <2>5, <2>6
<1>6. Carries(left, keys, j + 1)
  BY <1>2, <1>5 DEF Carries, n
<1>7. j \in Nat /\ j < Len(keys) /\ j + 1 \in 0 .. Len(keys) /\ Len(keys) - (j + 1) <= 2
  BY <1>1, <1>2
<1>8. notes \o Plays(chars[2]) = NotesOf(SubSeq(keys, 1, j + 1))
  <2>1. notes = NotesOf(SubSeq(keys, 1, j))
    BY DEF Waiting
  <2> QED BY <1>4, <1>7, <2>1, NotesOfMore
<1> QED BY <1>6, <1>7, <1>8 DEF Waiting

-----------------------------------------------------------------------------
\* The inductive invariant of the keys.

KeyType ==
  /\ wire \in Seq(KeyChar) /\ indat \in Seq(KeyChar)
  /\ played \in Seq(Nat) /\ pressed \in Seq(Keys)
  /\ burst \in BOOLEAN /\ lost \in Nat

\* Every note and every key under way is a pressed one, in order; and unless characters
\* are lost or messages pile up, whole messages are under way and all others have played.
KeyInv ==
  /\ KeyType
  /\ Traced(played, indat \o wire, pressed)
  /\ lost = 0 /\ ~ burst => server = "runs" /\ \E j : Waiting(j, played, indat \o wire, pressed)

\* One lemma for the start and for each action.
LEMMA KeyStart == KeyInit => KeyInv
<1> SUFFICES ASSUME KeyInit PROVE KeyInv
  OBVIOUS
<1>1. /\ wire = <<>> /\ indat = <<>> /\ played = <<>> /\ pressed = <<>>
      /\ server = "runs" /\ burst = FALSE /\ lost = 0
  BY DEF KeyInit
<1>2. KeyType
  <2>1. <<>> \in Seq(KeyChar) /\ <<>> \in Seq(Nat) /\ <<>> \in Seq(Keys)
    OBVIOUS
  <2> QED BY <1>1, <2>1 DEF KeyType
<1>3. <<>> \o <<>> = <<>>
  OBVIOUS
<1>4. Traced(<<>>, <<>>, <<>>)
  <2> DEFINE h == [i \in 1 .. 0 |-> 0]
  <2>1. h \in [1 .. Len(<<>>) -> 0 .. Len(<<>>)] /\ Tracks(h, <<>>, <<>>)
    BY DEF Tracks
  <2>2. InKeys(<<>> \o <<>>, <<>>)
    BY <1>3, <2>1 DEF InKeys
  <2>3. <<>> \in Seq(KeyChar) /\ Sounding(<<>>, <<>>)
    BY DEF Sounding
  <2> QED BY <2>2, <2>3 DEF Traced
<1>5. Waiting(0, <<>>, <<>>, <<>>)
  <2>1. Len(SubSeq(<<>>, 1, 0)) = 0
    OBVIOUS
  <2>2. NotesOf(SubSeq(<<>>, 1, 0)) = <<>>
    <3> DEFINE a == SubSeq(<<>>, 1, 0)
               t == [i \in 1 .. Len(a) |-> Plays(a[i])]
    <3>1. t = <<>>
      BY <2>1
    <3>2. NotesOf(a) = FlattenSeq(t)
      BY DEF NotesOf
    <3> QED BY <3>1, <3>2 DEF FlattenSeq
  <2>3. Carries(<<>>, <<>>, 0)
    BY DEF Carries
  <2> QED BY <2>2, <2>3 DEF Waiting
<1> QED BY <1>1, <1>2, <1>3, <1>4, <1>5 DEF KeyInv

LEMMA PressKeeps == ASSUME KeyInv, Press PROVE KeyInv'
<1> DEFINE chars == indat \o wire
<1>0. KeyType /\ Traced(played, chars, pressed)
  BY DEF KeyInv
<1>1. PICK k \in Keys : wire' = wire \o Message(k) /\ pressed' = Append(pressed, k)
  BY DEF Press
<1>2. /\ indat' = indat /\ server' = server /\ played' = played /\ lost' = lost
      /\ burst' = (burst \/ Messages(chars) >= 2)
  BY DEF Press
<1> DEFINE msg == Message(k)
           longer == indat \o (wire \o msg)
<1>3. msg \in Seq(KeyChar) /\ Len(msg) = 3 /\ msg[1] = P /\ msg[2] = k /\ msg[3] = NL
  <2>1. P \in KeyChar /\ NL \in KeyChar /\ k \in KeyChar
    BY KeyAssumption DEF KeyChar
  <2> QED BY <2>1 DEF Message
<1>4. wire \in Seq(KeyChar) /\ indat \in Seq(KeyChar) /\ played \in Seq(Nat) /\ pressed \in Seq(Keys)
  BY <1>0 DEF KeyType
<1> HIDE DEF msg
<1>5. longer = chars \o msg
  <2>1. (indat \o wire) \o msg = indat \o (wire \o msg)
    BY <1>3, <1>4, ConcatAssociative
  <2> QED BY <2>1
<1>6. chars \in Seq(KeyChar)
  BY <1>4
<1> HIDE DEF chars
<1>7. /\ longer \in Seq(KeyChar) /\ Len(longer) = Len(chars) + 3
      /\ \A i \in 1 .. Len(chars) : longer[i] = chars[i]
      /\ longer[Len(chars) + 1] = P /\ longer[Len(chars) + 2] = k /\ longer[Len(chars) + 3] = NL
  <2> HIDE DEF longer
  <2>1. longer \in Seq(KeyChar) /\ Len(longer) = Len(chars) + Len(msg)
    BY <1>3, <1>5, <1>6, Joined
  <2>2. \A i \in 1 .. Len(chars) : longer[i] = chars[i]
    BY <1>3, <1>5, <1>6, Joined
  <2>3. \A i \in 1 .. 3 : longer[Len(chars) + i] = msg[i]
    <3>1. \A i \in 1 .. Len(msg) : (chars \o msg)[Len(chars) + i] = msg[i]
      BY <1>3, <1>6, Joined
    <3> QED BY <1>3, <1>5, <3>1
  <2>4. 1 \in 1 .. 3 /\ 2 \in 1 .. 3 /\ 3 \in 1 .. 3
    OBVIOUS
  <2> QED BY <1>3, <2>1, <2>2, <2>3, <2>4
<1>8. indat' \o wire' = longer
  BY <1>1, <1>2 DEF msg
<1> HIDE DEF longer
<1>9. Traced(played', longer, pressed')
  BY <1>0, <1>1, <1>2, <1>4, <1>6, <1>7, TracedPressed
<1>10. KeyType'
  <2>1. wire' \in Seq(KeyChar)
    BY <1>1, <1>3, <1>4 DEF msg
  <2>2. pressed' \in Seq(Keys)
    BY <1>1, <1>4
  <2>3. burst' \in BOOLEAN
    BY <1>0, <1>2 DEF KeyType
  <2> QED BY <1>0, <1>2, <2>1, <2>2, <2>3 DEF KeyType
<1>11. ASSUME lost' = 0, ~ burst'
       PROVE  server' = "runs" /\ \E j : Waiting(j, played', longer, pressed')
  <2>1. lost = 0 /\ ~ burst /\ ~ (Messages(chars) >= 2)
    BY <1>2, <1>11
  <2>2. server = "runs" /\ \E j : Waiting(j, played, chars, pressed)
    BY <2>1 DEF KeyInv, chars
  <2>3. PICK j : Waiting(j, played, chars, pressed)
    BY <2>2
  <2>4. Len(pressed) - j < 2
    <3> DEFINE d == Len(pressed) - j
    <3>1. d \in 0 .. 2 /\ Len(chars) = 3 * d
      BY <1>4, <2>3 DEF Waiting, Carries
    <3>2. \A m \in 1 .. d : chars[3 * m] = NL
      BY <2>3 DEF Waiting, Carries
    <3> HIDE DEF d
    <3>3. SUFFICES ASSUME d = 2 PROVE FALSE
      BY <3>1 DEF d
    <3>4. chars[3 * 1] = NL /\ chars[3 * 2] = NL
      <4>1. 1 \in 1 .. d /\ 2 \in 1 .. d
        BY <3>3
      <4> QED BY <3>2, <4>1
    <3>5. 3 \in 1 .. Len(chars) /\ 6 \in 1 .. Len(chars) /\ 3 * 1 = 3 /\ 3 * 2 = 6
      BY <3>1, <3>3
    <3>6. Messages(chars) \in Nat
      BY <1>6, MessagesCount
    <3>7. Messages(chars) < 2
      BY <2>1, <3>6
    <3>8. \A p, q \in 1 .. Len(chars) : chars[p] = NL /\ chars[q] = NL => p = q
      BY <1>6, <3>7, MessagesCount
    <3> QED BY <3>4, <3>5, <3>8
  <2>5. Waiting(j, played, longer, pressed')
    BY <1>1, <1>4, <1>6, <1>7, <2>3, <2>4, WaitingPressed
  <2> QED BY <1>2, <2>2, <2>5
<1> QED BY <1>8, <1>9, <1>10, <1>11 DEF KeyInv

LEMMA PassKeeps == ASSUME KeyInv, NEW k \in 0 .. Len(wire), Pass(k) PROVE KeyInv'
<1> DEFINE now == SubSeq(wire, 1, k)
           s == indat \o now
           left == SubSeq(wire, k + 1, Len(wire))
           chars == indat \o wire
<1>0. KeyType /\ Traced(played, chars, pressed)
  BY DEF KeyInv
<1>1. wire \in Seq(KeyChar) /\ indat \in Seq(KeyChar) /\ played \in Seq(Nat) /\ pressed \in Seq(Keys)
  BY <1>0 DEF KeyType
<1>2. wire' = left /\ pressed' = pressed /\ burst' = burst /\ lost' = lost
  BY DEF Pass
<1>3. PICK scan \in Scan(s) :
        /\ played' = played \o scan.notes
        /\ server' = IF scan.ok THEN "runs" ELSE "aborted"
        /\ indat' = scan.rest
  BY DEF Pass, Parse, Heard
<1>4. now \in Seq(KeyChar) /\ Len(now) = k /\ left \in Seq(KeyChar)
  BY <1>1
<1>5. now \o left = wire
  <2>1. 1 \in 1 .. Len(wire) + 1 /\ k \in 1 - 1 .. Len(wire) /\ Len(wire) \in k .. Len(wire)
    BY <1>1
  <2>2. SubSeq(wire, 1, k) \o SubSeq(wire, k + 1, Len(wire)) = SubSeq(wire, 1, Len(wire))
    BY <1>1, <2>1, ConcatAdjacentSubSeq
  <2> QED BY <1>1, <2>2, SubSeqFull
<1> HIDE DEF now, left
<1>6. s \in Seq(KeyChar) /\ s \o left = chars
  <2>1. (indat \o now) \o left = indat \o (now \o left)
    BY <1>1, <1>4, ConcatAssociative
  <2> QED BY <1>1, <1>4, <1>5, <2>1
<1> HIDE DEF s, chars
<1>7. scan \in Loop /\ Traced(played \o scan.notes, scan.rest \o left, pressed)
  BY <1>0, <1>1, <1>4, <1>6, LoopTraced
<1>8. scan.rest \in Seq(KeyChar) /\ scan.notes \in Seq(Nat)
  BY <1>7 DEF Loop
<1>9. KeyType'
  <2>1. played' \in Seq(Nat)
    BY <1>1, <1>3, <1>8
  <2> QED BY <1>0, <1>2, <1>3, <1>4, <1>8, <2>1 DEF KeyType
<1>10. Traced(played', indat' \o wire', pressed')
  BY <1>2, <1>3, <1>7
<1>11. ASSUME lost' = 0, ~ burst'
       PROVE  server' = "runs" /\ \E j : Waiting(j, played', indat' \o wire', pressed')
  <2>1. \E j : Waiting(j, played, chars, pressed)
    BY <1>2, <1>11 DEF KeyInv, chars
  <2>2. PICK j : Waiting(j, played, chars, pressed)
    BY <2>1
  <2> DEFINE d == Len(pressed) - j
             L == Len(s)
  <2>3. d \in 0 .. 2 /\ Len(chars) = 3 * d
    BY <1>1, <2>2 DEF Waiting, Carries
  <2>4. \A m \in 1 .. d : chars[3 * m - 2] = P /\ chars[3 * m - 1] = pressed[j + m] /\ chars[3 * m] = NL
    BY <2>2 DEF Waiting, Carries
  <2>5. L \in Nat /\ Len(left) \in Nat /\ Len(chars) = L + Len(left) /\ \A i \in 1 .. L : chars[i] = s[i]
    <3>1. Len(s \o left) = L + Len(left)
      BY <1>4, <1>6, Joined
    <3>2. \A i \in 1 .. L : (s \o left)[i] = s[i]
      BY <1>4, <1>6, Joined
    <3>3. L \in Nat /\ Len(left) \in Nat
      BY <1>4, <1>6
    <3> QED BY <1>6, <3>1, <3>2, <3>3
  <2>6. L <= 6
    BY <2>3, <2>5
  <2>7. ASSUME L >= 1
        PROVE  chars[1] = P /\ IsKey(chars[2]) /\ chars[3] = NL
    <3>1. 1 \in 1 .. d /\ 3 * 1 - 2 = 1 /\ 3 * 1 - 1 = 2 /\ 3 * 1 = 3 /\ j + 1 \in 1 .. Len(pressed)
      <4>1. d >= 1
        BY <2>3, <2>5, <2>7
      <4>2. j \in 0 .. Len(pressed) /\ Len(pressed) \in Nat
        BY <1>1, <2>2 DEF Waiting
      <4> QED BY <2>3, <4>1, <4>2
    <3>2. chars[3 * 1 - 2] = P /\ chars[3 * 1 - 1] = pressed[j + 1] /\ chars[3 * 1] = NL
      BY <2>4, <3>1
    <3>3. pressed[j + 1] \in 0 .. 15
      <4>1. pressed[j + 1] \in Keys
        BY <1>1, <3>1
      <4> QED BY <4>1, KeyAssumption
    <3> QED BY <3>1, <3>2, <3>3 DEF IsKey
  <2> HIDE DEF d
  <2>8. scan = IF L < 3 THEN Begun(s)
               ELSE [rest |-> SubSeq(s, 4, L), notes |-> Plays(s[2]), ok |-> TRUE]
    <3>1. L >= 1 => s[1] = P
      BY <2>5, <2>7
    <3>2. L >= 2 => IsKey(s[2])
      BY <2>5, <2>7
    <3>3. L >= 3 => s[3] = NL
      BY <2>5, <2>7
    <3> QED BY <1>3, <1>6, <2>6, <3>1, <3>2, <3>3, LoopOnce
  <2>9. CASE L < 3
    <3>1. scan.rest = s /\ scan.notes = <<>> /\ scan.ok = TRUE
      BY <2>8, <2>9 DEF Begun
    <3>2. played' = played
      <4>1. played \o <<>> = played
        BY <1>1, ConcatEmptySeq
      <4> QED BY <1>3, <3>1, <4>1
    <3>3. indat' \o wire' = chars
      BY <1>2, <1>3, <1>6, <3>1
    <3> QED BY <1>2, <1>3, <2>2, <3>1, <3>2, <3>3
  <2>10. CASE ~ (L < 3)
    <3>1. scan.rest = SubSeq(s, 4, L) /\ scan.notes = Plays(s[2]) /\ scan.ok = TRUE
      BY <2>8, <2>10
    <3>2. s[2] = chars[2] /\ Len(chars) >= 3
      BY <2>5, <2>10
    <3>3. indat' \o wire' = Cut(s, 2, left)
      BY <1>2, <1>3, <3>1 DEF Cut
    <3> DEFINE ahead == Cut(s, 2, left)
    <3>4. /\ ahead \in Seq(KeyChar) /\ Len(ahead) = Len(chars) - (2 + 1)
          /\ \A i \in 1 .. Len(ahead) : ahead[i] = chars[i + (2 + 1)]
      BY <1>4, <1>6, <2>5, <2>10, CutOff
    <3>5. Waiting(j + 1, played \o Plays(chars[2]), ahead, pressed)
      <4>1. chars \in Seq(KeyChar)
        BY <1>1 DEF chars
      <4>2. Len(ahead) = Len(chars) - 3 /\ \A i \in 1 .. Len(ahead) : ahead[i] = chars[i + 3]
        BY <3>4
      <4> HIDE DEF ahead
      <4> QED BY <1>1, <2>2, <3>2, <3>4, <4>1, <4>2, WaitingPlayed
    <3> QED BY <1>2, <1>3, <3>1, <3>2, <3>3, <3>5
  <2> QED BY <2>9, <2>10
<1> QED BY <1>9, <1>10, <1>11 DEF KeyInv

LEMMA LoseKeeps == ASSUME KeyInv, Lose PROVE KeyInv'
<1> DEFINE chars == indat \o wire
<1>0. KeyType /\ Traced(played, chars, pressed)
  BY DEF KeyInv
<1>1. wire \in Seq(KeyChar) /\ indat \in Seq(KeyChar) /\ played \in Seq(Nat) /\ lost \in Nat
  BY <1>0 DEF KeyType
<1>2. PICK q \in 1 .. Len(wire) : wire' = RemoveAt(wire, q)
  BY DEF Lose
<1>3. /\ indat' = indat /\ server' = server /\ played' = played /\ pressed' = pressed
      /\ burst' = burst /\ lost' = lost + 1
  BY DEF Lose
<1> DEFINE W == Len(wire)
           N == Len(indat)
           next == RemoveAt(wire, q)
           left == indat \o next
           a == SubSeq(wire, 1, q - 1)
           b == SubSeq(wire, q + 1, W)
<1>4. W \in Nat /\ N \in Nat /\ q \in 1 .. W /\ Len(chars) = N + W
  BY <1>1, Joined
<1>5. a \in Seq(KeyChar) /\ Len(a) = q - 1 /\ \A i \in 1 .. q - 1 : a[i] = wire[i]
  BY <1>1, <1>4
<1>6. b \in Seq(KeyChar) /\ Len(b) = W - q /\ \A i \in 1 .. W - q : b[i] = wire[i + q]
  BY <1>1, <1>4
<1>7. next = a \o b
  BY DEF RemoveAt
<1> HIDE DEF a, b, next
<1>8. next \in Seq(KeyChar) /\ Len(next) = W - 1
  <2>1. next \in Seq(KeyChar) /\ Len(next) = Len(a) + Len(b)
    BY <1>5, <1>6, <1>7, Joined
  <2> QED BY <1>4, <1>5, <1>6, <2>1
<1>9. \A i \in 1 .. W - 1 : next[i] = IF i < q THEN wire[i] ELSE wire[i + 1]
  <2> TAKE i \in 1 .. W - 1
  <2>1. CASE i < q
    <3>1. i \in 1 .. Len(a) /\ i \in 1 .. q - 1
      BY <1>4, <1>5, <2>1
    <3>2. (a \o b)[i] = a[i]
      BY <1>5, <1>6, <3>1, Joined
    <3> QED BY <1>5, <1>7, <2>1, <3>1, <3>2
  <2>2. CASE ~ (i < q)
    <3> DEFINE p == i - (q - 1)
    <3>1. p \in 1 .. Len(b) /\ p \in 1 .. W - q /\ i = Len(a) + p /\ p + q = i + 1
      BY <1>4, <1>5, <1>6, <2>2
    <3> HIDE DEF p
    <3>2. (a \o b)[Len(a) + p] = b[p]
      <4>1. \A x \in 1 .. Len(b) : (a \o b)[Len(a) + x] = b[x]
        BY <1>5, <1>6, Joined
      <4> QED BY <3>1, <4>1
    <3>3. b[p] = wire[p + q]
      BY <1>6, <3>1
    <3> QED BY <1>7, <2>2, <3>1, <3>2, <3>3
  <2> QED BY <2>1, <2>2
<1>10. left \in Seq(KeyChar) /\ Len(left) = N + (W - 1)
  <2>1. left \in Seq(KeyChar) /\ Len(left) = N + Len(next)
    BY <1>1, <1>8, Joined
  <2> QED BY <1>8, <2>1
<1>11. \A i \in 1 .. N : left[i] = indat[i] /\ chars[i] = indat[i]
  BY <1>1, <1>8, Joined
<1>12. \A i \in 1 .. W - 1 : left[N + i] = next[i]
  BY <1>1, <1>8, Joined
<1>13. \A i \in 1 .. W : chars[N + i] = wire[i]
  BY <1>1, Joined
<1>14. chars \in Seq(KeyChar)
  BY <1>1
<1> DEFINE e == [i \in 1 .. Len(left) |-> IF i < N + q THEN i ELSE i + 1]
<1> HIDE DEF left, chars, W, N
<1>15. e \in [1 .. Len(left) -> 1 .. Len(chars)]
  BY <1>4, <1>10
<1>16. \A i \in 1 .. Len(left) : e[i] = IF i < N + q THEN i ELSE i + 1
  OBVIOUS
<1> HIDE DEF e
<1>17. \A i \in 1 .. Len(left) : left[i] = chars[e[i]]
  <2> TAKE i \in 1 .. Len(left)
  <2>1. CASE i <= N
    <3>1. i \in 1 .. N /\ i < N + q
      BY <1>4, <1>10, <2>1
    <3> QED BY <1>11, <1>16, <3>1
  <2>2. CASE i > N
    <3> DEFINE p == i - N
    <3>1. p \in 1 .. W - 1 /\ p \in 1 .. W /\ p + 1 \in 1 .. W /\ i = N + p /\ i + 1 = N + (p + 1)
          /\ (i < N + q <=> p < q)
      BY <1>4, <1>10, <2>2
    <3> HIDE DEF p
    <3>2. left[i] = IF p < q THEN wire[p] ELSE wire[p + 1]
      BY <1>9, <1>12, <3>1
    <3>3. chars[N + p] = wire[p] /\ chars[N + (p + 1)] = wire[p + 1]
      BY <1>13, <3>1
    <3>4. e[i] = IF p < q THEN N + p ELSE N + (p + 1)
      BY <1>16, <3>1
    <3> QED BY <3>2, <3>3, <3>4
  <2> QED BY <1>4, <1>10, <2>1, <2>2
<1>18. \A i, j \in 1 .. Len(left) : i < j => e[i] < e[j]
  BY <1>4, <1>10, <1>16
<1>19. Takes(e, left, chars)
  BY <1>15, <1>17, <1>18 DEF Takes
<1>20. Traced(played, left, pressed)
  BY <1>0, <1>1, <1>10, <1>14, <1>19, TracedPart
<1>21. indat' \o wire' = left
  BY <1>2, <1>3 DEF left, next
<1>22. KeyType'
  <2>1. wire' \in Seq(KeyChar) /\ lost' \in Nat
    BY <1>1, <1>2, <1>3, <1>8 DEF next
  <2> QED BY <1>0, <1>3, <2>1 DEF KeyType
<1>23. lost' # 0
  BY <1>1, <1>3
<1>24. Traced(played', indat' \o wire', pressed')
  BY <1>3, <1>20, <1>21
<1> QED BY <1>22, <1>23, <1>24 DEF KeyInv

\* The invariant holds, for any keys and any numbers of them and of characters lost.
THEOREM KeyInvHolds == KeySpec => []KeyInv
<1>1. KeyInit => KeyInv
  BY KeyStart
<1>2. KeyInv /\ [KeyNext]_keyVars => KeyInv'
  <2> SUFFICES ASSUME KeyInv, [KeyNext]_keyVars PROVE KeyInv'
    OBVIOUS
  <2>1. CASE Press
    BY <2>1, PressKeeps
  <2>2. CASE \E k \in 0 .. Len(wire) : Pass(k)
    BY <2>2, PassKeeps
  <2>3. CASE Lose
    BY <2>3, LoseKeeps
  <2>4. CASE UNCHANGED keyVars
    BY <2>4 DEF keyVars, KeyInv, KeyType
  <2> QED BY <2>1, <2>2, <2>3, <2>4 DEF KeyNext
<1> QED BY <1>1, <1>2, PTL DEF KeySpec

\* What the server plays are keys that were pressed, in their order, each at most
\* once, whatever the line loses (main's printf("p%c"), server.cpp:216-242).
THEOREM PlayedInOrderHolds == KeySpec => []PlayedInOrder
<1>1. KeyInv => PlayedInOrder
  <2> SUFFICES ASSUME KeyInv PROVE PlayedInOrder
    OBVIOUS
  <2> DEFINE chars == indat \o wire
  <2>1. KeyType /\ Traced(played, chars, pressed)
    BY DEF KeyInv
  <2>2. chars \in Seq(KeyChar) /\ played \in Seq(Nat) /\ pressed \in Seq(Keys)
    BY <2>1 DEF KeyType
  <2> HIDE DEF chars
  <2> QED BY <2>1, <2>2, TracedInOrder DEF PlayedInOrder
<1> QED BY <1>1, KeyInvHolds, PTL

\* Wherever the reads cut the messages, no key is lost while no character is and no
\* three messages wait at once, though the loop goes on from a stale index after a
\* command (server.cpp:216-242).
THEOREM NoKeyLostHolds == KeySpec => []NoKeyLost
<1>1. KeyInv => NoKeyLost
  <2> SUFFICES ASSUME KeyInv, Quiet, lost = 0, ~ burst PROVE played = NotesOf(pressed)
    BY DEF NoKeyLost
  <2>1. indat \in Seq(KeyChar) /\ pressed \in Seq(Keys)
    BY DEF KeyInv, KeyType
  <2>2. PICK j : Waiting(j, played, indat \o wire, pressed)
    BY DEF KeyInv
  <2>3. indat \o wire = indat
    BY <2>1, ConcatEmptySeq DEF Quiet
  <2>4. \A i \in 1 .. Len(indat) : indat[i] # NL
    BY <2>1, MessagesCount DEF Quiet
  <2> DEFINE d == Len(pressed) - j
  <2>5. d \in 0 .. 2 /\ Len(indat) = 3 * d /\ \A m \in 1 .. d : indat[3 * m] = NL
    BY <2>1, <2>2, <2>3 DEF Waiting, Carries
  <2>6. d = 0
    <3> HIDE DEF d
    <3>1. SUFFICES ASSUME d # 0 PROVE FALSE
      OBVIOUS
    <3>2. 1 \in 1 .. d /\ 3 * 1 \in 1 .. Len(indat)
      BY <2>5, <3>1
    <3>3. indat[3 * 1] = NL
      BY <2>5, <3>2
    <3> QED BY <2>4, <3>2, <3>3
  <2>7. j = Len(pressed)
    BY <2>1, <2>2, <2>6 DEF Waiting
  <2>8. SubSeq(pressed, 1, j) = pressed
    BY <2>1, <2>7, SubSeqFull
  <2> QED BY <2>2, <2>8 DEF Waiting
<1> QED BY <1>1, KeyInvHolds, PTL

=============================================================================
