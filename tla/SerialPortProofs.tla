-------------------------- MODULE SerialPortProofs --------------------------
(***************************************************************************)
(* Proofs about the serial library, for any threads, ports, settings and   *)
(* timeouts: what select has seen is there when the call acts on it, an    *)
(* open port gets the object's settings from any setter that runs alone,   *)
(* and the library implements ByteStream; deadlines, settings of the line  *)
(* and cutting of lines, for all times, devices and bytes.                 *)
(***************************************************************************)
EXTENDS SerialPort, MCFormats, SequenceTheorems, WellFoundedInduction, TLAPS

Entry == Nat \cup [call : Nat, port : Ports, at : Nat]
Waiting == {"wait", "ready"}
Settling == {"getattr", "members"}
Inside == {"body", "reopen", "stored", "wait", "ready", "getattr", "members"}
Places == {"idle", "readLock", "writeLock", "body", "reopen", "stored", "wait", "ready",
           "getattr", "members"}

TypeInv == /\ read_mutex \in Threads \cup {NoThread}
           /\ write_mutex \in Threads \cup {NoThread}
           /\ pc \in [Threads -> Places]
           /\ op \in [Threads -> Ops \cup {"none"}]
           /\ buf \in [Threads -> Seq(Entry)]
           /\ left \in [Threads -> 0..Timeout]
           /\ call \in [Threads -> Nat]
           /\ inq \in [Ports -> Seq(Entry)]
           /\ outq \in [Ports -> 0..OutSize]
           /\ calls \in Nat /\ arrived \in Nat
           /\ is_open_ \in BOOLEAN
           /\ port_ \in Ports \cup {NoPort}
           /\ present \subseteq Ports

(* A call that is past its locks has them, and one that waits for its      *)
(* second has its first.                                                   *)
LockInv == \A t \in Threads :
    /\ (pc[t] \in Inside /\ op[t] \in ReadOps) => read_mutex = t
    /\ (pc[t] \in Inside /\ op[t] \in WriteOps) => write_mutex = t
    /\ (pc[t] = "writeLock" /\ op[t] \in ReadOps) => read_mutex = t
    /\ pc[t] # "idle" => op[t] \in Ops

(* Reads and writes wait only on an open port, and setPort finds the port  *)
(* closed while it opens and configures its new file.                      *)
WaitInv == \A t \in Threads :
    /\ pc[t] \in Waiting => op[t] \in {"read", "readline", "write"} /\ is_open_ = TRUE
    /\ pc[t] = "reopen" => op[t] = "setPort" /\ is_open_ = FALSE
    /\ pc[t] = "stored" => op[t] = "set"
    /\ pc[t] \in Settling => op[t] \in Setters
    /\ (pc[t] \in Settling /\ op[t] = "setPort")
           => is_open_ = FALSE /\ fd_.port = port_ /\ port_ \in Ports

(* The descriptor is one that is open on a device that is there, or a dead *)
(* one; that of an open port is on the port.                               *)
PortInv == /\ fd_ \notin dead => fd_ \in descriptors /\ fd_.port \in present
           /\ NoFd \in dead /\ NoFd \notin descriptors
           /\ is_open_ = TRUE => fd_.port = port_ /\ port_ \in Ports

SerialInv == TypeInv /\ LockInv /\ WaitInv /\ PortInv /\ ReadyHolds

(* A function into a set stays one when one of its values is replaced. *)
LEMMA Changed ==
    ASSUME NEW D, NEW S, NEW f \in [D -> S], NEW x, NEW e \in S
    PROVE  [f EXCEPT ![x] = e] \in [D -> S]
  OBVIOUS

(* n bytes of one write, from the (m + 1)-th on. *)
Part(c, p, m, n) == [i \in 1..n |-> [call |-> c, port |-> p, at |-> m + i]]
IsPart(x, c, p, m, n) ==
    /\ x \in Seq(Entry) /\ Len(x) = n
    /\ \A i \in 1..n : x[i] = [call |-> c, port |-> p, at |-> m + i]
LEMMA PartType ==
    ASSUME NEW c \in Nat, NEW p \in Ports, NEW m \in Nat, NEW n \in Nat
    PROVE  IsPart(Part(c, p, m, n), c, p, m, n)
<1>1. \A i \in 1..n : [call |-> c, port |-> p, at |-> m + i] \in Entry
  BY DEF Entry
<1> QED BY <1>1 DEF Part, IsPart

(* An object that is constructed, with a port or without.                  *)
LEMMA InitInv == Init => SerialInv
<1> SUFFICES ASSUME Init PROVE SerialInv
  OBVIOUS
<1> USE SerialAssumption
<1>1. TypeInv
  BY DEF Init, TypeInv, Places
<1>2. LockInv /\ WaitInv /\ ReadyHolds
  BY DEF Init, LockInv, WaitInv, ReadyHolds, Inside, Waiting, Settling
<1>3. PortInv
  BY DEF Init, PortInv, NoFd
<1> QED BY <1>1, <1>2, <1>3 DEF SerialInv

-----------------------------------------------------------------------------
(* Calls that begin, take their locks, go on waiting or end.               *)

(* A call that begins has no lock yet.                                     *)
LEMMA BeginInv == ASSUME NEW t \in Threads, SerialInv, Begin(t) PROVE SerialInv'
<1> USE DEF SerialInv
<1>1. PICK o \in Ops : op' = [op EXCEPT ![t] = o] /\ pc' = [pc EXCEPT ![t] = FirstLock(o)]
  BY SerialAssumption DEF Begin
<1>2. /\ FirstLock(o) \in {"readLock", "writeLock", "body"}
      /\ FirstLock(o) = "writeLock" => o \notin ReadOps
      /\ FirstLock(o) = "body" => o \notin ReadOps \cup WriteOps
  BY DEF FirstLock
<1>3. /\ call' = [call EXCEPT ![t] = calls + 1] /\ calls' = calls + 1
      /\ UNCHANGED <<members, locks, buf, left, kernel, arrived>>
  BY DEF Begin
<1>4. TypeInv'
  BY <1>1, <1>2, <1>3 DEF TypeInv, Places, members, locks, kernel
<1>5. LockInv'
  BY <1>1, <1>2, <1>3 DEF TypeInv, LockInv, locks, Inside
<1>6. WaitInv' /\ ReadyHolds'
  BY <1>1, <1>2, <1>3 DEF TypeInv, WaitInv, ReadyHolds, Waiting, Settling, Room, members, kernel
<1>7. PortInv'
  BY <1>3 DEF PortInv, members, kernel
<1> QED BY <1>4, <1>5, <1>6, <1>7

(* The first lock of read, readline, setPort, flush and flushInput.        *)
LEMMA ReadLockInv == ASSUME NEW t \in Threads, SerialInv, ReadLock(t) PROVE SerialInv'
<1> USE DEF SerialInv
<1>1. TypeInv'
  BY DEF TypeInv, ReadLock, Places, members, kernel, counts
<1>2. LockInv'
  BY SerialAssumption DEF TypeInv, LockInv, ReadLock, Inside
<1>3. WaitInv' /\ ReadyHolds'
  BY DEF TypeInv, WaitInv, ReadyHolds, ReadLock, Waiting, Settling, Room, members, kernel
<1>4. PortInv'
  BY DEF PortInv, ReadLock, members, kernel
<1> QED BY <1>1, <1>2, <1>3, <1>4

(* The lock of write and flushOutput, the second of setPort and flush.     *)
LEMMA WriteLockInv == ASSUME NEW t \in Threads, SerialInv, WriteLock(t) PROVE SerialInv'
<1> USE DEF SerialInv
<1>1. TypeInv'
  BY DEF TypeInv, WriteLock, Places, members, kernel, counts
<1>2. LockInv'
  BY SerialAssumption DEF TypeInv, LockInv, WriteLock, Inside
<1>3. WaitInv' /\ ReadyHolds'
  BY DEF TypeInv, WaitInv, ReadyHolds, WriteLock, Waiting, Settling, Room, members, kernel
<1>4. PortInv'
  BY DEF PortInv, WriteLock, members, kernel
<1> QED BY <1>1, <1>2, <1>3, <1>4

(* What a call's end does to the threads and the locks. *)
LEMMA LeaveInv ==
    ASSUME NEW t \in Threads, TypeInv, LockInv, Leave(t)
    PROVE  /\ read_mutex' \in Threads \cup {NoThread}
           /\ write_mutex' \in Threads \cup {NoThread}
           /\ pc' \in [Threads -> Places] /\ op' \in [Threads -> Ops \cup {"none"}]
           /\ buf' \in [Threads -> Seq(Entry)] /\ left' \in [Threads -> 0..Timeout]
           /\ call' \in [Threads -> Nat]
           /\ LockInv'
           /\ pc'[t] = "idle"
           /\ \A u \in Threads \ {t} : pc'[u] = pc[u] /\ op'[u] = op[u]
<1>1. /\ read_mutex' \in Threads \cup {NoThread}
      /\ write_mutex' \in Threads \cup {NoThread}
      /\ pc' \in [Threads -> Places] /\ op' \in [Threads -> Ops \cup {"none"}]
      /\ call' \in [Threads -> Nat]
  BY DEF Leave, TypeInv, Places
<1>2. buf' \in [Threads -> Seq(Entry)] /\ left' \in [Threads -> 0..Timeout]
  BY SerialAssumption DEF Leave, TypeInv
<1>3. LockInv'
  BY DEF Leave, TypeInv, LockInv, Inside
<1>4. /\ pc'[t] = "idle"
      /\ \A u \in Threads \ {t} : pc'[u] = pc[u] /\ op'[u] = op[u]
  BY DEF Leave, TypeInv
<1> QED BY <1>1, <1>2, <1>3, <1>4

(* The call ends and nothing else happens. *)
LEMMA OnlyLeaveInv ==
    ASSUME NEW t \in Threads, SerialInv, Leave(t), UNCHANGED <<members, kernel, counts>>
    PROVE  SerialInv'
<1> USE DEF SerialInv
<1>1. TypeInv' /\ LockInv'
  BY LeaveInv DEF TypeInv, members, kernel, counts
<1>2. WaitInv' /\ ReadyHolds'
  BY LeaveInv DEF WaitInv, ReadyHolds, Waiting, Settling, Room, members, kernel
<1>3. PortInv'
  BY DEF PortInv, members, kernel
<1> QED BY <1>1, <1>2, <1>3

(* pselect reports what is there: the call is ready to act on it.          *)
LEMMA WaitsInv ==
    ASSUME NEW t \in Threads, SerialInv, ReadWait(t) \/ WriteWait(t)
    PROVE  SerialInv'
<1> USE DEF SerialInv
<1>1. /\ pc[t] = "wait" /\ pc' = [pc EXCEPT ![t] = "ready"]
      /\ op[t] = "write" => Writable
      /\ op[t] # "write" => Readable
      /\ UNCHANGED <<members, locks, op, buf, left, call, snap, kernel, counts>>
  BY DEF ReadWait, WriteWait, Reads
<1>2. TypeInv'
  BY <1>1 DEF TypeInv, Places, members, locks, kernel, counts
<1>3. LockInv' /\ WaitInv'
  BY <1>1 DEF TypeInv, LockInv, WaitInv, Inside, Waiting, Settling, members, locks
<1>4. ReadyHolds'
  BY <1>1 DEF TypeInv, ReadyHolds, Readable, Writable, Room, members, kernel
<1>5. PortInv'
  BY <1>1 DEF PortInv, members, kernel
<1> QED BY <1>2, <1>3, <1>4, <1>5

(* write waits first, unless it has no time at all.                        *)
LEMMA WriteBeginInv == ASSUME NEW t \in Threads, SerialInv, WriteBegin(t) PROVE SerialInv'
<1> USE DEF SerialInv
<1>1. CASE Timeout = 0
  BY <1>1, OnlyLeaveInv DEF WriteBegin
<1>2. CASE Timeout # 0
  <2>1. /\ op[t] = "write" /\ pc[t] = "body" /\ is_open_ = TRUE
        /\ pc' = [pc EXCEPT ![t] = "wait"] /\ left' = [left EXCEPT ![t] = Timeout]
        /\ UNCHANGED <<members, locks, op, buf, call, kernel, counts>>
    BY <1>2 DEF WriteBegin
  <2>2. TypeInv'
    BY <2>1, SerialAssumption DEF TypeInv, Places, members, locks, kernel, counts
  <2>3. LockInv' /\ WaitInv'
    BY <2>1 DEF TypeInv, LockInv, WaitInv, Inside, Waiting, Settling, members, locks
  <2>4. ReadyHolds'
    BY <2>1 DEF TypeInv, ReadyHolds, Room, members, kernel
  <2>5. PortInv'
    BY <2>1 DEF PortInv, members, kernel
  <2> QED BY <2>2, <2>3, <2>4, <2>5
<1> QED BY <1>1, <1>2

-----------------------------------------------------------------------------
(* Bytes that are moved: by the lock, by nobody else's wait.               *)

(* ::read takes bytes: only the caller has the read lock, so no other read *)
(* is ready for them.                                                      *)
LEMMA FetchInv ==
    ASSUME NEW t \in Threads, NEW time \in 0..Timeout, SerialInv,
           op[t] \in Reads, pc[t] \in {"body", "ready"}, is_open_ = TRUE,
           Fetch(t, time)
    PROVE  SerialInv'
<1> USE DEF SerialInv
<1> DEFINE got == IF fd_ \in dead THEN <<>> ELSE Fetched(t, fd_.port)
           b == buf[t] \o got
<1>1. /\ inq' = IF got = <<>> THEN inq
                ELSE [inq EXCEPT ![fd_.port] = SubSeq(@, Len(got) + 1, Len(@))]
      /\ UNCHANGED <<members, descriptors, dead, present, device, outq, counts>>
      /\ \/ Leave(t)
         \/ /\ buf' = [buf EXCEPT ![t] = b] /\ left' = [left EXCEPT ![t] = time]
            /\ pc' = [pc EXCEPT ![t] = IF got # <<>> /\ op[t] = "readline" THEN "body" ELSE "wait"]
            /\ UNCHANGED <<locks, op, call>>
  BY DEF Fetch, Return
<1>2. fd_.port \in Ports
  BY DEF PortInv
<1>3. got \in Seq(Entry)
  <2>1. inq[fd_.port] \in Seq(Entry)
    BY <1>2 DEF TypeInv
  <2>2. Wanted(t) \in Int
    <3>1. buf[t] \in Seq(Entry)
      BY DEF TypeInv
    <3> QED BY <3>1, SerialAssumption DEF Wanted
  <2>3. Fetched(t, fd_.port) \in Seq(Entry)
    <3> HIDE DEF SerialInv
    <3> DEFINE q == inq[fd_.port]
               n == IF Len(q) < Wanted(t) THEN Len(q) ELSE Wanted(t)
    <3>1. n \in Int /\ n <= Len(q)
      BY <2>1, <2>2
    <3> HIDE DEF n
    <3>2. SubSeq(q, 1, n) \in Seq(Entry)
      BY <2>1, <3>1
    <3> QED BY <3>2 DEF Fetched, n
  <2> QED BY <2>3
<1> HIDE DEF got
<1>4. b \in Seq(Entry)
  <2>1. buf[t] \in Seq(Entry)
    BY DEF TypeInv
  <2> QED BY <2>1, <1>3
<1>5. inq' \in [Ports -> Seq(Entry)]
  <2>1. SubSeq(inq[fd_.port], Len(got) + 1, Len(inq[fd_.port])) \in Seq(Entry)
    BY <1>2, <1>3 DEF TypeInv
  <2> HIDE DEF b
  <2> QED BY <1>1, <1>2, <2>1 DEF TypeInv
<1> HIDE DEF b
<1>6. read_mutex = t
  BY DEF LockInv, Reads, ReadOps, Inside
<1>7. /\ TypeInv' /\ LockInv'
      /\ pc'[t] \in {"idle", "body", "wait"}
      /\ \A u \in Threads \ {t} : pc'[u] = pc[u] /\ op'[u] = op[u]
      /\ pc'[t] # "idle" => op'[t] = op[t]
  <2>1. CASE Leave(t)
    <3>1. TypeInv'
      BY <1>1, <1>5, <2>1, LeaveInv DEF TypeInv, members, counts
    <3> QED BY <2>1, <3>1, LeaveInv
  <2>2. CASE ~ Leave(t)
    <3>0. /\ buf' \in [Threads -> Seq(Entry)] /\ left' \in [Threads -> 0..Timeout]
          /\ pc' \in [Threads -> Places]
      BY <1>1, <1>4, <2>2 DEF TypeInv, Places
    <3>1. TypeInv'
      BY <1>1, <1>5, <2>2, <3>0 DEF TypeInv, members, locks, counts
    <3>2. LockInv'
      BY <1>1, <2>2 DEF TypeInv, LockInv, Inside, locks
    <3>3. /\ pc'[t] \in {"body", "wait"} /\ op' = op
          /\ \A u \in Threads \ {t} : pc'[u] = pc[u]
      BY <1>1, <2>2 DEF TypeInv
    <3> QED BY <3>1, <3>2, <3>3
  <2> QED BY <2>1, <2>2
<1>8. WaitInv'
  BY <1>1, <1>7 DEF WaitInv, Waiting, Settling, Reads, members
<1>9. ReadyHolds'
  <2> SUFFICES ASSUME NEW u \in Threads, pc'[u] = "ready"
               PROVE  \/ fd_ \in dead
                      \/ op'[u] = "write" /\ Room > 0
                      \/ op'[u] # "write" /\ inq'[fd_.port] # <<>>
    BY <1>1 DEF ReadyHolds, Room, members
  <2>1. u # t /\ pc[u] = "ready" /\ op'[u] = op[u]
    BY <1>7
  <2>2. op[u] \notin ReadOps
    BY <1>6, <2>1 DEF LockInv, Inside
  <2>3. op[u] = "write"
    BY <2>1, <2>2 DEF WaitInv, Waiting, Settling, ReadOps
  <2> QED BY <2>1, <2>3 DEF ReadyHolds
<1>10. PortInv'
  BY <1>1 DEF PortInv, members
<1> QED BY <1>7, <1>8, <1>9, <1>10

(* ::write fills the room: only the caller has the write lock.             *)
LEMMA WriteReadyInv == ASSUME NEW t \in Threads, SerialInv, WriteReady(t) PROVE SerialInv'
<1> USE DEF SerialInv
<1>1. fd_.port \in Ports
  BY DEF WriteReady, WaitInv, Waiting, Settling, PortInv
<1>2. buf[t] \in Seq(Entry) /\ Len(buf[t]) \in Nat
  BY DEF TypeInv
<1>3. PICK n \in 1..(WriteSize - Len(buf[t])) :
          LET sent == [i \in 1..n |-> [call |-> call[t], port |-> fd_.port, at |-> Len(buf[t]) + i]]
          IN  /\ n <= Room
              /\ outq' = [outq EXCEPT ![fd_.port] = @ + n]
              /\ \/ Leave(t)
                 \/ /\ buf' = [buf EXCEPT ![t] = @ \o sent]
                    /\ pc' = [pc EXCEPT ![t] = "wait"]
                    /\ UNCHANGED <<locks, op, left, call>>
  BY DEF WriteReady
<1>4. /\ op[t] = "write" /\ pc[t] = "ready"
      /\ UNCHANGED <<members, descriptors, dead, present, device, inq, counts>>
  BY DEF WriteReady
<1> DEFINE sent == [i \in 1..n |-> [call |-> call[t], port |-> fd_.port, at |-> Len(buf[t]) + i]]
<1>5. n \in Nat
  BY <1>2, SerialAssumption
<1>6. outq' \in [Ports -> 0..OutSize]
  <2>1. OutSize \in Nat /\ outq \in [Ports -> 0..OutSize]
    BY SerialAssumption DEF TypeInv
  <2>2. outq[fd_.port] \in 0..OutSize /\ n <= OutSize - outq[fd_.port]
    BY <1>1, <1>3, <2>1 DEF Room
  <2>3. outq[fd_.port] + n \in 0..OutSize
    BY <1>5, <2>1, <2>2
  <2>4. outq' = [outq EXCEPT ![fd_.port] = outq[fd_.port] + n]
    BY <1>3
  <2> QED BY <2>1, <2>3, <2>4
<1>7. buf[t] \o sent \in Seq(Entry)
  <2>1. \A i \in 1..n : [call |-> call[t], port |-> fd_.port, at |-> Len(buf[t]) + i] \in Entry
    BY <1>1, <1>2, <1>5 DEF TypeInv, Entry
  <2>2. sent \in Seq(Entry)
    BY <1>5, <2>1
  <2> QED BY <1>2, <2>2
<1> HIDE DEF sent
<1>8. write_mutex = t
  BY <1>4 DEF LockInv, WriteOps, Inside
<1>9. /\ TypeInv' /\ LockInv'
      /\ pc'[t] \in {"idle", "wait"}
      /\ \A u \in Threads \ {t} : pc'[u] = pc[u] /\ op'[u] = op[u]
      /\ pc'[t] # "idle" => op'[t] = op[t]
  <2>1. CASE Leave(t)
    <3>1. TypeInv'
      BY <1>4, <1>6, <2>1, LeaveInv DEF TypeInv, members, counts
    <3> QED BY <2>1, <3>1, LeaveInv
  <2>2. CASE ~ Leave(t)
    <3>1. /\ buf' = [buf EXCEPT ![t] = buf[t] \o sent] /\ pc' = [pc EXCEPT ![t] = "wait"]
          /\ UNCHANGED <<locks, op, left, call>>
      BY <1>3, <2>2 DEF sent
    <3>2. TypeInv'
      BY <1>4, <1>6, <1>7, <3>1 DEF TypeInv, Places, members, locks, counts
    <3>3. LockInv'
      BY <1>4, <3>1 DEF TypeInv, LockInv, Inside, locks
    <3>4. /\ pc'[t] = "wait" /\ op' = op
          /\ \A u \in Threads \ {t} : pc'[u] = pc[u]
      BY <3>1 DEF TypeInv
    <3> QED BY <3>2, <3>3, <3>4
  <2> QED BY <2>1, <2>2
<1>10. WaitInv'
  BY <1>4, <1>9 DEF WaitInv, Waiting, Settling, members
<1>11. ReadyHolds'
  <2> SUFFICES ASSUME NEW u \in Threads, pc'[u] = "ready"
               PROVE  \/ fd_ \in dead
                      \/ op'[u] # "write" /\ inq[fd_.port] # <<>>
    BY <1>4 DEF ReadyHolds, members
  <2>1. u # t /\ pc[u] = "ready" /\ op'[u] = op[u]
    BY <1>9
  <2>2. op[u] # "write"
    BY <1>8, <2>1 DEF LockInv, Inside, WriteOps
  <2> QED BY <2>1, <2>2 DEF ReadyHolds
<1>12. PortInv'
  BY <1>4 DEF PortInv, members
<1> QED BY <1>9, <1>10, <1>11, <1>12

(* flushInput has the read lock, so no read is ready for what it throws    *)
(* away.                                                                   *)
LEMMA FlushInputInv == ASSUME NEW t \in Threads, SerialInv, FlushInput(t) PROVE SerialInv'
<1> USE DEF SerialInv
<1>1. /\ op[t] = "flushInput" /\ pc[t] = "body" /\ Leave(t) /\ is_open_ = TRUE
      /\ inq' = inq \/ inq' = [inq EXCEPT ![fd_.port] = <<>>]
      /\ UNCHANGED <<members, descriptors, dead, present, device, outq, counts>>
  BY DEF FlushInput
<1>2. TypeInv' /\ LockInv'
  <2>1. inq \in [Ports -> Seq(Entry)]
    BY DEF TypeInv
  <2>2. inq' = inq \/ inq' = [inq EXCEPT ![fd_.port] = <<>>]
    BY <1>1
  <2>3. inq' \in [Ports -> Seq(Entry)]
    BY ONLY <2>1, <2>2, Changed, <<>> \in Seq(Entry)
  <2> QED BY <1>1, <2>3, LeaveInv DEF TypeInv, members, counts
<1>3. WaitInv'
  BY <1>1, LeaveInv DEF WaitInv, Waiting, Settling, members
<1>4. read_mutex = t
  BY <1>1 DEF LockInv, ReadOps, Inside
<1>5. ReadyHolds'
  <2> SUFFICES ASSUME NEW u \in Threads, pc'[u] = "ready"
               PROVE  fd_ \in dead \/ (op'[u] = "write" /\ Room > 0)
    BY <1>1 DEF ReadyHolds, Room, members
  <2>1. u # t /\ pc[u] = "ready" /\ op'[u] = op[u]
    BY <1>1, LeaveInv
  <2>2. op[u] = "write"
    BY <1>4, <2>1 DEF LockInv, WaitInv, Inside, Waiting, Settling, ReadOps
  <2> QED BY <2>1, <2>2 DEF ReadyHolds
<1>6. PortInv'
  BY <1>1 DEF PortInv, members
<1> QED BY <1>2, <1>3, <1>5, <1>6

(* flushOutput makes room, whoever waits for it.                           *)
LEMMA FlushOutputInv == ASSUME NEW t \in Threads, SerialInv, FlushOutput(t) PROVE SerialInv'
<1> USE DEF SerialInv
<1>1. /\ Leave(t) /\ is_open_ = TRUE
      /\ outq' = IF fd_ \in dead THEN outq ELSE [outq EXCEPT ![fd_.port] = 0]
      /\ UNCHANGED <<members, descriptors, dead, present, device, inq, counts>>
  BY DEF FlushOutput
<1>2. TypeInv' /\ LockInv'
  <2>1. outq \in [Ports -> 0..OutSize] /\ 0 \in 0..OutSize
    BY SerialAssumption DEF TypeInv
  <2>2. outq' = outq \/ outq' = [outq EXCEPT ![fd_.port] = 0]
    BY <1>1
  <2>3. outq' \in [Ports -> 0..OutSize]
    BY ONLY <2>1, <2>2
  <2> QED BY <1>1, <2>3, LeaveInv DEF TypeInv, members, counts
<1>3. WaitInv'
  BY <1>1, LeaveInv DEF WaitInv, Waiting, Settling, members
<1>4. fd_ \in dead \/ Room' > 0
  <2>1. fd_' = fd_ /\ fd_.port \in Ports
    BY <1>1 DEF PortInv, members
  <2> QED BY <1>1, <2>1, SerialAssumption DEF Room, TypeInv
<1>5. ReadyHolds'
  BY <1>1, <1>4, LeaveInv DEF ReadyHolds, members
<1>6. PortInv'
  BY <1>1 DEF PortInv, members
<1> QED BY <1>2, <1>3, <1>5, <1>6

-----------------------------------------------------------------------------
(* Opening, closing and the settings.                                      *)

(* The kernel's buffers stay what they are, or lose what they hold. *)
LEMMA CloseFileType ==
    ASSUME TypeInv, CloseFile
    PROVE  inq' \in [Ports -> Seq(Entry)] /\ outq' \in [Ports -> 0..OutSize]
<1>1. /\ inq' = inq \/ inq' = [inq EXCEPT ![fd_.port] = <<>>]
      /\ outq' = outq \/ outq' = [outq EXCEPT ![fd_.port] = 0]
  BY DEF CloseFile
<1>2. inq \in [Ports -> Seq(Entry)]
  BY DEF TypeInv
<1>3. outq \in [Ports -> 0..OutSize] /\ 0 \in 0..OutSize
  BY SerialAssumption DEF TypeInv
<1>4. inq' \in [Ports -> Seq(Entry)]
  BY ONLY <1>1, <1>2, Changed, <<>> \in Seq(Entry)
<1>5. outq' \in [Ports -> 0..OutSize]
  BY ONLY <1>1, <1>3
<1> QED BY <1>4, <1>5

(* A close leaves no descriptor, or, when it fails, a dead one.            *)
LEMMA CloseEffect ==
    ASSUME TypeInv, PortInv, close \/ (CloseFails /\ UNCHANGED port_), UNCHANGED present
    PROVE  /\ is_open_' \in BOOLEAN
           /\ inq' \in [Ports -> Seq(Entry)] /\ outq' \in [Ports -> 0..OutSize]
           /\ PortInv'
<1>1. CloseFile
  BY DEF close, CloseFails
<1>2. CASE close
  <2>1. is_open_' = FALSE /\ fd_' = NoFd /\ fd_ # NoFd
        /\ descriptors' = descriptors \ {fd_} /\ dead' = dead \ {fd_}
    BY <1>2 DEF close, CloseFile, PortInv
  <2> QED BY <1>1, <2>1, CloseFileType DEF PortInv
<1>3. CASE CloseFails /\ UNCHANGED port_
  <2>1. /\ UNCHANGED <<is_open_, fd_, port_>> /\ dead' = dead \cup {fd_}
        /\ descriptors' = descriptors \ {fd_}
    BY <1>3 DEF CloseFails, CloseFile
  <2> QED BY <1>1, <2>1, CloseFileType DEF PortInv, TypeInv
<1> QED BY <1>2, <1>3

(* An open gives a descriptor on the port, or none.                        *)
LEMMA OpenEffect ==
    ASSUME TypeInv, PortInv, OpenFile, UNCHANGED port_
    PROVE  /\ fd_' # NoFd => fd_'.port = port_ /\ port_ \in Ports
           /\ is_open_' = FALSE \/ (is_open_' = TRUE /\ fd_' # NoFd) => PortInv'
<1> DEFINE n == CHOOSE n \in 1..MaxFiles : \A d \in descriptors : d.n # n
           d == [n |-> n, port |-> port_]
<1>1. CASE port_ \in present /\ Cardinality(descriptors) < MaxFiles
  <2>1. /\ fd_' = d /\ descriptors' = descriptors \cup {d}
        /\ UNCHANGED <<dead, present>>
    BY <1>1 DEF OpenFile
  <2>2. d.port = port_ /\ port_ \in Ports /\ port_ # NoPort /\ d # NoFd
    <3>1. port_ \in Ports /\ port_ # NoPort
      BY <1>1, SerialAssumption DEF TypeInv
    <3>2. d.port = port_ /\ NoFd.port = NoPort
      BY DEF NoFd
    <3> QED BY <3>1, <3>2
  <2> HIDE DEF d, n
  <2>3. fd_' \in descriptors' /\ fd_'.port \in present'
    BY <1>1, <2>1, <2>2
  <2> QED BY <2>1, <2>2, <2>3 DEF PortInv
<1>2. CASE ~ (port_ \in present /\ Cardinality(descriptors) < MaxFiles)
  <2>1. fd_' = NoFd /\ UNCHANGED <<descriptors, dead, present>>
    BY <1>2 DEF OpenFile
  <2> QED BY <2>1 DEF PortInv
<1> QED BY <1>1, <1>2

(* While setPort has both locks no other thread waits in a read or write,  *)
(* nor settles a new file.                                                 *)
Uninvolved(u) ==
    /\ pc[u] \notin {"wait", "ready", "reopen"}
    /\ pc[u] \in Settling => op[u] = "set"
LEMMA SetPortAlone ==
    ASSUME NEW t \in Threads, LockInv, WaitInv, op[t] = "setPort", pc[t] \in Inside
    PROVE  \A u \in Threads \ {t} : Uninvolved(u)
<1>1. read_mutex = t /\ write_mutex = t
  BY DEF LockInv, ReadOps, WriteOps
<1> SUFFICES ASSUME NEW u \in Threads \ {t}, ~ Uninvolved(u)
             PROVE  FALSE
  OBVIOUS
<1>2. op[u] \in ReadOps \cup WriteOps /\ pc[u] \in Inside
  BY DEF Uninvolved, WaitInv, Waiting, Settling, Setters, Inside, ReadOps, WriteOps
<1> QED BY <1>1, <1>2 DEF LockInv

(* setPort on a closed port only stores the name.                          *)
LEMMA SetPortClosedInv == ASSUME NEW t \in Threads, SerialInv, SetPortClosed(t) PROVE SerialInv'
<1> USE DEF SerialInv
<1>1. /\ op[t] = "setPort" /\ pc[t] = "body" /\ is_open_ = FALSE /\ port_' \in Ports
      /\ Leave(t) /\ UNCHANGED <<fd_, is_open_, kernel, counts>>
  BY DEF SetPortClosed
<1>2. TypeInv' /\ LockInv'
  BY <1>1, LeaveInv DEF TypeInv, kernel, counts
<1>3. \A u \in Threads \ {t} : Uninvolved(u)
  BY <1>1, SetPortAlone DEF Inside
<1>4. WaitInv' /\ ReadyHolds'
  BY <1>1, <1>3, LeaveInv DEF Uninvolved, WaitInv, ReadyHolds, Waiting, Settling
<1>5. PortInv'
  BY <1>1 DEF PortInv, kernel
<1> QED BY <1>2, <1>4, <1>5

(* setPort closes the port while no other call waits on it.                *)
LEMMA SetPortCloseInv == ASSUME NEW t \in Threads, SerialInv, SetPortClose(t) PROVE SerialInv'
<1> USE DEF SerialInv
<1>1. /\ op[t] = "setPort" /\ pc[t] = "body"
      /\ UNCHANGED <<present, counts>>
      /\ \/ /\ close /\ port_' \in Ports /\ is_open_' = FALSE
            /\ pc' = [pc EXCEPT ![t] = "reopen"]
            /\ UNCHANGED <<locks, op, buf, left, call>>
         \/ CloseFails /\ UNCHANGED port_ /\ Leave(t)
  BY DEF SetPortClose, close
<1>2. /\ is_open_' \in BOOLEAN
      /\ inq' \in [Ports -> Seq(Entry)] /\ outq' \in [Ports -> 0..OutSize]
      /\ PortInv'
  BY <1>1, CloseEffect
<1>3. port_' \in Ports \cup {NoPort}
  BY <1>1 DEF TypeInv
<1>4. /\ TypeInv' /\ LockInv'
      /\ pc'[t] = "idle" \/ (pc'[t] = "reopen" /\ op'[t] = op[t] /\ is_open_' = FALSE)
      /\ \A u \in Threads \ {t} : pc'[u] = pc[u] /\ op'[u] = op[u]
  <2>1. CASE Leave(t)
    <3>1. TypeInv'
      BY <1>1, <1>2, <1>3, <2>1, LeaveInv DEF TypeInv, counts
    <3> QED BY <2>1, <3>1, LeaveInv
  <2>2. CASE ~ Leave(t)
    <3>0. /\ pc' = [pc EXCEPT ![t] = "reopen"] /\ is_open_' = FALSE
          /\ UNCHANGED <<locks, op, buf, left, call>>
      BY <1>1, <2>2
    <3>1. TypeInv'
      BY <1>1, <1>2, <1>3, <3>0 DEF TypeInv, Places, locks, counts
    <3>2. LockInv'
      BY <1>1, <3>0 DEF TypeInv, LockInv, Inside, locks
    <3>3. pc'[t] = "reopen" /\ op' = op /\ \A u \in Threads \ {t} : pc'[u] = pc[u]
      BY <3>0 DEF TypeInv
    <3> QED BY <3>0, <3>1, <3>2, <3>3
  <2> QED BY <2>1, <2>2
<1>5. \A u \in Threads \ {t} : Uninvolved(u)
  BY <1>1, SetPortAlone DEF Inside
<1>6. \A u \in Threads : pc'[u] \notin Waiting
  BY <1>4, <1>5 DEF Uninvolved, Waiting
<1>7. WaitInv'
  BY <1>1, <1>4, <1>5, <1>6 DEF Uninvolved, WaitInv, Settling
<1>8. ReadyHolds'
  BY <1>6 DEF ReadyHolds, Waiting
<1> QED BY <1>2, <1>4, <1>7, <1>8

(* setPort opens the new port, or fails and leaves the object closed.      *)
LEMMA SetPortOpenInv == ASSUME NEW t \in Threads, SerialInv, SetPortOpen(t) PROVE SerialInv'
<1> USE DEF SerialInv
<1>1. /\ op[t] = "setPort" /\ pc[t] = "reopen" /\ OpenFile
      /\ UNCHANGED <<port_, is_open_, counts, inq, outq, present>>
      /\ \/ Leave(t)
         \/ /\ fd_' # NoFd /\ pc' = [pc EXCEPT ![t] = "getattr"]
            /\ UNCHANGED <<locks, op, buf, left, call>>
  BY DEF SetPortOpen, OpenFile
<1>2. is_open_ = FALSE
  BY <1>1 DEF WaitInv
<1>3. /\ fd_' # NoFd => fd_'.port = port_ /\ port_ \in Ports
      /\ PortInv'
  BY <1>1, <1>2, OpenEffect
<1>4. /\ TypeInv' /\ LockInv'
      /\ pc'[t] = "idle" \/ (pc'[t] = "getattr" /\ op'[t] = op[t] /\ fd_' # NoFd)
      /\ \A u \in Threads \ {t} : pc'[u] = pc[u] /\ op'[u] = op[u]
  <2>1. CASE Leave(t)
    <3>1. TypeInv'
      BY <1>1, <2>1, LeaveInv DEF TypeInv, counts
    <3> QED BY <2>1, <3>1, LeaveInv
  <2>2. CASE ~ Leave(t)
    <3>1. TypeInv'
      BY <1>1, <2>2 DEF TypeInv, Places, locks, counts
    <3>2. LockInv'
      BY <1>1, <2>2 DEF TypeInv, LockInv, Inside, locks
    <3>3. pc'[t] = "getattr" /\ op' = op /\ \A u \in Threads \ {t} : pc'[u] = pc[u]
      BY <1>1, <2>2 DEF TypeInv
    <3> QED BY <1>1, <2>2, <3>1, <3>2, <3>3
  <2> QED BY <2>1, <2>2
<1>5. \A u \in Threads \ {t} : Uninvolved(u)
  BY <1>1, SetPortAlone DEF Inside
<1>6. WaitInv' /\ ReadyHolds'
  BY <1>1, <1>2, <1>3, <1>4, <1>5 DEF Uninvolved, WaitInv, ReadyHolds, Waiting, Settling, Setters
<1> QED BY <1>3, <1>4, <1>6

(* open, while no call is going on.                                        *)
LEMMA OpenInv == ASSUME SerialInv, Open PROVE SerialInv'
<1> USE DEF SerialInv
<1>1. /\ Idle /\ is_open_ = FALSE /\ OpenFile /\ calls' = calls + 1
      /\ UNCHANGED <<port_, locks, frames, present, inq, outq, arrived>>
      /\ is_open_' = FALSE \/ (is_open_' = TRUE /\ fd_' # NoFd)
  BY DEF Open, CountCall, OpenFile
<1>2. PortInv'
  BY <1>1, OpenEffect
<1>3. is_open_' \in BOOLEAN
  BY ONLY <1>1
<1>4. calls' \in Nat
  BY <1>1 DEF TypeInv
<1>5. TypeInv'
  BY <1>1, <1>3, <1>4 DEF TypeInv, locks, frames
<1>6. LockInv' /\ WaitInv' /\ ReadyHolds'
  BY <1>1 DEF Idle, LockInv, WaitInv, ReadyHolds, Waiting, Settling, Inside, locks, frames
<1> QED BY <1>2, <1>5, <1>6

(* close, while no call is going on.                                       *)
LEMMA CloseInv == ASSUME SerialInv, Close PROVE SerialInv'
<1> USE DEF SerialInv
<1>1. /\ Idle /\ (close \/ CloseFails) /\ calls' = calls + 1
      /\ UNCHANGED <<port_, locks, frames, present, arrived>>
  BY DEF Close, CountCall
<1>2. /\ is_open_' \in BOOLEAN
      /\ inq' \in [Ports -> Seq(Entry)] /\ outq' \in [Ports -> 0..OutSize]
      /\ PortInv'
  BY <1>1, CloseEffect DEF Close
<1>3. calls' \in Nat
  BY DEF TypeInv, Close, CountCall
<1>4. TypeInv'
  BY <1>1, <1>2, <1>3 DEF TypeInv, locks, frames
<1>5. Idle /\ UNCHANGED <<locks, frames>>
  BY DEF Close
<1>6. LockInv' /\ WaitInv' /\ ReadyHolds'
  BY <1>5 DEF Idle, LockInv, WaitInv, ReadyHolds, Waiting, Settling, Inside, locks, frames
<1> QED BY <1>2, <1>4, <1>6

(* A setter, setPort or open goes on with its settings: it has no lock to  *)
(* lose or to wait for.                                                    *)
LEMMA SettleInv ==
    ASSUME NEW t \in Threads, NEW next \in {"stored", "getattr", "members"}, SerialInv,
           pc[t] \in {"body", "stored"} \cup Settling, op[t] \in Setters,
           pc[t] \in {"body", "stored"} => op[t] = "set",
           next = "stored" => op[t] = "set",
           pc' = [pc EXCEPT ![t] = next],
           UNCHANGED <<port_, fd_, is_open_, locks, op, buf, left, call, kernel, counts>>
    PROVE  SerialInv'
<1> USE DEF SerialInv
<1>1. TypeInv'
  BY DEF TypeInv, Places, locks, kernel, counts
<1>2. LockInv'
  BY DEF TypeInv, LockInv, Inside, Settling, locks
<1>3. pc'[t] = next /\ \A u \in Threads \ {t} : pc'[u] = pc[u]
  BY DEF TypeInv
<1>4. WaitInv' /\ ReadyHolds'
  BY <1>3 DEF WaitInv, ReadyHolds, Waiting, Settling, Room, kernel
<1>5. PortInv'
  BY DEF PortInv, kernel
<1> QED BY <1>1, <1>2, <1>4, <1>5

(* A setter stores its member.                                             *)
LEMMA SetStoreInv == ASSUME NEW t \in Threads, SerialInv, SetStore(t) PROVE SerialInv'
  BY SettleInv DEF SetStore, Setters

(* A setter on a closed port is done.                                      *)
LEMMA SetTestInv == ASSUME NEW t \in Threads, SerialInv, SetTest(t) PROVE SerialInv'
<1>1. CASE Leave(t)
  BY <1>1, OnlyLeaveInv DEF SetTest
<1>2. CASE ~ Leave(t)
  BY <1>2, SettleInv DEF SetTest, Setters, members
<1> QED BY <1>1, <1>2

(* tcgetattr succeeds or throws.                                           *)
LEMMA GetAttrInv == ASSUME NEW t \in Threads, SerialInv, GetAttr(t) PROVE SerialInv'
<1>1. CASE Leave(t)
  BY <1>1, OnlyLeaveInv DEF GetAttr
<1>2. CASE ~ Leave(t)
  <2>1. op[t] \in Setters
    BY DEF GetAttr, SerialInv, WaitInv, Settling
  <2> QED BY <1>2, <2>1, SettleInv DEF GetAttr, Settling, members
<1> QED BY <1>1, <1>2

(* reconfigurePort reads a member or throws.                               *)
LEMMA ReadMemberInv ==
    ASSUME NEW t \in Threads, NEW s \in Settings, SerialInv, ReadMember(t, s)
    PROVE  SerialInv'
<1>1. CASE Leave(t)
  BY <1>1, OnlyLeaveInv DEF ReadMember
<1>2. CASE ~ Leave(t)
  <2>1. op[t] \in Setters /\ pc[t] = "members"
    BY DEF ReadMember, SerialInv, WaitInv, Settling
  <2>2. pc' = pc /\ UNCHANGED <<port_, fd_, is_open_, locks, op, buf, left, call, kernel, counts>>
    BY <1>2 DEF ReadMember, members
  <2>3. pc' = [pc EXCEPT ![t] = "members"]
    BY <2>1, <2>2 DEF SerialInv, TypeInv
  <2> QED BY <2>1, <2>2, <2>3, SettleInv DEF Settling
<1> QED BY <1>1, <1>2

(* The file that setPort has opened counts as open now: it is on the port. *)
LEMMA SetAttrInv == ASSUME NEW t \in Threads, SerialInv, SetAttr(t) PROVE SerialInv'
<1> USE DEF SerialInv
<1>1. /\ pc[t] = "members" /\ Leave(t)
      /\ is_open_' = (is_open_ = TRUE \/ op[t] = "setPort")
      /\ UNCHANGED <<port_, fd_, descriptors, dead, present, inq, outq, arrived, calls>>
  BY DEF SetAttr
<1>2. op[t] \in Setters
  BY <1>1 DEF WaitInv, Settling
<1>3. is_open_' \in BOOLEAN /\ (op[t] = "set" => is_open_' = is_open_)
  BY <1>1 DEF TypeInv
<1>4. TypeInv' /\ LockInv'
  BY <1>1, <1>3, LeaveInv DEF TypeInv
<1>5. PortInv'
  BY <1>1, <1>2, <1>3 DEF PortInv, WaitInv, Settling, Setters
<1>6. WaitInv' /\ ReadyHolds'
  <2>1. CASE op[t] = "set"
    BY <1>1, <1>3, <2>1, LeaveInv DEF WaitInv, ReadyHolds, Waiting, Settling, Room
  <2>2. CASE op[t] = "setPort"
    <3>1. \A u \in Threads \ {t} : Uninvolved(u)
      BY <1>1, <2>2, SetPortAlone DEF Inside
    <3>2. /\ pc'[t] = "idle"
          /\ \A u \in Threads \ {t} : pc'[u] = pc[u] /\ op'[u] = op[u]
      BY <1>1, LeaveInv
    <3>3. WaitInv'
      BY <3>1, <3>2 DEF Uninvolved, WaitInv, Waiting, Settling
    <3>4. ReadyHolds'
      BY <3>1, <3>2 DEF Uninvolved, ReadyHolds
    <3> QED BY <3>3, <3>4
  <2> QED BY <1>2, <2>1, <2>2 DEF Setters
<1> QED BY <1>4, <1>5, <1>6

-----------------------------------------------------------------------------
(* The devices, the line and the clock.                                    *)

(* A byte more is no harm to a read that is ready.                         *)
LEMMA ArriveInv == ASSUME NEW p \in Ports, SerialInv, Arrive(p) PROVE SerialInv'
<1> USE DEF SerialInv
<1>1. /\ arrived' = arrived + 1
      /\ inq' = [inq EXCEPT ![p] = Append(inq[p], arrived')]
      /\ UNCHANGED <<members, locks, frames, descriptors, dead, present, device, outq, calls>>
  BY DEF Arrive
<1>2. inq[p] \in Seq(Entry) /\ arrived' \in Entry /\ arrived' \in Nat
  BY <1>1 DEF TypeInv, Entry
<1>3. Append(inq[p], arrived') \in Seq(Entry) /\ Append(inq[p], arrived') # <<>>
  BY ONLY <1>2
<1>4. inq \in [Ports -> Seq(Entry)]
  BY DEF TypeInv
<1>5. inq' \in [Ports -> Seq(Entry)] /\ inq'[p] # <<>>
      /\ \A q \in Ports \ {p} : inq'[q] = inq[q]
  <2>1. inq' = [inq EXCEPT ![p] = Append(inq[p], arrived')]
    BY <1>1
  <2> QED BY ONLY <1>3, <1>4, <2>1, p \in Ports
<1>6. TypeInv' /\ LockInv' /\ WaitInv'
  BY <1>1, <1>2, <1>5 DEF TypeInv, LockInv, WaitInv, members, locks, frames
<1>7. ReadyHolds'
  <2> SUFFICES ASSUME NEW u \in Threads, pc[u] = "ready", fd_ \notin dead, op[u] # "write"
               PROVE  inq'[fd_.port] # <<>>
    BY <1>1 DEF ReadyHolds, Room, members, frames
  <2>1. fd_.port \in Ports /\ inq[fd_.port] # <<>>
    BY DEF WaitInv, Waiting, Settling, PortInv, ReadyHolds
  <2> QED BY <1>5, <2>1
<1>8. PortInv'
  BY <1>1 DEF PortInv, members
<1> QED BY <1>6, <1>7, <1>8

(* A byte less is no harm to a write that is ready.                        *)
LEMMA DrainInv == ASSUME NEW p \in Ports, SerialInv, Drain(p) PROVE SerialInv'
<1> USE DEF SerialInv
<1>1. /\ outq[p] > 0 /\ outq' = [outq EXCEPT ![p] = outq[p] - 1]
      /\ UNCHANGED <<members, locks, frames, descriptors, dead, present, device, inq, counts>>
  BY DEF Drain
<1>2. outq \in [Ports -> 0..OutSize] /\ OutSize \in Nat
  BY SerialAssumption DEF TypeInv
<1>3. outq' \in [Ports -> 0..OutSize] /\ \A q \in Ports : outq'[q] <= outq[q]
  BY <1>1, <1>2
<1>4. TypeInv' /\ LockInv' /\ WaitInv'
  BY <1>1, <1>3 DEF TypeInv, LockInv, WaitInv, members, locks, frames, counts
<1>5. ReadyHolds'
  <2> SUFFICES ASSUME NEW u \in Threads, pc[u] = "ready", fd_ \notin dead, op[u] = "write"
               PROVE  Room' > 0
    BY <1>1 DEF ReadyHolds, members, frames
  <2>1. fd_.port \in Ports /\ Room > 0
    BY DEF WaitInv, Waiting, Settling, PortInv, ReadyHolds
  <2>2. fd_' = fd_ /\ outq[fd_.port] \in Int /\ outq'[fd_.port] \in Int
        /\ outq'[fd_.port] <= outq[fd_.port]
    BY <1>1, <1>2, <1>3, <2>1 DEF members
  <2> QED BY <1>2, <2>1, <2>2 DEF Room
<1>6. PortInv'
  BY <1>1 DEF PortInv, members
<1> QED BY <1>4, <1>5, <1>6

(* A device that is pulled out: the descriptors on it are dead.            *)
LEMMA UnplugInv == ASSUME NEW p \in Ports, SerialInv, Unplug(p) PROVE SerialInv'
<1> USE DEF SerialInv
<1>1. /\ present' = present \ {p}
      /\ dead' = dead \cup {d \in descriptors : d.port = p}
      /\ inq' = [inq EXCEPT ![p] = <<>>] /\ outq' = [outq EXCEPT ![p] = 0]
      /\ UNCHANGED <<members, locks, frames, descriptors, device, arrived, calls>>
  BY DEF Unplug
<1>2. /\ inq \in [Ports -> Seq(Entry)] /\ outq \in [Ports -> 0..OutSize]
      /\ 0 \in 0..OutSize
  BY SerialAssumption DEF TypeInv
<1>3. /\ inq' \in [Ports -> Seq(Entry)] /\ outq' \in [Ports -> 0..OutSize]
      /\ \A q \in Ports \ {p} : inq'[q] = inq[q] /\ outq'[q] = outq[q]
  <2>1. inq' = [inq EXCEPT ![p] = <<>>] /\ outq' = [outq EXCEPT ![p] = 0]
    BY <1>1
  <2> QED BY ONLY <1>2, <2>1
<1>4. TypeInv' /\ LockInv' /\ WaitInv'
  BY <1>1, <1>3 DEF TypeInv, LockInv, WaitInv, members, locks, frames
<1>5. is_open_ = TRUE /\ fd_ \notin dead' => fd_.port \in Ports \ {p} /\ fd_ \notin dead
  BY <1>1 DEF PortInv
<1>6. ReadyHolds'
  <2> SUFFICES ASSUME NEW u \in Threads, pc[u] = "ready", fd_ \notin dead'
               PROVE  \/ op[u] = "write" /\ Room' > 0
                      \/ op[u] # "write" /\ inq'[fd_.port] # <<>>
    BY <1>1 DEF ReadyHolds, members, frames
  <2>1. fd_.port \in Ports \ {p} /\ fd_ \notin dead
    BY <1>5 DEF WaitInv, Waiting, Settling
  <2>2. fd_' = fd_
    BY <1>1 DEF members
  <2> QED BY <1>3, <2>1, <2>2 DEF ReadyHolds, Room
<1>7. PortInv'
  BY <1>1, <1>5 DEF PortInv, members
<1> QED BY <1>4, <1>6, <1>7

(* A device that is plugged in: nothing is open on it yet.                 *)
LEMMA PlugInv == ASSUME NEW p \in Ports, SerialInv, Plug(p) PROVE SerialInv'
<1> USE DEF SerialInv
<1>1. /\ p \notin present /\ present' = present \cup {p}
      /\ UNCHANGED <<members, locks, frames, descriptors, dead, inq, outq, counts>>
  BY DEF Plug
<1>2. TypeInv' /\ LockInv' /\ WaitInv'
  BY <1>1 DEF TypeInv, LockInv, WaitInv, members, locks, frames, counts
<1>3. ReadyHolds' /\ PortInv'
  BY <1>1 DEF ReadyHolds, PortInv, Room, members, frames
<1> QED BY <1>2, <1>3

(* Time passes for all calls.                                              *)
LEMMA TickInv == ASSUME SerialInv, Tick PROVE SerialInv'
<1> USE DEF SerialInv
<1>1. /\ left' = [t \in Threads |-> IF left[t] > 0 THEN left[t] - 1 ELSE 0]
      /\ UNCHANGED <<members, locks, pc, op, buf, call, kernel, counts>>
  BY DEF Tick
<1>2. left' \in [Threads -> 0..Timeout]
  <2>1. left \in [Threads -> 0..Timeout] /\ Timeout \in Nat
    BY SerialAssumption DEF TypeInv
  <2>2. left' = [t \in Threads |-> IF left[t] > 0 THEN left[t] - 1 ELSE 0]
    BY <1>1
  <2> QED BY ONLY <2>1, <2>2
<1>3. TypeInv' /\ LockInv' /\ WaitInv'
  BY <1>1, <1>2 DEF TypeInv, LockInv, WaitInv, members, locks, kernel, counts
<1>4. ReadyHolds' /\ PortInv'
  BY <1>1 DEF ReadyHolds, PortInv, Room, members, kernel
<1> QED BY <1>3, <1>4

-----------------------------------------------------------------------------
(* The invariant, and what follows from it.                                *)

(* Every step of a call, by the lemmas above.                              *)
LEMMA StepInv == ASSUME NEW t \in Threads, SerialInv, Step(t) PROVE SerialInv'
<1>1. CASE ReadLock(t)
  BY <1>1, ReadLockInv
<1>2. CASE WriteLock(t)
  BY <1>2, WriteLockInv
<1>3. CASE NotOpen(t)
  BY <1>3, OnlyLeaveInv DEF NotOpen
<1>4. CASE ReadBegin(t)
  BY <1>4, FetchInv, SerialAssumption DEF ReadBegin
<1>5. CASE ReadWait(t)
  BY <1>5, WaitsInv
<1>6. CASE ReadReady(t)
  <2>1. is_open_ = TRUE /\ left[t] \in 0..Timeout
    BY <1>6 DEF SerialInv, WaitInv, Waiting, Settling, TypeInv, ReadReady
  <2> QED BY <1>6, <2>1, FetchInv DEF ReadReady
<1>7. CASE ReadGone(t)
  BY <1>7, OnlyLeaveInv DEF ReadGone
<1>8. CASE ReadTimeout(t)
  BY <1>8, OnlyLeaveInv DEF ReadTimeout, Return
<1>9. CASE WriteBegin(t)
  BY <1>9, WriteBeginInv
<1>10. CASE WriteWait(t)
  BY <1>10, WaitsInv
<1>11. CASE WriteReady(t)
  BY <1>11, WriteReadyInv
<1>12. CASE WriteGone(t)
  BY <1>12, OnlyLeaveInv DEF WriteGone
<1>13. CASE WriteTimeout(t)
  BY <1>13, OnlyLeaveInv DEF WriteTimeout
<1>14. CASE SetPortClosed(t) \/ SetPortClose(t) \/ SetPortOpen(t)
  BY <1>14, SetPortClosedInv, SetPortCloseInv, SetPortOpenInv
<1>15. CASE SetStore(t) \/ SetTest(t) \/ GetAttr(t) \/ SetAttr(t)
  BY <1>15, SetStoreInv, SetTestInv, GetAttrInv, SetAttrInv
<1>16. ASSUME NEW s \in Settings, ReadMember(t, s) PROVE SerialInv'
  BY <1>16, ReadMemberInv
<1>17. CASE Flush(t)
  BY <1>17, OnlyLeaveInv DEF Flush
<1>18. CASE FlushInput(t) \/ FlushOutput(t)
  BY <1>18, FlushInputInv, FlushOutputInv
<1> QED BY <1>1, <1>2, <1>3, <1>4, <1>5, <1>6, <1>7, <1>8, <1>9, <1>10, <1>11,
           <1>12, <1>13, <1>14, <1>15, <1>16, <1>17, <1>18 DEF Step

(* Nothing happens.                                                        *)
LEMMA StutterInv == ASSUME SerialInv, UNCHANGED vars PROVE SerialInv'
<1>1. UNCHANGED <<members, locks, frames, kernel, counts>>
  BY DEF vars
<1> QED BY <1>1 DEF SerialInv, TypeInv, LockInv, WaitInv, PortInv, ReadyHolds,
                    Room, members, locks, frames, kernel, counts

(* The locks, the places of the threads and the descriptor fit together in *)
(* every reachable state, however calls, plugs and bytes interleave.       *)
THEOREM SerialInvariant == Spec => []SerialInv
<1>1. SerialInv /\ [Next]_vars => SerialInv'
  <2> SUFFICES ASSUME SerialInv, [Next]_vars PROVE SerialInv'
    OBVIOUS
  <2>1. ASSUME NEW t \in Threads, Begin(t) \/ Step(t) PROVE SerialInv'
    BY <2>1, BeginInv, StepInv
  <2>2. CASE Open \/ Close \/ Tick
    BY <2>2, OpenInv, CloseInv, TickInv
  <2>3. ASSUME NEW p \in Ports, Arrive(p) \/ Drain(p) \/ Unplug(p) \/ Plug(p)
        PROVE  SerialInv'
    BY <2>3, ArriveInv, DrainInv, UnplugInv, PlugInv
  <2>4. CASE UNCHANGED vars
    BY <2>4, StutterInv
  <2> QED BY <2>1, <2>2, <2>3, <2>4 DEF Next
<1> QED BY <1>1, InitInv, PTL DEF Spec

-----------------------------------------------------------------------------
(* The buffers of the callers: no call that goes on has moved all it was   *)
(* asked to, and a thread outside a call has moved nothing.                *)

RoomInv == \A t \in Threads : /\ pc[t] = "idle" => buf[t] = <<>>
                              /\ Len(buf[t]) < Size(op[t])

(* A thread that leaves has an empty buffer.                               *)
LEMMA RoomLeave == ASSUME NEW t \in Threads, TypeInv, RoomInv, Leave(t) PROVE RoomInv'
<1> SUFFICES ASSUME NEW u \in Threads
             PROVE  /\ pc'[u] = "idle" => buf'[u] = <<>>
                    /\ Len(buf'[u]) < Size(op'[u])
  BY DEF RoomInv, Size
<1>1. CASE u = t
  <2>1. buf'[t] = <<>>
    BY DEF Leave, TypeInv
  <2> QED BY <1>1, <2>1, SerialAssumption DEF Size
<1>2. CASE u # t
  <2>1. pc'[u] = pc[u] /\ buf'[u] = buf[u] /\ op'[u] = op[u]
    BY <1>2 DEF Leave, TypeInv
  <2> QED BY <2>1 DEF RoomInv
<1> QED BY <1>1, <1>2

(* A step that moves nothing and ends no call.                             *)
LEMMA RoomSame ==
    ASSUME RoomInv, UNCHANGED <<op, buf>>, \A u \in Threads : pc'[u] = "idle" => pc[u] = "idle"
    PROVE  RoomInv'
  BY DEF RoomInv, Size

(* A call begins with an empty buffer.                                     *)
LEMMA RoomBegin == ASSUME NEW t \in Threads, TypeInv, RoomInv, Begin(t) PROVE RoomInv'
<1> SUFFICES ASSUME NEW u \in Threads
             PROVE  /\ pc'[u] = "idle" => buf'[u] = <<>>
                    /\ Len(buf'[u]) < Size(op'[u])
  BY DEF RoomInv, Size
<1>1. pc[t] = "idle" /\ buf' = buf
  BY DEF Begin
<1>2. CASE u = t
  <2>1. buf'[u] = <<>>
    BY <1>1, <1>2 DEF RoomInv
  <2> QED BY <2>1, SerialAssumption DEF Size
<1>3. CASE u # t
  <2>1. pc'[u] = pc[u] /\ op'[u] = op[u]
    BY <1>3 DEF Begin, TypeInv
  <2> QED BY <1>1, <2>1 DEF RoomInv
<1> QED BY <1>2, <1>3

(* ::read is asked for no more than is wanted, and a read that then has    *)
(* all of it ends.                                                         *)
LEMMA RoomFetch ==
    ASSUME NEW t \in Threads, NEW time \in 0..Timeout, SerialInv, RoomInv,
           op[t] \in Reads, pc[t] \in {"body", "ready"}, is_open_ = TRUE,
           Fetch(t, time)
    PROVE  RoomInv'
<1> DEFINE got == IF fd_ \in dead THEN <<>> ELSE Fetched(t, fd_.port)
           b == buf[t] \o got
<1>1. CASE Leave(t)
  BY <1>1, RoomLeave DEF SerialInv
<1>2. CASE ~ Leave(t)
  <2>1. /\ ~ Complete(t, b)
        /\ buf' = [buf EXCEPT ![t] = b] /\ op' = op
        /\ pc' = [pc EXCEPT ![t] = IF got # <<>> /\ op[t] = "readline" THEN "body" ELSE "wait"]
    BY <1>2 DEF Fetch, Return
  <2>2. buf[t] \in Seq(Entry) /\ Len(buf[t]) < ReadSize
    BY DEF SerialInv, TypeInv, RoomInv, Size
  <2>3. Wanted(t) \in Nat /\ Len(buf[t]) + Wanted(t) <= ReadSize
    BY <2>2, SerialAssumption DEF Wanted
  <2>4. got \in Seq(Entry) /\ Len(got) <= Wanted(t)
    <3>1. inq[fd_.port] \in Seq(Entry)
      BY DEF SerialInv, PortInv, TypeInv
    <3> DEFINE q == inq[fd_.port]
               n == IF Len(q) < Wanted(t) THEN Len(q) ELSE Wanted(t)
    <3>2. n \in Nat /\ n <= Len(q) /\ n <= Wanted(t)
      BY <2>3, <3>1
    <3> HIDE DEF n
    <3>3. SubSeq(q, 1, n) \in Seq(Entry) /\ Len(SubSeq(q, 1, n)) = n
      BY <3>1, <3>2
    <3>4. Fetched(t, fd_.port) = SubSeq(q, 1, n)
      BY DEF Fetched, n
    <3> HIDE DEF q
    <3> QED BY <2>3, <3>2, <3>3, <3>4
  <2> HIDE DEF got
  <2>5. Len(b) <= ReadSize /\ Len(b) \in Nat
    BY <2>2, <2>3, <2>4, SerialAssumption
  <2>6. Len(b) < ReadSize
    <3>1. Len(b) # ReadSize
      BY <2>1 DEF Complete
    <3>2. ReadSize \in Nat
      BY SerialAssumption
    <3> QED BY <2>5, <3>1, <3>2
  <2> HIDE DEF b
  <2>7. /\ buf'[t] = b /\ pc'[t] # "idle"
        /\ \A u \in Threads \ {t} : buf'[u] = buf[u] /\ pc'[u] = pc[u]
    BY <2>1 DEF SerialInv, TypeInv
  <2> QED BY <2>1, <2>6, <2>7 DEF RoomInv, Size
<1> QED BY <1>1, <1>2

(* ::write is given what has not gone out, and a write of which all has    *)
(* gone out ends.                                                          *)
LEMMA RoomWrite == ASSUME NEW t \in Threads, SerialInv, RoomInv, WriteReady(t) PROVE RoomInv'
<1>1. CASE Leave(t)
  BY <1>1, RoomLeave DEF SerialInv
<1>2. CASE ~ Leave(t)
  <2>1. PICK n \in 1..(WriteSize - Len(buf[t])) :
            /\ Len(buf[t]) + n # WriteSize
            /\ buf' = [buf EXCEPT ![t] = @ \o [i \in 1..n |->
                  [call |-> call[t], port |-> fd_.port, at |-> Len(buf[t]) + i]]]
            /\ pc' = [pc EXCEPT ![t] = "wait"] /\ op' = op /\ op[t] = "write"
    BY <1>2 DEF WriteReady
  <2> DEFINE sent == [i \in 1..n |-> [call |-> call[t], port |-> fd_.port, at |-> Len(buf[t]) + i]]
  <2>2. buf[t] \in Seq(Entry) /\ Len(buf[t]) \in Nat
    BY DEF SerialInv, TypeInv
  <2>3. sent \in Seq(Entry) /\ Len(sent) = n
    <3>1. fd_.port \in Ports /\ call[t] \in Nat
      BY DEF SerialInv, TypeInv, WaitInv, Waiting, Settling, PortInv, WriteReady
    <3>2. n \in Nat
      BY <2>1, <2>2, SerialAssumption
    <3>3. sent = Part(call[t], fd_.port, Len(buf[t]), n)
      BY DEF Part
    <3> HIDE DEF sent
    <3> QED BY <2>2, <3>1, <3>2, <3>3, PartType DEF IsPart
  <2> HIDE DEF sent
  <2>4. Len(buf[t] \o sent) = Len(buf[t]) + n
    BY <2>2, <2>3
  <2>5. Len(buf[t] \o sent) < WriteSize
    <3>1. WriteSize \in Nat
      BY SerialAssumption
    <3> DEFINE m == Len(buf[t])
    <3>2. n \in 1..(WriteSize - m) /\ m + n # WriteSize /\ m \in Nat
      BY <2>1, <2>2
    <3>3. Len(buf[t] \o sent) = m + n
      BY <2>4
    <3> HIDE DEF m
    <3> QED BY <3>1, <3>2, <3>3
  <2>6. /\ buf'[t] = buf[t] \o sent /\ pc'[t] # "idle"
        /\ \A u \in Threads \ {t} : buf'[u] = buf[u] /\ pc'[u] = pc[u]
    BY <2>1 DEF SerialInv, TypeInv, sent
  <2> QED BY <2>1, <2>5, <2>6 DEF RoomInv, Size, Reads
<1> QED BY <1>1, <1>2

(* Every step of a call.                                                   *)
LEMMA RoomStep == ASSUME NEW t \in Threads, SerialInv, RoomInv, Step(t) PROVE RoomInv'
<1> USE DEF SerialInv
<1>1. CASE ReadLock(t) \/ WriteLock(t) \/ ReadWait(t) \/ WriteWait(t)
  BY <1>1, RoomSame DEF TypeInv, ReadLock, WriteLock, ReadWait, WriteWait
<1>2. CASE \/ NotOpen(t) \/ ReadGone(t) \/ ReadTimeout(t) \/ WriteGone(t) \/ WriteTimeout(t)
           \/ Flush(t) \/ FlushInput(t) \/ FlushOutput(t) \/ SetPortClosed(t) \/ SetAttr(t)
  BY <1>2, RoomLeave DEF NotOpen, ReadGone, ReadTimeout, Return, WriteGone, WriteTimeout,
                         Flush, FlushInput, FlushOutput, SetPortClosed, SetAttr
<1>3. CASE ReadBegin(t)
  BY <1>3, RoomFetch, SerialAssumption DEF ReadBegin
<1>4. CASE ReadReady(t)
  <2>1. is_open_ = TRUE /\ left[t] \in 0..Timeout
    BY <1>4 DEF WaitInv, Waiting, Settling, TypeInv, ReadReady
  <2> QED BY <1>4, <2>1, RoomFetch DEF ReadReady
<1>5. CASE WriteBegin(t)
  <2>1. Leave(t) \/ (pc' = [pc EXCEPT ![t] = "wait"] /\ UNCHANGED <<op, buf>>)
    BY <1>5 DEF WriteBegin
  <2> QED BY <2>1, RoomLeave, RoomSame DEF TypeInv
<1>6. CASE WriteReady(t)
  BY <1>6, RoomWrite
<1>7. CASE SetPortClose(t) \/ SetPortOpen(t) \/ SetStore(t) \/ SetTest(t) \/ GetAttr(t)
  <2>1. \/ Leave(t)
        \/ \E next \in {"reopen", "stored", "getattr", "members"} :
               pc' = [pc EXCEPT ![t] = next] /\ UNCHANGED <<op, buf>>
    BY <1>7 DEF SetPortClose, SetPortOpen, SetStore, SetTest, GetAttr
  <2> QED BY <2>1, RoomLeave, RoomSame DEF TypeInv
<1>8. ASSUME NEW s \in Settings, ReadMember(t, s) PROVE RoomInv'
  <2>1. Leave(t) \/ UNCHANGED <<pc, op, buf>>
    BY <1>8 DEF ReadMember
  <2> QED BY <2>1, RoomLeave, RoomSame
<1> QED BY <1>1, <1>2, <1>3, <1>4, <1>5, <1>6, <1>7, <1>8 DEF Step

(* A read never puts more into its caller's buffer than there is room, and *)
(* a write never sends more than its data, in however many parts.          *)
THEOREM RoomInvariant == Spec => []RoomInv
<1>1. Init => RoomInv
  BY SerialAssumption DEF Init, RoomInv, Size, Reads
<1>2. SerialInv /\ RoomInv /\ [Next]_vars => RoomInv'
  <2> SUFFICES ASSUME SerialInv, RoomInv, [Next]_vars PROVE RoomInv'
    OBVIOUS
  <2>1. ASSUME NEW t \in Threads, Begin(t) \/ Step(t) PROVE RoomInv'
    BY <2>1, RoomBegin, RoomStep DEF SerialInv
  <2>2. CASE Open \/ Close \/ Tick
    BY <2>2, RoomSame DEF Open, Close, Tick, frames
  <2>3. ASSUME NEW p \in Ports, Arrive(p) \/ Drain(p) \/ Unplug(p) \/ Plug(p) PROVE RoomInv'
    BY <2>3, RoomSame DEF Arrive, Drain, Unplug, Plug, frames
  <2>4. CASE UNCHANGED vars
    BY <2>4, RoomSame DEF vars, frames
  <2> QED BY <2>1, <2>2, <2>3, <2>4 DEF Next
<1> QED BY <1>1, <1>2, SerialInvariant, PTL DEF Spec

-----------------------------------------------------------------------------
(* The settings: of the object, of its devices and of the calls that are   *)
(* about to write them, which take no lock.                                *)

Snaps == UNION {[S -> Values] : S \in SUBSET Settings}

SettingsType == /\ settings \in [Settings -> Values]
                /\ device \in [Ports -> [Settings -> Values]]
                /\ snap \in [Threads -> Snaps]
                /\ \A t \in Threads : /\ pc[t] # "members" => DOMAIN snap[t] = {}
                                      /\ pc[t] = "idle" => op[t] = "none"

(* A setter or setPort that began alone is alone, and what it has read of  *)
(* the members is what they are.                                           *)
SetterInv == ~ overlapped =>
    \A t \in Threads : op[t] \in Setters =>
        /\ \A u \in Threads : op[u] \in Setters => u = t
        /\ \A s \in DOMAIN snap[t] : snap[t][s] = settings[s]

Agreed == (/\ is_open_ = TRUE /\ fd_ \notin dead
           /\ NoSetter /\ ~ overlapped /\ ~ untaken /\ CanApply(settings))
              => device[port_] = settings

SettingsInv == SettingsType /\ SetterInv /\ Agreed

(* The constructor gives the device the object's settings.                 *)
LEMMA InitSettings == Init => SettingsInv
<1> SUFFICES ASSUME Init PROVE SettingsInv
  OBVIOUS
<1>1. NoneRead \in Snaps /\ DOMAIN NoneRead = {}
  BY DEF NoneRead, Snaps
<1>2. settings \in [Settings -> Values]
  BY SerialAssumption DEF Init
<1>3. SettingsType
  BY <1>1, <1>2 DEF Init, SettingsType
<1>4. SetterInv
  BY DEF Init, SetterInv, Setters
<1>5. Agreed
  BY SerialAssumption DEF Init, Agreed
<1> QED BY <1>3, <1>4, <1>5 DEF SettingsInv

(* No call becomes a setter, and what a call has read is kept or dropped.  *)
Keeps == /\ snap' \in [Threads -> Snaps]
         /\ \A u \in Threads : /\ op'[u] \in Setters => op[u] \in Setters
                               /\ snap'[u] = snap[u] \/ DOMAIN snap'[u] = {}
                               /\ pc'[u] # "members" => DOMAIN snap'[u] = {}
                               /\ pc'[u] = "idle" => op'[u] = "none"

LEMMA KeepSettings ==
    ASSUME SettingsInv, Keeps, UNCHANGED <<settings, device, overlapped>>, Agreed'
    PROVE  SettingsInv'
<1> USE DEF SettingsInv
<1>1. SettingsType'
  BY DEF SettingsType, Keeps
<1>2. SetterInv'
  BY DEF SetterInv, Keeps
<1> QED BY <1>1, <1>2

(* A call that is no setter, or one that cannot go on, ends.               *)
LEMMA LeaveKeeps ==
    ASSUME NEW t \in Threads, TypeInv, SettingsType, Leave(t)
    PROVE  Keeps
<1>1. NoneRead \in Snaps /\ DOMAIN NoneRead = {}
  BY DEF NoneRead, Snaps
<1>2. /\ snap' = [snap EXCEPT ![t] = NoneRead]
      /\ op' = [op EXCEPT ![t] = "none"] /\ pc' = [pc EXCEPT ![t] = "idle"]
  BY DEF Leave
<1>3. "none" \notin Setters
  BY DEF Setters
<1> QED BY <1>1, <1>2, <1>3 DEF Keeps, TypeInv, SettingsType

LEMMA QuietLeave ==
    ASSUME NEW t \in Threads, TypeInv, SettingsInv, Leave(t), op[t] \notin Setters,
           UNCHANGED <<members, dead, device, history>>
    PROVE  SettingsInv'
<1> USE DEF SettingsInv
<1>1. Keeps
  BY LeaveKeeps
<1>2. NoSetter' => NoSetter
  BY DEF Leave, TypeInv, NoSetter
<1>3. Agreed'
  BY <1>2 DEF Agreed, CanApply, members, history
<1> QED BY <1>1, <1>3, KeepSettings DEF members, history

LEMMA SetterLeave ==
    ASSUME NEW t \in Threads, TypeInv, SettingsInv, Leave(t),
           UNCHANGED <<settings, device, overlapped>>,
           (is_open_' = TRUE /\ fd_' \notin dead') => ~ CanApply(settings)
    PROVE  SettingsInv'
<1>1. Keeps
  BY LeaveKeeps DEF SettingsInv
<1>2. Agreed'
  BY DEF Agreed, CanApply
<1> QED BY <1>1, <1>2, KeepSettings

(* A call goes on, and nothing is open that was not.                       *)
LEMMA StillAgreed ==
    ASSUME NEW t \in Threads, NEW next \in Places \ {"idle"}, TypeInv, SettingsInv,
           pc[t] # "members", pc' = [pc EXCEPT ![t] = next],
           UNCHANGED <<op, snap, settings, device, history>>,
           (is_open_' = TRUE /\ fd_' \notin dead')
               => is_open_ = TRUE /\ fd_ \notin dead /\ port_' = port_
    PROVE  SettingsInv'
<1> USE DEF SettingsInv
<1>1. Keeps
  BY DEF Keeps, TypeInv, SettingsType
<1>2. NoSetter' <=> NoSetter
  BY DEF NoSetter
<1>3. Agreed'
  BY <1>2 DEF Agreed, CanApply, history
<1> QED BY <1>1, <1>3, KeepSettings DEF history

(* The environment moves: the device keeps its settings, or it is one that *)
(* is just plugged in.                                                     *)
LEMMA NoCall ==
    ASSUME SettingsInv, UNCHANGED <<members, pc, op, snap, history>>, dead \subseteq dead',
           device' \in [Ports -> [Settings -> Values]],
           (is_open_ = TRUE /\ fd_ \notin dead) => device'[port_] = device[port_]
    PROVE  SettingsInv'
<1> USE DEF SettingsInv
<1>1. SettingsType'
  BY DEF SettingsType, members
<1>2. SetterInv'
  BY DEF SetterInv, members, history
<1>3. Agreed'
  BY DEF Agreed, NoSetter, CanApply, members, history
<1> QED BY <1>1, <1>2, <1>3

(* A setter that begins alone is alone and has read nothing.               *)
LEMMA BeginSettings ==
    ASSUME NEW t \in Threads, TypeInv, SettingsInv, Begin(t)
    PROVE  SettingsInv'
<1> USE DEF SettingsInv
<1>1. PICK o \in Ops : /\ op' = [op EXCEPT ![t] = o] /\ pc' = [pc EXCEPT ![t] = FirstLock(o)]
                       /\ overlapped' = IF o \in Setters THEN Others(t) ELSE overlapped
  BY SerialAssumption DEF Begin
<1>2. FirstLock(o) \in {"readLock", "writeLock", "body"}
  BY DEF FirstLock
<1>3. pc[t] = "idle" /\ UNCHANGED <<members, snap, kernel, untaken>>
  BY DEF Begin
<1>4. SettingsType'
  BY <1>1, <1>2, <1>3 DEF SettingsType, TypeInv, members, kernel
<1>5. \A u \in Threads \ {t} : op'[u] = op[u]
  BY <1>1 DEF TypeInv
<1>6. op'[t] = o /\ op[t] = "none" /\ DOMAIN snap[t] = {}
  BY <1>1, <1>3 DEF TypeInv, SettingsType
<1>7. SetterInv'
  <2>1. CASE o \in Setters
    BY <1>1, <1>3, <1>5, <1>6, <2>1 DEF SetterInv, Others, members
  <2>2. CASE o \notin Setters
    BY <1>1, <1>3, <1>5, <1>6, <2>2 DEF SetterInv, members
  <2> QED BY <2>1, <2>2
<1>8. Agreed'
  <2>1. CASE o \in Setters
    BY <1>6, <2>1 DEF Agreed, NoSetter
  <2>2. CASE o \notin Setters
    <3>1. NoSetter' => NoSetter
      BY <1>5, <1>6 DEF NoSetter, Setters
    <3> QED BY <1>1, <1>3, <2>2, <3>1 DEF Agreed, CanApply, members, kernel
  <2> QED BY <2>1, <2>2
<1> QED BY <1>4, <1>7, <1>8

(* A setter that is alone stores its member before it reads any.           *)
LEMMA SetStoreSettings ==
    ASSUME NEW t \in Threads, TypeInv, SettingsInv, SetStore(t)
    PROVE  SettingsInv'
<1> USE DEF SettingsInv
<1>1. PICK s \in Settings, v \in Values : settings' = [settings EXCEPT ![s] = v]
  BY DEF SetStore
<1>2. /\ op[t] = "set" /\ pc[t] = "body" /\ pc' = [pc EXCEPT ![t] = "stored"]
      /\ UNCHANGED <<op, snap, device, overlapped>>
  BY DEF SetStore, kernel, counts, history
<1>3. SettingsType'
  BY <1>1, <1>2 DEF SettingsType, TypeInv
<1>4. SetterInv'
  BY <1>2 DEF SetterInv, SettingsType, Setters
<1>5. Agreed'
  BY <1>2 DEF Agreed, NoSetter, Setters
<1> QED BY <1>3, <1>4, <1>5

(* A member that is read is the member.                                    *)
LEMMA ReadMemberSettings ==
    ASSUME NEW t \in Threads, NEW s \in Settings, SerialInv, SettingsInv, ReadMember(t, s)
    PROVE  SettingsInv'
<1> USE DEF SerialInv
<1>1. CASE Leave(t)
  <2>1. settings[s] \notin Supported \/ (pc' = pc /\ pc'[t] = "idle")
    BY <1>1 DEF ReadMember, Leave, TypeInv
  <2>2. ~ CanApply(settings)
    BY <2>1 DEF CanApply, ReadMember
  <2> QED BY <1>1, <2>2, SetterLeave DEF ReadMember, members, kernel, counts, history
<1>2. CASE ~ Leave(t)
  <2> DEFINE new == [x \in DOMAIN snap[t] \cup {s} |-> IF x = s THEN settings[s] ELSE snap[t][x]]
  <2>1. /\ pc[t] = "members" /\ snap' = [snap EXCEPT ![t] = new]
        /\ UNCHANGED <<settings, device, overlapped, untaken, pc, op>>
    BY <1>2 DEF ReadMember, members, kernel, counts, history
  <2>2. new \in Snaps
    <3>1. PICK S \in SUBSET Settings : snap[t] \in [S -> Values]
      BY DEF SettingsInv, SettingsType, Snaps
    <3>2. settings[s] \in Values
      BY DEF SettingsInv, SettingsType
    <3>3. new \in [S \cup {s} -> Values]
      BY <3>1, <3>2
    <3>4. S \cup {s} \in SUBSET Settings
      BY <3>1
    <3> HIDE DEF new
    <3> QED BY <3>3, <3>4 DEF Snaps
  <2>3. DOMAIN new = DOMAIN snap[t] \cup {s}
        /\ \A x \in DOMAIN new : new[x] = IF x = s THEN settings[s] ELSE snap[t][x]
    OBVIOUS
  <2> HIDE DEF new
  <2>4. SettingsType'
    BY <2>1, <2>2 DEF SettingsInv, SettingsType
  <2>5. SetterInv'
    <3> SUFFICES ASSUME ~ overlapped, NEW u \in Threads, op[u] \in Setters
                 PROVE  /\ \A w \in Threads : op[w] \in Setters => w = u
                        /\ \A x \in DOMAIN snap'[u] : snap'[u][x] = settings[x]
      BY <2>1 DEF SetterInv
    <3>1. /\ \A w \in Threads : op[w] \in Setters => w = u
          /\ \A x \in DOMAIN snap[u] : snap[u][x] = settings[x]
      BY DEF SettingsInv, SetterInv
    <3>2. snap'[u] = IF u = t THEN new ELSE snap[u]
      BY <2>1 DEF SettingsInv, SettingsType
    <3> QED BY <2>3, <3>1, <3>2
  <2>6. op[t] \in Setters
    BY <2>1 DEF WaitInv, Settling
  <2>7. Agreed'
    BY <2>1, <2>6 DEF Agreed, NoSetter
  <2> QED BY <2>4, <2>5, <2>7 DEF SettingsInv
<1> QED BY <1>1, <1>2

(* The settings that are written are those that were read; taken in full   *)
(* they are what the device has.                                           *)
LEMMA SetAttrSettings ==
    ASSUME NEW t \in Threads, SerialInv, SettingsInv, SetAttr(t)
    PROVE  SettingsInv'
<1> USE DEF SerialInv
<1>1. PICK got \in SUBSET Settings : /\ device' = Applied(snap[t], got)
                                     /\ untaken' = ~ (fd_ \notin dead /\ got = Settings)
  BY DEF SetAttr
<1>2. /\ pc[t] = "members" /\ DOMAIN snap[t] = Settings /\ Leave(t)
      /\ is_open_' = (is_open_ = TRUE \/ op[t] = "setPort")
      /\ UNCHANGED <<port_, fd_, settings, dead, overlapped>>
  BY DEF SetAttr
<1>3. op[t] \in Setters
  BY <1>2 DEF WaitInv, Settling
<1>4. Keeps
  BY <1>2, LeaveKeeps DEF SettingsInv
<1>5. snap[t] \in [Settings -> Values]
  <2>1. PICK S \in SUBSET Settings : snap[t] \in [S -> Values]
    BY DEF SettingsInv, SettingsType, Snaps
  <2> QED BY <1>2, <2>1
<1>6. fd_ \notin dead => fd_.port \in Ports
  BY DEF PortInv, TypeInv
<1>7. fd_ \notin dead => device' = [device EXCEPT ![fd_.port] =
          [s \in Settings |-> IF s \in got THEN snap[t][s] ELSE device[fd_.port][s]]]
  BY <1>1 DEF Applied
<1>8. device' \in [Ports -> [Settings -> Values]]
  <2>1. CASE fd_ \in dead
    BY <1>1, <2>1 DEF Applied, SettingsInv, SettingsType
  <2>2. CASE fd_ \notin dead
    <3>1. [s \in Settings |-> IF s \in got THEN snap[t][s] ELSE device[fd_.port][s]]
              \in [Settings -> Values]
      BY <1>5, <1>6, <2>2 DEF SettingsInv, SettingsType
    <3> QED BY <1>7, <2>2, <3>1 DEF SettingsInv, SettingsType
  <2> QED BY <2>1, <2>2
<1>9. SettingsType'
  BY <1>2, <1>4, <1>8 DEF Keeps, SettingsInv, SettingsType
<1>10. SetterInv'
  BY <1>2, <1>4 DEF Keeps, SettingsInv, SetterInv
<1>11. Agreed'
  <2> SUFFICES ASSUME is_open_' = TRUE, fd_ \notin dead, ~ overlapped, ~ untaken'
               PROVE  device'[port_] = settings
    BY <1>2 DEF Agreed
  <2>1. got = Settings
    BY <1>1
  <2>2. fd_.port = port_ /\ port_ \in Ports
    BY <1>2, <1>3 DEF PortInv, WaitInv, Settling, Setters
  <2>3. snap[t] = settings
    BY <1>2, <1>3, <1>5 DEF SettingsInv, SetterInv, SettingsType
  <2>4. device'[port_] = [s \in Settings |-> settings[s]]
    BY <1>7, <2>1, <2>2, <2>3 DEF SettingsInv, SettingsType
  <2> QED BY <2>4 DEF SettingsInv, SettingsType
<1> QED BY <1>9, <1>10, <1>11 DEF SettingsInv

(* The steps of setPort that move its file leave no file open, or a dead   *)
(* one.                                                                    *)
LEMMA SetPortSettings ==
    ASSUME NEW t \in Threads, SerialInv, SettingsInv,
           SetPortClosed(t) \/ SetPortClose(t) \/ SetPortOpen(t)
    PROVE  SettingsInv'
<1> USE DEF SerialInv
<1>1. UNCHANGED <<settings, device, history>>
  BY DEF SetPortClosed, SetPortClose, SetPortOpen, kernel, counts
<1>2. pc[t] # "members" /\ ~ (is_open_' = TRUE /\ fd_' \notin dead')
  <2>1. CASE SetPortClosed(t)
    BY <2>1 DEF SetPortClosed
  <2>2. CASE SetPortClose(t)
    BY <2>2 DEF SetPortClose, close, CloseFails
  <2>3. CASE SetPortOpen(t)
    BY <2>3 DEF SetPortOpen, WaitInv
  <2> QED BY <2>1, <2>2, <2>3
<1>3. CASE Leave(t)
  BY <1>1, <1>2, <1>3, SetterLeave DEF history
<1>4. CASE ~ Leave(t)
  <2>1. PICK next \in {"reopen", "getattr"} :
            pc' = [pc EXCEPT ![t] = next] /\ UNCHANGED <<op, snap>>
    BY <1>4 DEF SetPortClosed, SetPortClose, SetPortOpen
  <2>2. next \in Places \ {"idle"}
    BY <2>1 DEF Places
  <2> QED BY <1>1, <1>2, <2>1, <2>2, StillAgreed
<1> QED BY <1>3, <1>4

(* open gives the device all settings, or what its driver takes of them.   *)
LEMMA OpenSettings == ASSUME SerialInv, SettingsInv, Open PROVE SettingsInv'
<1> USE DEF SerialInv
<1>1. /\ Idle /\ is_open_ = FALSE /\ overlapped' = FALSE /\ OpenFile
      /\ UNCHANGED <<port_, settings, pc, op, snap>>
  BY DEF Open, frames
<1>2. NoSetter /\ \A t \in Threads : DOMAIN snap[t] = {}
  BY <1>1 DEF Idle, NoSetter, Setters, SettingsInv, SettingsType
<1>3. \/ UNCHANGED <<device, is_open_>>
      \/ \E got \in SUBSET Settings :
             /\ fd_' # NoFd
             /\ device' = [device EXCEPT ![port_] =
                    [s \in Settings |-> IF s \in got THEN settings[s] ELSE device[port_][s]]]
             /\ untaken' = (got # Settings)
  BY DEF Open
<1>4. /\ device' \in [Ports -> [Settings -> Values]]
      /\ is_open_' = TRUE /\ ~ untaken' => device'[port_] = settings
  <2>1. CASE UNCHANGED <<device, is_open_>>
    BY <1>1, <2>1 DEF SettingsInv, SettingsType
  <2>2. ASSUME NEW got \in SUBSET Settings, fd_' # NoFd,
               device' = [device EXCEPT ![port_] =
                   [s \in Settings |-> IF s \in got THEN settings[s] ELSE device[port_][s]]],
               untaken' = (got # Settings)
        PROVE  /\ device' \in [Ports -> [Settings -> Values]]
               /\ is_open_' = TRUE /\ ~ untaken' => device'[port_] = settings
    <3>1. port_ \in Ports
      BY <1>1, <2>2, OpenEffect
    <3>2. [s \in Settings |-> IF s \in got THEN settings[s] ELSE device[port_][s]]
              \in [Settings -> Values]
      BY <3>1 DEF SettingsInv, SettingsType
    <3>3. device' \in [Ports -> [Settings -> Values]]
      BY <2>2, <3>1, <3>2 DEF SettingsInv, SettingsType
    <3>4. ~ untaken' => device'[port_] = [s \in Settings |-> settings[s]]
      BY <2>2, <3>1 DEF SettingsInv, SettingsType
    <3> QED BY <3>3, <3>4 DEF SettingsInv, SettingsType
  <2> QED BY <1>3, <2>1, <2>2
<1>5. SettingsType'
  BY <1>1, <1>4 DEF SettingsInv, SettingsType
<1>6. SetterInv'
  BY <1>1, <1>2 DEF SetterInv, NoSetter
<1>7. Agreed'
  BY <1>1, <1>4 DEF Agreed
<1> QED BY <1>5, <1>6, <1>7 DEF SettingsInv

(* Every step of a call.                                                   *)
LEMMA StepSettings ==
    ASSUME NEW t \in Threads, SerialInv, SettingsInv, Step(t)
    PROVE  SettingsInv'
<1> USE DEF SerialInv
<1>1. CASE ReadLock(t) \/ WriteLock(t) \/ ReadWait(t) \/ WriteWait(t)
  <2>1. PICK next \in {"writeLock", "body", "ready"} :
            /\ pc[t] # "members" /\ pc' = [pc EXCEPT ![t] = next]
            /\ UNCHANGED <<op, snap, members, kernel, counts>>
    BY <1>1 DEF ReadLock, WriteLock, ReadWait, WriteWait
  <2>2. next \in Places \ {"idle"}
    BY <2>1 DEF Places
  <2> QED BY <2>1, <2>2, StillAgreed DEF members, kernel, counts
<1>2. CASE NotOpen(t) \/ ReadGone(t) \/ ReadTimeout(t) \/ WriteGone(t) \/ WriteTimeout(t) \/ Flush(t)
           \/ FlushInput(t) \/ FlushOutput(t)
  <2>1. /\ Leave(t) /\ op[t] \notin Setters
        /\ UNCHANGED <<members, dead, device, history>>
    BY <1>2 DEF NotOpen, ReadGone, ReadTimeout, Return, WriteGone, WriteTimeout, Flush,
                FlushInput, FlushOutput, Reads, Setters, kernel, counts
  <2> QED BY <2>1, QuietLeave
<1>3. CASE ReadBegin(t) \/ ReadReady(t) \/ WriteBegin(t) \/ WriteReady(t)
  <2>1. /\ op[t] \notin Setters /\ pc[t] # "members"
        /\ UNCHANGED <<members, dead, device, history>>
        /\ \/ Leave(t)
           \/ \E next \in {"body", "wait"} :
                  pc' = [pc EXCEPT ![t] = next] /\ UNCHANGED <<op, snap>>
    BY <1>3 DEF ReadBegin, ReadReady, Fetch, Return, WriteBegin, WriteReady, Reads, Setters,
                kernel, counts
  <2>2. CASE Leave(t)
    BY <2>1, <2>2, QuietLeave
  <2>3. CASE ~ Leave(t)
    <3>1. PICK next \in {"body", "wait"} :
              pc' = [pc EXCEPT ![t] = next] /\ UNCHANGED <<op, snap>>
      BY <2>1, <2>3
    <3>2. next \in Places \ {"idle"}
      BY <3>1 DEF Places
    <3> QED BY <2>1, <3>1, <3>2, StillAgreed DEF members
  <2> QED BY <2>2, <2>3
<1>4. CASE SetPortClosed(t) \/ SetPortClose(t) \/ SetPortOpen(t)
  BY <1>4, SetPortSettings
<1>5. CASE SetStore(t)
  BY <1>5, SetStoreSettings
<1>6. CASE SetTest(t) \/ GetAttr(t)
  <2>1. /\ pc[t] # "members" /\ UNCHANGED <<members, dead, device, history>>
        /\ \/ Leave(t) /\ ~ (is_open_ = TRUE /\ fd_ \notin dead)
           \/ \E next \in {"getattr", "members"} :
                  pc' = [pc EXCEPT ![t] = next] /\ UNCHANGED <<op, snap>>
    BY <1>6 DEF SetTest, GetAttr, kernel, counts
  <2>2. CASE Leave(t) /\ ~ (is_open_ = TRUE /\ fd_ \notin dead)
    BY <2>1, <2>2, SetterLeave DEF members, history
  <2>3. ASSUME NEW next \in {"getattr", "members"},
               pc' = [pc EXCEPT ![t] = next] /\ UNCHANGED <<op, snap>>
        PROVE  SettingsInv'
    <3>1. next \in Places \ {"idle"}
      BY <2>3 DEF Places
    <3> QED BY <2>1, <2>3, <3>1, StillAgreed DEF members
  <2> QED BY <2>1, <2>2, <2>3
<1>7. CASE SetAttr(t)
  BY <1>7, SetAttrSettings
<1>8. ASSUME NEW s \in Settings, ReadMember(t, s) PROVE SettingsInv'
  BY <1>8, ReadMemberSettings
<1> QED BY <1>1, <1>2, <1>3, <1>4, <1>5, <1>6, <1>7, <1>8 DEF Step

(* Close, and every step that is no call's.                                *)
LEMMA OtherSettings ==
    ASSUME SerialInv, SettingsInv,
           Close \/ Tick \/ (\E p \in Ports : Arrive(p) \/ Drain(p) \/ Unplug(p) \/ Plug(p))
    PROVE  SettingsInv'
<1> USE DEF SerialInv
<1>1. CASE Close
  <2>1. /\ UNCHANGED <<settings, pc, op, snap, device, overlapped, untaken>>
        /\ ~ (is_open_' = TRUE /\ fd_' \notin dead')
    BY <1>1 DEF Close, close, CloseFails, frames, history
  <2>2. SettingsType' /\ SetterInv'
    BY <2>1 DEF SettingsInv, SettingsType, SetterInv
  <2>3. Agreed'
    BY <2>1 DEF Agreed
  <2> QED BY <2>2, <2>3 DEF SettingsInv
<1>2. CASE Tick
  BY <1>2, NoCall DEF Tick, kernel, counts, SettingsInv, SettingsType
<1>3. ASSUME NEW p \in Ports, Arrive(p) \/ Drain(p) \/ Unplug(p) PROVE SettingsInv'
  BY <1>3, NoCall DEF Arrive, Drain, Unplug, frames, counts, SettingsInv, SettingsType
<1>4. ASSUME NEW p \in Ports, Plug(p) PROVE SettingsInv'
  <2>1. /\ p \notin present /\ device' = [device EXCEPT ![p] = [s \in Settings |-> Default]]
        /\ UNCHANGED <<members, pc, op, snap, dead, history>>
    BY <1>4 DEF Plug, frames, counts
  <2>2. [s \in Settings |-> Default] \in [Settings -> Values]
    BY SerialAssumption
  <2>3. device' \in [Ports -> [Settings -> Values]]
    BY <2>1, <2>2 DEF SettingsInv, SettingsType
  <2>4. (is_open_ = TRUE /\ fd_ \notin dead) => port_ # p /\ port_ \in Ports
    BY <2>1 DEF PortInv
  <2>5. (is_open_ = TRUE /\ fd_ \notin dead) => device'[port_] = device[port_]
    BY <2>1, <2>4 DEF SettingsInv, SettingsType
  <2> QED BY <2>1, <2>3, <2>5, NoCall
<1> QED BY <1>1, <1>2, <1>3, <1>4

THEOREM SettingsInvariant == Spec => []SettingsInv
<1>1. SerialInv /\ SettingsInv /\ [Next]_vars => SettingsInv'
  <2> SUFFICES ASSUME SerialInv, SettingsInv, [Next]_vars PROVE SettingsInv'
    OBVIOUS
  <2>1. ASSUME NEW t \in Threads, Begin(t) \/ Step(t) PROVE SettingsInv'
    BY <2>1, BeginSettings, StepSettings DEF SerialInv
  <2>2. CASE Open
    BY <2>2, OpenSettings
  <2>3. CASE Close \/ Tick \/ (\E p \in Ports : Arrive(p) \/ Drain(p) \/ Unplug(p) \/ Plug(p))
    BY <2>3, OtherSettings
  <2>4. CASE UNCHANGED vars
    BY <2>4, NoCall DEF vars, frames, kernel, counts, SettingsInv, SettingsType
  <2> QED BY <2>1, <2>2, <2>3, <2>4 DEF Next
<1> QED BY <1>1, InitSettings, SerialInvariant, PTL DEF Spec

-----------------------------------------------------------------------------
(* What follows.                                                           *)

(* Every member and every buffer keeps its range. *)
THEOREM TypeOKHolds == Spec => []TypeOK
<1>1. SerialInv /\ RoomInv /\ SettingsInv => TypeOK
  BY DEF SerialInv, TypeInv, RoomInv, SettingsInv, SettingsType, TypeOK, Places
<1> QED BY <1>1, SerialInvariant, RoomInvariant, SettingsInvariant, PTL

(* What pselect reported is still true when ::read or ::write acts on it:  *)
(* the "device disconnected?" exceptions of read and write are thrown only *)
(* when the device is gone.                                                *)
THEOREM ReadyHoldsAlways == Spec => []ReadyHolds
<1>1. SerialInv => ReadyHolds
  BY DEF SerialInv
<1> QED BY <1>1, SerialInvariant, PTL

(* An open port has an open descriptor of its own, and after a setter,     *)
(* setPort or open with no other beside it, whose settings can be had and  *)
(* are taken by the driver, its device has the object's settings: no read, *)
(* write, flush or clock changes that, and no earlier overlap, failure or  *)
(* unplugging lasts.                                                       *)
THEOREM InForceAlways == Spec => []InForce
<1>1. SerialInv /\ SettingsInv => InForce
  BY DEF SerialInv, SettingsInv, PortInv, Agreed, InForce
<1> QED BY <1>1, SerialInvariant, SettingsInvariant, PTL

-----------------------------------------------------------------------------
(* The library implements ByteStream.                                      *)

(* The thread in a read, the thread in a write, and the mapping's streams. *)
Reader(t) == read_mutex = t /\ op[t] \in Reads
Writer(t) == write_mutex = t /\ op[t] = "write"
Pending == [p \in Ports |-> Held(p) \o inq[p]]
Sent == IF \E t \in Threads : Writer(t) THEN Len(buf[write_mutex]) ELSE 0
Written == SubSeq(accepted, 1, Len(accepted) - Sent)
Mapped == INSTANCE ByteStream WITH
    Bytes <- 1..MaxIn, Calls <- 1..MaxCalls, MaxPut <- WriteSize,
    pending <- Pending, taken <- taken, written <- Written

(* A lock is owned by a call that asked for it and has not ended; a call   *)
(* has moved bytes only past its locks, and knows its number.              *)
Owns(t) ==
    /\ read_mutex = t => op[t] \in ReadOps /\ pc[t] \in Inside \cup {"writeLock"}
    /\ write_mutex = t => op[t] \in WriteOps /\ pc[t] \in Inside
    /\ pc[t] = "readLock" => op[t] \in ReadOps
    /\ pc[t] = "writeLock" => op[t] \in WriteOps
    /\ pc[t] \notin Inside => buf[t] = <<>>
    /\ (op[t] = "write" /\ pc[t] = "body") => buf[t] = <<>>
    /\ pc[t] # "idle" => call[t] \in 1..MaxCalls
OwnerInv == \A t \in Threads : Owns(t)

(* What a write has sent so far, the beginning of its data, are the last   *)
(* bytes that were put.                                                    *)
PutInv == /\ accepted \in Seq(Entry)
          /\ \A t \in Threads : Writer(t) =>
                 /\ Len(buf[t]) <= Len(accepted)
                 /\ \A i \in 1..Len(buf[t]) :
                        accepted[Len(accepted) - Len(buf[t]) + i]
                            = [call |-> call[t], port |-> fd_.port, at |-> i]

(* Calls have numbers of their own, and before the bytes that a write has  *)
(* sent so far there is none of that call.                                 *)
SenderInv ==
    /\ \A t \in Threads : pc[t] # "idle" =>
           /\ call[t] \in 1..calls
           /\ \A u \in Threads \ {t} : pc[u] # "idle" => call[u] # call[t]
           /\ op[t] = "write" => \A i \in 1..(Len(accepted) - Len(buf[t])) :
                                     accepted[i].call # call[t]
    /\ \A i \in 1..Len(accepted) : accepted[i].call \in 1..calls

(* The bytes that are not yet put together are those of the thread in a    *)
(* write.                                                                  *)
LEMMA UnfinishedIs == ASSUME LockInv, OwnerInv PROVE Unfinished = Sent
<1>1. \A t \in Begun : Writer(t) /\ buf[t] # <<>>
  BY DEF Begun, OwnerInv, Owns, LockInv, Writer, WriteOps
<1>2. CASE \E t \in Threads : Writer(t)
  <2>1. PICK w \in Threads : Writer(w)
    BY <1>2
  <2>2. Sent = Len(buf[w])
    BY <2>1 DEF Sent, Writer
  <2>3. CASE buf[w] = <<>>
    <3>1. Begun = {}
      BY <1>1, <2>1, <2>3 DEF Writer
    <3> QED BY <2>2, <2>3, <3>1 DEF Unfinished
  <2>4. CASE buf[w] # <<>>
    <3>1. Begun = {w}
      BY <1>1, <2>1, <2>4 DEF Writer, Begun
    <3> QED BY <2>2, <3>1 DEF Unfinished
  <2> QED BY <2>3, <2>4
<1>3. CASE ~ \E t \in Threads : Writer(t)
  <2>1. Begun = {}
    BY <1>1, <1>3 DEF Begun
  <2> QED BY <1>3, <2>1 DEF Unfinished, Sent
<1> QED BY <1>2, <1>3

(* Each step of ByteStream, as a change of what the mapping shows.         *)
LEMMA MapTake ==
    ASSUME NEW p \in Ports, NEW n \in 1..Len(Pending[p]),
           taken' = Append(taken, SubSeq(Pending[p], 1, n)),
           Pending' = [Pending EXCEPT ![p] = SubSeq(@, n + 1, Len(@))],
           Written' = Written
    PROVE  Mapped!Next
  BY DEF Mapped!Next, Mapped!Take, Mapped!Without, Pending, Written

(* A read that ends by an exception.                                       *)
LEMMA MapLose ==
    ASSUME NEW p \in Ports, NEW n \in 1..Len(Pending[p]),
           Pending' = [Pending EXCEPT ![p] = SubSeq(@, n + 1, Len(@))],
           taken' = taken, Written' = Written
    PROVE  Mapped!Next
  BY DEF Mapped!Next, Mapped!Lose, Mapped!Without, Pending, Written

(* Bytes that the kernel throws away.                                      *)
LEMMA MapDiscard ==
    ASSUME NEW p \in Ports, NEW n \in 0..Len(Pending[p]),
           Pending' = [Pending EXCEPT ![p] = SubSeq(@, 1, n)],
           taken' = taken, Written' = Written
    PROVE  Mapped!Next
  BY DEF Mapped!Next, Mapped!Discard, Pending, Written

(* A byte that arrives.                                                    *)
LEMMA MapArrive ==
    ASSUME NEW p \in Ports, NEW b \in 1..MaxIn,
           Pending' = [Pending EXCEPT ![p] = Append(@, b)],
           taken' = taken, Written' = Written
    PROVE  Mapped!Next
  BY DEF Mapped!Next, Mapped!Arrive, Pending, Written

(* A write that ends.                                                      *)
LEMMA MapPut ==
    ASSUME NEW p \in Ports, NEW c \in 1..MaxCalls, NEW n \in 1..WriteSize,
           c \notin Mapped!Called,
           Written' = Written \o [i \in 1..n |-> [call |-> c, port |-> p, at |-> i]],
           Pending' = Pending, taken' = taken
    PROVE  Mapped!Next
  BY DEF Mapped!Next, Mapped!Put, Pending, Written

(* A step that ByteStream does not see.                                    *)
LEMMA MapStutter ==
    ASSUME Written' = Written, Pending' = Pending, taken' = taken
    PROVE  UNCHANGED Mapped!streams
  BY DEF Mapped!streams, Pending, Written

(* Where the bytes of the callers are in the mapping. *)
LEMMA HeldBy ==
    ASSUME NEW t \in Threads, Reader(t)
    PROVE  \A p \in Ports : Held(p) = IF fd_.port = p THEN buf[t] ELSE <<>>
  BY DEF Held, Reader

(* While no thread reads, no caller holds bytes.                           *)
LEMMA HeldNone ==
    ASSUME \A t \in Threads : ~ Reader(t)
    PROVE  \A p \in Ports : Held(p) = <<>>
  BY DEF Held, Reader

(* A reader that keeps its lock and its buffer holds what it held.         *)
LEMMA HeldSame ==
    ASSUME fd_' = fd_, \A u \in Threads : Reader(u)' <=> Reader(u),
           \A u \in Threads : Reader(u) => buf'[u] = buf[u]
    PROVE  \A p \in Ports : Held(p)' = Held(p)
  BY DEF Held, Reader

(* And so does a writer.                                                   *)
LEMMA SentSame ==
    ASSUME \A u \in Threads : Writer(u)' <=> Writer(u),
           \A u \in Threads : Writer(u) => buf'[u] = buf[u]
    PROVE  Sent' = Sent
  BY DEF Sent, Writer

(* What has come in is the same when both parts of it are.                 *)
LEMMA SamePending ==
    ASSUME \A p \in Ports : Held(p)' = Held(p), inq' = inq
    PROVE  Pending' = Pending
  BY DEF Pending

(* What has been put is the same when no write goes on or ends.            *)
LEMMA SameWritten ==
    ASSUME accepted' = accepted, Sent' = Sent
    PROVE  Written' = Written
  BY DEF Written

(* A call that ends: its thread holds nothing any more, the others hold what they held. *)
LEMMA LeaveStreams ==
    ASSUME NEW t \in Threads, TypeInv, OwnerInv, Leave(t)
    PROVE  /\ ~ Reader(t)' /\ ~ Writer(t)'
           /\ \A u \in Threads \ {t} : /\ Reader(u)' <=> Reader(u)
                                       /\ Writer(u)' <=> Writer(u)
                                       /\ buf'[u] = buf[u]
<1>1. op'[t] = "none" /\ \A u \in Threads \ {t} : op'[u] = op[u] /\ buf'[u] = buf[u]
  BY DEF TypeInv, Leave
<1>2. \A u \in Threads \ {t} : /\ read_mutex' = u <=> read_mutex = u
                               /\ write_mutex' = u <=> write_mutex = u
  BY SerialAssumption DEF Leave
<1> QED BY <1>1, <1>2 DEF Reader, Writer, Reads

(* It was neither a read nor a write, or it had moved nothing. *)
LEMMA LeaveNothing ==
    ASSUME NEW t \in Threads, TypeInv, OwnerInv, Leave(t), fd_' = fd_,
           op[t] \notin Reads \cup {"write"} \/ buf[t] = <<>>
    PROVE  (\A p \in Ports : Held(p)' = Held(p)) /\ Sent' = Sent
<1>1. /\ ~ Reader(t)' /\ ~ Writer(t)'
      /\ \A u \in Threads \ {t} : /\ Reader(u)' <=> Reader(u)
                                  /\ Writer(u)' <=> Writer(u)
                                  /\ buf'[u] = buf[u]
  BY LeaveStreams
<1>2. \A p \in Ports : Held(p)' = Held(p)
  <2>1. CASE ~ Reader(t)
    BY <1>1, <2>1, HeldSame
  <2>2. CASE Reader(t)
    <3>1. buf[t] = <<>>
      BY <2>2 DEF Reader
    <3>2. \A u \in Threads : ~ Reader(u)'
      BY <1>1, <2>2 DEF Reader
    <3>3. \A p \in Ports : Held(p)' = <<>>
      BY <3>2 DEF Held, Reader
    <3> QED BY <2>2, <3>1, <3>3, HeldBy
  <2> QED BY <2>1, <2>2
<1>3. Sent' = Sent
  <2>1. CASE ~ Writer(t)
    BY <1>1, <2>1, SentSame
  <2>2. CASE Writer(t)
    <3>1. buf[t] = <<>>
      BY <2>2 DEF Writer
    <3>2. \A u \in Threads : ~ Writer(u)'
      BY <1>1, <2>2 DEF Writer
    <3>3. Sent' = 0
      BY <3>2 DEF Sent, Writer
    <3>4. Sent = 0
      BY <2>2, <3>1 DEF Sent, Writer
    <3> QED BY <3>3, <3>4
  <2> QED BY <2>1, <2>2
<1> QED BY <1>2, <1>3

(* A read that ends: the bytes it held are no longer pending.              *)
LEMMA LeaveReader ==
    ASSUME NEW t \in Threads, TypeInv, OwnerInv, Leave(t), Reader(t)
    PROVE  /\ \A p \in Ports : Held(p) = IF fd_.port = p THEN buf[t] ELSE <<>>
           /\ \A p \in Ports : Held(p)' = <<>>
           /\ Sent' = Sent
<1>1. /\ ~ Reader(t)' /\ ~ Writer(t)'
      /\ \A u \in Threads \ {t} : /\ Reader(u)' <=> Reader(u)
                                  /\ Writer(u)' <=> Writer(u)
                                  /\ buf'[u] = buf[u]
  BY LeaveStreams
<1>2. ~ Writer(t) /\ \A u \in Threads : ~ Reader(u)'
  BY <1>1 DEF Reader, Writer, Reads
<1>3. \A p \in Ports : Held(p)' = <<>>
  BY <1>2 DEF Held, Reader
<1>4. Sent' = Sent
  BY <1>1, <1>2, SentSame
<1> QED BY <1>3, <1>4, HeldBy

(* A write that ends: the bytes it has sent count from now on.             *)
LEMMA LeaveWriter ==
    ASSUME NEW t \in Threads, TypeInv, OwnerInv, Leave(t), Writer(t), fd_' = fd_
    PROVE  /\ \A p \in Ports : Held(p)' = Held(p)
           /\ Sent = Len(buf[t]) /\ Sent' = 0
<1>1. /\ ~ Reader(t)' /\ ~ Writer(t)'
      /\ \A u \in Threads \ {t} : /\ Reader(u)' <=> Reader(u)
                                  /\ Writer(u)' <=> Writer(u)
                                  /\ buf'[u] = buf[u]
  BY LeaveStreams
<1>2. ~ Reader(t) /\ \A u \in Threads : ~ Writer(u)'
  BY <1>1 DEF Reader, Writer, Reads
<1>3. \A p \in Ports : Held(p)' = Held(p)
  BY <1>1, <1>2, HeldSame
<1>4. Sent = Len(buf[t])
  BY DEF Sent, Writer
<1>5. Sent' = 0
  BY <1>2 DEF Sent, Writer
<1> QED BY <1>3, <1>4, <1>5

(* The invariants together, and a step of ByteStream or none.              *)
StreamInv == SerialInv /\ RoomInv /\ OwnerInv /\ PutInv /\ SenderInv
StreamStep == Mapped!Next \/ UNCHANGED Mapped!streams

(* Two sequences after one another. *)
LEMMA Parts ==
    ASSUME NEW S, NEW a \in Seq(S), NEW b \in Seq(S)
    PROVE  /\ a = <<>> => a \o b = b
           /\ a # <<>> => Len(a) \in 1..Len(a \o b)
           /\ SubSeq(a \o b, 1, Len(a)) = a
           /\ SubSeq(a \o b, Len(a) + 1, Len(a \o b)) = b
  OBVIOUS

(* A read that has b of the pending bytes returns them, or nothing. *)
LEMMA ReadReturns ==
    ASSUME NEW t \in Threads, StreamInv, Reader(t), fd_.port \in Ports, fd_' = fd_,
           NEW b \in Seq(Entry), NEW rest \in Seq(Entry), buf[t] \o inq[fd_.port] = b \o rest,
           Return(t, b), inq' = [inq EXCEPT ![fd_.port] = rest], accepted' = accepted
    PROVE  StreamStep
<1> DEFINE p == fd_.port
<1>1. inq \in [Ports -> Seq(Entry)] /\ buf[t] \in Seq(Entry)
  BY DEF StreamInv, SerialInv, TypeInv
<1>2. /\ \A q \in Ports : Held(q) = IF p = q THEN buf[t] ELSE <<>>
      /\ \A q \in Ports : Held(q)' = <<>>
      /\ Sent' = Sent
  BY LeaveReader DEF StreamInv, SerialInv, Return
<1>3. Written' = Written
  BY <1>2, SameWritten
<1>4. Pending[p] = b \o rest
  BY <1>2 DEF Pending
<1>5. \A q \in Ports : Pending'[q] = IF q = p THEN rest ELSE Pending[q]
  BY <1>1, <1>2 DEF Pending
<1>6. Pending' = [Pending EXCEPT ![p] = rest]
  BY <1>5 DEF Pending
<1>7. CASE b = <<>>
  <2>1. Pending' = Pending
    <3>1. b \o rest = rest
      BY <1>7, Parts
    <3> QED BY <1>4, <1>6, <3>1 DEF Pending
  <2> QED BY <1>3, <1>7, <2>1, MapStutter DEF Return, StreamStep
<1>8. CASE b # <<>>
  <2>1. Len(b) \in 1..Len(b \o rest) /\ SubSeq(b \o rest, 1, Len(b)) = b
        /\ SubSeq(b \o rest, Len(b) + 1, Len(b \o rest)) = rest
    BY <1>8, Parts
  <2>2. /\ taken' = Append(taken, SubSeq(Pending[p], 1, Len(b)))
        /\ Len(b) \in 1..Len(Pending[p])
        /\ Pending' = [Pending EXCEPT ![p] = SubSeq(@, Len(b) + 1, Len(@))]
    BY <1>4, <1>6, <1>8, <2>1 DEF Return
  <2> QED BY ONLY <1>3, <2>2, MapTake, p \in Ports DEF StreamStep
<1> QED BY <1>7, <1>8

(* A read that ends without its bytes loses them. *)
LEMMA ReadLoses ==
    ASSUME NEW t \in Threads, StreamInv, Reader(t), Leave(t),
           UNCHANGED <<fd_, inq, accepted, taken>>
    PROVE  StreamStep
<1> DEFINE p == fd_.port
<1>1. inq \in [Ports -> Seq(Entry)] /\ buf[t] \in Seq(Entry)
  BY DEF StreamInv, SerialInv, TypeInv
<1>2. /\ \A q \in Ports : Held(q) = IF p = q THEN buf[t] ELSE <<>>
      /\ \A q \in Ports : Held(q)' = <<>>
      /\ Sent' = Sent
  BY LeaveReader DEF StreamInv, SerialInv
<1>3. Written' = Written
  BY <1>2, SameWritten
<1>4. CASE buf[t] = <<>> \/ p \notin Ports
  <2>1. \A q \in Ports : Held(q)' = Held(q)
    BY <1>2, <1>4
  <2> QED BY <1>3, <2>1, SamePending, MapStutter DEF StreamStep
<1>5. CASE buf[t] # <<>> /\ p \in Ports
  <2>1. Pending[p] = buf[t] \o inq[p]
    BY <1>2, <1>5 DEF Pending
  <2>2. \A q \in Ports : Pending'[q] = IF q = p THEN inq[p] ELSE Pending[q]
    BY <1>1, <1>2 DEF Pending
  <2>3. Pending' = [Pending EXCEPT ![p] = inq[p]]
    BY <2>2 DEF Pending
  <2>4. /\ Len(buf[t]) \in 1..Len(buf[t] \o inq[p])
        /\ SubSeq(buf[t] \o inq[p], Len(buf[t]) + 1, Len(buf[t] \o inq[p])) = inq[p]
    <3>1. inq[p] \in Seq(Entry) /\ buf[t] \in Seq(Entry) /\ buf[t] # <<>>
      BY <1>1, <1>5
    <3> QED BY ONLY <3>1, Parts
  <2>5. /\ Len(buf[t]) \in 1..Len(Pending[p])
        /\ Pending' = [Pending EXCEPT ![p] = SubSeq(@, Len(buf[t]) + 1, Len(@))]
        /\ taken' = taken
    BY <2>1, <2>3, <2>4
  <2> QED BY ONLY <1>3, <1>5, <2>5, MapLose DEF StreamStep
<1> QED BY <1>4, <1>5

(* What ::read takes of the kernel's bytes is their beginning. *)
LEMMA FetchParts ==
    ASSUME NEW t \in Threads, SerialInv, RoomInv, op[t] \in Reads, NEW p \in Ports
    PROVE  /\ Fetched(t, p) \in Seq(Entry)
           /\ SubSeq(inq[p], Len(Fetched(t, p)) + 1, Len(inq[p])) \in Seq(Entry)
           /\ inq[p] = Fetched(t, p) \o SubSeq(inq[p], Len(Fetched(t, p)) + 1, Len(inq[p]))
<1> DEFINE q == inq[p]
           n == IF Len(q) < Wanted(t) THEN Len(q) ELSE Wanted(t)
<1>1. buf[t] \in Seq(Entry) /\ Len(buf[t]) < ReadSize
  BY DEF SerialInv, TypeInv, RoomInv, Size
<1>2. Wanted(t) \in Nat
  BY <1>1, SerialAssumption DEF Wanted
<1>3. q \in Seq(Entry)
  BY DEF SerialInv, TypeInv
<1>4. n \in Nat /\ n <= Len(q)
  BY <1>2, <1>3
<1>5. Fetched(t, p) = SubSeq(q, 1, n)
  BY DEF Fetched
<1> HIDE DEF n, q
<1>6. SubSeq(q, 1, n) \in Seq(Entry) /\ Len(SubSeq(q, 1, n)) = n
  BY <1>3, <1>4
<1>7. SubSeq(q, n + 1, Len(q)) \in Seq(Entry)
  BY <1>3, <1>4
<1>8. q = SubSeq(q, 1, n) \o SubSeq(q, n + 1, Len(q))
  <2>1. 1 \in 1..(Len(q) + 1) /\ n \in 0..Len(q) /\ Len(q) \in n..Len(q) /\ 1 - 1 = 0
    BY <1>3, <1>4
  <2>2. SubSeq(q, 1, n) \o SubSeq(q, n + 1, Len(q)) = SubSeq(q, 1, Len(q))
    BY ONLY <1>3, <2>1, ConcatAdjacentSubSeq
  <2> QED BY ONLY <1>3, <2>2, SubSeqFull
<1> QED BY <1>5, <1>6, <1>7, <1>8 DEF q

(* Three sequences after one another.                                      *)
LEMMA Assoc ==
    ASSUME NEW S, NEW a \in Seq(S), NEW b \in Seq(S), NEW c \in Seq(S)
    PROVE  a \o (b \o c) = (a \o b) \o c /\ a \o b \in Seq(S)
  OBVIOUS

(* A call of ::read inside read or readline. *)
LEMMA FetchStream ==
    ASSUME NEW t \in Threads, NEW time \in 0..Timeout, StreamInv,
           op[t] \in Reads, pc[t] \in {"body", "ready"}, is_open_ = TRUE,
           Fetch(t, time)
    PROVE  StreamStep
<1> DEFINE p == fd_.port
           got == IF fd_ \in dead THEN <<>> ELSE Fetched(t, p)
           b == buf[t] \o got
           rest == IF got = <<>> THEN inq[p] ELSE SubSeq(inq[p], Len(got) + 1, Len(inq[p]))
<1>1. p \in Ports /\ Reader(t)
  BY DEF StreamInv, SerialInv, PortInv, LockInv, Reader, Reads, ReadOps, Inside
<1>2. /\ inq \in [Ports -> Seq(Entry)] /\ buf[t] \in Seq(Entry)
      /\ buf \in [Threads -> Seq(Entry)]
  BY DEF StreamInv, SerialInv, TypeInv
<1>3. got \in Seq(Entry) /\ rest \in Seq(Entry) /\ inq[p] = got \o rest
  <2>1. inq[p] \in Seq(Entry)
    BY <1>1, <1>2
  <2>2. CASE got = <<>>
    <3>1. rest = inq[p]
      BY <2>2
    <3> HIDE DEF got, rest
    <3>2. got \in Seq(Entry)
      BY <2>2
    <3> QED BY <2>1, <2>2, <3>1, <3>2, Parts
  <2>3. CASE got # <<>>
    <3>1. got = Fetched(t, p) /\ rest = SubSeq(inq[p], Len(got) + 1, Len(inq[p]))
      BY <2>3
    <3> HIDE DEF got, rest
    <3> QED BY <1>1, <3>1, FetchParts DEF StreamInv
  <2> QED BY <2>2, <2>3
<1>4. /\ inq' = [inq EXCEPT ![p] = rest]
      /\ UNCHANGED <<fd_, accepted>>
      /\ \/ Return(t, b)
         \/ /\ buf' = [buf EXCEPT ![t] = b]
            /\ UNCHANGED <<locks, op, taken>>
  <2>1. inq' = IF got = <<>> THEN inq
               ELSE [inq EXCEPT ![p] = SubSeq(@, Len(got) + 1, Len(@))]
    BY DEF Fetch
  <2>2. inq' = [inq EXCEPT ![p] = rest]
    <3> HIDE DEF got
    <3> QED BY <1>1, <1>2, <2>1
  <2>3. /\ UNCHANGED <<fd_, accepted>>
        /\ \/ Return(t, b)
           \/ /\ buf' = [buf EXCEPT ![t] = b]
              /\ UNCHANGED <<locks, op, taken>>
    BY DEF Fetch, members
  <2> QED BY ONLY <2>2, <2>3
<1> HIDE DEF got, rest
<1>5. b \in Seq(Entry) /\ buf[t] \o inq[p] = b \o rest
  BY <1>2, <1>3, Assoc
<1> HIDE DEF b
<1>6. CASE Return(t, b)
  BY <1>1, <1>3, <1>4, <1>5, <1>6, ReadReturns
<1>7. CASE ~ Return(t, b)
  <2>1. /\ inq' = [inq EXCEPT ![p] = rest] /\ buf' = [buf EXCEPT ![t] = b]
        /\ UNCHANGED <<read_mutex, write_mutex, op, taken, fd_, accepted>>
    BY <1>4, <1>7 DEF locks
  <2>2. Reader(t)'
    BY <1>1, <2>1 DEF Reader
  <2>3. \A q \in Ports : /\ Held(q) = IF p = q THEN buf[t] ELSE <<>>
                         /\ Held(q)' = IF p = q THEN b ELSE <<>>
    BY <1>1, <1>2, <2>1, <2>2 DEF Held, Reader
  <2>4. \A q \in Ports : Held(q)' \o inq'[q] = Held(q) \o inq[q]
    BY <1>1, <1>2, <1>5, <2>1, <2>3
  <2>5. Sent' = Sent
    <3>1. ~ Writer(t)
      BY <1>1 DEF Reader, Writer, Reads
    <3> QED BY <1>2, <2>1, <3>1, SentSame DEF Writer
  <2> QED BY <2>1, <2>4, <2>5, SameWritten, MapStutter DEF StreamStep, Pending
<1> QED BY <1>6, <1>7

(* The bytes of one write, from the first on. *)
First(c, p, n) == [i \in 1..n |-> [call |-> c, port |-> p, at |-> i]]
IsFirst(x, c, p, n) ==
    /\ x \in Seq(Entry) /\ Len(x) = n
    /\ \A i \in 1..n : x[i] = [call |-> c, port |-> p, at |-> i]
LEMMA FirstEntries ==
    ASSUME NEW c \in Nat, NEW p \in Ports, NEW n \in Nat
    PROVE  IsFirst(First(c, p, n), c, p, n)
<1>1. \A i \in 1..n : [call |-> c, port |-> p, at |-> i] \in Entry
  BY DEF Entry
<1> QED BY <1>1 DEF First, IsFirst

(* The last m of a are the first m of y, and the n others are added. *)
LEMMA EndAdded ==
    ASSUME NEW S, NEW m \in Nat, NEW n \in Nat
    PROVE  \A a, x, y \in Seq(S) :
               (/\ Len(x) = n /\ Len(y) = m + n /\ \A i \in 1..n : x[i] = y[m + i]
                /\ m <= Len(a) /\ \A i \in 1..m : a[Len(a) - m + i] = y[i])
               => a \o x = SubSeq(a, 1, Len(a) - m) \o y
<1> SUFFICES ASSUME NEW a \in Seq(S), NEW x \in Seq(S), NEW y \in Seq(S),
                    Len(x) = n, Len(y) = m + n, \A i \in 1..n : x[i] = y[m + i],
                    m <= Len(a), \A i \in 1..m : a[Len(a) - m + i] = y[i]
             PROVE  a \o x = SubSeq(a, 1, Len(a) - m) \o y
  OBVIOUS
<1> DEFINE w == SubSeq(a, 1, Len(a) - m)
<1>1. w \in Seq(S) /\ Len(w) = Len(a) - m /\ \A i \in 1..(Len(a) - m) : w[i] = a[i]
  OBVIOUS
<1>2. \A i \in (Len(a) - m + 1)..Len(a) : a[i] = y[i - (Len(a) - m)]
  <2> SUFFICES ASSUME NEW i \in (Len(a) - m + 1)..Len(a) PROVE a[i] = y[i - (Len(a) - m)]
    OBVIOUS
  <2>1. i - (Len(a) - m) \in 1..m /\ Len(a) - m + (i - (Len(a) - m)) = i
    OBVIOUS
  <2> QED BY <2>1
<1> HIDE DEF w
<1>3. /\ a \o x \in Seq(S) /\ Len(a \o x) = Len(a) + n
      /\ \A i \in 1..(Len(a) + n) : (a \o x)[i] = IF i <= Len(a) THEN a[i] ELSE x[i - Len(a)]
  BY ConcatProperties
<1>4. /\ w \o y \in Seq(S) /\ Len(w \o y) = Len(a) + n
      /\ \A i \in 1..(Len(a) + n) :
             (w \o y)[i] = IF i <= Len(a) - m THEN w[i] ELSE y[i - (Len(a) - m)]
  <2>1. /\ w \o y \in Seq(S) /\ Len(w \o y) = Len(w) + Len(y)
        /\ \A i \in 1..(Len(w) + Len(y)) :
               (w \o y)[i] = IF i <= Len(w) THEN w[i] ELSE y[i - Len(w)]
    BY ONLY <1>1, y \in Seq(S), ConcatProperties
  <2>2. Len(w) + Len(y) = Len(a) + n
    BY <1>1
  <2> QED BY <1>1, <2>1, <2>2
<1>5. \A i \in 1..(Len(a) + n) : (a \o x)[i] = (w \o y)[i]
  <2> SUFFICES ASSUME NEW i \in 1..(Len(a) + n) PROVE (a \o x)[i] = (w \o y)[i]
    OBVIOUS
  <2>1. CASE i <= Len(a) - m
    BY <1>1, <1>3, <1>4, <2>1
  <2>2. CASE i > Len(a) - m /\ i <= Len(a)
    BY <1>2, <1>3, <1>4, <2>2
  <2>3. CASE i > Len(a)
    <3>1. (a \o x)[i] = x[i - Len(a)] /\ i - Len(a) \in 1..n
      BY <1>3, <2>3
    <3>2. (w \o y)[i] = y[i - (Len(a) - m)] /\ m + (i - Len(a)) = i - (Len(a) - m)
      BY <1>4, <2>3
    <3> QED BY <3>1, <3>2
  <2>4. i <= Len(a) - m \/ (i > Len(a) - m /\ i <= Len(a)) \/ i > Len(a)
    OBVIOUS
  <2> QED BY ONLY <2>1, <2>2, <2>3, <2>4
<1>6. a \o x = w \o y
  BY <1>3, <1>4, <1>5, SeqEqual
<1> QED BY <1>6 DEF w

(* A write that ends has put what it has in its buffer, and n bytes more.  *)
LEMMA WriteEnds ==
    ASSUME NEW t \in Threads, StreamInv, Writer(t), Leave(t), NEW n \in Nat,
           Len(buf[t]) + n <= WriteSize, UNCHANGED <<fd_, inq, taken>>,
           Len(buf[t]) + n > 0 => fd_.port \in Ports,
           accepted' = accepted \o [i \in 1..n |->
                           [call |-> call[t], port |-> fd_.port, at |-> Len(buf[t]) + i]]
    PROVE  StreamStep
<1> DEFINE m == Len(buf[t])
           N == m + n
           x == [i \in 1..n |-> [call |-> call[t], port |-> fd_.port, at |-> m + i]]
           y == [i \in 1..N |-> [call |-> call[t], port |-> fd_.port, at |-> i]]
<1>1. buf[t] \in Seq(Entry) /\ m \in Nat /\ accepted \in Seq(Entry)
  BY DEF StreamInv, SerialInv, TypeInv, PutInv
<1>2. m <= Len(accepted)
      /\ \A i \in 1..m : accepted[Len(accepted) - m + i]
                             = [call |-> call[t], port |-> fd_.port, at |-> i]
  BY DEF StreamInv, PutInv
<1>3. /\ \A q \in Ports : Held(q)' = Held(q)
      /\ Sent = m /\ Sent' = 0
  BY LeaveWriter DEF StreamInv, SerialInv
<1>4. Pending' = Pending
  BY <1>3, SamePending
<1>5. call[t] \in 1..MaxCalls /\ pc[t] # "idle" /\ op[t] = "write"
  BY DEF StreamInv, OwnerInv, Owns, Writer, Inside
<1>6. call[t] \in Nat /\ N \in Nat /\ N = m + n
  BY <1>1, <1>5, SerialAssumption
<1>7. Written = SubSeq(accepted, 1, Len(accepted) - m)
  BY <1>3 DEF Written
<1>8. call[t] \notin Mapped!Called
  <2>1. \A i \in 1..(Len(accepted) - m) : accepted[i].call # call[t]
    BY <1>5 DEF StreamInv, SenderInv
  <2> HIDE DEF m
  <2>2. /\ Len(Written) = Len(accepted) - m
        /\ \A i \in 1..(Len(accepted) - m) : Written[i] = accepted[i]
    BY <1>1, <1>2, <1>7
  <2> QED BY <2>1, <2>2 DEF Mapped!Called
<1>9. accepted' = accepted \o x
  OBVIOUS
<1>10. CASE N = 0
  <2>1. m = 0 /\ n = 0
    BY <1>1, <1>10
  <2>2. x = <<>>
    BY <2>1
  <2> HIDE DEF m, x
  <2>3. accepted' = accepted
    BY ONLY <1>1, <1>9, <2>2, ConcatEmptySeq
  <2>4. Written' = Written
    BY <1>3, <2>1, <2>3 DEF Written
  <2> QED BY <1>4, <2>4, MapStutter DEF StreamStep
<1>11. CASE N # 0
  <2>1. fd_.port \in Ports /\ N \in 1..WriteSize
    BY <1>1, <1>6, <1>11, SerialAssumption
  <2>2. /\ x \in Seq(Entry) /\ Len(x) = n
        /\ \A i \in 1..n : x[i] = [call |-> call[t], port |-> fd_.port, at |-> m + i]
    <3>1. x = Part(call[t], fd_.port, m, n)
      BY DEF Part
    <3> HIDE DEF m, x
    <3>2. /\ Part(call[t], fd_.port, m, n) \in Seq(Entry) /\ Len(Part(call[t], fd_.port, m, n)) = n
          /\ \A i \in 1..n : Part(call[t], fd_.port, m, n)[i]
                                 = [call |-> call[t], port |-> fd_.port, at |-> m + i]
      <4>1. call[t] \in Nat /\ m \in Nat /\ n \in Nat
        BY ONLY <1>1, <1>6
      <4>2. IsPart(Part(call[t], fd_.port, m, n), call[t], fd_.port, m, n)
        BY ONLY <2>1, <4>1, PartType
      <4> QED BY ONLY <4>2 DEF IsPart
    <3> QED BY ONLY <3>1, <3>2
  <2>3. /\ y \in Seq(Entry) /\ Len(y) = N
        /\ \A i \in 1..N : y[i] = [call |-> call[t], port |-> fd_.port, at |-> i]
    <3>1. y = First(call[t], fd_.port, N)
      BY DEF First
    <3> HIDE DEF m, N, x, y
    <3>2. call[t] \in Nat /\ N \in Nat /\ fd_.port \in Ports
      BY ONLY <1>6, <2>1
    <3>3. IsFirst(First(call[t], fd_.port, N), call[t], fd_.port, N)
      BY ONLY <3>2, FirstEntries
    <3> QED BY ONLY <3>1, <3>3 DEF IsFirst
  <2> HIDE DEF m, N, x, y
  <2>4. \A i \in 1..n : x[i] = y[m + i]
    <3> SUFFICES ASSUME NEW i \in 1..n PROVE x[i] = y[m + i]
      OBVIOUS
    <3>1. m + i \in 1..N
      BY <1>1, <1>6
    <3> QED BY <2>2, <2>3, <3>1
  <2>5. \A i \in 1..m : accepted[Len(accepted) - m + i] = y[i]
    <3> SUFFICES ASSUME NEW i \in 1..m PROVE accepted[Len(accepted) - m + i] = y[i]
      OBVIOUS
    <3>1. i \in 1..N
      BY <1>1, <1>6
    <3> QED BY <1>2, <2>3, <3>1
  <2>6. accepted' = Written \o y
    <3>1. Len(y) = m + n
      BY <1>6, <2>3
    <3>2. \A a, x1, y1 \in Seq(Entry) :
              (/\ Len(x1) = n /\ Len(y1) = m + n /\ \A i \in 1..n : x1[i] = y1[m + i]
               /\ m <= Len(a) /\ \A i \in 1..m : a[Len(a) - m + i] = y1[i])
              => a \o x1 = SubSeq(a, 1, Len(a) - m) \o y1
      BY ONLY <1>1, n \in Nat, EndAdded
    <3> QED BY ONLY <1>1, <1>2, <1>7, <1>9, <2>2, <2>3, <2>4, <2>5, <3>1, <3>2
  <2>7. accepted' \in Seq(Entry)
    BY ONLY <1>1, <1>9, <2>2, ConcatProperties
  <2>8. Written' = accepted'
    BY <1>3, <2>7 DEF Written
  <2>9. Written' = Written \o [i \in 1..N |-> [call |-> call[t], port |-> fd_.port, at |-> i]]
    BY <2>6, <2>8 DEF y
  <2> QED BY <1>4, <1>5, <1>8, <2>1, <2>9, MapPut DEF StreamStep
<1> QED BY <1>10, <1>11

-----------------------------------------------------------------------------
(* Steps that move no byte.                                                *)

(* What is kept of the two invariants on the way. *)
Kept == StreamStep /\ OwnerInv' /\ PutInv'

(* No byte is put and no call gets one.                                    *)
LEMMA PutSame ==
    ASSUME PutInv, accepted' = accepted, fd_' = fd_,
           \A u \in Threads : Writer(u)' => Writer(u) /\ buf'[u] = buf[u] /\ call'[u] = call[u]
    PROVE  PutInv'
  BY DEF PutInv

(* No write is going on.                                                   *)
LEMMA PutNone ==
    ASSUME accepted' \in Seq(Entry), \A u \in Threads : ~ Writer(u)'
    PROVE  PutInv'
  BY DEF PutInv

(* Readers and writers stay what they are, and the kernel's bytes too.     *)
LEMMA Quiet ==
    ASSUME UNCHANGED <<fd_, inq, accepted, taken>>,
           \A u \in Threads : (Reader(u)' <=> Reader(u)) /\ (Writer(u)' <=> Writer(u)),
           \A u \in Threads : Reader(u) \/ Writer(u) => buf'[u] = buf[u]
    PROVE  StreamStep
<1>1. \A p \in Ports : Held(p)' = Held(p)
  BY HeldSame
<1>2. Sent' = Sent
  BY SentSame
<1>3. Pending' = Pending
  BY <1>1, SamePending
<1>4. Written' = Written
  BY <1>2, SameWritten
<1> QED BY <1>3, <1>4, MapStutter DEF StreamStep

(* Nothing of the calls, the locks and the ports changes. *)
LEMMA Aside ==
    ASSUME StreamInv, UNCHANGED <<fd_, inq, accepted, taken, locks, pc, op, buf, call>>
    PROVE  Kept
<1>1. OwnerInv'
  BY DEF StreamInv, OwnerInv, Owns, locks
<1>2. \A u \in Threads : (Reader(u)' <=> Reader(u)) /\ (Writer(u)' <=> Writer(u))
  BY DEF Reader, Writer, locks
<1>3. PutInv'
  BY <1>2, PutSame DEF StreamInv
<1> QED BY <1>1, <1>2, <1>3, Quiet DEF Kept

(* A call goes on: it keeps its locks and what it has moved. *)
LEMMA GoOn ==
    ASSUME NEW t \in Threads, StreamInv, UNCHANGED <<fd_, inq, accepted, taken, locks, op, buf, call>>,
           pc[t] \in Inside, NEW c \in Inside \ {"body"}, pc' = [pc EXCEPT ![t] = c]
    PROVE  Kept
<1>1. OwnerInv'
  <2> SUFFICES ASSUME NEW u \in Threads
               PROVE  Owns(u)'
    BY DEF OwnerInv
  <2>1. pc \in [Threads -> Places]
    BY DEF StreamInv, SerialInv, TypeInv
  <2>2. CASE u = t
    BY <2>1, <2>2 DEF StreamInv, OwnerInv, Owns, locks, Inside
  <2>3. CASE u # t
    BY <2>1, <2>3 DEF StreamInv, OwnerInv, Owns, locks
  <2> QED BY <2>2, <2>3
<1>2. \A u \in Threads : (Reader(u)' <=> Reader(u)) /\ (Writer(u)' <=> Writer(u))
  BY DEF Reader, Writer, locks
<1>3. PutInv'
  BY <1>2, PutSame DEF StreamInv
<1> QED BY <1>1, <1>2, <1>3, Quiet DEF Kept

(* A call that begins owns nothing yet.                                    *)
LEMMA BeginStream == ASSUME NEW t \in Threads, StreamInv, Begin(t) PROVE Kept
<1>1. PICK o \in Ops : op' = [op EXCEPT ![t] = o] /\ pc' = [pc EXCEPT ![t] = FirstLock(o)]
  BY SerialAssumption DEF Begin
<1>2. /\ pc[t] = "idle" /\ call' = [call EXCEPT ![t] = calls + 1] /\ calls + 1 \in 1..MaxCalls
      /\ UNCHANGED <<fd_, inq, accepted, taken, read_mutex, write_mutex, buf>>
  BY SerialAssumption DEF Begin, members, locks, kernel, StreamInv, SerialInv, TypeInv
<1>3. /\ op \in [Threads -> Ops \cup {"none"}] /\ pc \in [Threads -> Places] /\ call \in [Threads -> Nat]
  BY DEF StreamInv, SerialInv, TypeInv
<1>4. \/ FirstLock(o) = "readLock" /\ o \in ReadOps
      \/ FirstLock(o) = "writeLock" /\ o \in WriteOps
      \/ FirstLock(o) = "body" /\ o = "set"
  BY DEF FirstLock, Ops, ReadOps, WriteOps
<1>5. read_mutex # t /\ write_mutex # t /\ buf[t] = <<>>
  BY <1>2 DEF StreamInv, OwnerInv, Owns, Inside
<1>6. OwnerInv'
  <2> SUFFICES ASSUME NEW u \in Threads
               PROVE  Owns(u)'
    BY DEF OwnerInv
  <2>2. CASE u = t
    BY <1>1, <1>2, <1>3, <1>4, <1>5, <2>2 DEF Owns, Inside
  <2>3. CASE u # t
    BY <1>1, <1>2, <1>3, <2>3 DEF StreamInv, OwnerInv, Owns
  <2> QED BY <2>2, <2>3
<1>7. \A u \in Threads : (Reader(u)' <=> Reader(u)) /\ (Writer(u)' <=> Writer(u))
  BY <1>1, <1>2, <1>3, <1>5 DEF Reader, Writer
<1>8. \A u \in Threads : Writer(u) => call'[u] = call[u]
  BY <1>2, <1>3, <1>5 DEF Writer
<1>9. PutInv'
  BY <1>2, <1>7, <1>8, PutSame DEF StreamInv
<1> QED BY <1>2, <1>6, <1>7, <1>9, Quiet DEF Kept

(* The thread that takes the read lock has read nothing yet.               *)
LEMMA ReadLockStream == ASSUME NEW t \in Threads, StreamInv, ReadLock(t) PROVE Kept
<1>1. /\ pc[t] = "readLock" /\ read_mutex = NoThread /\ read_mutex' = t
      /\ pc' = [pc EXCEPT ![t] = IF op[t] \in WriteOps THEN "writeLock" ELSE "body"]
      /\ UNCHANGED <<fd_, inq, accepted, taken, write_mutex, op, buf, call>>
  BY DEF ReadLock, members, kernel
<1>2. pc \in [Threads -> Places]
  BY DEF StreamInv, SerialInv, TypeInv
<1>3. buf[t] = <<>> /\ write_mutex # t /\ op[t] \in ReadOps /\ call[t] \in 1..MaxCalls
  BY <1>1 DEF StreamInv, OwnerInv, Owns, Inside
<1>4. OwnerInv'
  <2> SUFFICES ASSUME NEW u \in Threads PROVE Owns(u)'
    BY DEF OwnerInv
  <2>1. CASE u = t
    BY <1>1, <1>2, <1>3, <2>1 DEF Owns, Inside
  <2>2. CASE u # t
    BY <1>1, <1>2, <2>2 DEF StreamInv, OwnerInv, Owns
  <2> QED BY <2>1, <2>2
<1>5. \A u \in Threads : /\ Writer(u)' <=> Writer(u)
                         /\ ~ Reader(u)
                         /\ Reader(u)' => u = t
  BY <1>1, SerialAssumption DEF Reader, Writer
<1>6. \A p \in Ports : Held(p)' = Held(p)
  BY <1>1, <1>3, <1>5 DEF Held, Reader
<1>7. Sent' = Sent
  BY <1>1, <1>5, SentSame
<1>8. Pending' = Pending /\ Written' = Written
  BY <1>1, <1>6, <1>7, SamePending, SameWritten
<1>9. PutInv'
  BY <1>1, <1>5, PutSame DEF StreamInv
<1> QED BY <1>1, <1>4, <1>8, <1>9, MapStutter DEF Kept, StreamStep

(* The thread that takes the write lock has written nothing yet.           *)
LEMMA WriteLockStream == ASSUME NEW t \in Threads, StreamInv, WriteLock(t) PROVE Kept
<1>1. /\ pc[t] = "writeLock" /\ write_mutex = NoThread /\ write_mutex' = t
      /\ pc' = [pc EXCEPT ![t] = "body"]
      /\ UNCHANGED <<fd_, inq, accepted, taken, read_mutex, op, buf, call>>
  BY DEF WriteLock, members, kernel
<1>2. pc \in [Threads -> Places]
  BY DEF StreamInv, SerialInv, TypeInv
<1>3. buf[t] = <<>> /\ op[t] \in WriteOps /\ call[t] \in 1..MaxCalls
  BY <1>1 DEF StreamInv, OwnerInv, Owns, Inside
<1>4. OwnerInv'
  <2> SUFFICES ASSUME NEW u \in Threads PROVE Owns(u)'
    BY DEF OwnerInv
  <2>1. CASE u = t
    BY <1>1, <1>2, <1>3, <2>1 DEF StreamInv, OwnerInv, Owns, Inside
  <2>2. CASE u # t
    BY <1>1, <1>2, <2>2 DEF StreamInv, OwnerInv, Owns
  <2> QED BY <2>1, <2>2
<1>5. \A u \in Threads : /\ Reader(u)' <=> Reader(u)
                         /\ ~ Writer(u)
                         /\ Writer(u)' => u = t
  BY <1>1, SerialAssumption DEF Reader, Writer
<1>6. \A p \in Ports : Held(p)' = Held(p)
  BY <1>1, <1>5, HeldSame
<1>7. Sent' = Sent
  <2>1. Sent = 0
    BY <1>5 DEF Sent, Writer
  <2>2. Sent' = 0
    BY <1>1, <1>3, <1>5 DEF Sent, Writer
  <2> QED BY <2>1, <2>2
<1>8. Pending' = Pending /\ Written' = Written
  BY <1>1, <1>6, <1>7, SamePending, SameWritten
<1>9. PutInv'
  <2>1. accepted' \in Seq(Entry) /\ Len(accepted') \in Nat
    BY <1>1 DEF StreamInv, PutInv
  <2>2. \A u \in Threads : Writer(u)' => Len(buf'[u]) = 0
    BY <1>1, <1>3, <1>5
  <2>3. Len(accepted') >= 0 /\ 1..0 = {}
    BY <2>1
  <2> QED BY ONLY <2>1, <2>2, <2>3 DEF PutInv
<1> QED BY <1>1, <1>4, <1>8, <1>9, MapStutter DEF Kept, StreamStep

(* A call that ends keeps what is said of the owners. *)
LEMMA LeaveOwner == ASSUME NEW t \in Threads, TypeInv, OwnerInv, Leave(t) PROVE OwnerInv'
<1> SUFFICES ASSUME NEW u \in Threads PROVE Owns(u)'
  BY DEF OwnerInv
<1>1. CASE u = t
  BY <1>1, SerialAssumption DEF Leave, TypeInv, Owns, Inside
<1>2. CASE u # t
  <2>1. /\ pc'[u] = pc[u] /\ op'[u] = op[u] /\ buf'[u] = buf[u] /\ call'[u] = call[u]
        /\ read_mutex' = u => read_mutex = u
        /\ write_mutex' = u => write_mutex = u
    BY <1>2, SerialAssumption DEF Leave, TypeInv
  <2> QED BY <2>1 DEF OwnerInv, Owns
<1> QED BY <1>1, <1>2

(* When a call ends the writers that go on keep the end of what was put.   *)
LEMMA LeavePut ==
    ASSUME NEW t \in Threads, TypeInv, OwnerInv, PutInv, Leave(t), fd_' = fd_, accepted' = accepted
    PROVE  PutInv'
<1>1. \A u \in Threads : Writer(u)' => Writer(u) /\ buf'[u] = buf[u]
  BY LeaveStreams
<1>2. \A u \in Threads : Writer(u)' => call'[u] = call[u]
  <2>1. \A u \in Threads \ {t} : call'[u] = call[u]
    BY DEF Leave, TypeInv
  <2> QED BY <2>1, LeaveStreams
<1> QED BY <1>1, <1>2, PutSame

(* A call that ends and moves nothing: a read loses what it has, a write   *)
(* has put it.                                                             *)
LEMMA LeaveQuiet ==
    ASSUME NEW t \in Threads, StreamInv, Leave(t), pc[t] \in Inside,
           op[t] = "write" /\ pc[t] # "body" => is_open_ = TRUE,
           UNCHANGED <<fd_, inq, accepted, taken>>
    PROVE  Kept
<1>1. TypeInv /\ OwnerInv /\ PutInv /\ LockInv
  BY DEF StreamInv, SerialInv
<1>2. OwnerInv' /\ PutInv'
  BY <1>1, LeaveOwner, LeavePut
<1>3. CASE Reader(t)
  BY <1>2, <1>3, ReadLoses DEF Kept
<1>4. CASE Writer(t)
  <2>1. buf[t] \in Seq(Entry) /\ accepted \in Seq(Entry) /\ Len(buf[t]) < WriteSize
    BY <1>1, <1>4 DEF TypeInv, PutInv, StreamInv, RoomInv, Writer, Size, Reads
  <2>2. Len(buf[t]) + 0 <= WriteSize /\ 0 \in Nat
    BY <2>1, SerialAssumption
  <2>3. Len(buf[t]) + 0 > 0 => fd_.port \in Ports
    BY <1>1, <1>4, <2>1 DEF OwnerInv, Owns, Writer, StreamInv, SerialInv, PortInv
  <2>4. accepted' = accepted \o [i \in 1..0 |->
                        [call |-> call[t], port |-> fd_.port, at |-> Len(buf[t]) + i]]
    <3>1. [i \in 1..0 |-> [call |-> call[t], port |-> fd_.port, at |-> Len(buf[t]) + i]] = <<>>
      OBVIOUS
    <3>2. accepted' = accepted \o <<>>
      BY ONLY <2>1, accepted' = accepted, ConcatEmptySeq
    <3> QED BY ONLY <3>1, <3>2
  <2>5. StreamStep
    BY <1>4, <2>2, <2>3, <2>4, WriteEnds
  <2> QED BY <1>2, <2>5 DEF Kept
<1>5. CASE ~ Reader(t) /\ ~ Writer(t)
  <2>1. op[t] \notin Reads \cup {"write"}
    BY <1>1, <1>5 DEF LockInv, Reader, Writer, Reads, ReadOps, WriteOps
  <2>2. (\A p \in Ports : Held(p)' = Held(p)) /\ Sent' = Sent
    BY <1>1, <2>1, LeaveNothing
  <2> QED BY <1>2, <2>2, SamePending, SameWritten, MapStutter DEF Kept, StreamStep
<1> QED BY <1>3, <1>4, <1>5


-----------------------------------------------------------------------------
(* The steps of read and readline.                                         *)

(* A call of ::read, with what is said of the owners.                      *)
LEMMA FetchKept ==
    ASSUME NEW t \in Threads, NEW time \in 0..Timeout, StreamInv,
           op[t] \in Reads, pc[t] \in {"body", "ready"}, is_open_ = TRUE,
           Fetch(t, time)
    PROVE  Kept
<1>1. StreamStep
  BY FetchStream
<1>2. TypeInv /\ OwnerInv /\ PutInv
  BY DEF StreamInv, SerialInv
<1>3. UNCHANGED <<fd_, accepted>>
  BY DEF Fetch, members
<1>4. CASE Leave(t)
  BY <1>1, <1>2, <1>3, <1>4, LeaveOwner, LeavePut DEF Kept
<1>5. CASE ~ Leave(t)
  <2>1. PICK b, c : /\ c \in {"body", "wait"}
                    /\ pc' = [pc EXCEPT ![t] = c] /\ buf' = [buf EXCEPT ![t] = b]
                    /\ UNCHANGED <<locks, op, call>>
    BY <1>5 DEF Fetch, Return
  <2>2. OwnerInv'
    <3> SUFFICES ASSUME NEW u \in Threads PROVE Owns(u)'
      BY DEF OwnerInv
    <3>1. CASE u = t
      BY <1>2, <2>1, <3>1 DEF TypeInv, OwnerInv, Owns, Inside, locks, Reads
    <3>2. CASE u # t
      BY <1>2, <2>1, <3>2 DEF TypeInv, OwnerInv, Owns, locks
    <3> QED BY <3>1, <3>2
  <2>3. PutInv'
    <3>1. \A u \in Threads : Writer(u)' => u # t /\ Writer(u)
      BY <1>2, <2>1 DEF Writer, locks, Reads
    <3> QED BY <1>2, <1>3, <2>1, <3>1, PutSame DEF TypeInv
  <2> QED BY <1>1, <2>2, <2>3 DEF Kept
<1> QED BY <1>4, <1>5

(* A read that times out returns what it has.                              *)
LEMMA ReadTimeoutStream == ASSUME NEW t \in Threads, StreamInv, ReadTimeout(t) PROVE Kept
<1>1. /\ op[t] \in Reads /\ pc[t] = "wait" /\ Return(t, buf[t]) /\ Leave(t)
      /\ UNCHANGED <<fd_, inq, accepted>>
  BY DEF ReadTimeout, Return, members, kernel
<1>2. TypeInv /\ OwnerInv /\ PutInv /\ LockInv /\ WaitInv /\ PortInv
  BY DEF StreamInv, SerialInv
<1>3. Reader(t) /\ fd_.port \in Ports
  BY <1>1, <1>2 DEF LockInv, WaitInv, PortInv, Waiting, Inside, Reader, Reads, ReadOps
<1>4. /\ buf[t] \in Seq(Entry) /\ inq[fd_.port] \in Seq(Entry)
      /\ inq' = [inq EXCEPT ![fd_.port] = inq[fd_.port]]
  BY <1>1, <1>2, <1>3 DEF TypeInv
<1>5. StreamStep
  BY <1>1, <1>3, <1>4, ReadReturns
<1> QED BY <1>1, <1>2, <1>5, LeaveOwner, LeavePut DEF Kept

-----------------------------------------------------------------------------
(* The steps of write.                                                     *)

(* The beginning of a sequence does not see what is added.                 *)
LEMMA BeginningKept ==
    ASSUME NEW S, NEW a \in Seq(S), NEW b \in Seq(S), NEW k \in 0..Len(a)
    PROVE  SubSeq(a \o b, 1, k) = SubSeq(a, 1, k)
<1>1. /\ a \o b \in Seq(S) /\ Len(a \o b) = Len(a) + Len(b)
      /\ \A i \in 1..Len(a) : (a \o b)[i] = a[i]
  BY ConcatProperties
<1>2. SubSeq(a, 1, k) \in Seq(S) /\ Len(SubSeq(a, 1, k)) = k /\ \A i \in 1..k : SubSeq(a, 1, k)[i] = a[i]
  OBVIOUS
<1> DEFINE c == a \o b
<1>3. c \in Seq(S) /\ k <= Len(c)
  BY <1>1
<1>4. \A i \in 1..k : c[i] = a[i]
  BY <1>1
<1> HIDE DEF c
<1>5. /\ SubSeq(c, 1, k) \in Seq(S) /\ Len(SubSeq(c, 1, k)) = k
      /\ \A i \in 1..k : SubSeq(c, 1, k)[i] = c[i]
  BY <1>3
<1>6. SubSeq(c, 1, k) = SubSeq(a, 1, k)
  BY <1>2, <1>4, <1>5, SeqEqual
<1> QED BY <1>6 DEF c

(* ::write takes bytes and the call goes on: none of them counts yet.      *)
LEMMA WriteGoesOn ==
    ASSUME NEW t \in Threads, StreamInv, Writer(t), pc[t] = "ready", fd_.port \in Ports,
           NEW n \in Nat, NEW sent \in Seq(Entry), Len(sent) = n,
           \A i \in 1..n : sent[i] = [call |-> call[t], port |-> fd_.port, at |-> Len(buf[t]) + i],
           accepted' = accepted \o sent,
           buf' = [buf EXCEPT ![t] = buf[t] \o sent], pc' = [pc EXCEPT ![t] = "wait"],
           UNCHANGED <<fd_, inq, taken, locks, op, call>>
    PROVE  Kept
<1> DEFINE m == Len(buf[t])
           e(i) == [call |-> call[t], port |-> fd_.port, at |-> i]
<1>1. TypeInv /\ OwnerInv /\ PutInv /\ LockInv
  BY DEF StreamInv, SerialInv
<1>2. /\ buf \in [Threads -> Seq(Entry)] /\ buf[t] \in Seq(Entry) /\ accepted \in Seq(Entry)
      /\ pc \in [Threads -> Places]
  BY <1>1 DEF TypeInv, PutInv
<1>3. /\ buf'[t] = buf[t] \o sent /\ Len(buf'[t]) = m + n /\ m \in Nat
      /\ \A u \in Threads \ {t} : buf'[u] = buf[u]
  <2>1. Len(buf[t] \o sent) = m + n /\ m \in Nat
    <3> DEFINE b == buf[t]
    <3>1. b \in Seq(Entry)
      BY <1>2
    <3> HIDE DEF b
    <3>2. Len(b \o sent) = Len(b) + Len(sent)
      BY ONLY <3>1, sent \in Seq(Entry), ConcatProperties
    <3>3. Len(b) \in Nat
      BY <3>1
    <3> QED BY <3>2, <3>3 DEF b
  <2> QED BY <1>2, <2>1
<1>4. \A u \in Threads : /\ Writer(u)' <=> Writer(u)
                         /\ Reader(u)' <=> Reader(u)
                         /\ Writer(u) => u = t
                         /\ Reader(u) => u # t
  BY DEF Reader, Writer, Reads, locks
<1>5. \A p \in Ports : Held(p)' = Held(p)
  BY <1>3, <1>4, HeldSame
<1>6. Sent = m /\ Sent' = m + n
  BY <1>3, <1>4 DEF Sent, Writer
<1>7. accepted' \in Seq(Entry) /\ Len(accepted') = Len(accepted) + n
  BY ONLY <1>2, accepted' = accepted \o sent, sent \in Seq(Entry), Len(sent) = n, ConcatProperties
<1>8. m <= Len(accepted) /\ \A i \in 1..m : accepted[Len(accepted) - m + i] = e(i)
  BY <1>1 DEF PutInv
<1>9. Written' = Written
  <2>1. Len(accepted) - m \in 0..Len(accepted) /\ Len(accepted') - (m + n) = Len(accepted) - m
    BY <1>2, <1>3, <1>7, <1>8
  <2> DEFINE k == Len(accepted) - m
  <2>2. Written' = SubSeq(accepted \o sent, 1, k) /\ Written = SubSeq(accepted, 1, k)
    BY <1>6, <2>1 DEF Written
  <2>3. k \in 0..Len(accepted)
    BY <2>1
  <2> HIDE DEF k
  <2> QED BY ONLY <1>2, <2>2, <2>3, sent \in Seq(Entry), BeginningKept
<1>10. StreamStep
  BY <1>5, <1>9, SamePending, MapStutter DEF StreamStep
<1>11. OwnerInv'
  <2> SUFFICES ASSUME NEW u \in Threads PROVE Owns(u)'
    BY DEF OwnerInv
  <2>1. CASE u = t
    BY <1>1, <1>2, <2>1 DEF OwnerInv, Owns, Inside, locks
  <2>2. CASE u # t
    BY <1>1, <1>2, <1>3, <2>2 DEF OwnerInv, Owns, locks
  <2> QED BY <2>1, <2>2
<1>12. PutInv'
  <2>0. \A i \in 1..n : sent[i] = e(m + i)
    OBVIOUS
  <2> HIDE DEF m, e
  <2>1. m + n <= Len(accepted')
    BY <1>2, <1>3, <1>7, <1>8
  <2>2. \A i \in 1..(m + n) : accepted'[Len(accepted') - (m + n) + i] = e(i)
    <3> SUFFICES ASSUME NEW i \in 1..(m + n)
                 PROVE  accepted'[Len(accepted') - (m + n) + i] = e(i)
      OBVIOUS
    <3> DEFINE j == Len(accepted) - m + i
    <3>1. j \in 1..(Len(accepted) + n) /\ Len(accepted') - (m + n) + i = j
      BY <1>2, <1>3, <1>7, <1>8
    <3>2. accepted'[j] = IF j <= Len(accepted) THEN accepted[j] ELSE sent[j - Len(accepted)]
      BY <1>2, <3>1, ConcatProperties
    <3>3. CASE i <= m
      <4>1. j <= Len(accepted) /\ accepted[j] = e(i)
        BY <1>2, <1>3, <1>8, <3>3
      <4> QED BY <3>1, <3>2, <4>1
    <3>4. CASE i > m
      <4>1. ~ (j <= Len(accepted)) /\ j - Len(accepted) \in 1..n /\ m + (j - Len(accepted)) = i
        BY <1>2, <1>3, <1>8, <3>4
      <4>2. sent[j - Len(accepted)] = e(i)
        BY <2>0, <4>1
      <4> QED BY <3>1, <3>2, <4>1, <4>2
    <3>5. i <= m \/ i > m
      BY <1>3
    <3> QED BY <3>3, <3>4, <3>5
  <2>3. \A u \in Threads : Writer(u)' => u = t
    BY <1>4
  <2>4. \A i \in 1..(m + n) : e(i) = [call |-> call'[t], port |-> fd_'.port, at |-> i]
    BY DEF e
  <2>5. /\ Len(buf'[t]) <= Len(accepted')
        /\ \A i \in 1..Len(buf'[t]) :
               accepted'[Len(accepted') - Len(buf'[t]) + i]
                   = [call |-> call'[t], port |-> fd_'.port, at |-> i]
    BY <1>3, <2>1, <2>2, <2>4
  <2> QED BY <1>7, <2>3, <2>5 DEF PutInv
<1> QED BY <1>10, <1>11, <1>12 DEF Kept


(* ::write takes bytes: the call ends with them or goes on.                *)
LEMMA WriteReadyStream == ASSUME NEW t \in Threads, StreamInv, WriteReady(t) PROVE Kept
<1>1. TypeInv /\ OwnerInv /\ PutInv /\ LockInv /\ WaitInv /\ PortInv
  BY DEF StreamInv, SerialInv
<1>2. op[t] = "write" /\ pc[t] = "ready" /\ UNCHANGED <<fd_, inq, taken>>
  BY DEF WriteReady, members
<1>3. PICK n \in 1..(WriteSize - Len(buf[t])) :
          LET sent == [i \in 1..n |-> [call |-> call[t], port |-> fd_.port, at |-> Len(buf[t]) + i]]
          IN  /\ accepted' = accepted \o sent
              /\ \/ Leave(t)
                 \/ /\ buf' = [buf EXCEPT ![t] = buf[t] \o sent]
                    /\ pc' = [pc EXCEPT ![t] = "wait"]
                    /\ UNCHANGED <<locks, op, left, call>>
  BY DEF WriteReady
<1> DEFINE sent == [i \in 1..n |-> [call |-> call[t], port |-> fd_.port, at |-> Len(buf[t]) + i]]
<1>4. Writer(t) /\ fd_.port \in Ports
  BY <1>1, <1>2 DEF LockInv, WaitInv, PortInv, Waiting, Inside, Writer, WriteOps
<1>5. Len(buf[t]) \in Nat /\ accepted \in Seq(Entry) /\ call[t] \in Nat
  BY <1>1 DEF TypeInv, PutInv
<1>6. n \in Nat /\ Len(buf[t]) + n <= WriteSize
  BY <1>5, SerialAssumption
<1>7. sent \in Seq(Entry) /\ Len(sent) = n
      /\ \A i \in 1..n : sent[i] = [call |-> call[t], port |-> fd_.port, at |-> Len(buf[t]) + i]
  <2>1. sent = Part(call[t], fd_.port, Len(buf[t]), n)
    BY DEF Part
  <2> HIDE DEF sent
  <2> DEFINE m == Len(buf[t])
  <2>2. m \in Nat /\ m = Len(buf[t])
    BY <1>5
  <2> HIDE DEF m
  <2>3. /\ Part(call[t], fd_.port, m, n) \in Seq(Entry) /\ Len(Part(call[t], fd_.port, m, n)) = n
        /\ \A i \in 1..n : Part(call[t], fd_.port, m, n)[i]
                               = [call |-> call[t], port |-> fd_.port, at |-> m + i]
    <3>1. IsPart(Part(call[t], fd_.port, m, n), call[t], fd_.port, m, n)
      BY ONLY <1>4, <1>5, <1>6, <2>2, PartType
    <3> QED BY ONLY <3>1 DEF IsPart
  <2> QED BY ONLY <2>1, <2>2, <2>3
<1>8. CASE Leave(t)
  <2>1. StreamStep
    BY <1>2, <1>3, <1>4, <1>6, <1>8, WriteEnds
  <2>2. PutInv'
    <3>1. accepted' \in Seq(Entry)
      <4> HIDE DEF sent
      <4>1. accepted' = accepted \o sent
        BY <1>3 DEF sent
      <4> QED BY ONLY <1>5, <1>7, <4>1, ConcatProperties
    <3>2. \A u \in Threads : ~ Writer(u)'
      BY <1>1, <1>4, <1>8, LeaveStreams DEF Writer
    <3> QED BY <3>1, <3>2, PutNone
  <2> QED BY <1>1, <1>8, <2>1, <2>2, LeaveOwner DEF Kept
<1>9. CASE ~ Leave(t)
  <2>1. /\ accepted' = accepted \o sent /\ buf' = [buf EXCEPT ![t] = buf[t] \o sent]
        /\ pc' = [pc EXCEPT ![t] = "wait"]
        /\ UNCHANGED <<fd_, inq, taken, locks, op, call>>
    BY <1>2, <1>3, <1>9
  <2> HIDE DEF sent
  <2> QED BY <1>2, <1>4, <1>6, <1>7, <2>1, WriteGoesOn
<1> QED BY <1>8, <1>9

(* A write without a timeout ends before it has written anything.          *)
LEMMA WriteBeginStream == ASSUME NEW t \in Threads, StreamInv, WriteBegin(t) PROVE Kept
<1>1. /\ op[t] = "write" /\ pc[t] = "body" /\ is_open_ = TRUE
      /\ UNCHANGED <<fd_, inq, accepted, taken>>
  BY DEF WriteBegin, members, kernel
<1>2. CASE Timeout = 0
  BY <1>1, <1>2, LeaveQuiet DEF WriteBegin, Inside
<1>3. CASE Timeout # 0
  <2>1. pc' = [pc EXCEPT ![t] = "wait"] /\ UNCHANGED <<locks, op, buf, call>>
    BY <1>3 DEF WriteBegin
  <2> QED BY <1>1, <2>1, GoOn DEF Inside
<1> QED BY <1>2, <1>3

-----------------------------------------------------------------------------
(* Steps that throw the kernel's bytes away.                               *)

(* While no thread reads. *)
LEMMA Thrown ==
    ASSUME inq \in [Ports -> Seq(Entry)], taken' = taken, Written' = Written,
           \A u \in Threads : ~ Reader(u) /\ ~ Reader(u)',
           \/ inq' = inq
           \/ fd_.port \in Ports /\ inq' = [inq EXCEPT ![fd_.port] = <<>>]
    PROVE  StreamStep
<1>1. \A p \in Ports : Held(p) = <<>> /\ Held(p)' = <<>>
  BY DEF Held, Reader
<1>2. \A p \in Ports : <<>> \o inq[p] = inq[p]
  BY ConcatEmptySeq
<1>3. Pending \in [Ports -> Seq(Entry)] /\ \A p \in Ports : Pending[p] = inq[p]
  BY <1>1, <1>2 DEF Pending
<1>4. CASE inq' = inq
  BY <1>1, <1>4, SamePending, MapStutter DEF StreamStep
<1>5. CASE fd_.port \in Ports /\ inq' = [inq EXCEPT ![fd_.port] = <<>>]
  <2> DEFINE p == fd_.port
  <2>1. p \in Ports /\ 0 \in 0..Len(Pending[p]) /\ SubSeq(Pending[p], 1, 0) = <<>>
    BY <1>3, <1>5
  <2>2. \A q \in Ports : Pending'[q] = IF q = p THEN <<>> ELSE Pending[q]
    <3>1. \A q \in Ports : Pending'[q] = <<>> \o inq'[q]
      BY <1>1 DEF Pending
    <3>2. \A q \in Ports : inq'[q] \in Seq(Entry)
      BY <1>5
    <3>3. \A q \in Ports : Pending'[q] = inq'[q]
      BY ONLY <3>1, <3>2, ConcatEmptySeq
    <3> QED BY <1>3, <1>5, <3>3
  <2>3. Pending' = [Pending EXCEPT ![p] = SubSeq(@, 1, 0)]
    BY <2>1, <2>2 DEF Pending
  <2> QED BY ONLY <2>1, <2>3, taken' = taken, Written' = Written, MapDiscard DEF StreamStep
<1> QED BY <1>4, <1>5

(* flushInput holds the read lock, so that no read loses its bytes.        *)
LEMMA FlushInputStream == ASSUME NEW t \in Threads, StreamInv, FlushInput(t) PROVE Kept
<1>1. TypeInv /\ OwnerInv /\ PutInv /\ LockInv /\ PortInv
  BY DEF StreamInv, SerialInv
<1>2. /\ op[t] = "flushInput" /\ pc[t] = "body" /\ is_open_ = TRUE /\ Leave(t)
      /\ inq' = inq \/ inq' = [inq EXCEPT ![fd_.port] = <<>>]
      /\ UNCHANGED <<fd_, accepted, taken>>
  BY DEF FlushInput, members
<1>3. read_mutex = t /\ fd_.port \in Ports
  BY <1>1, <1>2 DEF LockInv, PortInv, Inside, ReadOps
<1>4. \A u \in Threads : ~ Reader(u) /\ ~ Reader(u)'
  <2>1. \A u \in Threads : ~ Reader(u)
    BY <1>2, <1>3 DEF Reader, Reads
  <2> QED BY <1>1, <1>2, <2>1, LeaveStreams
<1>5. Written' = Written
  BY <1>1, <1>2, LeaveNothing, SameWritten DEF Reads
<1>6. StreamStep
  BY <1>1, <1>2, <1>3, <1>4, <1>5, Thrown DEF TypeInv
<1> QED BY <1>1, <1>2, <1>6, LeaveOwner, LeavePut DEF Kept

(* Opening and closing: neither a read nor a write is going on. *)
LEMMA Alone ==
    ASSUME StreamInv, UNCHANGED <<accepted, taken>>, OwnerInv',
           \A u \in Threads : /\ ~ Reader(u) /\ ~ Reader(u)'
                              /\ ~ Writer(u) /\ ~ Writer(u)',
           OpenFile \/ CloseFile
    PROVE  Kept
<1>1. TypeInv /\ PutInv /\ PortInv
  BY DEF StreamInv, SerialInv
<1>2. \/ inq' = inq
      \/ fd_.port \in Ports /\ inq' = [inq EXCEPT ![fd_.port] = <<>>]
  BY <1>1 DEF OpenFile, CloseFile, PortInv, TypeInv
<1>3. Written' = Written
  <2>1. Sent = 0 /\ Sent' = 0
    BY DEF Sent, Writer
  <2> QED BY <2>1, SameWritten
<1>4. StreamStep
  BY <1>1, <1>2, <1>3, Thrown DEF TypeInv
<1>5. PutInv'
  BY <1>1, PutNone DEF PutInv
<1> QED BY <1>4, <1>5 DEF Kept


(* setPort has both locks, so that no call is under way.                   *)
LEMMA SetPortStream ==
    ASSUME NEW t \in Threads, StreamInv, SetPortClose(t) \/ SetPortOpen(t)
    PROVE  Kept
<1>1. TypeInv /\ OwnerInv /\ LockInv
  BY DEF StreamInv, SerialInv
<1>2. /\ op[t] = "setPort" /\ pc[t] \in {"body", "reopen"} /\ (OpenFile \/ CloseFile)
      /\ UNCHANGED <<accepted, taken>>
      /\ \/ Leave(t)
         \/ /\ \E c \in {"reopen", "getattr"} : pc' = [pc EXCEPT ![t] = c]
            /\ UNCHANGED <<locks, op, buf, left, call>>
  BY DEF SetPortClose, SetPortOpen, close, CloseFails
<1>3. read_mutex = t /\ write_mutex = t
  BY <1>1, <1>2 DEF LockInv, ReadOps, WriteOps, Inside
<1>4. \A u \in Threads : ~ Reader(u) /\ ~ Writer(u)
  BY <1>2, <1>3 DEF Reader, Writer, Reads
<1>5. CASE Leave(t)
  <2>1. \A u \in Threads : ~ Reader(u)' /\ ~ Writer(u)'
    BY <1>1, <1>4, <1>5, LeaveStreams
  <2> QED BY <1>1, <1>2, <1>4, <1>5, <2>1, LeaveOwner, Alone
<1>6. CASE ~ Leave(t)
  <2>1. PICK c \in {"reopen", "getattr"} :
            pc' = [pc EXCEPT ![t] = c] /\ UNCHANGED <<locks, op, buf, left, call>>
    BY <1>2, <1>6
  <2>2. \A u \in Threads : ~ Reader(u)' /\ ~ Writer(u)'
    BY <1>4, <2>1 DEF Reader, Writer, locks
  <2>3. OwnerInv'
    <3> SUFFICES ASSUME NEW u \in Threads PROVE Owns(u)'
      BY DEF OwnerInv
    <3>1. CASE u = t
      BY <1>1, <1>2, <2>1, <3>1 DEF TypeInv, OwnerInv, Owns, Inside, locks
    <3>2. CASE u # t
      BY <1>1, <2>1, <3>2 DEF TypeInv, OwnerInv, Owns, locks
    <3> QED BY <3>1, <3>2
  <2> QED BY <1>2, <1>4, <2>2, <2>3, Alone
<1> QED BY <1>5, <1>6

(* The steps of setPort and the setters that move no file move no byte.    *)
LEMMA SettingStream ==
    ASSUME NEW t \in Threads, StreamInv,
           SetPortClosed(t) \/ SetStore(t) \/ SetTest(t) \/ GetAttr(t) \/ SetAttr(t)
    PROVE  Kept
<1>1. pc[t] \in Inside /\ UNCHANGED <<fd_, inq, accepted, taken>>
  BY DEF SetPortClosed, SetStore, SetTest, GetAttr, SetAttr, Inside, members, kernel
<1>2. op[t] \in Setters
  BY DEF StreamInv, SerialInv, WaitInv, Settling, Setters,
         SetPortClosed, SetStore, SetTest, GetAttr, SetAttr
<1>3. CASE Leave(t)
  BY <1>1, <1>2, <1>3, LeaveQuiet DEF Setters
<1>4. CASE ~ Leave(t)
  <2>1. PICK c \in {"stored", "getattr", "members"} :
            pc' = [pc EXCEPT ![t] = c] /\ UNCHANGED <<locks, op, buf, call>>
    BY <1>4 DEF SetPortClosed, SetStore, SetTest, GetAttr, SetAttr
  <2>2. c \in Inside \ {"body"}
    BY <2>1 DEF Inside
  <2> QED BY <1>1, <2>1, <2>2, GoOn
<1> QED BY <1>3, <1>4

LEMMA MemberStream ==
    ASSUME NEW t \in Threads, NEW s \in Settings, StreamInv, ReadMember(t, s)
    PROVE  Kept
<1>1. /\ pc[t] = "members" /\ UNCHANGED <<fd_, inq, accepted, taken>>
      /\ Leave(t) \/ UNCHANGED <<locks, pc, op, buf, call>>
  BY DEF ReadMember, members, kernel
<1>2. op[t] \in Setters
  BY <1>1 DEF StreamInv, SerialInv, WaitInv, Settling
<1>3. CASE Leave(t)
  BY <1>1, <1>2, <1>3, LeaveQuiet DEF Setters, Inside
<1>4. CASE ~ Leave(t)
  BY <1>1, <1>4, Aside
<1> QED BY <1>3, <1>4

(* open and close are called while no call is under way.                   *)
LEMMA OpenCloseStream == ASSUME StreamInv, Open \/ Close PROVE Kept
<1>1. /\ Idle /\ (OpenFile \/ CloseFile)
      /\ UNCHANGED <<accepted, taken, read_mutex, write_mutex, pc, op, buf, call>>
  BY DEF Open, Close, close, CloseFails, locks, frames
<1>2. OwnerInv'
  BY <1>1 DEF StreamInv, OwnerInv, Owns
<1>3. \A u \in Threads : read_mutex # u /\ write_mutex # u
  BY <1>1 DEF StreamInv, OwnerInv, Owns, Idle, Inside
<1>4. \A u \in Threads : /\ ~ Reader(u) /\ ~ Reader(u)'
                         /\ ~ Writer(u) /\ ~ Writer(u)'
  BY <1>1, <1>3 DEF Reader, Writer
<1> QED BY <1>1, <1>2, <1>4, Alone

-----------------------------------------------------------------------------
(* The devices.                                                            *)

(* A byte arrives behind those that a read has taken already.              *)
LEMMA ArriveStream == ASSUME NEW p \in Ports, StreamInv, Arrive(p) PROVE Kept
<1>1. /\ arrived' \in 1..MaxIn /\ inq' = [inq EXCEPT ![p] = Append(inq[p], arrived')]
      /\ UNCHANGED <<fd_, accepted, taken, locks, pc, op, buf, call>>
  BY SerialAssumption DEF Arrive, StreamInv, SerialInv, TypeInv, members, frames
<1>2. OwnerInv'
  BY <1>1 DEF StreamInv, OwnerInv, Owns, locks
<1>3. \A u \in Threads : (Reader(u)' <=> Reader(u)) /\ (Writer(u)' <=> Writer(u))
  BY <1>1 DEF Reader, Writer, locks
<1>4. PutInv'
  BY <1>1, <1>3, PutSame DEF StreamInv
<1>5. (\A q \in Ports : Held(q)' = Held(q)) /\ Sent' = Sent
  BY <1>1, <1>3, HeldSame, SentSame
<1>6. inq \in [Ports -> Seq(Entry)] /\ \A q \in Ports : Held(q) \in Seq(Entry)
  BY DEF StreamInv, SerialInv, TypeInv, Held
<1>7. Held(p) \o Append(inq[p], arrived') = Append(Held(p) \o inq[p], arrived')
  <2> DEFINE a == Held(p)
             b == inq[p]
             x == arrived'
  <2>1. a \in Seq(Entry) /\ b \in Seq(Entry) /\ x \in Entry
    BY <1>1, <1>6 DEF Entry
  <2> HIDE DEF a, b, x
  <2>2. a \o Append(b, x) = Append(a \o b, x)
    BY <2>1
  <2> QED BY <2>2 DEF a, b, x
<1>8. \A q \in Ports : Pending'[q] = IF q = p THEN Append(Pending[p], arrived') ELSE Pending[q]
  BY <1>1, <1>5, <1>6, <1>7 DEF Pending
<1>9. Pending' = [Pending EXCEPT ![p] = Append(@, arrived')]
  BY <1>8 DEF Pending
<1>10. Written' = Written
  BY <1>1, <1>5, SameWritten
<1>11. StreamStep
  BY ONLY p \in Ports, <1>1, <1>9, <1>10, MapArrive DEF StreamStep
<1> QED BY <1>2, <1>4, <1>11 DEF Kept

(* A device that is gone leaves a read only what it has taken.             *)
LEMMA UnplugStream == ASSUME NEW p \in Ports, StreamInv, Unplug(p) PROVE Kept
<1>1. /\ inq' = [inq EXCEPT ![p] = <<>>]
      /\ UNCHANGED <<fd_, accepted, taken, locks, pc, op, buf, call>>
  BY DEF Unplug, members, frames
<1>2. OwnerInv'
  BY <1>1 DEF StreamInv, OwnerInv, Owns, locks
<1>3. \A u \in Threads : (Reader(u)' <=> Reader(u)) /\ (Writer(u)' <=> Writer(u))
  BY <1>1 DEF Reader, Writer, locks
<1>4. PutInv'
  BY <1>1, <1>3, PutSame DEF StreamInv
<1>5. (\A q \in Ports : Held(q)' = Held(q)) /\ Sent' = Sent
  BY <1>1, <1>3, HeldSame, SentSame
<1>6. inq \in [Ports -> Seq(Entry)] /\ \A q \in Ports : Held(q) \in Seq(Entry)
  BY DEF StreamInv, SerialInv, TypeInv, Held
<1>7. /\ Pending[p] = Held(p) \o inq[p]
      /\ Len(Held(p)) \in 0..Len(Pending[p]) /\ SubSeq(Pending[p], 1, Len(Held(p))) = Held(p)
  <2> DEFINE a == Held(p)
             b == inq[p]
  <2>1. a \in Seq(Entry) /\ b \in Seq(Entry) /\ Pending[p] = a \o b
    BY <1>6 DEF Pending
  <2> HIDE DEF a, b
  <2>2. Len(a) \in 0..Len(a \o b) /\ SubSeq(a \o b, 1, Len(a)) = a
    BY <2>1, Parts
  <2> QED BY <2>1, <2>2 DEF a, b
<1>8. \A q \in Ports : Pending'[q] = IF q = p THEN Held(p) ELSE Pending[q]
  <2>1. Held(p) \o <<>> = Held(p)
    BY ONLY p \in Ports, <1>6, ConcatEmptySeq
  <2> QED BY <1>1, <1>5, <1>6, <2>1 DEF Pending
<1>9. Pending' = [Pending EXCEPT ![p] = SubSeq(@, 1, Len(Held(p)))]
  BY <1>7, <1>8 DEF Pending
<1>10. Written' = Written
  BY <1>1, <1>5, SameWritten
<1>11. StreamStep
  BY ONLY p \in Ports, <1>1, <1>7, <1>9, <1>10, MapDiscard DEF StreamStep
<1> QED BY <1>2, <1>4, <1>11 DEF Kept

-----------------------------------------------------------------------------
(* Every step of a call.                                                   *)
LEMMA StepStream == ASSUME NEW t \in Threads, StreamInv, Step(t) PROVE Kept
<1>1. CASE ReadLock(t)
  BY <1>1, ReadLockStream
<1>2. CASE WriteLock(t)
  BY <1>2, WriteLockStream
<1>3. CASE NotOpen(t) \/ ReadGone(t) \/ WriteGone(t) \/ WriteTimeout(t) \/ Flush(t)
           \/ FlushOutput(t)
  <2>1. /\ Leave(t) /\ pc[t] \in Inside
        /\ op[t] = "write" /\ pc[t] # "body" => pc[t] \in Waiting
        /\ UNCHANGED <<fd_, inq, accepted, taken>>
    BY <1>3 DEF NotOpen, ReadGone, WriteGone, WriteTimeout, Flush, FlushOutput, members, kernel,
                Inside, Waiting
  <2>2. op[t] = "write" /\ pc[t] # "body" => is_open_ = TRUE
    BY <2>1 DEF StreamInv, SerialInv, WaitInv
  <2> QED BY <2>1, <2>2, LeaveQuiet
<1>4. CASE ReadBegin(t)
  BY <1>4, SerialAssumption, FetchKept DEF ReadBegin
<1>5. CASE ReadReady(t)
  <2>1. left[t] \in 0..Timeout /\ is_open_ = TRUE
    BY <1>5 DEF ReadReady, StreamInv, SerialInv, TypeInv, WaitInv, Waiting
  <2> QED BY <1>5, <2>1, FetchKept DEF ReadReady
<1>6. CASE ReadWait(t) \/ WriteWait(t)
  BY <1>6, GoOn DEF ReadWait, WriteWait, Inside, members, kernel
<1>7. CASE ReadTimeout(t)
  BY <1>7, ReadTimeoutStream
<1>8. CASE WriteBegin(t)
  BY <1>8, WriteBeginStream
<1>9. CASE WriteReady(t)
  BY <1>9, WriteReadyStream
<1>10. CASE SetPortClose(t) \/ SetPortOpen(t)
  BY <1>10, SetPortStream
<1>11. CASE FlushInput(t)
  BY <1>11, FlushInputStream
<1>12. CASE SetPortClosed(t) \/ SetStore(t) \/ SetTest(t) \/ GetAttr(t) \/ SetAttr(t)
  BY <1>12, SettingStream
<1>13. ASSUME NEW s \in Settings, ReadMember(t, s) PROVE Kept
  BY <1>13, MemberStream
<1> QED BY <1>1, <1>2, <1>3, <1>4, <1>5, <1>6, <1>7, <1>8, <1>9, <1>10, <1>11, <1>12,
           <1>13 DEF Step

(* Every step of the library.                                              *)
LEMMA NextStream == ASSUME StreamInv, [Next]_vars PROVE Kept
<1>1. CASE \E t \in Threads : Begin(t)
  BY <1>1, BeginStream
<1>2. CASE \E t \in Threads : Step(t)
  BY <1>2, StepStream
<1>3. CASE Open \/ Close
  BY <1>3, OpenCloseStream
<1>4. CASE Tick
  BY <1>4, Aside DEF Tick, members, kernel, frames
<1>5. CASE \E p \in Ports : Drain(p) \/ Plug(p)
  BY <1>5, Aside DEF Drain, Plug, members, frames
<1>6. CASE \E p \in Ports : Arrive(p)
  BY <1>6, ArriveStream
<1>7. CASE \E p \in Ports : Unplug(p)
  BY <1>7, UnplugStream
<1>8. CASE UNCHANGED vars
  BY <1>8, Aside DEF vars, members, kernel, frames
<1> QED BY <1>1, <1>2, <1>3, <1>4, <1>5, <1>6, <1>7, <1>8 DEF Next

-----------------------------------------------------------------------------
(* The numbers of the calls.                                               *)

(* No byte is put, and no call begins or gets another number.              *)
LEMMA SenderSame ==
    ASSUME StreamInv, accepted' = accepted, calls' \in Nat, calls <= calls',
           \A u \in Threads : pc'[u] # "idle" =>
               /\ pc[u] # "idle" /\ call'[u] = call[u]
               /\ op'[u] = "write" => op[u] = "write" /\ buf'[u] = buf[u]
    PROVE  SenderInv'
<1>1. calls \in Nat
  BY DEF StreamInv, SerialInv, TypeInv
<1>2. \A c \in 1..calls : c \in 1..calls'
  BY <1>1
<1> QED BY <1>2 DEF StreamInv, SenderInv

(* A call ends that puts nothing.                                          *)
LEMMA SenderLeave ==
    ASSUME NEW t \in Threads, StreamInv, Leave(t), accepted' = accepted, calls' = calls
    PROVE  SenderInv'
<1>1. TypeInv /\ calls \in Nat
  BY DEF StreamInv, SerialInv, TypeInv
<1>2. /\ pc'[t] = "idle"
      /\ \A u \in Threads \ {t} : pc'[u] = pc[u] /\ op'[u] = op[u] /\ buf'[u] = buf[u]
                                  /\ call'[u] = call[u]
  BY <1>1 DEF Leave, TypeInv
<1> QED BY <1>1, <1>2, SenderSame

(* A call goes on that puts nothing.                                       *)
LEMMA SenderGoOn ==
    ASSUME NEW t \in Threads, StreamInv, pc[t] # "idle", NEW c, pc' = [pc EXCEPT ![t] = c],
           UNCHANGED <<op, call, accepted, calls>>,
           buf' = buf \/ (op[t] # "write" /\ \E b : buf' = [buf EXCEPT ![t] = b])
    PROVE  SenderInv'
<1>1. TypeInv /\ calls \in Nat
  BY DEF StreamInv, SerialInv, TypeInv
<1>2. \A u \in Threads : /\ pc'[u] # "idle" => pc[u] # "idle"
                         /\ op[u] = "write" => buf'[u] = buf[u]
  BY <1>1 DEF TypeInv
<1> QED BY <1>1, <1>2, SenderSame

(* A call that begins has a number that no byte bears.                     *)
LEMMA SenderBegin == ASSUME NEW t \in Threads, StreamInv, Begin(t) PROVE SenderInv'
<1>1. /\ calls' = calls + 1 /\ call' = [call EXCEPT ![t] = calls + 1] /\ calls \in Nat
      /\ pc[t] = "idle" /\ UNCHANGED <<buf, accepted>>
      /\ \A u \in Threads \ {t} : pc'[u] = pc[u] /\ op'[u] = op[u]
  BY DEF Begin, StreamInv, SerialInv, TypeInv
<1>2. /\ buf[t] = <<>> /\ call'[t] = calls + 1
      /\ \A u \in Threads \ {t} : call'[u] = call[u]
  BY <1>1 DEF StreamInv, SerialInv, TypeInv, RoomInv
<1>3. \A c \in 1..calls : c \in 1..calls' /\ c # calls + 1
  BY <1>1
<1>4. \A i \in 1..Len(accepted') : accepted'[i].call \in 1..calls' /\ accepted'[i].call # calls + 1
  BY <1>1, <1>3 DEF StreamInv, SenderInv
<1>5. calls + 1 \in 1..calls' /\ Len(accepted) \in Nat
  BY <1>1 DEF StreamInv, PutInv
<1> SUFFICES ASSUME NEW v \in Threads, pc'[v] # "idle"
             PROVE  /\ call'[v] \in 1..calls'
                    /\ \A u \in Threads \ {v} : pc'[u] # "idle" => call'[u] # call'[v]
                    /\ op'[v] = "write" => \A i \in 1..(Len(accepted') - Len(buf'[v])) :
                                               accepted'[i].call # call'[v]
  BY <1>4 DEF SenderInv
<1>6. CASE v = t
  <2>1. Len(accepted') - Len(buf'[t]) = Len(accepted')
    BY <1>1, <1>2, <1>5
  <2>2. \A u \in Threads \ {t} : pc'[u] # "idle" => call'[u] # call'[t]
    BY <1>1, <1>2, <1>3 DEF StreamInv, SenderInv
  <2> QED BY <1>2, <1>4, <1>5, <1>6, <2>1, <2>2
<1>7. CASE v # t
  <2>1. pc[v] # "idle" /\ call'[v] = call[v] /\ op'[v] = op[v] /\ buf'[v] = buf[v]
    BY <1>1, <1>2, <1>7
  <2>2. call[v] \in 1..calls /\ \A u \in Threads \ {v} : pc[u] # "idle" => call[u] # call[v]
    BY <2>1 DEF StreamInv, SenderInv
  <2>3. op[v] = "write" => \A i \in 1..(Len(accepted) - Len(buf[v])) : accepted[i].call # call[v]
    BY <2>1 DEF StreamInv, SenderInv
  <2>4. \A u \in Threads \ {v} : pc'[u] # "idle" => call'[u] # call'[v]
    BY <1>1, <1>2, <1>3, <2>1, <2>2
  <2> QED BY <1>1, <1>3, <2>1, <2>2, <2>3, <2>4
<1> QED BY <1>6, <1>7

(* A write puts bytes that bear its number.                                *)
LEMMA SenderWrite == ASSUME NEW t \in Threads, StreamInv, WriteReady(t) PROVE SenderInv'
<1>1. TypeInv /\ OwnerInv /\ PutInv /\ LockInv /\ WaitInv /\ PortInv
  BY DEF StreamInv, SerialInv
<1>2. op[t] = "write" /\ pc[t] = "ready" /\ calls' = calls
  BY DEF WriteReady, counts
<1>3. PICK n \in 1..(WriteSize - Len(buf[t])) :
          LET sent == [i \in 1..n |-> [call |-> call[t], port |-> fd_.port, at |-> Len(buf[t]) + i]]
          IN  /\ accepted' = accepted \o sent
              /\ \/ Leave(t)
                 \/ /\ buf' = [buf EXCEPT ![t] = buf[t] \o sent]
                    /\ pc' = [pc EXCEPT ![t] = "wait"]
                    /\ UNCHANGED <<locks, op, left, call>>
  BY DEF WriteReady
<1> DEFINE sent == [i \in 1..n |-> [call |-> call[t], port |-> fd_.port, at |-> Len(buf[t]) + i]]
<1>4. fd_.port \in Ports
  BY <1>1, <1>2 DEF WaitInv, PortInv, Waiting
<1>5. /\ Len(buf[t]) \in Nat /\ buf[t] \in Seq(Entry) /\ accepted \in Seq(Entry)
      /\ call[t] \in Nat
  BY <1>1 DEF TypeInv, PutInv
<1>6. n \in Nat
  BY <1>5, SerialAssumption
<1>7. sent \in Seq(Entry) /\ Len(sent) = n
      /\ \A i \in 1..n : sent[i] = [call |-> call[t], port |-> fd_.port, at |-> Len(buf[t]) + i]
  <2>1. sent = Part(call[t], fd_.port, Len(buf[t]), n)
    BY DEF Part
  <2> HIDE DEF sent
  <2> DEFINE m == Len(buf[t])
  <2>2. m \in Nat /\ m = Len(buf[t])
    BY <1>5
  <2> HIDE DEF m
  <2>3. /\ Part(call[t], fd_.port, m, n) \in Seq(Entry) /\ Len(Part(call[t], fd_.port, m, n)) = n
        /\ \A i \in 1..n : Part(call[t], fd_.port, m, n)[i]
                               = [call |-> call[t], port |-> fd_.port, at |-> m + i]
    <3>1. IsPart(Part(call[t], fd_.port, m, n), call[t], fd_.port, m, n)
      BY ONLY <1>4, <1>5, <1>6, <2>2, PartType
    <3> QED BY ONLY <3>1 DEF IsPart
  <2> QED BY ONLY <2>1, <2>2, <2>3
<1>8. \A i \in 1..n : sent[i].call = call[t]
  BY <1>7
<1>9. accepted' = accepted \o sent
  BY <1>3
<1>10. /\ Leave(t) \/ /\ buf' = [buf EXCEPT ![t] = buf[t] \o sent]
                      /\ pc' = [pc EXCEPT ![t] = "wait"]
                      /\ UNCHANGED <<op, call>>
  BY <1>3
<1> HIDE DEF sent
<1>11. /\ Len(accepted') = Len(accepted) + n
       /\ \A i \in 1..(Len(accepted) + n) :
              accepted'[i] = IF i <= Len(accepted) THEN accepted[i] ELSE sent[i - Len(accepted)]
  BY ONLY <1>5, <1>7, <1>9, ConcatProperties
<1>12. Len(accepted) \in Nat
  BY <1>5
<1>13. \A i \in 1..Len(accepted') :
           \/ i \in 1..Len(accepted) /\ accepted'[i] = accepted[i]
           \/ i > Len(accepted) /\ accepted'[i].call = call[t]
  <2> SUFFICES ASSUME NEW i \in 1..Len(accepted'), i > Len(accepted)
               PROVE  accepted'[i].call = call[t]
    BY <1>6, <1>11, <1>12
  <2>1. i - Len(accepted) \in 1..n
    BY <1>6, <1>11, <1>12
  <2> QED BY <1>8, <1>11, <1>12, <2>1
<1>14. /\ call[t] \in 1..calls
       /\ \A u \in Threads \ {t} : pc[u] # "idle" => call[u] # call[t]
       /\ \A i \in 1..(Len(accepted) - Len(buf[t])) : accepted[i].call # call[t]
  BY <1>2 DEF StreamInv, SenderInv
<1>15. \A i \in 1..Len(accepted') : accepted'[i].call \in 1..calls'
  BY <1>2, <1>13, <1>14 DEF StreamInv, SenderInv
<1>16. \A u \in Threads \ {t} : /\ pc'[u] = pc[u] /\ op'[u] = op[u] /\ buf'[u] = buf[u]
                                /\ call'[u] = call[u]
  BY <1>1, <1>10 DEF Leave, TypeInv
<1>17. \A u \in Threads \ {t} : op[u] = "write" => buf[u] = <<>>
  <2>1. write_mutex = t
    BY <1>1, <1>2 DEF LockInv, WriteOps, Inside
  <2> QED BY <1>1, <2>1 DEF LockInv, OwnerInv, Owns, WriteOps
<1> SUFFICES ASSUME NEW v \in Threads, pc'[v] # "idle"
             PROVE  /\ call'[v] \in 1..calls'
                    /\ \A u \in Threads \ {v} : pc'[u] # "idle" => call'[u] # call'[v]
                    /\ op'[v] = "write" => \A i \in 1..(Len(accepted') - Len(buf'[v])) :
                                               accepted'[i].call # call'[v]
  BY <1>15 DEF SenderInv
<1>18. CASE v = t
  <2>1. /\ buf'[t] = buf[t] \o sent /\ call'[t] = call[t]
    BY <1>1, <1>10, <1>18 DEF Leave, TypeInv
  <2>2. Len(buf'[t]) = Len(buf[t]) + n
    BY ONLY <1>5, <1>7, <2>1, ConcatProperties
  <2>3. Len(accepted') - Len(buf'[t]) = Len(accepted) - Len(buf[t])
    BY <1>5, <1>6, <1>11, <1>12, <2>2
  <2>4. \A i \in 1..(Len(accepted) - Len(buf[t])) : accepted'[i].call # call[t]
    <3> SUFFICES ASSUME NEW i \in 1..(Len(accepted) - Len(buf[t]))
                 PROVE  accepted'[i].call # call[t]
      OBVIOUS
    <3>1. i \in 1..(Len(accepted) + n) /\ i <= Len(accepted)
      BY <1>5, <1>6, <1>12
    <3> QED BY <1>11, <1>14, <3>1
  <2> QED BY <1>2, <1>14, <1>16, <1>18, <2>1, <2>3, <2>4
<1>19. CASE v # t
  <2>1. /\ call[v] \in 1..calls
        /\ \A u \in Threads \ {v} : pc[u] # "idle" => call[u] # call[v]
        /\ op[v] = "write" => \A i \in 1..(Len(accepted) - Len(buf[v])) : accepted[i].call # call[v]
    BY <1>16, <1>19 DEF StreamInv, SenderInv
  <2>2. pc'[t] # "idle" => call'[t] = call[t]
    BY <1>1, <1>10 DEF Leave, TypeInv
  <2>3. \A u \in Threads \ {v} : pc'[u] # "idle" => call'[u] # call'[v]
    BY <1>2, <1>16, <1>19, <2>1, <2>2
  <2>4. ASSUME op[v] = "write", NEW i \in 1..(Len(accepted') - Len(buf'[v]))
        PROVE  accepted'[i].call # call[v]
    <3>1. buf[v] = <<>> /\ buf'[v] = <<>> /\ Len(buf[v]) = 0
      BY <1>16, <1>17, <1>19, <2>4
    <3>2. i \in 1..Len(accepted') /\ Len(accepted) - Len(buf[v]) = Len(accepted)
      BY <1>11, <1>12, <1>6, <3>1
    <3>3. call[v] # call[t]
      BY <1>14, <1>16, <1>19
    <3> QED BY <1>13, <2>1, <2>4, <3>2, <3>3
  <2> QED BY <1>2, <1>16, <1>19, <2>1, <2>3, <2>4
<1> QED BY <1>18, <1>19

(* Every step of a call.                                                   *)
LEMMA SenderStep == ASSUME NEW t \in Threads, StreamInv, Step(t) PROVE SenderInv'
<1>1. CASE WriteReady(t)
  BY <1>1, SenderWrite
<1>2. CASE ReadBegin(t) \/ ReadReady(t)
  <2>1. /\ pc[t] # "idle" /\ op[t] # "write" /\ UNCHANGED <<accepted, calls>>
        /\ \/ Leave(t)
           \/ /\ \E c : pc' = [pc EXCEPT ![t] = c]
              /\ \E b : buf' = [buf EXCEPT ![t] = b]
              /\ UNCHANGED <<op, call>>
    BY <1>2 DEF ReadBegin, ReadReady, Fetch, Return, Reads, counts
  <2> QED BY <2>1, SenderLeave, SenderGoOn
<1>3. CASE \/ ReadLock(t) \/ WriteLock(t) \/ NotOpen(t) \/ ReadWait(t) \/ ReadGone(t)
           \/ ReadTimeout(t) \/ WriteBegin(t) \/ WriteWait(t) \/ WriteGone(t) \/ WriteTimeout(t)
           \/ Flush(t) \/ FlushInput(t) \/ FlushOutput(t)
  <2>1. /\ pc[t] # "idle" /\ UNCHANGED <<accepted, calls>>
        /\ \/ Leave(t)
           \/ (\E c : pc' = [pc EXCEPT ![t] = c]) /\ UNCHANGED <<op, buf, call>>
    BY <1>3 DEF ReadLock, WriteLock, NotOpen, ReadWait, ReadGone, ReadTimeout, Return, WriteBegin,
                WriteWait, WriteGone, WriteTimeout, Flush, FlushInput, FlushOutput, counts
  <2> QED BY <2>1, SenderLeave, SenderGoOn
<1>4. CASE \/ SetPortClosed(t) \/ SetPortClose(t) \/ SetPortOpen(t)
           \/ SetStore(t) \/ SetTest(t) \/ GetAttr(t) \/ SetAttr(t)
  <2>1. /\ pc[t] # "idle" /\ UNCHANGED <<accepted, calls>>
        /\ \/ Leave(t)
           \/ (\E c : pc' = [pc EXCEPT ![t] = c]) /\ UNCHANGED <<op, buf, call>>
    BY <1>4 DEF SetPortClosed, SetPortClose, SetPortOpen, SetStore, SetTest, GetAttr, SetAttr, counts
  <2> QED BY <2>1, SenderLeave, SenderGoOn
<1>5. ASSUME NEW s \in Settings, ReadMember(t, s) PROVE SenderInv'
  <2>1. UNCHANGED <<accepted, calls>> /\ (Leave(t) \/ UNCHANGED <<pc, op, buf, call>>)
    BY <1>5 DEF ReadMember, counts
  <2>2. calls \in Nat /\ calls <= calls
    BY DEF StreamInv, SerialInv, TypeInv
  <2> QED BY <2>1, <2>2, SenderLeave, SenderSame
<1> QED BY <1>1, <1>2, <1>3, <1>4, <1>5 DEF Step

(* Every step of the library.                                              *)
LEMMA SenderNext == ASSUME StreamInv, [Next]_vars PROVE SenderInv'
<1>1. calls \in Nat /\ calls <= calls /\ calls <= calls + 1 /\ calls + 1 \in Nat
  BY DEF StreamInv, SerialInv, TypeInv
<1>2. CASE \E t \in Threads : Begin(t)
  BY <1>2, SenderBegin
<1>3. CASE \E t \in Threads : Step(t)
  BY <1>3, SenderStep
<1>4. CASE Open \/ Close \/ Tick
  <2>1. UNCHANGED <<pc, op, buf, call, accepted>> /\ (calls' = calls \/ calls' = calls + 1)
    BY <1>4 DEF Open, Close, CountCall, Tick, frames, counts
  <2> QED BY <1>1, <2>1, SenderSame
<1>5. CASE \E p \in Ports : Arrive(p) \/ Drain(p) \/ Unplug(p) \/ Plug(p)
  <2>1. UNCHANGED <<pc, op, buf, call, accepted, calls>>
    BY <1>5 DEF Arrive, Drain, Unplug, Plug, frames, counts
  <2> QED BY <1>1, <2>1, SenderSame
<1>6. CASE UNCHANGED vars
  <2>1. UNCHANGED <<pc, op, buf, call, accepted, calls>>
    BY <1>6 DEF vars, frames, counts
  <2> QED BY <1>1, <2>1, SenderSame
<1> QED BY <1>2, <1>3, <1>4, <1>5, <1>6 DEF Next

-----------------------------------------------------------------------------
(* The streams.                                                            *)

(* No lock is taken and no byte is put.                                    *)
LEMMA InitStream == Init => OwnerInv /\ PutInv /\ SenderInv
<1> SUFFICES ASSUME Init PROVE OwnerInv /\ PutInv /\ SenderInv
  OBVIOUS
<1>1. OwnerInv
  BY SerialAssumption DEF Init, OwnerInv, Owns
<1>2. PutInv
  BY SerialAssumption DEF Init, PutInv, Writer
<1>3. SenderInv
  BY DEF Init, SenderInv
<1> QED BY <1>1, <1>2, <1>3

THEOREM StreamInvariant == Spec => []StreamInv
<1>1. SerialInv /\ RoomInv /\ OwnerInv /\ PutInv /\ SenderInv /\ [Next]_vars
          => OwnerInv' /\ PutInv' /\ SenderInv'
  BY NextStream, SenderNext DEF StreamInv, Kept
<1>2. SerialInv /\ RoomInv /\ OwnerInv /\ PutInv /\ SenderInv => StreamInv
  BY DEF StreamInv
<1> QED BY <1>1, <1>2, InitStream, SerialInvariant, RoomInvariant, PTL DEF Spec

(* The streams of the mapping are those that the property names.           *)
LEMMA SameStreams ==
    ASSUME Unfinished = Sent, Unfinished' = Sent', StreamStep
    PROVE  [Streams!Next]_(Streams!streams)
<1>1. SubSeq(accepted, 1, Len(accepted) - Unfinished) = Written
  BY DEF Written
<1>2. SubSeq(accepted, 1, Len(accepted) - Unfinished)' = Written'
  BY DEF Written
<1>3. [p \in Ports |-> Held(p) \o inq[p]] = Pending
  BY DEF Pending
<1>4. [p \in Ports |-> Held(p) \o inq[p]]' = Pending'
  BY DEF Pending
<1>5. CASE UNCHANGED Mapped!streams
  BY <1>1, <1>2, <1>3, <1>4, <1>5 DEF Mapped!streams, Streams!streams
<1>6. ASSUME NEW p \in Ports, Mapped!Arrive(p) PROVE Streams!Next
  BY <1>1, <1>2, <1>3, <1>4, <1>6 DEF Mapped!Arrive, Streams!Arrive, Streams!Next
<1>7. ASSUME NEW p \in Ports, Mapped!Take(p) PROVE Streams!Next
  BY <1>1, <1>2, <1>3, <1>4, <1>7
     DEF Mapped!Take, Mapped!Without, Streams!Take, Streams!Without, Streams!Next
<1>8. ASSUME NEW p \in Ports, Mapped!Lose(p) PROVE Streams!Next
  BY <1>1, <1>2, <1>3, <1>4, <1>8
     DEF Mapped!Lose, Mapped!Without, Streams!Lose, Streams!Without, Streams!Next
<1>9. CASE Mapped!Discard
  BY <1>1, <1>2, <1>3, <1>4, <1>9 DEF Mapped!Discard, Streams!Discard, Streams!Next
<1>10. ASSUME NEW n \in 1..WriteSize, Mapped!Put(n) PROVE Streams!Next
  <2>1. Mapped!Called = Streams!Called
    BY <1>1 DEF Mapped!Called, Streams!Called
  <2> QED BY <1>1, <1>2, <1>3, <1>4, <1>10, <2>1 DEF Mapped!Put, Streams!Put, Streams!Next
<1> QED BY <1>5, <1>6, <1>7, <1>8, <1>9, <1>10 DEF StreamStep, Mapped!Next

(* The serial library implements ByteStream: whichever threads call, each  *)
(* read returns at once a beginning of what came in, in order, and the     *)
(* bytes that a write puts are the beginning of its data, on one device,   *)
(* all together: no byte of another call is between them, before or after  *)
(* a wait.                                                                 *)
THEOREM StreamsKeptHolds == Spec => StreamsKept
<1>1. Init => Streams!Init
  <2> SUFFICES ASSUME Init PROVE Streams!Init
    OBVIOUS
  <2>1. \A p \in Ports : Held(p) \o inq[p] = <<>>
    BY SerialAssumption DEF Init, Held
  <2>2. accepted = <<>> /\ Begun = {}
    BY DEF Init, Begun
  <2>3. SubSeq(accepted, 1, Len(accepted) - Unfinished) = <<>>
    BY <2>2 DEF Unfinished
  <2> QED BY <2>1, <2>2, <2>3 DEF Init, Streams!Init
<1>2. StreamInv => Unfinished = Sent
  BY UnfinishedIs DEF StreamInv, SerialInv
<1>3. StreamInv /\ Unfinished = Sent /\ (Unfinished = Sent)' /\ [Next]_vars
          => [Streams!Next]_(Streams!streams)
  BY NextStream, SameStreams DEF Kept
<1> QED BY <1>1, <1>2, <1>3, StreamInvariant, PTL DEF Spec, StreamsKept, Streams!Spec

-----------------------------------------------------------------------------
(* The arithmetic of the timeouts and the settings of the line (MCFormats). *)

\* The inputs are numbers, and the one that follows an input is an input.
LEMMA InputIsNumber == ASSUME NEW x \in U16 PROVE x \in Nat
BY SMTT(30) DEF U16

LEMMA InputRange == ASSUME NEW x \in Nat PROVE x % 65536 \in U16
BY SMTT(30) DEF U16

LEMMA NextInput == ASSUME NEW x \in Nat PROVE (x + 1) % 65536 \in U16
<1>1. x + 1 \in Nat
  OBVIOUS
<1> QED BY <1>1, InputRange

\* The input of a run stays a number of 16 bits.
LEMMA InputType == FormatsSpec => [](input \in U16)
<1>1. FormatsInit => input \in U16
  BY DEF FormatsInit
<1>2. input \in U16 /\ [FormatsNext]_input => (input \in U16)'
  <2> SUFFICES ASSUME input \in U16, [FormatsNext]_input PROVE input' \in U16
    OBVIOUS
  <2>1. CASE FormatsNext
    BY <2>1, InputIsNumber, NextInput DEF FormatsNext
  <2>2. CASE input' = input
    BY <2>2
  <2> QED BY <2>1, <2>2
<1> QED BY <1>1, <1>2, PTL DEF FormatsSpec

\* From any moment of a second, a timeout below three seconds ends exactly its
\* number of milliseconds later: the cast to int and the carry of now +
\* MillisecondTimer lose nothing (unix.cc:57-70).
THEOREM TimerAlwaysExact ==
  \A r \in 0 .. Second - 1, millis \in Nat : TimerExact(r, millis)
<1> SUFFICES ASSUME NEW r \in 0 .. Second - 1, NEW millis \in Nat, r + millis < 3 * Second,
                    NEW e \in Expiry(0, r, millis)
             PROVE  Remaining(e, 0, r) = millis /\ e[2] < Second
  BY DEF TimerExact
<1> DEFINE sec_diff == (r + millis) \div Second
<1>1. CASE r + millis >= Second
  <2>1. sec_diff \in 1 .. 2 /\ r + millis - Second * sec_diff < Second
    BY <1>1 DEF Second
  <2> HIDE DEF sec_diff
  <2>2. Second * sec_diff <= IntMax
    BY <2>1 DEF Second, IntMax
  <2>3. CastToInt(Second * sec_diff) = {Second * sec_diff}
    BY <2>2 DEF CastToInt
  <2>4. e = <<0 + sec_diff, r + millis - Second * sec_diff>>
    <3>1. Expiry(0, r, millis) = {<<0 + sec_diff, r + millis - whole>> : whole \in CastToInt(Second * sec_diff)}
      BY <1>1 DEF Expiry, sec_diff
    <3> QED BY <2>3, <3>1
  <2>5. e[1] = sec_diff /\ e[2] = r + millis - Second * sec_diff
    BY <2>1, <2>4
  <2> QED BY <2>1, <2>5 DEF Remaining, Second
<1>2. CASE r + millis < Second
  <2>1. e = <<0, r + millis>>
    <3>1. ~ (r + millis >= Second)
      BY <1>2 DEF Second
    <3> QED BY <3>1 DEF Expiry
  <2> QED BY <1>2, <2>1 DEF Remaining, Second
<1> QED BY <1>1, <1>2 DEF Second

\* The same for the inputs of the runs.
THEOREM TimerOnTimeHolds == FormatsSpec => []TimerOnTime
<1>1. input \in U16 => TimerOnTime
  <2> SUFFICES ASSUME input \in U16 PROVE TimerOnTime
    OBVIOUS
  <2>1. 125 * Digit(8, 1) \in 0 .. Second - 1 /\ input \div 8 \in Nat
    <3>1. input \in Nat
      BY InputIsNumber
    <3>2. input \div 8 \in Nat /\ (input \div 1) % 8 \in 0 .. 7
      BY <3>1, SMT
    <3> QED BY <3>2, SMT DEF Second, Digit
  <2> QED BY <2>1, TimerAlwaysExact DEF TimerOnTime
<1> QED BY <1>1, InputType, PTL

-----------------------------------------------------------------------------

\* What a device may have, of any flags, and what may be asked for.
DeviceOptions(flags) == [flags : SUBSET flags, csize : Nat, speed : Nat, custom : BOOLEAN,
                         base : Nat, divisor : Nat]
PortSettings == [parity : {"none", "odd", "even", "mark", "space"},
                 stopbits : {"one", "one_point_five", "two"},
                 flowcontrol : {"none", "software", "hardware"},
                 bytesize : 5 .. 8, baudrate : Nat \ {0}]

\* A product grows with its second factor.
LEMMA Above ==
    ASSUME NEW k \in Nat, NEW x \in Nat, NEW y \in Nat, y <= x
    PROVE  k * y <= k * x
<1>1. PICK z \in Nat : x = y + z
  <2>1. x - y \in Nat /\ x = y + (x - y)
    OBVIOUS
  <2> QED BY <2>1
<1>2. k * x = k * y + k * z /\ k * z \in Nat /\ k * y \in Nat
  BY <1>1
<1> QED BY <1>2

\* What the quotient of two numbers is, and its bounds.
LEMMA Quotient ==
    ASSUME NEW a \in Nat, NEW b \in Nat \ {0}
    PROVE  /\ a \div b \in Nat /\ a % b \in 0 .. b - 1
           /\ b * (a \div b) <= a /\ a < b * (a \div b + 1)
BY SMTT(30)

LEMMA QuotientLess ==
    ASSUME NEW a \in Nat, NEW b \in Nat \ {0}, NEW x \in Nat, a < b * x
    PROVE  a \div b < x
<1> DEFINE q == a \div b
<1>1. q \in Nat /\ b * q <= a
  BY Quotient
<1> HIDE DEF q
<1>2. SUFFICES ASSUME x <= q PROVE FALSE
  BY <1>1 DEF q
<1>3. b * x <= b * q
  BY <1>1, <1>2, Above
<1>4. b * x \in Nat /\ b * q \in Nat
  BY <1>1
<1> QED BY <1>1, <1>3, <1>4

LEMMA QuotientAtLeast ==
    ASSUME NEW a \in Nat, NEW b \in Nat \ {0}, NEW x \in Nat, b * x <= a
    PROVE  x <= a \div b
<1> DEFINE q == a \div b
<1>1. q \in Nat /\ a < b * (q + 1)
  BY Quotient
<1> HIDE DEF q
<1>2. SUFFICES ASSUME q + 1 <= x PROVE FALSE
  BY <1>1 DEF q
<1>3. b * (q + 1) <= b * x
  <2> DEFINE y == q + 1
  <2>1. y \in Nat /\ y <= x
    BY <1>1, <1>2
  <2> HIDE DEF y
  <2>2. b * y <= b * x
    BY <2>1, Above
  <2> QED BY <2>2 DEF y
<1>4. b * x \in Nat /\ b * (q + 1) \in Nat
  BY <1>1
<1> QED BY <1>1, <1>3, <1>4

\* The divisor of a rate that is no more than the base is the nearest one whose
\* own rate is not below it (unix.cc:315-330).
LEMMA NearestDivisor ==
    ASSUME NEW base \in Nat, NEW rate \in Nat \ {0}, rate <= base
    PROVE  /\ base \div rate \in Nat \ {0}
           /\ rate <= base \div (base \div rate)
           /\ base \div (base \div rate + 1) < rate
<1> DEFINE d == base \div rate
<1>1. d \in Nat /\ rate * d <= base /\ base < rate * (d + 1)
  BY Quotient
<1>2. d >= 1
  <2>1. rate * 1 <= base
    OBVIOUS
  <2> QED BY <2>1, QuotientAtLeast
<1> HIDE DEF d
<1>3. rate <= base \div d
  <2>1. d * rate <= base /\ d \in Nat \ {0}
    BY <1>1, <1>2
  <2> QED BY <2>1, QuotientAtLeast
<1>4. base \div (d + 1) < rate
  <2> DEFINE e == d + 1
  <2>1. e \in Nat \ {0} /\ rate * (d + 1) = e * rate
    BY <1>1
  <2> HIDE DEF e
  <2>2. base < e * rate
    BY <1>1, <2>1
  <2>3. base \div e < rate
    BY <2>1, <2>2, QuotientLess
  <2> QED BY <2>3 DEF e
<1> QED BY <1>1, <1>2, <1>3, <1>4 DEF d

\* The fractions of a nanosecond that h halves of a bit lose.
LEMMA LostFractions ==
    ASSUME NEW h \in Nat, NEW rate \in Nat \ {0}, NEW rem \in 0 .. rate - 1
    PROVE  (h * rem + rate - 1) \div rate <= h
<1> DEFINE a == h * rem + rate - 1
           x == h + 1
<1>1. h * rem <= h * rate
  <2>1. rem \in Nat /\ rem <= rate /\ rate \in Nat
    OBVIOUS
  <2> QED BY <2>1, Above
<1>2. h * rem \in Nat /\ h * rate \in Nat /\ rate * x = h * rate + rate
  OBVIOUS
<1>3. a \in Nat /\ a < rate * x /\ x \in Nat
  BY <1>1, <1>2
<1> HIDE DEF a, x
<1>4. a \div rate < x /\ a \div rate \in Nat
  BY <1>3, QuotientLess, Quotient
<1>5. a \div rate <= h
  BY <1>4 DEF x
<1> QED BY <1>5 DEF a

\* From 4 baud on a byte's time falls short of the line's by no more than a
\* nanosecond for each bit begun (unix.cc:443-451).
LEMMA ByteTime == ASSUME NEW m \in PortSettings PROVE TimeOfByte(m)
<1> DEFINE p == ParityNumber[m.parity]
           s == StopbitsNumber[m.stopbits]
           b == m.bytesize
           rate == m.baudrate
           h == HalfBits(m)
           q == 1000000000 \div rate
           rem == 1000000000 % rate
           n == 1 + b + p + s
           lost == (h * rem + rate - 1) \div rate
<1>1. b \in Nat /\ rate \in Nat \ {0} /\ m.stopbits \in {"one", "one_point_five", "two"}
  BY DEF PortSettings
<1>2. p \in Nat /\ p >= (IF m.parity = "none" THEN 0 ELSE 1)
  <2>1. m.parity \in {"none", "odd", "even", "mark", "space"}
    BY DEF PortSettings
  <2> QED BY <2>1 DEF ParityNumber
<1>3. s \in Nat /\ (m.stopbits = "one" => s = 1) /\ (m.stopbits = "two" => s = 2)
      /\ (m.stopbits = "one_point_five" => s = 3)
  BY <1>1 DEF StopbitsNumber
<1> HIDE DEF b, p, s, rate
<1>4. /\ h \in Nat /\ n \in Nat
      /\ m.stopbits # "one_point_five" => h <= 2 * n
      /\ m.stopbits = "one_point_five" => h <= 2 * n - 3 /\ 2 * ((h + 1) \div 2) = h + 1
  <2> DEFINE z == IF m.parity = "none" THEN 0 ELSE 1
             c == CASE m.stopbits = "one" -> 2 [] m.stopbits = "two" -> 4 [] OTHER -> 3
  <2>1. h = 2 * (1 + b + z) + c
    BY DEF HalfBits, b
  <2>2. z \in Nat /\ z <= p
    BY <1>2
  <2>3. c \in Nat /\ (m.stopbits # "one_point_five" => c = 2 * s)
        /\ (m.stopbits = "one_point_five" => c = 3 /\ s = 3)
    BY <1>1, <1>3
  <2> HIDE DEF h, z, c
  <2>4. h \in Nat /\ n \in Nat
    BY <1>1, <1>2, <1>3, <2>1, <2>2, <2>3
  <2>5. m.stopbits # "one_point_five" => h <= 2 * n
    BY <1>1, <1>2, <1>3, <2>1, <2>2, <2>3
  <2>6. m.stopbits = "one_point_five" => h <= 2 * n - 3
    BY <1>1, <1>2, <1>3, <2>1, <2>2, <2>3
  <2>7. m.stopbits = "one_point_five" => 2 * ((h + 1) \div 2) = h + 1
    <3> SUFFICES ASSUME m.stopbits = "one_point_five" PROVE 2 * ((h + 1) \div 2) = h + 1
      OBVIOUS
    <3> DEFINE half == 3 + b + z
    <3>1. half \in Nat /\ h + 1 = 2 * half
      BY <1>1, <2>1, <2>2, <2>3
    <3> HIDE DEF half
    <3>2. (2 * half) \div 2 = half
      BY <3>1
    <3> QED BY <3>1, <3>2
  <2> QED BY <2>4, <2>5, <2>6, <2>7
<1> HIDE DEF h, n
<1>5. q \in Nat /\ rem \in 0 .. rate - 1
  <2> DEFINE big == 1000000000
  <2>1. big \in Nat
    OBVIOUS
  <2> HIDE DEF big
  <2>2. big \div rate \in Nat /\ big % rate \in 0 .. rate - 1
    BY <1>1, <2>1, Quotient
  <2> QED BY <2>2 DEF big
<1>6. TimeOfByte(m) <=> (rate >= 4 => 2 * (ByteTimeNs(m) + (h + 1) \div 2) >= h * q + lost)
  BY DEF TimeOfByte, h, q, rem, lost, rate
<1>7. ByteTimeNs(m) = IF m.stopbits = "one_point_five" THEN (2 * q * n - 3 * q) \div 2 ELSE q * n
  BY DEF ByteTimeNs, q, n, b, p, s, rate
<1> HIDE DEF q, rem
<1>8. lost <= h /\ lost \in Nat
  <2>1. lost <= h
    BY <1>1, <1>4, <1>5, LostFractions
  <2>2. h * rem \in Nat
    BY <1>4, <1>5
  <2>3. h * rem + rate - 1 \in Nat
    BY <1>1, <2>2
  <2>4. lost \in Nat
    BY <1>1, <2>3, Quotient
  <2> QED BY <2>1, <2>4
<1> HIDE DEF lost
<1>9. CASE m.stopbits # "one_point_five"
  <2>1. q * h <= q * (2 * n)
    <3> DEFINE N == 2 * n
    <3>1. N \in Nat /\ h <= N
      BY <1>4, <1>9
    <3> HIDE DEF N
    <3>2. q * h <= q * N
      BY <1>4, <1>5, <3>1, Above
    <3> QED BY <3>2 DEF N
  <2>2. q * (2 * n) = 2 * (q * n) /\ q * h = h * q /\ q * n \in Nat /\ h * q \in Nat
    BY <1>4, <1>5
  <2>3. (h + 1) \div 2 \in Nat /\ 2 * ((h + 1) \div 2) >= h
    BY <1>4
  <2>4. ByteTimeNs(m) = q * n
    BY <1>7, <1>9
  <2>5. h * q <= 2 * ByteTimeNs(m) /\ ByteTimeNs(m) \in Nat
    BY <2>1, <2>2, <2>4
  <2> QED BY <1>4, <1>6, <1>8, <2>2, <2>3, <2>5
<1>10. CASE m.stopbits = "one_point_five"
  <2> DEFINE N == 2 * n - 3
  <2>1. N \in Nat /\ h <= N
    BY <1>4, <1>10
  <2>2. 2 * q * n - 3 * q = q * N
    BY <1>4, <1>5
  <2> HIDE DEF N
  <2>3. q * h <= q * N /\ q * N \in Nat /\ h * q \in Nat /\ q * h = h * q
    BY <1>4, <1>5, <2>1, Above
  <2> DEFINE Z == q * N
             half == Z \div 2
  <2>4. ByteTimeNs(m) = half
    BY <1>7, <1>10, <2>2
  <2>5. half \in Nat /\ Z <= 2 * half + 1
    <3>1. Z \in Nat
      BY <2>3
    <3> HIDE DEF Z
    <3> QED BY <3>1
  <2>6. h * q <= 2 * half + 1
    <3> HIDE DEF half
    <3> QED BY <2>3, <2>5
  <2> HIDE DEF half, Z
  <2>7. (h + 1) \div 2 \in Nat
    BY <1>4
  <2> QED BY <1>4, <1>6, <1>8, <1>10, <2>3, <2>4, <2>5, <2>6, <2>7
<1> QED BY <1>9, <1>10

\* The rates: with a constant, by a divisor, or not at all (unix.cc:187-342).
LEMMA RateReached ==
    ASSUME NEW flags, NEW opt \in DeviceOptions(flags), NEW m \in PortSettings
    PROVE  RateAsAsked(opt, m)
<1> DEFINE rate == m.baudrate
           baud == SetBaud(opt, rate)
           new == Reconfigured(opt, m)
<1>1. rate \in Nat \ {0} /\ opt.base \in Nat /\ opt.custom \in BOOLEAN
  BY DEF PortSettings, DeviceOptions
<1>2. DOMAIN baud = {"flags", "csize", "speed", "custom", "base", "divisor"}
      /\ (rate \in StandardBauds => baud.speed = rate /\ baud.custom = opt.custom)
      /\ (rate \notin StandardBauds => /\ baud.speed = opt.speed /\ baud.custom = TRUE
                                       /\ baud.divisor = opt.base \div rate)
      /\ baud.base = opt.base
  BY DEF SetBaud, DeviceOptions
<1> HIDE DEF baud
<1>3. /\ new.speed = baud.speed /\ new.custom = baud.custom
      /\ new.base = baud.base /\ new.divisor = baud.divisor
  BY <1>2 DEF Reconfigured, baud
<1> HIDE DEF new, rate
<1>4. rate \in StandardBauds /\ ~ (rate = 38400 /\ opt.custom) => LineRate(new) = rate
  BY <1>2, <1>3 DEF LineRate
<1>5. ASSUME rate \notin StandardBauds, opt.speed = 38400, rate <= opt.base
      PROVE  rate <= LineRate(new) /\ opt.base \div (new.divisor + 1) < rate
  <2>1. LineRate(new) = opt.base \div new.divisor /\ new.divisor = opt.base \div rate
    BY <1>2, <1>3, <1>5 DEF LineRate
  <2>2. /\ rate <= opt.base \div (opt.base \div rate)
        /\ opt.base \div (opt.base \div rate + 1) < rate
    BY <1>1, <1>5, NearestDivisor
  <2> QED BY <2>1, <2>2
<1>6. ASSUME rate \notin StandardBauds, opt.speed # 38400 PROVE LineRate(new) = opt.speed
  BY <1>2, <1>3, <1>6 DEF LineRate
<1> QED BY <1>4, <1>5, <1>6 DEF RateAsAsked, new, rate

\* From whatever options a device has, reconfigurePort leaves the line as it was
\* asked for: all of it but the parity and the rates that LineAsAsked and
\* RateAsAsked except by name (unix.cc:159-452).
THEOREM LineAlwaysAsAsked ==
  \A flags : \A opt \in DeviceOptions(flags), m \in PortSettings : LineAsAsked(opt, m)
<1> SUFFICES ASSUME NEW flags, NEW opt \in DeviceOptions(flags), NEW m \in PortSettings
             PROVE  LineAsAsked(opt, m)
  OBVIOUS
<1> DEFINE raw == SetRaw(opt.flags)
           stop == SetStopbits(raw, m.stopbits)
           char == SetParity(stop, m.parity)
           flow == SetFlowcontrol(char, m.flowcontrol)
           baud == SetBaud(opt, m.baudrate)
           new == Reconfigured(opt, m)
<1>1. m.parity \in {"none", "odd", "even", "mark", "space"}
  BY DEF PortSettings
<1>2. m.stopbits \in {"one", "one_point_five", "two"} /\ m.flowcontrol \in {"none", "software", "hardware"}
  BY DEF PortSettings
<1>3. DOMAIN baud = {"flags", "csize", "speed", "custom", "base", "divisor"}
  BY DEF SetBaud, DeviceOptions
<1>4. new = [baud EXCEPT !.flags = flow, !.csize = m.bytesize]
  BY DEF Reconfigured
<1> HIDE DEF baud, new, flow
<1>5. /\ new.flags = flow /\ new.csize = m.bytesize
  BY <1>3, <1>4
<1>6. \A f \in Raw : f \notin raw
  BY DEF SetRaw
<1> HIDE DEF raw
<1>7. \A f : f # "CSTOPB" => (f \in stop <=> f \in raw)
  BY <1>2 DEF SetStopbits
<1>8. ("CSTOPB" \in stop) = (m.stopbits # "one")
  BY <1>2 DEF SetStopbits
<1> HIDE DEF stop
<1>9. \A f : f \notin {"INPCK", "ISTRIP", "PARENB", "PARODD", "CMSPAR"} => (f \in char <=> f \in stop)
  BY <1>1 DEF SetParity
<1>10. /\ m.parity = "none" => "PARENB" \notin char
       /\ m.parity \in {"odd", "even"} => "PARENB" \in char /\ ("CMSPAR" \in char <=> "CMSPAR" \in stop)
       /\ m.parity = "odd" => "PARODD" \in char
       /\ m.parity = "even" => "PARODD" \notin char
       /\ m.parity = "mark" => {"PARENB", "CMSPAR", "PARODD"} \subseteq char
       /\ m.parity = "space" => {"PARENB", "CMSPAR"} \subseteq char /\ "PARODD" \notin char
  BY <1>1 DEF SetParity
<1> HIDE DEF char
<1>11. /\ \A f : f \notin {"IXON", "IXOFF", "IXANY", "CRTSCTS"} => (f \in flow <=> f \in char)
       /\ ("IXON" \in flow) = (m.flowcontrol = "software")
       /\ ("CRTSCTS" \in flow) = (m.flowcontrol = "hardware")
  BY <1>2 DEF SetFlowcontrol, flow
<1>12. new.flags \cap Raw = {}
  <2>1. \A f \in Raw : f \notin flow
    <3> TAKE f \in Raw
    <3>1. f \notin {"IXON", "IXOFF", "IXANY", "CRTSCTS"} /\ f # "CSTOPB"
          /\ f \notin {"INPCK", "ISTRIP", "PARENB", "PARODD", "CMSPAR"}
      BY DEF Raw
    <3> QED BY <1>6, <1>7, <1>9, <1>11, <3>1
  <2> QED BY <1>5, <2>1
<1>13. ("CSTOPB" \in new.flags) = (m.stopbits # "one")
  BY <1>5, <1>8, <1>9, <1>11
<1>14. "CMSPAR" \notin opt.flags \/ m.parity \in {"mark", "space", "none"}
          => LineParity(new.flags) = m.parity
  <2>1. "CMSPAR" \in stop <=> "CMSPAR" \in opt.flags
    BY <1>7 DEF SetRaw, raw, Raw
  <2>2. ("PARENB" \in flow <=> "PARENB" \in char) /\ ("PARODD" \in flow <=> "PARODD" \in char)
        /\ ("CMSPAR" \in flow <=> "CMSPAR" \in char)
    BY <1>11
  <2> QED BY <1>1, <1>5, <1>10, <2>1, <2>2 DEF LineParity
<1>15. RateAsAsked(opt, m) /\ TimeOfByte(m)
  BY RateReached, ByteTime
<1>16. new.csize = m.bytesize
  BY <1>5
<1>17. ("IXON" \in new.flags) = (m.flowcontrol = "software") /\ ("CRTSCTS" \in new.flags) = (m.flowcontrol = "hardware")
  BY <1>5, <1>11
<1> QED BY <1>12, <1>13, <1>14, <1>15, <1>16, <1>17 DEF LineAsAsked, new

\* The same for the options and settings the runs go through.
THEOREM LinesAsAskedHolds == FormatsSpec => []LinesAsAsked
<1>1. input \in U16 => LinesAsAsked
  <2> SUFFICES ASSUME input \in U16 PROVE LinesAsAsked
    OBVIOUS
  <2>1. Options \in DeviceOptions(Options.flags)
    <3>1. (Digit(2, 32) = 1) \in BOOLEAN
      OBVIOUS
    <3>2. Pick(<<9600, 38400>>, 8) \in Nat
      <4>1. (input \div 8) % 2 \in 0 .. 1
        BY InputIsNumber, SMT
      <4> QED BY <4>1 DEF Pick, Digit
    <3> QED BY <3>1, <3>2 DEF Options, DeviceOptions
  <2>2. Asked \in PortSettings
    <3>1. /\ Digit(5, 64) \in 0 .. 4 /\ Digit(3, 320) \in 0 .. 2 /\ Digit(3, 960) \in 0 .. 2
          /\ Digit(4, 2880) \in 0 .. 3 /\ Digit(5, 11520) \in 0 .. 4
      <4>1. input \in Nat
        BY InputIsNumber
      <4>2. (input \div 64) % 5 \in 0 .. 4 /\ (input \div 320) % 3 \in 0 .. 2
        BY <4>1, SMT
      <4>3. (input \div 960) % 3 \in 0 .. 2 /\ (input \div 2880) % 4 \in 0 .. 3
        BY <4>1, SMT
      <4>4. (input \div 11520) % 5 \in 0 .. 4
        BY <4>1, SMT
      <4> QED BY <4>2, <4>3, <4>4, SMT DEF Digit
    <3>2. Asked.parity \in {"none", "odd", "even", "mark", "space"}
      BY <3>1 DEF Asked, Pick
    <3>3. Asked.stopbits \in {"one", "one_point_five", "two"}
      BY <3>1 DEF Asked, Pick
    <3>4. Asked.flowcontrol \in {"none", "software", "hardware"}
      BY <3>1 DEF Asked, Pick
    <3>5. Asked.bytesize \in 5 .. 8
      BY <3>1 DEF Asked
    <3>6. Asked.baudrate \in Nat \ {0}
      BY <3>1 DEF Asked, Pick
    <3> QED BY <3>2, <3>3, <3>4, <3>5, <3>6 DEF Asked, PortSettings
  <2> QED BY <2>1, <2>2, LineAlwaysAsAsked DEF LinesAsAsked
<1> QED BY <1>1, InputType, PTL

-----------------------------------------------------------------------------
(* Lines that are read (ReadLines). *)

(* A set of naturals that is not empty has a least member.                 *)
LEMMA LeastMember == ASSUME NEW T, T \subseteq Nat, T # {}
                     PROVE  \E x \in T : \A y \in T : x <= y
<1> DEFINE R == {ss \in Nat \X Nat : ss[1] < ss[2]}
<1>1. IsWellFoundedOn(R, Nat)
  BY NatLessThanWellFounded DEF OpToRel
<1>2. \E x \in T : \A y \in T : ~ (<<y, x>> \in R)
  <2> HIDE DEF R
  <2> QED BY <1>1, WFMin
<1>3. PICK x \in T : \A y \in T : ~ (<<y, x>> \in R)
  BY <1>2
<1>4. ASSUME NEW y \in T PROVE x <= y
  <2>1. x \in Nat /\ y \in Nat
    OBVIOUS
  <2>2. <<y, x>> \notin R
    BY <1>3, <1>4
  <2>3. ~ (y < x)
    BY <2>1, <2>2
  <2> QED BY <2>1, <2>3
<1> QED BY <1>4

(* A set that has 0 and, with a number, the next has all of them.          *)
LEMMA SetInduction == ASSUME NEW S, 0 \in S, \A n \in Nat : n \in S => n + 1 \in S
                      PROVE  Nat \subseteq S
<1> DEFINE T == Nat \ S
<1>1. SUFFICES ASSUME T # {} PROVE FALSE
  OBVIOUS
<1>2. PICK x \in T : \A y \in T : x <= y
  BY <1>1, LeastMember
<1>3. x # 0 /\ x - 1 \in Nat
  BY <1>2
<1>4. x - 1 \in S
  BY <1>2, <1>3
<1> QED BY <1>2, <1>3, <1>4

-----------------------------------------------------------------------------
(* A function that begins with a and goes on by F, and that there is one. *)
GoesOn(f, a, F, n) == f[0] = a /\ \A i \in 1..n : f[i] = F[<<f[i - 1], i>>]
LEMMA Iterates ==
    ASSUME NEW X, NEW a \in X, NEW F \in [X \X Nat -> X], NEW n \in Nat
    PROVE  \E f \in [0..n -> X] : GoesOn(f, a, F, n)
<1> USE DEF GoesOn
<1> DEFINE Goes(f, m) == GoesOn(f, a, F, m)
           S == {m \in Nat : \E f \in [0..m -> X] : Goes(f, m)}
<1>1. 0 \in S
  <2> DEFINE f == [i \in 0..0 |-> a]
  <2>1. f \in [0..0 -> X] /\ Goes(f, 0)
    OBVIOUS
  <2> QED BY <2>1
<1>2. ASSUME NEW m \in Nat, m \in S PROVE m + 1 \in S
  <2>1. PICK f \in [0..m -> X] : Goes(f, m)
    BY <1>2
  <2> DEFINE last == F[<<f[m], m + 1>>]
             g == [i \in 0..(m + 1) |-> IF i <= m THEN f[i] ELSE last]
  <2>2. f[m] \in X /\ last \in X
    OBVIOUS
  <2>3. g \in [0..(m + 1) -> X]
    BY <2>2
  <2>4. g[0] = a
    BY <2>1
  <2>5. ASSUME NEW i \in 1..(m + 1) PROVE g[i] = F[<<g[i - 1], i>>]
    <3>1. CASE i <= m
      <4>1. i \in 1..m /\ g[i] = f[i] /\ g[i - 1] = f[i - 1]
        BY <3>1
      <4> HIDE DEF g
      <4> QED BY <2>1, <4>1
    <3>2. CASE ~ (i <= m)
      <4>1. i = m + 1 /\ g[i] = last /\ g[i - 1] = f[m]
        BY <3>2
      <4> HIDE DEF g
      <4> QED BY <4>1
    <3> QED BY <3>1, <3>2
  <2> HIDE DEF g
  <2>6. Goes(g, m + 1)
    BY <2>4, <2>5
  <2> QED BY <2>3, <2>6
<1>3. Nat \subseteq S
  <2> HIDE DEF S
  <2> QED BY <1>1, <1>2, SetInduction
<1> QED BY <1>3

(* FlattenSeq puts the sequences together one after the other. *)
LEMMA FlattenIs ==
    ASSUME NEW V, NEW s \in Seq(Seq(V)), s # <<>>,
           NEW f, f[0] = <<>>, \A i \in 1..Len(s) : f[i] = f[i - 1] \o s[i] /\ f[i] \in Seq(V)
    PROVE  FlattenSeq(s) = f[Len(s)]
<1> DEFINE n == Len(s)
           Equation(g) == g = [i \in 1..n |-> IF i = 1 THEN s[i] ELSE g[i - 1] \o s[i]]
           g == CHOOSE g : Equation(g)
<1>1. n \in Nat /\ n >= 1
  OBVIOUS
<1>2. FlattenSeq(s) = g[n]
  BY <1>1 DEF FlattenSeq
<1> HIDE DEF n
<1>3. f[1] = s[1]
  <2>1. 1 \in 1..n /\ s[1] \in Seq(V) /\ 1 - 1 = 0
    BY <1>1 DEF n
  <2>2. f[1] = <<>> \o s[1]
    BY <2>1 DEF n
  <2> QED BY <2>1, <2>2
<1>4. \E h : Equation(h)
  <2> DEFINE h == [i \in 1..n |-> f[i]]
  <2>1. ASSUME NEW i \in 1..n PROVE f[i] = IF i = 1 THEN s[i] ELSE h[i - 1] \o s[i]
    <3>1. CASE i = 1
      BY <1>3, <3>1
    <3>2. CASE i # 1
      <4>1. h[i - 1] = f[i - 1]
        BY <1>1, <3>2
      <4>2. f[i] = f[i - 1] \o s[i]
        BY DEF n
      <4> HIDE DEF h
      <4> QED BY <3>2, <4>1, <4>2
    <3> QED BY <3>1, <3>2
  <2>2. Equation(h)
    BY <2>1
  <2> QED BY <2>2
<1>5. Equation(g)
  BY <1>4
<1> HIDE DEF g
<1>6. \A i \in 1..n : g[i] = IF i = 1 THEN s[i] ELSE g[i - 1] \o s[i]
  BY <1>5
<1> DEFINE S == {m \in Nat : m + 1 <= n => g[m + 1] = f[m + 1]}
<1>7. 0 \in S
  BY <1>1, <1>3, <1>6
<1>8. ASSUME NEW m \in Nat, m \in S PROVE m + 1 \in S
  <2> SUFFICES ASSUME (m + 1) + 1 <= n PROVE g[(m + 1) + 1] = f[(m + 1) + 1]
    OBVIOUS
  <2> DEFINE k == (m + 1) + 1
  <2>1. k \in 1..n /\ k # 1 /\ k - 1 = m + 1 /\ g[m + 1] = f[m + 1]
    BY <1>1, <1>8
  <2>2. f[k] = f[k - 1] \o s[k]
    BY <2>1 DEF n
  <2>3. g[k] = g[k - 1] \o s[k]
    BY <1>6, <2>1
  <2> HIDE DEF k
  <2>4. g[k] = f[k]
    BY <2>1, <2>2, <2>3
  <2> QED BY <2>4 DEF k
<1>9. Nat \subseteq S
  <2> HIDE DEF S
  <2> QED BY <1>7, <1>8, SetInduction
<1>10. n - 1 \in S /\ (n - 1) + 1 = n
  <2> HIDE DEF S
  <2> QED BY <1>1, <1>9
<1> QED BY <1>1, <1>2, <1>10 DEF n

(* One more goes to the end. *)
LEMMA FlattenAppend ==
    ASSUME NEW V, NEW s \in Seq(Seq(V)), NEW l \in Seq(V)
    PROVE  FlattenSeq(Append(s, l)) = FlattenSeq(s) \o l
<1> DEFINE t == Append(s, l)
           n == Len(s)
           F == [p \in Seq(V) \X Nat |-> IF p[2] \in 1..(n + 1) THEN p[1] \o t[p[2]] ELSE p[1]]
<1>1. /\ n \in Nat /\ t \in Seq(Seq(V)) /\ Len(t) = n + 1 /\ t # <<>>
      /\ t[n + 1] = l /\ \A i \in 1..n : t[i] = s[i]
  <2>1. n \in Nat /\ t \in Seq(Seq(V)) /\ Len(t) = n + 1
    BY AppendProperties
  <2>2. t[n + 1] = l
    BY AppendProperties
  <2>3. ASSUME NEW i \in 1..n PROVE t[i] = s[i]
    BY AppendProperties
  <2> HIDE DEF n, t
  <2>4. t # <<>>
    BY <2>1
  <2> QED BY <2>1, <2>2, <2>3, <2>4
<1> HIDE DEF t
<1>2. \A i \in 1..(n + 1) : t[i] \in Seq(V)
  BY <1>1
<1> HIDE DEF n
<1>3. F \in [Seq(V) \X Nat -> Seq(V)]
  <2>1. ASSUME NEW x \in Seq(V), NEW i \in Nat
        PROVE  (IF i \in 1..(n + 1) THEN x \o t[i] ELSE x) \in Seq(V)
    BY <1>2
  <2> QED BY <2>1
<1> DEFINE N == n + 1
<1>4. N \in Nat /\ N >= 1 /\ N - 1 = n /\ Len(t) = N
  BY <1>1
<1>5. ASSUME NEW i \in 1..N, NEW x \in Seq(V) PROVE F[<<x, i>>] = x \o t[i]
  <2>1. i \in Nat /\ i \in 1..(n + 1)
    BY <1>1
  <2> QED BY <2>1
<1> HIDE DEF F, N
<1>6. PICK f \in [0..N -> Seq(V)] : f[0] = <<>> /\ \A i \in 1..N : f[i] = F[<<f[i - 1], i>>]
  <2>1. <<>> \in Seq(V)
    OBVIOUS
  <2> DEFINE X == Seq(V)
             a == <<>>
  <2> HIDE DEF X, a
  <2>2. a \in X /\ F \in [X \X Nat -> X]
    BY <1>3, <2>1 DEF X, a
  <2>3. \E f \in [0..N -> X] : GoesOn(f, a, F, N)
    BY <1>4, <2>2, Iterates
  <2> QED BY <2>3 DEF X, a, GoesOn
<1>7. ASSUME NEW i \in 1..N PROVE f[i] = f[i - 1] \o t[i] /\ f[i] \in Seq(V)
  <2>1. i \in 0..N /\ i - 1 \in 0..N
    BY <1>4
  <2> QED BY <1>5, <1>6, <2>1
<1>8. FlattenSeq(t) = f[N]
  BY <1>1, <1>4, <1>6, <1>7, FlattenIs
<1>9. f[N] = f[n] \o l
  <2>1. N \in 1..N /\ t[N] = l
    BY <1>1, <1>4 DEF N
  <2> QED BY <1>4, <1>7, <2>1
<1>10. FlattenSeq(s) = f[n]
  <2>1. CASE s = <<>>
    BY <1>6, <2>1 DEF FlattenSeq, n
  <2>2. CASE s # <<>>
    <3>1. ASSUME NEW i \in 1..Len(s) PROVE f[i] = f[i - 1] \o s[i] /\ f[i] \in Seq(V)
      <4>1. i \in 1..N /\ t[i] = s[i]
        BY <1>1, <1>4 DEF n
      <4> QED BY <1>7, <4>1
    <3> QED BY <1>6, <2>2, <3>1, FlattenIs DEF n
  <2> QED BY <2>1, <2>2
<1> QED BY <1>8, <1>9, <1>10 DEF t

-----------------------------------------------------------------------------
(* An eol of one byte, or of two different ones of which the first is not  *)
(* the byte before the buffer, and the places of s where it ends.          *)
Plain(junk, eol) == /\ Len(junk) >= Len(eol)
                    /\ \/ Len(eol) = 1
                       \/ Len(eol) = 2 /\ eol[1] # eol[2] /\ junk[Len(junk)] # eol[1]
EolAt(s, i, eol) == s[i] = eol[Len(eol)] /\ (Len(eol) = 2 => i > 1 /\ s[i - 1] = eol[1])

(* Two sequences of the same elements are the same. *)
LEMMA SameElements ==
    ASSUME NEW V, NEW s \in Seq(V), NEW t \in Seq(V), Len(s) = Len(t),
           \A i \in 1..Len(s) : s[i] = t[i]
    PROVE  s = t
OBVIOUS

(* A part of a sequence. *)
LEMMA PartOf ==
    ASSUME NEW V, NEW s \in Seq(V), NEW a \in Nat, NEW b \in Nat, a <= b, b <= Len(s)
    PROVE  /\ SubSeq(s, a + 1, b) \in Seq(V) /\ Len(SubSeq(s, a + 1, b)) = b - a
           /\ \A i \in 1..(b - a) : SubSeq(s, a + 1, b)[i] = s[a + i]
<1>1. a + 1 \in Int /\ b \in Int /\ \A i \in (a + 1)..b : s[i] \in V
  OBVIOUS
<1>2. b - (a + 1) + 1 = b - a /\ (a + 1 <= b => b - a > 0) /\ (~ (a + 1 <= b) => b - a = 0)
  OBVIOUS
<1>3. \A i \in 1..(b - a) : (a + 1) + i - 1 = a + i
  OBVIOUS
<1> QED BY <1>1, <1>2, <1>3, SubSeqProperties

(* A byte or two are eol if each of them is. *)
LEMMA EolIs ==
    ASSUME NEW V, NEW t \in Seq(V), NEW eol \in Seq(V), Len(t) = Len(eol), Len(eol) \in {1, 2}
    PROVE  t = eol <=> t[Len(eol)] = eol[Len(eol)] /\ (Len(eol) = 2 => t[1] = eol[1])
<1> SUFFICES ASSUME t[Len(eol)] = eol[Len(eol)], Len(eol) = 2 => t[1] = eol[1] PROVE t = eol
  OBVIOUS
<1>1. \A i \in 1..Len(t) : t[i] = eol[i]
  OBVIOUS
<1> QED BY <1>1, SameElements

(* What readline and readlines compare with eol. *)
LEMMA BeforeIs ==
    ASSUME NEW V, NEW junk \in Seq(V), NEW s \in Seq(V), NEW eol \in Seq(V), Plain(junk, eol),
           NEW i \in 1..Len(s)
    PROVE  Before(junk, s, i, eol) = eol <=> EolAt(s, i, eol)
<1> DEFINE part == SubSeq(s, 1, i)
           all == junk \o part
           n == Len(all)
           L == Len(eol)
           t == SubSeq(all, n - L + 1, n)
<1>1. L \in {1, 2} /\ Len(junk) \in Nat /\ Len(junk) >= L /\ i \in Nat /\ i >= 1
  BY DEF Plain
<1>2. part \in Seq(V) /\ Len(part) = i /\ part[i] = s[i] /\ (i > 1 => part[i - 1] = s[i - 1])
  <2>1. 0 \in Nat /\ 0 <= i /\ i <= Len(s) /\ 0 + 1 = 1 /\ i - 0 = i
    BY <1>1
  <2>2. part \in Seq(V) /\ Len(part) = i /\ \A j \in 1..i : part[j] = s[0 + j]
    BY <1>1, <2>1, PartOf
  <2>3. i \in 1..i /\ 0 + i = i /\ (i > 1 => i - 1 \in 1..i /\ 0 + (i - 1) = i - 1)
    BY <1>1
  <2> HIDE DEF part
  <2> QED BY <2>2, <2>3
<1> HIDE DEF part
<1>3. /\ all \in Seq(V) /\ n = Len(junk) + i
      /\ \A j \in 1..Len(junk) : all[j] = junk[j]
      /\ \A j \in 1..i : all[Len(junk) + j] = part[j]
  <2>1. /\ all \in Seq(V) /\ n = Len(junk) + Len(part)
        /\ \A j \in 1..Len(junk) + Len(part) :
             all[j] = IF j <= Len(junk) THEN junk[j] ELSE part[j - Len(junk)]
    BY <1>2, ConcatProperties
  <2> HIDE DEF all
  <2>2. ASSUME NEW j \in 1..Len(junk) PROVE all[j] = junk[j]
    BY <1>1, <1>2, <2>1
  <2>3. ASSUME NEW j \in 1..i PROVE all[Len(junk) + j] = part[j]
    <3>1. /\ Len(junk) + j \in 1..Len(junk) + Len(part) /\ ~ (Len(junk) + j <= Len(junk))
          /\ (Len(junk) + j) - Len(junk) = j
      BY <1>1, <1>2
    <3> QED BY <2>1, <3>1
  <2> QED BY <1>2, <2>1, <2>2, <2>3
<1>4. all[n] = s[i]
  <2>1. i \in 1..i
    BY <1>1
  <2> QED BY <1>2, <1>3, <2>1
<1>5. all[n - 1] = IF i = 1 THEN junk[Len(junk)] ELSE s[i - 1]
  <2>1. CASE i = 1
    <3>1. n - 1 = Len(junk) /\ Len(junk) \in 1..Len(junk)
      BY <1>1, <1>3, <2>1
    <3> HIDE DEF all
    <3> QED BY <1>3, <2>1, <3>1
  <2>2. CASE i # 1
    <3>1. n - 1 = Len(junk) + (i - 1) /\ i - 1 \in 1..i /\ i > 1
      BY <1>1, <1>3, <2>2
    <3> HIDE DEF all
    <3> QED BY <1>2, <1>3, <2>2, <3>1
  <2> QED BY <2>1, <2>2
<1> HIDE DEF all
<1>6. n \in Nat /\ n >= L
  BY <1>1, <1>3
<1> HIDE DEF n, L
<1>7. t \in Seq(V) /\ Len(t) = L /\ \A j \in 1..L : t[j] = all[(n - L) + j]
  <2> DEFINE a == n - L
  <2>1. n \in Nat /\ n <= Len(all) /\ all \in Seq(V)
    BY <1>3, <1>6 DEF n
  <2>2. a \in Nat /\ a <= n /\ n - a = L
    BY <1>1, <1>6
  <2>3. t = SubSeq(all, a + 1, n)
    OBVIOUS
  <2> HIDE DEF a, t
  <2>4. t \in Seq(V) /\ Len(t) = n - a /\ \A j \in 1..(n - a) : t[j] = all[a + j]
    BY <2>1, <2>2, <2>3, PartOf
  <2> QED BY <2>2, <2>4 DEF a
<1>8. Before(junk, s, i, eol) = t
  BY DEF Before, all, part, n, L
<1> HIDE DEF t
<1>9. t[L] = s[i] /\ (L = 2 => t[1] = IF i = 1 THEN junk[Len(junk)] ELSE s[i - 1])
  <2>1. L \in 1..L /\ (n - L) + L = n /\ (L = 2 => 1 \in 1..L /\ (n - L) + 1 = n - 1)
    BY <1>1, <1>6
  <2> QED BY <1>4, <1>5, <1>7, <2>1
<1>10. t = eol <=> t[L] = eol[L] /\ (L = 2 => t[1] = eol[1])
  BY <1>1, <1>7, EolIs DEF L
<1>11. L = 2 => junk[Len(junk)] # eol[1]
  BY DEF Plain, L
<1>12. EolAt(s, i, eol) <=> s[i] = eol[L] /\ (L = 2 => i > 1 /\ s[i - 1] = eol[1])
  BY DEF EolAt, L
<1> QED BY <1>1, <1>8, <1>9, <1>10, <1>11, <1>12

(* What ends with eol. *)
LEMMA EndsIs ==
    ASSUME NEW V, NEW l \in Seq(V), NEW eol \in Seq(V), Len(eol) \in {1, 2}, Len(l) >= 1
    PROVE  Ends(l, eol) <=> /\ l[Len(l)] = eol[Len(eol)]
                            /\ Len(eol) = 2 => Len(l) >= 2 /\ l[Len(l) - 1] = eol[1]
<1> DEFINE L == Len(eol)
           n == Len(l)
           re == Reverse(eol)
           rl == Reverse(l)
           t == SubSeq(rl, 1, L)
<1>1. L \in {1, 2} /\ n \in Nat /\ n >= 1
  OBVIOUS
<1>2. /\ re \in Seq(V) /\ Len(re) = L /\ \A j \in 1..L : re[j] = eol[L - j + 1]
      /\ rl \in Seq(V) /\ Len(rl) = n /\ \A j \in 1..n : rl[j] = l[n - j + 1]
  BY DEF Reverse
<1> HIDE DEF re, rl
<1>3. Ends(l, eol) <=> L <= n /\ SubSeq(re, 1, L) = t
  BY <1>2 DEF Ends, IsSuffix, IsPrefix, re, rl
<1>4. SubSeq(re, 1, L) = re
  BY <1>2, SubSeqFull
<1>5. CASE ~ (L <= n)
  <2> HIDE DEF L, n
  <2>1. L = 2 /\ n = 1
    BY <1>1, <1>5
  <2>2. ~ Ends(l, eol)
    BY <1>3, <1>5
  <2> QED BY <2>1, <2>2 DEF L, n
<1>6. CASE L <= n
  <2>1. t \in Seq(V) /\ Len(t) = L /\ \A j \in 1..L : t[j] = rl[j]
    <3>1. 0 \in Nat /\ L \in Nat /\ 0 <= L /\ 0 + 1 = 1 /\ L - 0 = L /\ L <= Len(rl)
      BY <1>1, <1>2, <1>6
    <3>2. t \in Seq(V) /\ Len(t) = L - 0 /\ \A j \in 1..(L - 0) : t[j] = rl[0 + j]
      BY <1>2, <3>1, PartOf
    <3>3. \A j \in 1..L : 0 + j = j
      BY <1>1
    <3> HIDE DEF t, L
    <3> QED BY <3>1, <3>2, <3>3
  <2> HIDE DEF t
  <2>2. re = t <=> \A j \in 1..L : re[j] = t[j]
    BY <1>2, <2>1, SameElements
  <2>3. \A j \in 1..L : j \in 1..n
    BY <1>1, <1>6
  <2>4. re = t <=> \A j \in 1..L : eol[L - j + 1] = l[n - j + 1]
    BY <1>2, <2>1, <2>2, <2>3
  <2>5. (\A j \in 1..L : eol[L - j + 1] = l[n - j + 1])
           <=> eol[L] = l[n] /\ (L = 2 => eol[1] = l[n - 1])
    <3> HIDE DEF L, n
    <3>1. CASE L = 1
      <4>1. 1..L = {1} /\ L - 1 + 1 = L /\ n - 1 + 1 = n
        BY <1>1, <3>1
      <4> QED BY <3>1, <4>1
    <3>2. CASE L = 2
      <4>1. 1..L = {1, 2} /\ L - 1 + 1 = L /\ n - 1 + 1 = n /\ L - 2 + 1 = 1 /\ n - 2 + 1 = n - 1
        BY <1>1, <3>2
      <4> QED BY <3>2, <4>1
    <3> QED BY <1>1, <3>1, <3>2
  <2> QED BY <1>1, <1>3, <1>4, <1>6, <2>4, <2>5
<1> QED BY <1>5, <1>6

(* From the begin of a line on, what ends with eol ends where eol does. *)
LineBegins(s, a, eol) == a = 0 \/ (a \in 1..Len(s) /\ EolAt(s, a, eol))

LEMMA LineEnds ==
    ASSUME NEW V, NEW junk \in Seq(V), NEW s \in Seq(V), NEW eol \in Seq(V), Plain(junk, eol),
           NEW a \in Nat, NEW b \in Nat, a < b, b <= Len(s), LineBegins(s, a, eol)
    PROVE  Ends(SubSeq(s, a + 1, b), eol) <=> EolAt(s, b, eol)
<1> DEFINE l == SubSeq(s, a + 1, b)
           n == b - a
           L == Len(eol)
<1>1. L \in {1, 2} /\ (L = 2 => eol[1] # eol[2])
  BY DEF Plain
<1>2. n \in Nat /\ n >= 1 /\ a + n = b /\ (n >= 2 => n - 1 \in 1..n /\ a + (n - 1) = b - 1 /\ b > 1)
      /\ (~ (n >= 2) => b - 1 = a /\ (b > 1 <=> a >= 1))
  OBVIOUS
<1>3. l \in Seq(V) /\ Len(l) = n /\ \A i \in 1..n : l[i] = s[a + i]
  BY PartOf
<1> HIDE DEF l, n
<1>4. l[n] = s[b] /\ (n >= 2 => l[n - 1] = s[b - 1])
  BY <1>2, <1>3
<1>5. Ends(l, eol) <=> l[n] = eol[L] /\ (L = 2 => n >= 2 /\ l[n - 1] = eol[1])
  BY <1>1, <1>2, <1>3, EndsIs
<1> HIDE DEF L
<1>6. EolAt(s, b, eol) <=> s[b] = eol[L] /\ (L = 2 => b > 1 /\ s[b - 1] = eol[1])
  BY DEF EolAt, L
<1>7. L = 2 /\ ~ (n >= 2) => ~ (b > 1 /\ s[b - 1] = eol[1])
  <2> SUFFICES ASSUME L = 2, ~ (n >= 2), b > 1 PROVE s[b - 1] # eol[1]
    OBVIOUS
  <2>1. b - 1 = a /\ a >= 1
    BY <1>2
  <2>2. s[a] = eol[2]
    BY <2>1 DEF LineBegins, EolAt, L
  <2> QED BY <1>1, <2>1, <2>2
<1> QED BY <1>2, <1>4, <1>5, <1>6, <1>7 DEF l

-----------------------------------------------------------------------------
(* The loop of readlines.                                                  *)

(* A line ends with its first eol, or has none. *)
OneLine(l, eol) == \A i \in 1..(Len(l) - 1) : ~ Ends(SubSeq(l, 1, i), eol)
(* The first line ends with the first eol of s. *)
FirstOf(l, s, a, eol) == \E e \in 1..a : /\ EolAt(s, e, eol) /\ l = SubSeq(s, 1, e)
                                         /\ \A j \in 1..(e - 1) : ~ EolAt(s, j, eol)

(* After i bytes: the lines are what comes before start_of_line, in which  *)
(* a line begins whose end has not been read.                              *)
LinesInv(V, so, s, i, eol) ==
    /\ so \in [lines : Seq(Seq(V)), start_of_line : 0..i]
    /\ LineBegins(s, so.start_of_line, eol)
    /\ \A j \in (so.start_of_line + 1)..i : ~ EolAt(s, j, eol)
    /\ FlattenSeq(so.lines) = SubSeq(s, 1, so.start_of_line)
    /\ \A k \in 1..Len(so.lines) : Ends(so.lines[k], eol) /\ OneLine(so.lines[k], eol)
    /\ IF Len(so.lines) = 0 THEN so.start_of_line = 0
       ELSE FirstOf(so.lines[1], s, so.start_of_line, eol)

(* What is read after start_of_line is one line. *)
LEMMA RestIsLine ==
    ASSUME NEW V, NEW junk \in Seq(V), NEW s \in Seq(V), NEW eol \in Seq(V), Plain(junk, eol),
           NEW a \in Nat, NEW b \in Nat, a < b, b <= Len(s), LineBegins(s, a, eol),
           \A j \in (a + 1)..(b - 1) : ~ EolAt(s, j, eol)
    PROVE  OneLine(SubSeq(s, a + 1, b), eol)
<1> DEFINE l == SubSeq(s, a + 1, b)
<1>1. l \in Seq(V) /\ Len(l) = b - a
  BY PartOf
<1>2. ASSUME NEW p \in 1..(Len(l) - 1) PROVE ~ Ends(SubSeq(l, 1, p), eol)
  <2> HIDE DEF l
  <2> DEFINE c == a + p
  <2>1. c \in Nat /\ a < c /\ c <= b - 1 /\ c <= Len(s) /\ c \in (a + 1)..(b - 1)
    BY <1>1
  <2>2. SubSeq(l, 1, p) = SubSeq(s, a + 1, c)
    <3>1. /\ a + 1 \in 1..Len(s) /\ b \in 1..Len(s)
          /\ 1 \in 1..(b - (a + 1) + 1) /\ p \in 1..(b - (a + 1) + 1)
          /\ (a + 1) + 1 - 1 = a + 1 /\ (a + 1) + p - 1 = c
      BY <1>1
    <3> HIDE DEF c
    <3> QED BY <3>1, SubSeqOfSubSeq DEF l
  <2> HIDE DEF c
  <2>3. ~ EolAt(s, c, eol)
    BY <2>1
  <2>4. Ends(SubSeq(s, a + 1, c), eol) <=> EolAt(s, c, eol)
    BY <2>1, LineEnds
  <2> QED BY <2>2, <2>3, <2>4
<1> QED BY <1>2 DEF OneLine

(* And the lines with it are what was read. *)
LEMMA RestJoined ==
    ASSUME NEW V, NEW s \in Seq(V), NEW lines \in Seq(Seq(V)),
           NEW a \in Nat, NEW b \in Nat, a <= b, b <= Len(s), FlattenSeq(lines) = SubSeq(s, 1, a)
    PROVE  FlattenSeq(Append(lines, SubSeq(s, a + 1, b))) = SubSeq(s, 1, b)
<1>1. SubSeq(s, a + 1, b) \in Seq(V)
  BY PartOf
<1>2. FlattenSeq(Append(lines, SubSeq(s, a + 1, b))) = SubSeq(s, 1, a) \o SubSeq(s, a + 1, b)
  BY <1>1, FlattenAppend
<1>3. 1 \in 1..Len(s) + 1 /\ a \in 1 - 1..Len(s) /\ b \in a..Len(s)
  OBVIOUS
<1>4. SubSeq(s, 1, a) \o SubSeq(s, a + 1, b) = SubSeq(s, 1, b)
  BY <1>3, ConcatAdjacentSubSeq
<1> QED BY <1>2, <1>4

(* One byte more. *)
LEMMA RoundLines ==
    ASSUME NEW V, NEW junk \in Seq(V), NEW s \in Seq(V), NEW eol \in Seq(V), Plain(junk, eol),
           NEW i \in Nat, i + 1 <= Len(s), NEW so, LinesInv(V, so, s, i, eol)
    PROVE  LinesInv(V, Round(so, junk, s, i + 1, eol), s, i + 1, eol)
<1> DEFINE a == so.start_of_line
           b == i + 1
           l == SubSeq(s, a + 1, b)
           more == Append(so.lines, l)
           next == Round(so, junk, s, b, eol)
<1>1. so.lines \in Seq(Seq(V)) /\ a \in 0..i /\ so = [lines |-> so.lines, start_of_line |-> a]
  BY DEF LinesInv
<1>2. /\ LineBegins(s, a, eol) /\ \A j \in (a + 1)..i : ~ EolAt(s, j, eol)
      /\ FlattenSeq(so.lines) = SubSeq(s, 1, a)
      /\ \A k \in 1..Len(so.lines) : Ends(so.lines[k], eol) /\ OneLine(so.lines[k], eol)
      /\ IF Len(so.lines) = 0 THEN a = 0 ELSE FirstOf(so.lines[1], s, a, eol)
  BY DEF LinesInv
<1>3. b \in 1..Len(s) /\ b \in Nat /\ b - 1 = i /\ a < b /\ a \in Nat /\ a <= b
  BY <1>1
<1>4. Before(junk, s, b, eol) = eol <=> EolAt(s, b, eol)
  BY <1>3, BeforeIs
<1>5. CASE ~ EolAt(s, b, eol)
  <2>1. next = so
    BY <1>4, <1>5 DEF Round
  <2>2. so \in [lines : Seq(Seq(V)), start_of_line : 0..b]
    <3>1. a \in 0..b
      BY <1>1
    <3> HIDE DEF a, b
    <3> QED BY <1>1, <3>1
  <2>3. \A j \in (a + 1)..b : ~ EolAt(s, j, eol)
    <3>1. \A j \in (a + 1)..b : j = b \/ j \in (a + 1)..i
      BY <1>1
    <3> HIDE DEF a, b
    <3> QED BY <1>2, <1>5, <3>1
  <2> HIDE DEF b, next
  <2>4. LinesInv(V, so, s, b, eol)
    BY ONLY <1>2, <2>2, <2>3 DEF LinesInv
  <2> QED BY <2>1, <2>4 DEF b, next
<1>6. CASE EolAt(s, b, eol)
  <2>1. next = [lines |-> more, start_of_line |-> b]
    BY <1>4, <1>6 DEF Round
  <2> HIDE DEF a, b
  <2>2. l \in Seq(V)
    BY <1>3, PartOf
  <2>3. Ends(l, eol) /\ OneLine(l, eol)
    <3>1. b <= Len(s) /\ \A j \in (a + 1)..(b - 1) : ~ EolAt(s, j, eol)
      BY <1>2, <1>3
    <3>2. Ends(l, eol) <=> EolAt(s, b, eol)
      BY <1>2, <1>3, <3>1, LineEnds
    <3>3. OneLine(l, eol)
      BY <1>2, <1>3, <3>1, RestIsLine
    <3> QED BY <1>6, <3>2, <3>3
  <2>4. FlattenSeq(more) = SubSeq(s, 1, b)
    <3>1. b <= Len(s)
      BY <1>3
    <3> QED BY <1>1, <1>2, <1>3, <3>1, RestJoined
  <2> HIDE DEF l
  <2> DEFINE n == Len(so.lines)
  <2>5. /\ n \in Nat /\ more \in Seq(Seq(V)) /\ Len(more) = n + 1 /\ more[n + 1] = l
        /\ \A k \in 1..n : more[k] = so.lines[k]
    BY <1>1, <2>2, AppendProperties
  <2> HIDE DEF more, n
  <2>6. ASSUME NEW k \in 1..Len(more) PROVE Ends(more[k], eol) /\ OneLine(more[k], eol)
    <3>1. k = n + 1 \/ k \in 1..n
      BY <2>5
    <3> QED BY <1>2, <2>3, <2>5, <3>1 DEF n
  <2>7. FirstOf(more[1], s, b, eol)
    <3>1. CASE n = 0
      <4>1. a = 0 /\ more[1] = l
        BY <1>2, <2>5, <3>1 DEF n
      <4>2. l = SubSeq(s, 1, b) /\ b \in 1..b
        BY <1>3, <4>1 DEF l
      <4>3. \A j \in 1..(b - 1) : ~ EolAt(s, j, eol)
        BY <1>2, <1>3, <4>1
      <4> QED BY <1>6, <4>1, <4>2, <4>3 DEF FirstOf
    <3>2. CASE n # 0
      <4>1. more[1] = so.lines[1] /\ FirstOf(so.lines[1], s, a, eol)
        BY <1>2, <2>5, <3>2 DEF n
      <4>2. 1..a \subseteq 1..b
        BY <1>3
      <4> QED BY <4>1, <4>2 DEF FirstOf
    <3> QED BY <3>1, <3>2
  <2>8. LineBegins(s, b, eol) /\ \A j \in (b + 1)..b : ~ EolAt(s, j, eol)
    BY <1>3, <1>6 DEF LineBegins
  <2>9. b \in 0..b /\ Len(more) # 0
    BY <1>3, <2>5
  <2>10. next.lines = more /\ next.start_of_line = b
         /\ next \in [lines : Seq(Seq(V)), start_of_line : 0..b]
    <3> HIDE DEF next
    <3> QED BY <2>1, <2>5, <2>9
  <2> HIDE DEF next
  <2>11. LinesInv(V, next, s, b, eol)
    BY <2>4, <2>6, <2>7, <2>8, <2>9, <2>10 DEF LinesInv
  <2> QED BY <2>11 DEF next, b
<1> QED BY <1>5, <1>6

(* The loop over all of s. *)
LEMMA LoopLines ==
    ASSUME NEW V, NEW junk \in Seq(V), NEW s \in Seq(V), NEW eol \in Seq(V), Plain(junk, eol)
    PROVE  LinesInv(V, Loop(junk, s, eol), s, Len(s), eol)
<1> DEFINE n == Len(s)
           Empty == [lines |-> <<>>, start_of_line |-> 0]
           Equation(f) == f = [i \in 0..n |-> IF i = 0 THEN Empty
                                              ELSE Round(f[i - 1], junk, s, i, eol)]
           after == CHOOSE f : Equation(f)
           Pairs == [lines : Seq(Seq(V)), start_of_line : Nat]
           F == [p \in Pairs \X Nat |-> IF p[2] \in 1..n THEN Round(p[1], junk, s, p[2], eol)
                                        ELSE p[1]]
<1>1. n \in Nat
  OBVIOUS
<1>2. Loop(junk, s, eol) = after[n]
  BY DEF Loop
<1>3. ASSUME NEW so \in Pairs, NEW i \in 1..n PROVE Round(so, junk, s, i, eol) \in Pairs
  <2> DEFINE a == so.start_of_line
             l == SubSeq(s, a + 1, i)
  <2>1. a \in Nat /\ i \in Nat /\ so.lines \in Seq(Seq(V))
    OBVIOUS
  <2>2. l \in Seq(V)
    <3>1. a + 1 \in Int /\ i \in Int /\ \A j \in (a + 1)..i : s[j] \in V
      BY <2>1
    <3> QED BY <3>1, SubSeqProperties
  <2> HIDE DEF l
  <2>3. Append(so.lines, l) \in Seq(Seq(V))
    BY <2>1, <2>2, AppendProperties
  <2> HIDE DEF a
  <2>4. Round(so, junk, s, i, eol) \in {so, [lines |-> Append(so.lines, l), start_of_line |-> i]}
    BY DEF Round, l, a
  <2>5. [lines |-> Append(so.lines, l), start_of_line |-> i] \in Pairs
    BY <2>1, <2>3
  <2> HIDE DEF Pairs
  <2> QED BY <2>4, <2>5
<1>4. \E f : Equation(f)
  <2>1. Empty \in Pairs
    <3>1. <<>> \in Seq(Seq(V))
      OBVIOUS
    <3> QED BY <3>1
  <2> HIDE DEF Empty, Pairs, n
  <2>2. ASSUME NEW so \in Pairs, NEW i \in Nat
        PROVE  (IF i \in 1..n THEN Round(so, junk, s, i, eol) ELSE so) \in Pairs
    BY <1>3
  <2>3. F \in [Pairs \X Nat -> Pairs]
    BY <2>2
  <2>4. \A so \in Pairs, i \in 1..n : F[<<so, i>>] = Round(so, junk, s, i, eol)
    BY <1>1
  <2> HIDE DEF F
  <2>5. PICK f \in [0..n -> Pairs] : GoesOn(f, Empty, F, n)
    BY <1>1, <2>1, <2>3, Iterates
  <2>6. ASSUME NEW i \in 0..n
        PROVE  f[i] = IF i = 0 THEN Empty ELSE Round(f[i - 1], junk, s, i, eol)
    <3>1. CASE i = 0
      BY <2>5, <3>1 DEF GoesOn
    <3>2. CASE i # 0
      <4>1. i \in 1..n /\ i - 1 \in 0..n
        BY <1>1, <3>2
      <4> QED BY <2>4, <2>5, <3>2, <4>1 DEF GoesOn
    <3> QED BY <3>1, <3>2
  <2>7. f = [i \in 0..n |-> f[i]]
    OBVIOUS
  <2>8. Equation(f)
    BY <2>6, <2>7
  <2> QED BY <2>8
<1>5. Equation(after)
  BY <1>4
<1> HIDE DEF after, n
<1>6. \A i \in 0..n : after[i] = IF i = 0 THEN Empty ELSE Round(after[i - 1], junk, s, i, eol)
  BY <1>5
<1> DEFINE S == {i \in Nat : i <= n => LinesInv(V, after[i], s, i, eol)}
<1>7. 0 \in S
  <2>1. after[0] = Empty
    BY <1>1, <1>6
  <2>2. LinesInv(V, Empty, s, 0, eol)
    <3>1. Empty.lines = <<>> /\ Empty.start_of_line = 0 /\ Len(Empty.lines) = 0
      OBVIOUS
    <3>2. Empty \in [lines : Seq(Seq(V)), start_of_line : 0..0]
      <4>1. <<>> \in Seq(Seq(V))
        OBVIOUS
      <4> QED BY <4>1
    <3>3. FlattenSeq(<<>>) = SubSeq(s, 1, 0)
      <4>1. SubSeq(s, 1, 0) = <<>>
        BY SubSeqEmpty
      <4> QED BY <4>1 DEF FlattenSeq
    <3> HIDE DEF Empty
    <3> QED BY <3>1, <3>2, <3>3 DEF LinesInv, LineBegins
  <2> QED BY <2>1, <2>2
<1>8. ASSUME NEW i \in Nat, i \in S PROVE i + 1 \in S
  <2> SUFFICES ASSUME i + 1 <= n PROVE LinesInv(V, after[i + 1], s, i + 1, eol)
    OBVIOUS
  <2>1. LinesInv(V, after[i], s, i, eol) /\ i + 1 <= Len(s)
    BY <1>1, <1>8 DEF n
  <2>2. after[i + 1] = Round(after[i], junk, s, i + 1, eol)
    <3>1. i + 1 \in 0..n /\ i + 1 # 0 /\ (i + 1) - 1 = i
      BY <1>1
    <3> QED BY <1>6, <3>1
  <2>3. LinesInv(V, Round(after[i], junk, s, i + 1, eol), s, i + 1, eol)
    BY <2>1, RoundLines
  <2> QED BY <2>2, <2>3
<1>9. Nat \subseteq S
  <2> HIDE DEF S
  <2> QED BY <1>7, <1>8, SetInduction
<1>10. LinesInv(V, after[n], s, n, eol)
  BY <1>1, <1>9
<1> QED BY <1>2, <1>10 DEF n

(* For any bytes and room, and an eol that the bytes before the buffer do  *)
(* not begin: readlines cuts what it reads at every eol and nowhere else,  *)
(* loses and doubles nothing, and its first line is what readline returns  *)
(* (serial.cc:162-236).                                                    *)
THEOREM LinesAlwaysSplit ==
    \A V : \A junk, s, eol \in Seq(V), size \in Nat :
        Plain(junk, eol) => LinesSplit(junk, s, size, eol)
<1> SUFFICES ASSUME NEW V, NEW junk \in Seq(V), NEW s \in Seq(V), NEW eol \in Seq(V),
                    NEW size \in Nat, Plain(junk, eol)
             PROVE  LinesSplit(junk, s, size, eol)
  OBVIOUS
<1> DEFINE got == Read(s, size)
           n == Len(got)
           so == Loop(junk, got, eol)
           a == so.start_of_line
           rest == SubSeq(got, a + 1, n)
           lines == readlines(junk, s, size, eol)
<1>1. got \in Seq(V) /\ n \in Nat
  <2> DEFINE m == IF Len(s) < size THEN Len(s) ELSE size
  <2>1. 0 \in Nat /\ m \in Nat /\ 0 <= m /\ m <= Len(s) /\ 0 + 1 = 1
    OBVIOUS
  <2>2. got = SubSeq(s, 0 + 1, m)
    BY <2>1 DEF Read
  <2> HIDE DEF m
  <2>3. SubSeq(s, 0 + 1, m) \in Seq(V)
    BY <2>1, PartOf
  <2> QED BY <2>2, <2>3
<1>2. lines = IF a = n THEN so.lines ELSE Append(so.lines, rest)
  BY DEF readlines
<1> HIDE DEF got, lines
<1>3. LinesInv(V, so, got, n, eol)
  BY <1>1, LoopLines
<1> HIDE DEF so
<1>4. /\ so.lines \in Seq(Seq(V)) /\ a \in 0..n
      /\ LineBegins(got, a, eol) /\ \A j \in (a + 1)..n : ~ EolAt(got, j, eol)
      /\ FlattenSeq(so.lines) = SubSeq(got, 1, a)
      /\ \A k \in 1..Len(so.lines) : Ends(so.lines[k], eol) /\ OneLine(so.lines[k], eol)
      /\ IF Len(so.lines) = 0 THEN a = 0 ELSE FirstOf(so.lines[1], got, a, eol)
  BY <1>3 DEF LinesInv
<1> DEFINE ends == {i \in 1..n : Before(junk, got, i, eol) = eol}
<1>5. ends = {i \in 1..n : EolAt(got, i, eol)}
  BY <1>1, BeforeIs
<1>0. n # 0 => size # 0
  <2> SUFFICES ASSUME size = 0 PROVE n = 0
    OBVIOUS
  <2>1. (IF Len(s) < 0 THEN Len(s) ELSE 0) = 0
    OBVIOUS
  <2>2. got = SubSeq(s, 1, 0)
    BY <2>1 DEF Read, got
  <2> QED BY <2>2, SubSeqEmpty
<1>6. n # 0 => readline(junk, s, size, eol) =
        IF ends = {} THEN got ELSE SubSeq(got, 1, CHOOSE i \in ends : \A j \in ends : i <= j)
  BY <1>0 DEF readline, got
<1> HIDE DEF ends
<1>7. ASSUME NEW l, FirstOf(l, got, a, eol) PROVE l = readline(junk, s, size, eol)
  <2>1. PICK e \in 1..a : /\ EolAt(got, e, eol) /\ l = SubSeq(got, 1, e)
                          /\ \A j \in 1..(e - 1) : ~ EolAt(got, j, eol)
    BY <1>7 DEF FirstOf
  <2> HIDE DEF a, n
  <2>2. e \in ends /\ e \in Nat /\ ends \subseteq 1..n
    BY <1>1, <1>4, <1>5, <2>1
  <2>3. \A j \in ends : e <= j
    <3> SUFFICES ASSUME NEW j \in ends, j < e PROVE FALSE
      BY <2>2
    <3>1. j \in 1..(e - 1)
      BY <2>2
    <3> QED BY <1>5, <2>1, <3>1
  <2>4. \A i \in ends : (\A j \in ends : i <= j) => i = e
    BY <2>2, <2>3
  <2>5. (CHOOSE i \in ends : \A j \in ends : i <= j) = e
    BY <2>2, <2>3, <2>4
  <2>6. n # 0
    BY <1>1, <2>2
  <2> QED BY <1>6, <2>1, <2>2, <2>5, <2>6
<1>8. /\ FlattenSeq(lines) = got
      /\ \A k \in 1..Len(lines) : (k < Len(lines) => Ends(lines[k], eol)) /\ OneLine(lines[k], eol)
      /\ lines # <<>> => lines[1] = readline(junk, s, size, eol)
      /\ lines \in Seq(Seq(V))
  <2>1. CASE a = n
    <3>1. lines = so.lines
      BY <1>2, <2>1
    <3>2. FlattenSeq(lines) = got
      <4>1. SubSeq(got, 1, n) = got
        BY <1>1, SubSeqFull
      <4> HIDE DEF a, n
      <4> QED BY <1>4, <2>1, <3>1, <4>1
    <3>3. lines # <<>> => lines[1] = readline(junk, s, size, eol)
      <4> SUFFICES ASSUME lines # <<>> PROVE lines[1] = readline(junk, s, size, eol)
        OBVIOUS
      <4>1. Len(so.lines) # 0
        BY <1>4, <3>1
      <4>2. FirstOf(so.lines[1], got, a, eol)
        BY <1>4, <4>1
      <4> QED BY <1>7, <3>1, <4>2
    <3> QED BY <1>4, <3>1, <3>2, <3>3
  <2>2. CASE a # n
    <3> DEFINE m == Len(so.lines)
    <3>1. lines = Append(so.lines, rest)
      BY <1>2, <2>2
    <3> HIDE DEF a, n
    <3>2. a \in Nat /\ a < n /\ a <= n /\ n <= Len(got) /\ n \in Nat
      BY <1>1, <1>4, <2>2 DEF n
    <3>3. rest \in Seq(V)
      BY <1>1, <3>2, PartOf
    <3>4. OneLine(rest, eol)
      <4>1. \A j \in (a + 1)..(n - 1) : ~ EolAt(got, j, eol)
        BY <1>4, <3>2
      <4> QED BY <1>1, <1>4, <3>2, <4>1, RestIsLine
    <3>5. FlattenSeq(lines) = got
      <4>1. SubSeq(got, 1, n) = got
        BY <1>1, SubSeqFull DEF n
      <4>2. FlattenSeq(Append(so.lines, rest)) = SubSeq(got, 1, n)
        BY <1>1, <1>4, <3>2, RestJoined
      <4> QED BY <3>1, <4>1, <4>2
    <3> HIDE DEF rest
    <3>6. /\ m \in Nat /\ lines \in Seq(Seq(V)) /\ Len(lines) = m + 1 /\ lines[m + 1] = rest
          /\ \A k \in 1..m : lines[k] = so.lines[k]
      BY <1>4, <3>1, <3>3, AppendProperties
    <3> HIDE DEF m
    <3>7. ASSUME NEW k \in 1..Len(lines)
          PROVE  (k < Len(lines) => Ends(lines[k], eol)) /\ OneLine(lines[k], eol)
      <4>1. (k = m + 1 /\ ~ (k < Len(lines))) \/ k \in 1..m
        BY <3>6
      <4> QED BY <1>4, <3>4, <3>6, <4>1 DEF m
    <3>8. lines[1] = readline(junk, s, size, eol)
      <4>1. CASE m = 0
        <5>1. a = 0 /\ lines[1] = rest
          BY <1>4, <3>6, <4>1 DEF m
        <5>2. rest = got
          BY <1>1, <5>1, SubSeqFull DEF rest, n
        <5>3. ends = {}
          BY <1>4, <1>5, <5>1
        <5>4. n # 0
          BY <3>2
        <5> QED BY <1>6, <5>1, <5>2, <5>3, <5>4
      <4>2. CASE m # 0
        <5>1. lines[1] = so.lines[1] /\ FirstOf(so.lines[1], got, a, eol)
          BY <1>4, <3>6, <4>2 DEF m
        <5> QED BY <1>7, <5>1
      <4> QED BY <4>1, <4>2
    <3> QED BY <3>5, <3>6, <3>7, <3>8
  <2> QED BY <2>1, <2>2
<1>9. DOMAIN lines = 1..Len(lines)
  BY <1>8
<1> HIDE DEF n, a
<1>10. LinesSplit(junk, s, size, eol) <=>
         /\ FlattenSeq(lines) = got
         /\ \A k \in DOMAIN lines :
              /\ k < Len(lines) => Ends(lines[k], eol)
              /\ \A i \in 1..(Len(lines[k]) - 1) : ~ Ends(SubSeq(lines[k], 1, i), eol)
         /\ lines # <<>> => lines[1] = readline(junk, s, size, eol)
  BY DEF LinesSplit, lines, got
<1> QED BY <1>8, <1>9, <1>10 DEF OneLine

(* The same for the streams and ends of line that the runs go through.     *)
THEOREM AllLinesSplitHolds == FormatsSpec => []AllLinesSplit
<1>1. input \in U16 => AllLinesSplit
  <2> SUFFICES ASSUME input \in U16 PROVE AllLinesSplit
    OBVIOUS
  <2> DEFINE V == {"a", "CR", "LF"}
             junk == <<"LF", "LF">>
             one == <<"LF">>
             two == <<"CR", "LF">>
             size == 1 + Digit(6, 1458)
  <2>1. input \in Nat
    BY InputIsNumber
  <2>2. Digit(6, 1) \in 0..5
    <3>1. (input \div 1) % 6 \in 0..5
      BY <2>1, SMT
    <3> QED BY <3>1 DEF Digit
  <2>3. size \in Nat
    <3>1. (input \div 1458) % 6 \in 0..5
      BY <2>1, SMT
    <3> QED BY <3>1 DEF Digit
  <2>4. ASSUME NEW i \in 1..Digit(6, 1)
        PROVE  Pick(<<"a", "CR", "LF">>, <<6, 18, 54, 162, 486>>[i]) \in V
    <3> DEFINE below == <<6, 18, 54, 162, 486>>[i]
    <3>1. below \in Nat \ {0}
      BY <2>2
    <3> HIDE DEF below
    <3>2. (input \div below) % 3 \in 0..2
      BY <2>1, <3>1, SMT
    <3>3. Pick(<<"a", "CR", "LF">>, below) \in V
      BY <3>2 DEF Pick, Digit
    <3> QED BY <3>3 DEF below
  <2>5. Stream \in Seq(V)
    BY <2>2, <2>4 DEF Stream
  <2>6. junk \in Seq(V) /\ one \in Seq(V) /\ two \in Seq(V)
    OBVIOUS
  <2>7. Plain(junk, one) /\ Plain(junk, two)
    BY DEF Plain
  <2> HIDE DEF V, junk, one, two, size
  <2>8. LinesSplit(junk, Stream, size, one) /\ LinesSplit(junk, Stream, size, two)
    BY <2>3, <2>5, <2>6, <2>7, LinesAlwaysSplit
  <2> QED BY <2>8 DEF AllLinesSplit, junk, one, two, size
<1> QED BY <1>1, InputType, PTL
=============================================================================
