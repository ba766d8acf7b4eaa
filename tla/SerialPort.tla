----------------------------- MODULE SerialPort -----------------------------
(***************************************************************************)
(* The serial library (serial.cc over unix.cc): one Serial object used by  *)
(* several threads.  read and readline hold read_mutex, write holds        *)
(* write_mutex, setPort and flush hold both, taken in that order;          *)
(* flushInput holds the first and flushOutput the second.  The setters of  *)
(* baud rate, size, parity, stop bits and flow control, open and close     *)
(* hold none.  Every wait of a call, and every access of a setter to what  *)
(* another setter or setPort may change, is a step of its own, so that     *)
(* other threads, the device, the clock and a plug pulled out get between. *)
(*                                                                         *)
(* The caller's duty: open and close are not called while any call is      *)
(* going on.  The k-th byte that any device sends is the number k, and a   *)
(* written byte is known by its call and its place in the call's data.     *)
(***************************************************************************)
EXTENDS Integers, Sequences, FiniteSets

CONSTANTS
    Threads, NoThread,
    Ports, NoPort,     \* names of ports; NoPort is the empty string
    FirstPort,         \* the constructor's argument
    Settings,          \* baud rate, parity and so on
    Values, Default,   \* values of a setting; Default is the constructor's
    Supported,         \* the values that reconfigurePort does not refuse
    ReadSize,          \* the size that read and readline are given
    WriteSize,         \* the length that write is given
    Timeout,           \* the total timeout of a call, in ticks
    Eols,              \* the bytes that are the end of a line
    OutSize,           \* the kernel's output buffer
    MaxFiles,          \* the descriptors the process may have open
    Programs,          \* bound: the operations that a program's threads call
    MaxIn, MaxCalls, MaxPlugs  \* bounds: bytes sent, calls, plugs pulled

Ops == {"read", "readline", "write", "setPort", "flush", "flushInput", "flushOutput", "set"}
ReadOps == {"read", "readline", "setPort", "flush", "flushInput"}
WriteOps == {"write", "setPort", "flush", "flushOutput"}
Setters == {"set", "setPort"}

ASSUME SerialAssumption ==
    /\ NoThread \notin Threads
    /\ NoPort \notin Ports /\ FirstPort \in Ports \cup {NoPort}
    /\ Default \in Supported /\ Supported \subseteq Values
    /\ {ReadSize, WriteSize, OutSize, MaxFiles} \subseteq Nat \ {0}
    /\ {Timeout, MaxIn, MaxCalls, MaxPlugs} \subseteq Nat
    /\ Programs \subseteq SUBSET Ops

VARIABLES
    port_, fd_, is_open_, settings,     \* members of SerialImpl
    read_mutex, write_mutex,            \* their owners
    pc, op, buf, left, call,            \* per thread: the call it is in
    snap,                               \* and reconfigurePort's options
    descriptors, dead, present, device, \* open files, devices, their settings
    inq, outq,                          \* the kernel's buffers, per port
    accepted, taken,                    \* bytes written; results of the reads
    overlapped,  \* the last setter or setPort to begin found another going on
    untaken,     \* the last tcsetattr was not carried out in full
    program,     \* the operations that this one's threads call
    arrived, calls, plugs

members == <<port_, fd_, is_open_, settings>>
locks == <<read_mutex, write_mutex>>
frames == <<pc, op, buf, left, call, snap>>
kernel == <<descriptors, dead, present, device, inq, outq>>
history == <<overlapped, untaken, program>>
counts == <<arrived, calls, plugs, history>>
vars == <<members, locks, frames, kernel, accepted, taken, counts>>

(* -1, and like a descriptor whose device is gone it fails every call. *)
NoFd == [n |-> 0, port |-> NoPort]
NoneRead == [s \in {} |-> Default]

(* Constructor: with a port it opens it, with an empty name it does not. *)
Init == /\ port_ = FirstPort
        /\ is_open_ = (port_ # NoPort)
        /\ fd_ = IF port_ = NoPort THEN NoFd ELSE [n |-> 1, port |-> port_]
        /\ descriptors = {fd_} \ {NoFd}
        /\ settings = [s \in Settings |-> Default]
        /\ device = [p \in Ports |-> settings]
        /\ read_mutex = NoThread /\ write_mutex = NoThread
        /\ pc = [t \in Threads |-> "idle"]
        /\ op = [t \in Threads |-> "none"]
        /\ buf = [t \in Threads |-> <<>>]
        /\ left = [t \in Threads |-> 0]
        /\ call = [t \in Threads |-> 0]
        /\ snap = [t \in Threads |-> NoneRead]
        /\ dead = {NoFd} /\ present = Ports
        /\ inq = [p \in Ports |-> <<>>]
        /\ outq = [p \in Ports |-> 0]
        /\ accepted = <<>> /\ taken = <<>>
        /\ overlapped = FALSE /\ untaken = FALSE /\ program \in Programs
        /\ arrived = 0 /\ calls = 0 /\ plugs = 0

-----------------------------------------------------------------------------
(* Locks: ScopedReadLock and ScopedWriteLock at the head of each call.     *)

(* (Mutants: flushInput takes the other lock; readline, or write, takes    *)
(* none.)                                                                  *)
FirstLockOther(o) == IF o \in ReadOps \ {"flushInput"} THEN "readLock" ELSE IF o = "set" THEN "body" ELSE "writeLock"
FirstLockNone(o) == IF o \in {"readline", "set"} THEN "body" ELSE IF o \in ReadOps THEN "readLock" ELSE "writeLock"
FirstLockFree(o) == IF o \in {"write", "set"} THEN "body" ELSE IF o \in ReadOps THEN "readLock" ELSE "writeLock"
FirstLock(o) == IF o \in ReadOps THEN "readLock"
                ELSE IF o \in WriteOps THEN "writeLock" ELSE "body"

Others(t) == \E u \in Threads \ {t} : op[u] \in Setters

Begin(t) == /\ pc[t] = "idle" /\ calls < MaxCalls
            /\ \E o \in Ops : /\ o \in program
                             /\ op' = [op EXCEPT ![t] = o]
                             /\ pc' = [pc EXCEPT ![t] = FirstLock(o)]
                             /\ overlapped' = IF o \in Setters THEN Others(t) ELSE overlapped
            /\ calls' = calls + 1
            /\ call' = [call EXCEPT ![t] = calls']
            /\ UNCHANGED <<members, locks, buf, left, snap, kernel, accepted, taken, untaken, program, arrived, plugs>>

ReadLock(t) == /\ pc[t] = "readLock" /\ read_mutex = NoThread
               /\ read_mutex' = t
               /\ pc' = [pc EXCEPT ![t] = IF op[t] \in WriteOps THEN "writeLock" ELSE "body"]
               /\ UNCHANGED <<members, write_mutex, op, buf, left, call, snap, kernel, accepted, taken, counts>>

WriteLock(t) == /\ pc[t] = "writeLock" /\ write_mutex = NoThread
                /\ write_mutex' = t
                /\ pc' = [pc EXCEPT ![t] = "body"]
                /\ UNCHANGED <<members, read_mutex, op, buf, left, call, snap, kernel, accepted, taken, counts>>

(* The call ends, by return or by exception: the destructors unlock.       *)
(* (Mutant: the write lock stays locked.)                                  *)
LeaveLocked(t) == /\ pc' = [pc EXCEPT ![t] = "idle"]
                  /\ op' = [op EXCEPT ![t] = "none"]
                  /\ buf' = [buf EXCEPT ![t] = <<>>]
                  /\ left' = [left EXCEPT ![t] = 0]
                  /\ read_mutex' = IF read_mutex = t THEN NoThread ELSE read_mutex
                  /\ write_mutex' = write_mutex
                  /\ call' = [call EXCEPT ![t] = 0]
                  /\ snap' = [snap EXCEPT ![t] = NoneRead]
Leave(t) == /\ pc' = [pc EXCEPT ![t] = "idle"]
            /\ op' = [op EXCEPT ![t] = "none"]
            /\ buf' = [buf EXCEPT ![t] = <<>>]
            /\ left' = [left EXCEPT ![t] = 0]
            /\ read_mutex' = IF read_mutex = t THEN NoThread ELSE read_mutex
            /\ write_mutex' = IF write_mutex = t THEN NoThread ELSE write_mutex
            /\ call' = [call EXCEPT ![t] = 0]
            /\ snap' = [snap EXCEPT ![t] = NoneRead]

-----------------------------------------------------------------------------
(* read and readline.                                                      *)

Reads == {"read", "readline"}

(* What is asked of ::read next: readline reads one byte at a time. *)
Wanted(t) == IF op[t] = "readline" THEN 1 ELSE ReadSize - Len(buf[t])

Fetched(t, p) == LET n == IF Len(inq[p]) < Wanted(t) THEN Len(inq[p]) ELSE Wanted(t)
                 IN  SubSeq(inq[p], 1, n)

(* (Mutant: the loop goes on while bytes_read <= size.) *)
CompleteLate(t, b) == \/ Len(b) > ReadSize
                      \/ op[t] = "readline" /\ b # <<>> /\ b[Len(b)] \in Eols
Complete(t, b) == \/ Len(b) = ReadSize
                  \/ op[t] = "readline" /\ b # <<>> /\ b[Len(b)] \in Eols

Return(t, b) == /\ Leave(t)
                /\ taken' = IF b = <<>> THEN taken ELSE Append(taken, b)

(* ::read moves bytes into the buffer; the call ends, goes on waiting or,  *)
(* in readline, reads the next byte with a new timeout.                    *)
Fetch(t, time) ==
    LET got == IF fd_ \in dead THEN <<>> ELSE Fetched(t, fd_.port)
        b == buf[t] \o got
    IN  /\ inq' = IF got = <<>> THEN inq
                  ELSE [inq EXCEPT ![fd_.port] = SubSeq(@, Len(got) + 1, Len(@))]
        /\ \/ /\ \/ Complete(t, b)
                 \/ time = 0 /\ (got = <<>> \/ op[t] = "read")
              /\ Return(t, b)
           \/ /\ ~ Complete(t, b)
              /\ time > 0 \/ (got # <<>> /\ op[t] = "readline")
              /\ buf' = [buf EXCEPT ![t] = b]
              /\ left' = [left EXCEPT ![t] = time]
              /\ pc' = [pc EXCEPT ![t] = IF got # <<>> /\ op[t] = "readline"
                                         THEN "body" ELSE "wait"]
              /\ UNCHANGED <<locks, op, call, snap, taken>>
        /\ UNCHANGED <<members, descriptors, dead, present, device, outq, accepted, counts>>

(* Start of read: the first ::read is made before any wait. *)
ReadBegin(t) == /\ op[t] \in Reads /\ pc[t] = "body" /\ is_open_ = TRUE
                /\ Fetch(t, Timeout)

(* Any call that finds the port closed ends by PortNotOpenedException. *)
NotOpen(t) == /\ pc[t] = "body" /\ op[t] \notin Setters /\ is_open_ = FALSE
              /\ Leave(t)
              /\ UNCHANGED <<members, kernel, accepted, taken, counts>>

Readable == fd_ \notin dead => inq[fd_.port] # <<>>

(* pselect reports data, or a device that is gone.  A wait that a signal   *)
(* or inter_byte_timeout ends is begun again at once.                      *)
ReadWait(t) == /\ op[t] \in Reads /\ pc[t] = "wait" /\ Readable
               /\ pc' = [pc EXCEPT ![t] = "ready"]
               /\ UNCHANGED <<members, locks, op, buf, left, call, snap, kernel, accepted, taken, counts>>

ReadTimeout(t) == /\ op[t] \in Reads /\ pc[t] = "wait" /\ left[t] = 0
                  /\ Return(t, buf[t])
                  /\ UNCHANGED <<members, kernel, accepted, counts>>

ReadReady(t) == /\ op[t] \in Reads /\ pc[t] = "ready"
                /\ fd_ \notin dead /\ inq[fd_.port] # <<>>
                /\ Fetch(t, left[t])

(* No data although select promised some: SerialException, and what was    *)
(* read so far is lost.                                                    *)
ReadGone(t) == /\ op[t] \in Reads /\ pc[t] = "ready"
               /\ fd_ \notin dead => inq[fd_.port] = <<>>
               /\ Leave(t)
               /\ UNCHANGED <<members, kernel, accepted, taken, counts>>

-----------------------------------------------------------------------------
(* write.                                                                  *)

WriteBegin(t) == /\ op[t] = "write" /\ pc[t] = "body" /\ is_open_ = TRUE
                 /\ IF Timeout = 0 THEN Leave(t)
                    ELSE /\ pc' = [pc EXCEPT ![t] = "wait"]
                         /\ left' = [left EXCEPT ![t] = Timeout]
                         /\ UNCHANGED <<locks, op, buf, call, snap>>
                 /\ UNCHANGED <<members, kernel, accepted, taken, counts>>

Room == OutSize - outq[fd_.port]
Writable == fd_ \notin dead => Room > 0

WriteWait(t) == /\ op[t] = "write" /\ pc[t] = "wait" /\ Writable
                /\ pc' = [pc EXCEPT ![t] = "ready"]
                /\ UNCHANGED <<members, locks, op, buf, left, call, snap, kernel, accepted, taken, counts>>

(* ::write takes some of the bytes: buf is what has gone out. *)
WriteReady(t) ==
    /\ op[t] = "write" /\ pc[t] = "ready" /\ fd_ \notin dead
    /\ \E n \in 1..(WriteSize - Len(buf[t])) :
          LET sent == [i \in 1..n |-> [call |-> call[t], port |-> fd_.port, at |-> Len(buf[t]) + i]]
          IN  /\ n <= Room
              /\ accepted' = accepted \o sent
              /\ outq' = [outq EXCEPT ![fd_.port] = @ + n]
              /\ IF Len(buf[t]) + n = WriteSize \/ left[t] = 0 THEN Leave(t)
                 ELSE /\ buf' = [buf EXCEPT ![t] = @ \o sent]
                      /\ pc' = [pc EXCEPT ![t] = "wait"]
                      /\ UNCHANGED <<locks, op, left, call, snap>>
    /\ UNCHANGED <<members, descriptors, dead, present, device, inq, taken, counts>>

(* ::write takes nothing although select promised room: SerialException. *)
WriteGone(t) == /\ op[t] = "write" /\ pc[t] = "ready"
                /\ fd_ \notin dead => Room = 0
                /\ Leave(t)
                /\ UNCHANGED <<members, kernel, accepted, taken, counts>>

WriteTimeout(t) == /\ op[t] = "write" /\ pc[t] = "wait" /\ left[t] = 0
                   /\ Leave(t)
                   /\ UNCHANGED <<members, kernel, accepted, taken, counts>>

-----------------------------------------------------------------------------
(* Opening, closing and the settings.                                      *)

CanApply(new) == \A s \in Settings : new[s] \in Supported

(* reconfigurePort.  tcgetattr throws without a device; then the members   *)
(* are read one by one, and one that cannot be had throws; tcsetattr, whose *)
(* result nobody looks at (unix.cc:441), takes any part of them.           *)
GetAttr(t) == /\ pc[t] = "getattr"
              /\ IF fd_ \notin dead THEN /\ pc' = [pc EXCEPT ![t] = "members"]
                              /\ UNCHANGED <<locks, op, buf, left, call, snap>>
                 ELSE Leave(t)
              /\ UNCHANGED <<members, kernel, accepted, taken, counts>>

ReadMember(t, s) == /\ pc[t] = "members" /\ s \notin DOMAIN snap[t]
                    /\ IF settings[s] \in Supported
                       THEN /\ snap' = [snap EXCEPT ![t] = [x \in DOMAIN @ \cup {s} |->
                                                               IF x = s THEN settings[s] ELSE @[x]]]
                            /\ UNCHANGED <<locks, pc, op, buf, left, call>>
                       ELSE Leave(t)
                    /\ UNCHANGED <<members, kernel, accepted, taken, counts>>

Applied(new, got) == IF fd_ \in dead THEN device
                     ELSE [device EXCEPT ![fd_.port] =
                              [s \in Settings |-> IF s \in got THEN new[s] ELSE device[fd_.port][s]]]

(* The call ends; open, in setPort, has succeeded. *)
SetAttr(t) == /\ pc[t] = "members" /\ DOMAIN snap[t] = Settings
              /\ \E got \in SUBSET Settings : /\ device' = Applied(snap[t], got)
                                              /\ untaken' = ~ (fd_ \notin dead /\ got = Settings)
              /\ is_open_' = (is_open_ = TRUE \/ op[t] = "setPort")
              /\ Leave(t)
              /\ UNCHANGED <<port_, fd_, settings, descriptors, dead, present, inq, outq,
                             accepted, taken, arrived, calls, plugs, overlapped, program>>

(* The last descriptor of a device takes the kernel's buffers with it. *)
CloseFile == LET p == fd_.port
                 last == /\ fd_ \notin dead
                         /\ \A d \in descriptors \ (dead \cup {fd_}) : d.port # p
             IN  /\ is_open_ = TRUE
                 /\ descriptors' = descriptors \ {fd_}
                 /\ inq' = IF last THEN [inq EXCEPT ![p] = <<>>] ELSE inq
                 /\ outq' = IF last THEN [outq EXCEPT ![p] = 0] ELSE outq

(* close.  When ::close fails the descriptor is gone all the same, but fd_ *)
(* keeps its number and is_open_ stays true, and so it is at every later   *)
(* try.                                                                    *)
close == /\ CloseFile /\ fd_ \in descriptors
         /\ dead' = dead \ {fd_} /\ fd_' = NoFd /\ is_open_' = FALSE
CloseFails == /\ CloseFile
              /\ dead' = dead \cup {fd_} /\ UNCHANGED <<fd_, is_open_>>

(* ::open gives the lowest free descriptor, or none. *)
OpenFile == LET n == CHOOSE n \in 1..MaxFiles : \A d \in descriptors : d.n # n
                d == [n |-> n, port |-> port_] IN
    /\ IF port_ \in present /\ Cardinality(descriptors) < MaxFiles
       THEN fd_' = d /\ descriptors' = descriptors \cup {d}
       ELSE fd_' = NoFd /\ UNCHANGED descriptors
    /\ UNCHANGED <<dead, present, inq, outq>>

SetPortClosed(t) == /\ op[t] = "setPort" /\ pc[t] = "body" /\ is_open_ = FALSE
                    /\ port_' \in Ports
                    /\ Leave(t)
                    /\ UNCHANGED <<fd_, is_open_, settings, kernel, accepted, taken, counts>>

SetPortClose(t) == /\ op[t] = "setPort" /\ pc[t] = "body"
                   /\ \/ /\ close /\ port_' \in Ports
                         /\ pc' = [pc EXCEPT ![t] = "reopen"]
                         /\ UNCHANGED <<locks, op, buf, left, call, snap>>
                      \/ CloseFails /\ UNCHANGED port_ /\ Leave(t)
                   /\ UNCHANGED <<settings, present, device, accepted, taken, counts>>

(* When reconfigurePort throws, fd_ stays set and open while is_open_ is   *)
(* false.  (Mutant: the new device keeps the settings it has.)             *)
SetPortOpenBare(t) == /\ op[t] = "setPort" /\ pc[t] = "reopen"
                      /\ OpenFile
                      /\ is_open_' = (fd_' # NoFd)
                      /\ Leave(t)
                      /\ UNCHANGED <<port_, settings, device, accepted, taken, counts>>
SetPortOpen(t) == /\ op[t] = "setPort" /\ pc[t] = "reopen"
                  /\ OpenFile
                  /\ IF fd_' = NoFd THEN Leave(t)
                     ELSE /\ pc' = [pc EXCEPT ![t] = "getattr"]
                          /\ UNCHANGED <<locks, op, buf, left, call, snap>>
                  /\ UNCHANGED <<port_, is_open_, settings, device, accepted, taken, counts>>

CountCall == calls < MaxCalls /\ calls' = calls + 1
Idle == \A t \in Threads : pc[t] = "idle"

Open == /\ Idle /\ is_open_ = FALSE /\ port_ # NoPort
        /\ CountCall /\ OpenFile
        /\ IF fd_' # NoFd /\ CanApply(settings)
           THEN \E got \in SUBSET Settings :
                   /\ device' = [device EXCEPT ![port_] =
                                    [s \in Settings |-> IF s \in got THEN settings[s] ELSE @[s]]]
                   /\ untaken' = (got # Settings)
                   /\ is_open_' = TRUE
           ELSE UNCHANGED <<device, untaken, is_open_>>
        /\ overlapped' = FALSE
        /\ UNCHANGED <<port_, settings, locks, frames, accepted, taken, program, arrived, plugs>>

Close == /\ Idle /\ CountCall /\ (close \/ CloseFails)
         /\ UNCHANGED <<port_, settings, locks, frames, present, device, accepted, taken,
                        arrived, plugs, history>>

(* setBaudrate, setBytesize, setParity, setStopbits and setFlowcontrol:    *)
(* the member first, then, if the port is open, all of them to the device. *)
SetStore(t) == /\ op[t] = "set" /\ pc[t] = "body"
               /\ \E s \in Settings, v \in Values : settings' = [settings EXCEPT ![s] = v]
               /\ pc' = [pc EXCEPT ![t] = "stored"]
               /\ UNCHANGED <<port_, fd_, is_open_, locks, op, buf, left, call, snap,
                              kernel, accepted, taken, counts>>

SetTest(t) == /\ op[t] = "set" /\ pc[t] = "stored"
              /\ IF is_open_ = FALSE THEN Leave(t)
                 ELSE /\ pc' = [pc EXCEPT ![t] = "getattr"]
                      /\ UNCHANGED <<locks, op, buf, left, call, snap>>
              /\ UNCHANGED <<members, kernel, accepted, taken, counts>>

-----------------------------------------------------------------------------
(* flush waits in tcdrain; the other two throw a buffer away.              *)

Flush(t) == /\ op[t] = "flush" /\ pc[t] = "body" /\ is_open_ = TRUE
            /\ fd_ \notin dead => outq[fd_.port] = 0
            /\ Leave(t)
            /\ UNCHANGED <<members, kernel, accepted, taken, counts>>

FlushInput(t) == /\ op[t] = "flushInput" /\ pc[t] = "body" /\ is_open_ = TRUE
                 /\ inq' = IF fd_ \in dead THEN inq ELSE [inq EXCEPT ![fd_.port] = <<>>]
                 /\ Leave(t)
                 /\ UNCHANGED <<members, descriptors, dead, present, device, outq, accepted, taken, counts>>

FlushOutput(t) == /\ op[t] = "flushOutput" /\ pc[t] = "body" /\ is_open_ = TRUE
                  /\ outq' = IF fd_ \in dead THEN outq ELSE [outq EXCEPT ![fd_.port] = 0]
                  /\ Leave(t)
                  /\ UNCHANGED <<members, descriptors, dead, present, device, inq, accepted, taken, counts>>

-----------------------------------------------------------------------------
(* The devices, the line and the clock.                                    *)

Arrive(p) == /\ arrived < MaxIn /\ arrived' = arrived + 1
             /\ p \in present /\ \E d \in descriptors \ dead : d.port = p
             /\ inq' = [inq EXCEPT ![p] = Append(@, arrived')]
             /\ UNCHANGED <<members, locks, frames, descriptors, dead, present, device,
                            outq, accepted, taken, calls, plugs, history>>

Drain(p) == /\ outq[p] > 0
            /\ outq' = [outq EXCEPT ![p] = @ - 1]
            /\ UNCHANGED <<members, locks, frames, descriptors, dead, present, device,
                           inq, accepted, taken, counts>>

Unplug(p) == /\ p \in present /\ plugs < MaxPlugs /\ plugs' = plugs + 1
             /\ present' = present \ {p}
             /\ dead' = dead \cup {d \in descriptors : d.port = p}
             /\ inq' = [inq EXCEPT ![p] = <<>>]
             /\ outq' = [outq EXCEPT ![p] = 0]
             /\ UNCHANGED <<members, locks, frames, descriptors, device, accepted, taken, arrived, calls, history>>

Plug(p) == /\ p \notin present
           /\ present' = present \cup {p}
           /\ device' = [device EXCEPT ![p] = [s \in Settings |-> Default]]
           /\ UNCHANGED <<members, locks, frames, descriptors, dead, inq, outq, accepted, taken, counts>>

Tick == /\ \E t \in Threads : left[t] > 0
        /\ left' = [t \in Threads |-> IF left[t] > 0 THEN left[t] - 1 ELSE 0]
        /\ UNCHANGED <<members, locks, pc, op, buf, call, snap, kernel, accepted, taken, counts>>

-----------------------------------------------------------------------------
Step(t) == \/ ReadLock(t) \/ WriteLock(t) \/ NotOpen(t)
           \/ ReadBegin(t) \/ ReadWait(t) \/ ReadReady(t) \/ ReadGone(t) \/ ReadTimeout(t)
           \/ WriteBegin(t) \/ WriteWait(t) \/ WriteReady(t) \/ WriteGone(t) \/ WriteTimeout(t)
           \/ SetPortClosed(t) \/ SetPortClose(t) \/ SetPortOpen(t)
           \/ SetStore(t) \/ SetTest(t) \/ GetAttr(t) \/ SetAttr(t)
           \/ \E s \in Settings : ReadMember(t, s)
           \/ Flush(t) \/ FlushInput(t) \/ FlushOutput(t)

Next == \/ \E t \in Threads : Begin(t) \/ Step(t)
        \/ Open \/ Close \/ Tick
        \/ \E p \in Ports : Arrive(p) \/ Drain(p) \/ Unplug(p) \/ Plug(p)

(* While a thread can go on some thread does, the lines send and time passes. *)
Fairness == /\ WF_vars(\E t \in Threads : Step(t))
            /\ WF_vars(\E p \in Ports : Drain(p))
            /\ WF_vars(Tick)

Spec == Init /\ [][Next]_vars /\ Fairness

-----------------------------------------------------------------------------
(* Properties.                                                             *)

(* Owners, places and settings are what their declarations say, the        *)
(* kernel's output buffer keeps its size, and a call that goes on has      *)
(* moved less than it was asked to (unix.cc:552, 618).                     *)
Size(o) == IF o \in Reads THEN ReadSize ELSE WriteSize
TypeOK == /\ read_mutex \in Threads \cup {NoThread}
          /\ write_mutex \in Threads \cup {NoThread}
          /\ pc \in [Threads -> {"idle", "readLock", "writeLock", "body", "wait", "ready",
                                  "reopen", "stored", "getattr", "members"}]
          /\ op \in [Threads -> Ops \cup {"none"}]
          /\ left \in [Threads -> 0..Timeout]
          /\ outq \in [Ports -> 0..OutSize]
          /\ is_open_ \in BOOLEAN
          /\ settings \in [Settings -> Values]
          /\ device \in [Ports -> [Settings -> Values]]
          /\ port_ \in Ports \cup {NoPort}
          /\ present \subseteq Ports
          /\ \A t \in Threads : Len(buf[t]) < Size(op[t])

(* What select has seen is still there when the call acts on it, unless    *)
(* the device is gone: nobody else takes the data or fills the room        *)
(* between pselect and ::read or ::write (unix.cc:562-594 and 626-663), so *)
(* the "device disconnected?" exceptions are never false alarms.           *)
ReadyHolds == \A t \in Threads : pc[t] = "ready" =>
                  \/ fd_ \in dead
                  \/ op[t] = "write" /\ Room > 0
                  \/ op[t] # "write" /\ inq[fd_.port] # <<>>

(* A port that is open has an open descriptor of its own, unless the       *)
(* device or the descriptor is gone.  And once a setter, setPort or open   *)
(* has run with no other setter or setPort beside it, and the driver has   *)
(* taken what tcsetattr gave it, the device has every setting of the       *)
(* object, whatever overlapped, failed, was ignored or unplugged before    *)
(* (reconfigurePort, unix.cc:129-469, and the setters, 713-775, which take *)
(* no lock: of two at once the one with older settings may write last).    *)
NoSetter == \A t \in Threads : op[t] \notin Setters
InForce == (is_open_ = TRUE /\ fd_ \notin dead) =>
               /\ fd_ \in descriptors /\ fd_.port = port_
               /\ (NoSetter /\ ~ overlapped /\ ~ untaken /\ CanApply(settings))
                      => device[port_] = settings

(* The calls that hold a lock when they touch a buffer, so that a read     *)
(* takes its bytes all at once and a write puts its own together, on one   *)
(* device, whichever threads call and wherever setPort, flushInput or a    *)
(* pulled plug gets between (serial.cc:37-66).                             *)
Held(p) == IF \E t \in Threads : read_mutex = t /\ op[t] \in Reads /\ fd_.port = p
           THEN buf[read_mutex] ELSE <<>>
Begun == {t \in Threads : op[t] = "write" /\ buf[t] # <<>>}
Unfinished == IF Begun = {} THEN 0 ELSE Len(buf[CHOOSE t \in Begun : TRUE])
Streams == INSTANCE ByteStream WITH
    Bytes <- 1..MaxIn, Calls <- 1..MaxCalls, MaxPut <- WriteSize,
    pending <- [p \in Ports |-> Held(p) \o inq[p]],
    taken <- taken,
    written <- SubSeq(accepted, 1, Len(accepted) - Unfinished)
StreamsKept == Streams!Spec

(* Every call returns or throws in the end: the locks are always taken in  *)
(* one order, no loop goes round for ever and every wait has an end.       *)
CallsReturn == \A t \in Threads : pc[t] # "idle" ~> pc[t] = "idle"
=============================================================================
