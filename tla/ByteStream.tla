----------------------------- MODULE ByteStream -----------------------------
(***************************************************************************)
(* What the serial library promises to threads that share one Serial       *)
(* object: a read takes its bytes all at once, from the front of what has  *)
(* come in, and a write puts a beginning of its data on the port all at    *)
(* once, however many system calls either makes and however often it       *)
(* waits.                                                                  *)
(***************************************************************************)
EXTENDS Integers, Sequences

CONSTANTS
    Ports,   \* the names of the devices
    Bytes,   \* the bytes a device may send
    Calls,   \* the calls of write
    MaxPut   \* the most that one call writes

VARIABLES
    pending,  \* per port, the bytes that came in and no call has returned
    taken,    \* what the reads have returned, in the order they returned
    written   \* the bytes the writes have put, each as [call, port, at]

streams == <<pending, taken, written>>

Init == /\ pending = [p \in Ports |-> <<>>]
        /\ taken = <<>>
        /\ written = <<>>

(* The device on port p sends byte b. *)
Arrive(p) == /\ \E b \in Bytes : pending' = [pending EXCEPT ![p] = Append(@, b)]
             /\ UNCHANGED <<taken, written>>

Without(p, n) == [pending EXCEPT ![p] = SubSeq(@, n + 1, Len(@))]

(* A read returns the first n bytes. *)
Take(p) == \E n \in 1..Len(pending[p]) :
               /\ taken' = Append(taken, SubSeq(pending[p], 1, n))
               /\ pending' = Without(p, n)
               /\ UNCHANGED written

(* A read ends by an exception: the bytes it had are lost. *)
Lose(p) == /\ \E n \in 1..Len(pending[p]) : pending' = Without(p, n)
           /\ UNCHANGED <<taken, written>>

(* flushInput, closing the port or unplugging the device throws away what  *)
(* the kernel held: all but a beginning that a read had already taken.     *)
Discard == /\ \E p \in Ports : \E n \in 0..Len(pending[p]) :
                  pending' = [pending EXCEPT ![p] = SubSeq(@, 1, n)]
           /\ UNCHANGED <<taken, written>>

(* A write that has put n bytes, the first n of its data, on port p, ends: *)
(* it has put nothing before and will put nothing more.                    *)
Called == {written[i].call : i \in 1..Len(written)}
Put(n) == /\ \E p \in Ports, c \in Calls \ Called :
                 written' = written \o [i \in 1..n |-> [call |-> c, port |-> p, at |-> i]]
          /\ UNCHANGED <<pending, taken>>

Next == \/ \E p \in Ports : Arrive(p) \/ Take(p) \/ Lose(p)
        \/ Discard
        \/ \E n \in 1..MaxPut : Put(n)

Spec == Init /\ [][Next]_streams
=============================================================================
