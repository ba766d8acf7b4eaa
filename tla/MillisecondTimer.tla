-------------------------- MODULE MillisecondTimer --------------------------
(***************************************************************************)
(* The deadline of a read or write of the serial library (unix.cc:57-78):  *)
(* the time now and a number of milliseconds are added up to seconds and   *)
(* a rest below one second.                                                *)
(*                                                                         *)
(* Time is counted in milliseconds, so that Second stands for the 10^9 of  *)
(* the code's tv_nsec and IntMax for 2^31 - 1 of those nanoseconds.        *)
(***************************************************************************)
EXTENDS Integers

Second == 1000
IntMax == 2147

(* static_cast<int>(1e9 * sec_diff): a value that an int cannot hold is    *)
(* undefined; compilers give the least int, and this is any int.           *)
CastToInt(v) == IF v <= IntMax THEN {v} ELSE (-IntMax) .. IntMax

(* The deadlines that a timer begun at s seconds and r rest may get. *)
(* (Mutant: the whole sum stays in tv_nsec's place.) *)
ExpiryUncarried(s, r, millis) == {<<s + (r + millis) \div Second, r + millis>>}
Expiry(s, r, millis) ==
    LET sec_diff == (r + millis) \div Second
    IN  IF r + millis >= Second
        THEN {<<s + sec_diff, r + millis - whole>> : whole \in CastToInt(Second * sec_diff)}
        ELSE {<<s, r + millis>>}

(* remaining(), at a time of s seconds and r rest. *)
Remaining(expiry, s, r) == (expiry[1] - s) * Second + (expiry[2] - r)

(* A timeout that ends before the third full second since the second in    *)
(* which it began is exact; the server's is one second.                    *)
TimerExact(r, millis) ==
    r + millis < 3 * Second =>
        \A e \in Expiry(0, r, millis) : Remaining(e, 0, r) = millis /\ e[2] < Second
=============================================================================
