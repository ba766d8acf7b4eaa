-------------------------- MODULE AudioFlowProofs --------------------------
(***************************************************************************)
(* For every ring size, start level and delay: how long an answer may take *)
(* before the ring can fill up, and how long before playing can stop.      *)
(***************************************************************************)
EXTENDS AudioFlow, TLAPS

\* The ring has room for what was stored when playing started, the requests
\* made since, and the one more that made the mode switch.
RoomForDelay == StartLevel + MaxDelay + 1 < AudioSize

\* One round trip of requests does not outlast the stored samples, and the ring
\* can hold what starts the playing and two more.
StartOutlastsDelay ==
  /\ MaxDelay <= StartLevel + 2
  /\ StartLevel + 2 < AudioSize

\* FlowInv holds initially and every step of Next keeps it, the faults included.
THEOREM FlowInvariant == RoomForDelay => (Spec => []FlowInv)
<1> SUFFICES ASSUME RoomForDelay PROVE Spec => []FlowInv
  OBVIOUS
<1> USE FlowAssumption DEF FlowAssumption, Modes, CanStart, RequestSample
<1>1. Init => FlowInv
  BY DEF Init, FlowInv, TypeOK, Committed
<1>2. FlowInv /\ [Next]_vars => FlowInv'
  <2> SUFFICES ASSUME FlowInv, [Next]_vars PROVE FlowInv'
    OBVIOUS
  <2> USE DEF FlowInv, TypeOK, Committed
  <2>1. CASE Tick
    BY <2>1 DEF Tick
  <2>2. CASE Arrive
    <3>1. length # AudioSize - 1
      BY <2>2 DEF Arrive, RoomForDelay
    <3> QED
      BY <2>2, <3>1 DEF Arrive
  <2>3. CASE Lose
    BY <2>3 DEF Lose
  <2>4. CASE Reset
    BY <2>4 DEF Reset
  <2>5. CASE UNCHANGED vars
    BY <2>5 DEF vars
  <2> QED
    BY <2>1, <2>2, <2>3, <2>4, <2>5 DEF Next
<1> QED
  BY <1>1, <1>2, PTL DEF Spec

\* The receive interrupt never spins on a full ring as long as every answer
\* comes, or is lost, within AudioSize - StartLevel - 2 ticks: with the sizes of
\* labfinal.c within 510 ticks, 63.75 ms, whatever is lost or reset.
THEOREM NeverFullHolds == RoomForDelay => (Spec => []NeverFull)
<1>1. FlowInv => NeverFull
  BY DEF FlowInv, NeverFull
<1> QED
  BY <1>1, FlowInvariant, PTL

-----------------------------------------------------------------------------
\* Without faults, playing goes with a reserve: nothing but a tick with more
\* than StartLevel samples starts it, and a tick moves one sample from the ring
\* to the requests.
THEOREM ReserveInvariant ==
  StartOutlastsDelay => (Spec => []ReserveInv)
<1> SUFFICES ASSUME StartOutlastsDelay PROVE Spec => []ReserveInv
  OBVIOUS
<1> USE FlowAssumption DEF FlowAssumption, Modes, CanStart, RequestSample
<1>1. Init => ReserveInv
  BY DEF Init, ReserveInv, TypeOK, Committed
<1>2. ReserveInv /\ [Next]_vars => ReserveInv'
  <2> SUFFICES ASSUME ReserveInv, [Next]_vars PROVE ReserveInv'
    OBVIOUS
  <2> USE DEF ReserveInv, TypeOK, Committed
  <2>1. CASE Tick
    <3>1. mode = "connected" /\ faults = "none" => length > 0
      BY <2>1 DEF Tick, StartOutlastsDelay
    <3> QED
      BY <2>1, <3>1 DEF Tick
  <2>2. CASE Arrive
    BY <2>2 DEF Arrive, StartOutlastsDelay
  <2>3. CASE Lose
    BY <2>3 DEF Lose
  <2>4. CASE Reset
    BY <2>4, StartOutlastsDelay DEF Reset, StartOutlastsDelay
  <2>5. CASE UNCHANGED vars
    BY <2>5 DEF vars
  <2> QED
    BY <2>1, <2>2, <2>3, <2>4, <2>5 DEF Next
<1> QED
  BY <1>1, <1>2, PTL DEF Spec

\* Without faults the sound, once it has started, is never interrupted by an
\* empty ring if the answers take at most StartLevel + 2 ticks.
THEOREM NoUnderrunHolds ==
  StartOutlastsDelay => (Spec => NoUnderrun)
<1> SUFFICES ASSUME StartOutlastsDelay PROVE Spec => NoUnderrun
  OBVIOUS
<1>1. ReserveInv /\ [Next]_vars
        => [mode = "connected" /\ faults' = "none" => mode' = "connected"]_vars
  <2> SUFFICES ASSUME ReserveInv, Next, mode = "connected", faults' = "none"
               PROVE  mode' = "connected"
    BY DEF vars
  <2>1. CASE Tick
    <3>1. length > 0
      BY <2>1, FlowAssumption
      DEF Tick, StartOutlastsDelay, ReserveInv, TypeOK, Committed, FlowAssumption
    <3> QED
      BY <2>1, <3>1, FlowAssumption DEF Tick, ReserveInv, TypeOK, FlowAssumption
  <2>2. CASE Arrive
    BY <2>2 DEF Arrive
  <2>3. CASE Lose \/ Reset
    BY <2>3 DEF Lose, Reset
  <2> QED
    BY <2>1, <2>2, <2>3 DEF Next
<1> QED
  BY <1>1, ReserveInvariant, PTL DEF Spec, NoUnderrun
=============================================================================
