----------------------------- MODULE MainLoopProofs -----------------------------
(***************************************************************************)
(* MainLoop: every variable stays in its domain, and the bridge is never   *)
(* put to sleep in a session, for all queue sizes and timings.             *)
(***************************************************************************)
EXTENDS MainLoop, TLAPS

LEMMA LoopInit == Init => TypeOK
BY LoopAssumption DEF Init, TypeOK, Places, Buses

\* What an interrupt changes: a place at most from "asleep" to the top of the loop.
LEMMA WokenKeepsType ==
    ASSUME TypeOK, Woken, armed' = armed
    PROVE  at' \in Places /\ (at' \in {"sleep", "asleep"} => armed')
BY DEF TypeOK, Woken, Places

LEMMA LoopStep == TypeOK /\ [Next]_vars => TypeOK'
<1> SUFFICES ASSUME TypeOK, [Next]_vars PROVE TypeOK'
  OBVIOUS
<1> USE LoopAssumption
<1>1. ASSUME NEW bus \in Buses, OnFrame(bus) PROVE TypeOK'
  <2>1. waiting' \in [Buses -> 0..Capacity]
    BY <1>1 DEF OnFrame, TypeOK
  <2>2. armed' \in BOOLEAN /\ at' \notin {"sleep", "asleep"}
    BY <1>1 DEF OnFrame, Drain, TypeOK
  <2>3. QED
    BY <1>1, <2>1, <2>2 DEF OnFrame, TypeOK
<1>2. ASSUME NEW bus \in Buses, Drained(bus) PROVE TypeOK'
  BY <1>2 DEF Drained, AfterDrain, TypeOK, Places, Buses
<1>3. ASSUME NEW elapsed \in {0, 1}, Tick(elapsed) PROVE TypeOK'
  <2>1. requestIn' \in 0..RequestGap /\ idle' \in 0..(SleepIdle + 1)
    BY <1>3 DEF Tick, TypeOK
  <2>2. armed' \in BOOLEAN
    BY <1>3 DEF Tick, Sent, TypeOK
  <2>3. inFlight' \in 0..MaxInFlight
    BY <1>3 DEF Tick, Sent, TypeOK
  <2>4. at' = "check" /\ arrived' = "none" /\ waiting' = waiting
    BY <1>3 DEF Tick
  <2>5. QED
    BY <2>1, <2>2, <2>3, <2>4 DEF TypeOK, Places
<1>4. CASE Check
  BY <1>4 DEF Check, ShouldSleep, TypeOK, Places
<1>5. CASE EnterSleep
  BY <1>5 DEF EnterSleep, TypeOK, Places
<1>6. ASSUME NEW bus \in Buses, RxInterrupt(bus) PROVE TypeOK'
  <2>1. waiting' \in [Buses -> 0..Capacity]
    BY <1>6 DEF RxInterrupt, TypeOK
  <2>2. QED
    BY <1>6, <2>1, WokenKeepsType DEF RxInterrupt, TypeOK
<1>7. CASE TxInterrupt
  <2>1. inFlight' \in 0..MaxInFlight
    BY <1>7 DEF TxInterrupt, TypeOK
  <2>2. QED
    BY <1>7, <2>1, WokenKeepsType DEF TxInterrupt, TypeOK
<1>8. CASE UNCHANGED vars
  BY <1>8 DEF vars, TypeOK
<1>9. QED
  BY <1>1, <1>2, <1>3, <1>4, <1>5, <1>6, <1>7, <1>8 DEF Next, MainStep

\* Every variable of the main loop stays in its domain, and the place before and in
\* WFI is reached while the bridge is armed only, wherever an interrupt falls.
THEOREM LoopTypeCorrect == Spec => []TypeOK
BY LoopInit, LoopStep, PTL DEF Spec
================================================================================
