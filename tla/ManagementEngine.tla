---------------------------- MODULE ManagementEngine ----------------------------
(***************************************************************************)
(* The safety layer of the firmware (Src/management_engine.c): its three   *)
(* latches, the pending timers that feed them, and the staleness watchdog, *)
(* over the sessions that Src/bridge_sequencer.c runs it in.               *)
(*                                                                         *)
(* Readings are classes, cut at the thresholds that matter here; `ok'      *)
(* stands for no data as well, which the code treats alike everywhere but  *)
(* in the watchdog.  Time stamps are ages, saturated, as in                *)
(* BridgeSequencer.  The taper curves are floating-point functions of the  *)
(* readings and are left out: a limit is known as far as an override       *)
(* decides it.  notify_charge_replug() has no caller.                      *)
(***************************************************************************)
EXTENDS Integers, FiniteSets

CONSTANTS
    Signals,         \* inputs watched by the time of their last frame
    Counters,        \* inputs watched by the time of their last change
    Checks,          \* the three cross checks: cell, temp, temp_probe
    LowPersistence,  \* BRIDGE_CFG_MF_LOW_VOLTAGE_CUTOFF_SOFT_CUT_PERSISTENCE_S
    CheckSoft, CheckHard,   \* BRIDGE_CFG_MF_..._CROSS_CHECK_SOFT_CUT_S, _HARD_ESCALATION_S
    StaleSoft, StaleHard,   \* BRIDGE_CFG_MF_STALENESS_WATCHDOG_SOFT_CUT_S, ...
    Cap,             \* where ages saturate
    MaxFaults        \* readings out of order at a time

ASSUME TimingAssumption ==
    /\ {LowPersistence, CheckSoft, CheckHard, StaleSoft, StaleHard, Cap} \subseteq Nat
    /\ StaleSoft > 0
    /\ LowPersistence <= Cap /\ CheckSoft + CheckHard <= Cap /\ StaleSoft + StaleHard <= Cap
    /\ MaxFaults \in Nat

VARIABLES
    \* g_rz_state
    low,             \* worst_low: at most min_cell_v, at most emergency_low_v
    high,            \* worst_high and SoC: a stop threshold, the emergency voltages
    hot,             \* temp_max: AC derating, AC hard stop, emergency
    cold,            \* the coldest probe: AC derating below one
    charging,        \* charge_permission_input seen and not 0
    disagrees,       \* the checks whose two sources differ too much
    age,             \* of each signal's last_update_tick, Unset: never
    moved,           \* the counters whose value is not the last one looked at
    seen,            \* the counters of which a frame has arrived
    \* ManagementState
    firstApply,      \* since first_apply_tick, Unset: 0
    lowSince, checkSince, staleSince,       \* the pending timers
    changeAge,       \* since *_last_change_tick
    hardLatched, acChargeStopLatched, acChargeTempStopLatched,
    \* the sequencer: every phase but the armed one, and the age of its session
    phase, rearmed, sessionAge,
    composed,        \* nothing has happened since the last apply()
    \* history, for the properties
    resetAge,        \* since the button was last pressed, Unset: not since power-up
    lowFor,          \* since worst_low fell to min_cell_v, Unset: it is above
    ended            \* a reading ended the charge since the latches were cleared

readings == <<low, high, hot, cold, charging, disagrees>>
arrivals == <<age, moved, seen>>
timers == <<lowSince, checkSince, staleSince>>
latches == <<hardLatched, acChargeStopLatched, acChargeTempStopLatched>>
session == <<phase, rearmed, sessionAge>>
history == <<resetAge, lowFor, ended>>
vars == <<readings, arrivals, firstApply, timers, changeAge, latches, session,
          composed, history>>

-----------------------------------------------------------------------------
Unset == -1
Age == 0..Cap
AgeOrUnset == Age \cup {Unset}
Older(a) == IF a = Unset \/ a >= Cap THEN a ELSE a + 1

\* How many readings are out of order: MaxFaults bounds it.
FaultCount == Cardinality(disagrees)
              + Cardinality({i \in 1..4 : <<low # "ok", high # "ok", hot # "ok", cold>>[i]})

\* Where a timer stands: set by the first apply() that finds its condition, cleared
\* by one that does not.
Pending(since, condition) ==
    IF ~condition THEN Unset ELSE IF since = Unset THEN 0 ELSE since

HeldFor(since, time) == since # Unset /\ since >= time

Init ==
    /\ low = "ok" /\ high = "ok" /\ hot = "ok" /\ cold = FALSE
    /\ charging = FALSE /\ disagrees = {}
    /\ age = [s \in Signals |-> Unset] /\ moved = {} /\ seen = {}
    /\ firstApply = Unset
    /\ lowSince = Unset /\ staleSince = Unset /\ checkSince = [c \in Checks |-> Unset]
    /\ changeAge = [c \in Counters |-> Cap]
    /\ hardLatched = FALSE /\ acChargeStopLatched = FALSE /\ acChargeTempStopLatched = FALSE
    /\ phase = "armed" /\ rearmed = FALSE /\ sessionAge = 0
    /\ composed = FALSE /\ resetAge = Unset /\ lowFor = Unset /\ ended = FALSE

-----------------------------------------------------------------------------
(* management_engine_apply(), part by part.  `start' is first_apply_tick's  *)
(* age in this call.                                                       *)

Start == IF firstApply = Unset THEN 0 ELSE firstApply

\* Mutant: a signal that never arrived is not watched.
MutSignalAge(s) == IF age[s] = Unset THEN 0 ELSE IF age[s] > Start THEN Start ELSE age[s]
\* signal_age_s(): never older than the session.
SignalAge(s) == IF age[s] = Unset \/ age[s] > Start THEN Start ELSE age[s]

\* counter_freshness_s(), after its update of the change stamp.
ChangeAge(c) == IF c \in moved THEN 0 ELSE changeAge[c]
CounterAge(c) ==
    IF c \notin seen \/ ChangeAge(c) > Start THEN Start ELSE ChangeAge(c)

Stale == \/ \E s \in Signals : SignalAge(s) >= StaleSoft
         \/ \E c \in Counters : CounterAge(c) >= StaleSoft

\* Mutant: the emergency tier of the low side is left to the soft tier's timer.
MutEmergency == high = "emergency" \/ hot = "emergency"
\* The hard cuts of this call that no timer delays.
Emergency == \/ low = "emergency"
             \/ high = "emergency"
             \/ hot = "emergency"

EndsOnLevel == charging /\ high \in {"full", "emergency"}
EndsOnHeat == charging /\ hot \in {"stop", "emergency"}

\* Mutant: the interlock opening drops the latch of the hot side.
MutTempStop == (charging /\ acChargeTempStopLatched) \/ EndsOnHeat
TempStop == acChargeTempStopLatched \/ EndsOnHeat

\* charger_limit_kw as the AC taper, the AC temperature derate, the over-temperature
\* emergency and the watchdog leave it, in this order.
AcTaper ==
    IF charging /\ acChargeStopLatched THEN "stop"
    ELSE IF charging /\ high = "emergency" THEN "zero" ELSE "limit"
AcTempDerate(kw) ==
    IF charging /\ acChargeTempStopLatched THEN "stop"
    ELSE IF charging /\ kw = "stop" /\ (cold \/ hot # "ok") THEN "scaled_stop" ELSE kw
OverTemperature(kw) == IF hot = "emergency" THEN "zero" ELSE kw
Staleness(kw) == IF Stale THEN "stop" ELSE kw

Compose ==
    /\ firstApply' = Start
    /\ lowSince' = Pending(lowSince, low = "low")
    /\ checkSince' = [c \in Checks |-> Pending(checkSince[c], c \in disagrees)]
    /\ staleSince' = Pending(staleSince, Stale)
    /\ changeAge' = [c \in Counters |-> ChangeAge(c)]
    /\ moved' = {}
    /\ hardLatched' = \/ hardLatched
                      \/ Emergency
                      \/ \E c \in Checks : HeldFor(checkSince'[c], CheckSoft + CheckHard)
                      \/ HeldFor(staleSince', StaleHard)
    /\ acChargeStopLatched' = (acChargeStopLatched \/ EndsOnLevel)
    /\ acChargeTempStopLatched' = TempStop
    /\ ended' = (ended \/ EndsOnLevel \/ EndsOnHeat)
    /\ UNCHANGED <<readings, age, seen, resetAge, lowFor>>

\* bridge_sequencer_tick() composes in every phase but the armed one.
Apply ==
    /\ phase = "session"
    /\ Compose
    /\ composed' = TRUE
    /\ UNCHANGED session

\* What an apply() leaves in LeafState, read off the state it leaves: relay_cut_request
\* with interlock, capacity_empty, full_charge_flag, whether charge_limit_kw is
\* overridden with 0, and charger_limit_kw.  The AC branches run only while the
\* interlock is read as closed.
Output ==
    LET stopped == charging /\ (acChargeStopLatched \/ acChargeTempStopLatched)
    IN  [relayCut |-> hardLatched,
         empty |-> \/ HeldFor(lowSince, LowPersistence)
                   \/ \E c \in Checks : HeldFor(checkSince[c], CheckSoft)
                   \/ Stale,
         full |-> stopped \/ Stale,
         regenOff |-> stopped \/ Stale \/ high = "emergency" \/ hot = "emergency",
         charger |-> Staleness(OverTemperature(AcTempDerate(AcTaper)))]

-----------------------------------------------------------------------------
\* Mutant: the reference of the watchdog stays where it was.
MutLatchesCleared ==
    /\ hardLatched' = FALSE /\ acChargeStopLatched' = FALSE /\ acChargeTempStopLatched' = FALSE
    /\ ended' = FALSE
    /\ UNCHANGED firstApply
\* notify_session_start(), and what the button adds to it.
LatchesCleared ==
    /\ hardLatched' = FALSE /\ acChargeStopLatched' = FALSE /\ acChargeTempStopLatched' = FALSE
    /\ firstApply' = 0
    /\ ended' = FALSE
PendingCleared ==
    /\ lowSince' = Unset /\ staleSince' = Unset
    /\ checkSince' = [c \in Checks |-> Unset]

\* note_leaf_rx(): the frame that wakes the bridge.  The first session after
\* power-up clears nothing.
SessionStart ==
    /\ phase = "armed"
    /\ phase' = "session" /\ sessionAge' = 0 /\ composed' = FALSE
    /\ \/ rearmed /\ LatchesCleared
       \/ ~rearmed /\ UNCHANGED <<latches, firstApply, ended>>
    /\ UNCHANGED <<readings, arrivals, timers, changeAge, rearmed, resetAge, lowFor>>

\* The tick that finds the bus quiet: advance_phase() comes after its apply().
SessionEnd ==
    /\ phase = "session"
    /\ Compose
    /\ phase' = "armed" /\ rearmed' = TRUE /\ composed' = FALSE
    /\ UNCHANGED sessionAge

\* management_engine_reset_all_conditions(): the fault-reset button goes down, which
\* bridge_sequencer_tick() looks for in every phase.
Reset ==
    /\ LatchesCleared /\ PendingCleared
    /\ resetAge' = 0 /\ composed' = FALSE
    /\ UNCHANGED <<readings, arrivals, changeAge, session, lowFor>>

-----------------------------------------------------------------------------
(* The battery's frames, taken in every phase.                             *)

Read ==
    /\ FaultCount' <= MaxFaults
    /\ composed' = FALSE
    /\ UNCHANGED <<arrivals, firstApply, timers, changeAge, latches, session, resetAge, ended>>

Cells == /\ low' \in {"ok", "low", "emergency"}
         /\ high' \in {"ok", "full", "emergency"}
         /\ lowFor' = Pending(lowFor, low' # "ok")
         /\ UNCHANGED <<hot, cold, charging, disagrees>>
         /\ Read

Temperatures == /\ hot' \in {"ok", "derate", "stop", "emergency"}
                /\ cold' \in BOOLEAN
                /\ UNCHANGED <<low, high, charging, disagrees, lowFor>>
                /\ Read

Interlock == /\ charging' = ~charging
             /\ UNCHANGED <<low, high, hot, cold, disagrees, lowFor>>
             /\ Read

Sources(c) == /\ disagrees' = IF c \in disagrees THEN disagrees \ {c} ELSE disagrees \cup {c}
              /\ UNCHANGED <<low, high, hot, cold, charging, lowFor>>
              /\ Read

SignalFrame(s) ==
    /\ age' = [age EXCEPT ![s] = 0]
    /\ composed' = FALSE
    /\ UNCHANGED <<readings, moved, seen, firstApply, timers, changeAge, latches, session,
                   history>>

\* Mutant: the stamp of the signal is left out, as for a reading that is rejected.
MutCounterFrame(c) ==
    /\ moved' = moved \cup {c} /\ composed' = FALSE
    /\ UNCHANGED <<readings, age, seen, firstApply, timers, changeAge, latches, session, history>>
\* A frame whose counter is the one last looked at, or is not; the first is not.
CounterFrame(c) ==
    /\ seen' = seen \cup {c}
    /\ \/ moved' = moved \cup {c}
       \/ c \in seen /\ UNCHANGED moved
    /\ composed' = FALSE
    /\ UNCHANGED <<readings, age, firstApply, timers, changeAge, latches, session, history>>

BatteryFrame ==
    \/ Cells \/ Temperatures \/ Interlock
    \/ \E c \in Checks : Sources(c)
    \/ \E s \in Signals : SignalFrame(s)
    \/ \E c \in Counters : CounterFrame(c)

\* The main loop runs many times in a unit of time, so that in a session an apply()
\* comes between anything that happens and the next advance of the clock.
Elapse ==
    /\ phase = "armed" \/ composed
    /\ age' = [s \in Signals |-> Older(age[s])]
    /\ firstApply' = Older(firstApply)
    /\ lowSince' = Older(lowSince) /\ staleSince' = Older(staleSince)
    /\ checkSince' = [c \in Checks |-> Older(checkSince[c])]
    /\ changeAge' = [c \in Counters |-> Older(changeAge[c])]
    /\ sessionAge' = Older(sessionAge) /\ resetAge' = Older(resetAge)
    /\ lowFor' = Older(lowFor)
    /\ composed' = FALSE
    /\ UNCHANGED <<readings, moved, seen, latches, phase, rearmed, ended>>

\* A loss of power, or the NVIC reset of Error_Handler(): everything starts over.
PowerLoss ==
    /\ low' = "ok" /\ high' = "ok" /\ hot' = "ok" /\ cold' = FALSE
    /\ charging' = FALSE /\ disagrees' = {}
    /\ age' = [s \in Signals |-> Unset] /\ moved' = {} /\ seen' = {}
    /\ firstApply' = Unset
    /\ lowSince' = Unset /\ staleSince' = Unset /\ checkSince' = [c \in Checks |-> Unset]
    /\ changeAge' = [c \in Counters |-> Cap]
    /\ hardLatched' = FALSE /\ acChargeStopLatched' = FALSE /\ acChargeTempStopLatched' = FALSE
    /\ phase' = "armed" /\ rearmed' = FALSE /\ sessionAge' = 0
    /\ composed' = FALSE /\ resetAge' = Unset /\ lowFor' = Unset /\ ended' = FALSE

Next ==
    \/ Apply \/ SessionStart \/ SessionEnd \/ Reset \/ PowerLoss
    \/ BatteryFrame \/ Elapse

Spec == Init /\ [][Next]_vars

-----------------------------------------------------------------------------
ReadingsTyped ==
    /\ low \in {"ok", "low", "emergency"} /\ high \in {"ok", "full", "emergency"}
    /\ hot \in {"ok", "derate", "stop", "emergency"}
    /\ cold \in BOOLEAN /\ charging \in BOOLEAN
    /\ disagrees \subseteq Checks

AgesTyped ==
    /\ age \in [Signals -> AgeOrUnset]
    /\ firstApply \in AgeOrUnset
    /\ lowSince \in AgeOrUnset /\ staleSince \in AgeOrUnset
    /\ checkSince \in [Checks -> AgeOrUnset]
    /\ changeAge \in [Counters -> Age]
    /\ sessionAge \in Age /\ resetAge \in AgeOrUnset /\ lowFor \in AgeOrUnset

FlagsTyped ==
    /\ moved \subseteq seen /\ seen \subseteq Counters
    /\ hardLatched \in BOOLEAN
    /\ acChargeStopLatched \in BOOLEAN /\ acChargeTempStopLatched \in BOOLEAN
    /\ phase \in {"armed", "session"} /\ rearmed \in BOOLEAN
    /\ composed \in BOOLEAN /\ ended \in BOOLEAN

TypeOK == ReadingsTyped /\ AgesTyped /\ FlagsTyped

\* Data that a session has been without for the soft and the hard time of the
\* watchdog has cut it: neither a frame of another signal, nor a counter that stands
\* still in frames that arrive, nor the clamp to the session start delays the cut.
StaleSessionIsCut ==
    composed /\ sessionAge >= StaleSoft + StaleHard =>
        \/ Output.relayCut
        \/ firstApply < StaleSoft + StaleHard      \* the button was pressed
        \/ /\ \A s \in Signals : age[s] \in 0..(StaleSoft + StaleHard - 1)
           /\ \A c \in Counters : c \in seen /\ changeAge[c] < StaleSoft + StaleHard

\* How long silence may have counted against this session: since its start or, in the
\* first one after power-up, since a press of the button before it.  The press sets
\* first_apply_tick, and note_leaf_rx() moves it in later sessions only.
CountedFor == IF ~rearmed /\ resetAge > sessionAge THEN resetAge ELSE sessionAge

\* The watchdog holds nothing against a session that is older than the session
\* (the fix of 2026-08-19, management_engine.c:127-133), with the one exception of
\* CountedFor: data that went silent while the bridge was armed has the whole soft
\* time to come back.
StaleOnlyInSession ==
    [][composed' /\ staleSince' # Unset =>
         CountedFor' = Cap \/ staleSince' + StaleSoft <= CountedFor']_vars

\* A pack whose lowest cell has been at or below min_cell_v for the persistence time
\* tells the Leaf so in one of the two ways, although the emergency tier cancels the
\* soft tier's timer and the cell may swing between the two.  The session and the time
\* since the button must have lasted as long.
LowCellIsCut ==
    composed /\ (\A held \in {lowFor, firstApply, sessionAge} : held >= LowPersistence) =>
        Output.empty \/ Output.relayCut

\* After the button every condition starts again: no pending timer is older than the
\* last press, so nothing that a timer delays is latched earlier.
PendingSinceReset ==
    resetAge # Unset =>
        /\ lowSince <= resetAge /\ staleSince <= resetAge
        /\ \A c \in Checks : checkSince[c] <= resetAge

\* A charge that a reading has ended stays ended for as long as the interlock is
\* read as closed, also after it was read as open in between and after the
\* reading has recovered: the flag is up and the charger is asked for nothing.
EndedChargeStaysEnded ==
    composed /\ charging /\ ended =>
        Output.full /\ Output.regenOff /\ Output.charger # "limit"

\* "keep asserting the stop on every subsequent tick" (management_engine.c:432): a
\* latched stop is asserted as such, -10 kW, in every output of the charge.
StopAsserted ==
    composed /\ charging /\ acChargeStopLatched => Output.charger = "stop"
================================================================================
