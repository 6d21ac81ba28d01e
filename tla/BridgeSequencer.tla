---------------------------- MODULE BridgeSequencer ----------------------------
(***************************************************************************)
(* The phase machine of the STM32 firmware (Src/bridge_sequencer.c): when  *)
(* the bridge wakes on Leaf-bus traffic, stages its bring-up, decides to   *)
(* wind down, falls silent, and arms itself for the next session.          *)
(*                                                                         *)
(* A time stamp x_tick of the code is modelled by its age, now - x_tick,   *)
(* counted in units of the model's clock and saturated at the first value  *)
(* past which no comparison of the code can change its outcome.  A pair    *)
(* (flag, stamp) of the code, where the stamp is read only under the flag, *)
(* is one variable: Unset, or the age of the stamp.                        *)
(*                                                                         *)
(* Left out: the contents of the frames, the indicator lights, the free-   *)
(* running prun/latch/tick10 counters, manual_shutdown_requested (nothing  *)
(* in the firmware sets it) and stopped_since_tick (nothing reads it).     *)
(***************************************************************************)
EXTENDS Integers

CONSTANTS
    IgnitionIds,        \* 0x108, 0x1CB, 0x284: the IDs that mean "car is on"
    ChgTrans,           \* values of Charge_StatusTransitionReqest in 0x1F2
    TxIds,              \* the Leaf IDs this vehicle configuration transmits
    Period,             \* TX period of each ID; 0 stands for "under one unit"
    IgnitionQuiet,      \* BRIDGE_CFG_ET_IGNITION_QUIET_S
    IgnitionGrace,      \* BRIDGE_CFG_ET_IGNITION_GRACE_S
    IgnitionOffDelay,   \* BRIDGE_CFG_ET_IGNITION_OFF_DELAY_S
    ChgEndStop,         \* BRIDGE_CFG_ET_CHG_END_STOP_S
    ChgStallTimeout,    \* BRIDGE_CFG_ET_CHG_STALL_TIMEOUT_S
    ChgCmdFresh,        \* BRIDGE_CFG_ET_CHG_CMD_FRESH_S
    BusSilence,         \* BRIDGE_CFG_ET_BUS_SILENCE_TIMEOUT_S
    Cooldown,           \* BRIDGE_PROTO_PWRDOWN_DEFAULT_COOLDOWN_S
    T1DBStart, T55BStart, T59EStart, TRunning,   \* BRIDGE_PROTO_T_*
    Stage2, Stage3, Stage4,                      \* BRIDGE_PROTO_PWRDOWN_STAGE*_MS
    SessionCap,         \* where the age of the session saturates
    IgnitionCap,        \* where the ages of the ignition IDs saturate
    PromptLoop          \* TRUE: the main loop runs at least once per time unit

ASSUME TimingAssumption ==
    /\ {IgnitionQuiet, IgnitionGrace, IgnitionOffDelay, ChgEndStop,
        ChgStallTimeout, ChgCmdFresh, BusSilence, Cooldown} \subseteq Nat
    /\ {T1DBStart, T55BStart, T59EStart, TRunning} \subseteq Nat
    /\ {Stage2, Stage3, Stage4, SessionCap, IgnitionCap} \subseteq Nat
    /\ Cooldown <= BusSilence
    /\ Stage2 <= Stage3 /\ Stage3 <= Stage4

\* No threshold these ages are compared with, here or in a property, lies past
\* their cap.
ASSUME CapAssumption ==
    /\ IgnitionGrace + IgnitionOffDelay <= SessionCap
    /\ ChgEndStop <= SessionCap /\ ChgStallTimeout <= SessionCap
    /\ T1DBStart <= SessionCap /\ T55BStart <= SessionCap
    /\ T59EStart <= SessionCap /\ TRunning <= SessionCap
    /\ Stage4 <= SessionCap
    /\ IgnitionQuiet + IgnitionOffDelay < IgnitionCap
    /\ IgnitionQuiet + ChgEndStop < IgnitionCap
    /\ ChgStallTimeout <= IgnitionCap

ASSUME TxAssumption ==
    /\ TxIds \subseteq {"1DB", "1DC", "1C2", "1ED", "55B", "5BC", "59E", "5C0", "5EB"}
    /\ Period \in [TxIds -> Nat]
    /\ ChgTrans \subseteq 0..3
    /\ PromptLoop \in BOOLEAN

VARIABLES
    phase,              \* the BridgePhase
    sessionAge,         \* since session_start_tick
    shutdownAge,        \* since shutdown_t0_tick
    leafRx,             \* since last_leaf_rx_tick, Unset: !last_leaf_rx_valid
    rearmed,            \* rearmed_naturally
    ignition,           \* since ignition_last_seen_tick[i], Unset: !ignition_seen[i]
    chgFrame,           \* since chg_last_frame_tick
    chgTrans,           \* chg_trans, -1 until the first 0x1F2
    chgCmdActive,       \* chg_cmd > BRIDGE_PROTO_CHG_CMD_IDLE
    chgTransChange,     \* since chg_trans_last_change_tick
    chgSeenActive,      \* chg_seen_active
    ignitionOffSince, chgEndSince, chgStallSince,   \* the persistence timers
    dueIn,              \* next_due_tick[id] - now, 0 when due
    \* what the last step showed to the outside
    sent,               \* the IDs the last tick pushed to the Leaf bus
    trigger,            \* the return of should_wind_down() the last tick took
    ticked              \* a tick has run since the clock last advanced

rxVars == <<leafRx, ignition, chgFrame, chgTrans, chgCmdActive, chgTransChange>>
timers == <<ignitionOffSince, chgEndSince, chgStallSince>>
seqVars == <<phase, sessionAge, shutdownAge, rearmed, chgSeenActive>>
outVars == <<sent, trigger, ticked>>
vars == <<rxVars, timers, seqVars, dueIn, outVars>>

-----------------------------------------------------------------------------
Unset == -1
Up == {"startup", "running"}
Phases == Up \cup {"waiting_for_wake", "winding_down", "stopped"}
Triggers == {"none", "staleness", "ignition_off", "chg_end", "chg_stall", "silence"}

AgeUpTo(cap) == (0..cap) \cup {Unset}

\* One unit older, unless unset or saturated.
Older(age, cap) == IF age = Unset \/ age >= cap THEN age ELSE age + 1

RunStateFresh ==
    \E i \in IgnitionIds : ignition[i] # Unset /\ ignition[i] <= IgnitionQuiet

IgnitionOffDetected ==
    /\ sessionAge >= IgnitionGrace
    /\ \A i \in IgnitionIds : ignition[i] # Unset
    /\ ~RunStateFresh

ChgFresh == chgFrame # Unset /\ chgFrame <= ChgCmdFresh

ChargeActive == ChgFresh /\ (chgTrans = 1 \/ chgCmdActive)

-----------------------------------------------------------------------------
(* should_wind_down(): the triggers in the order of the code.  A trigger   *)
(* that fires returns at once, so the timers after it keep their values;   *)
(* the staleness cut returns before any of them.                           *)

Held(since) == IF since = Unset THEN 0 ELSE since

\* Mutant: the hold time is not cancelled when an ignition ID reappears.
MutIgnitionOffNotCancelled ==
    IF IgnitionOffDetected THEN Held(ignitionOffSince) ELSE ignitionOffSince
\* Mutant: the hold time starts over at every tick.
MutIgnitionOffRestarts == IF IgnitionOffDetected THEN 0 ELSE Unset
IgnitionOffHeld == IF IgnitionOffDetected THEN Held(ignitionOffSince) ELSE Unset
IgnitionOffFires == IgnitionOffHeld # Unset /\ IgnitionOffHeld >= IgnitionOffDelay

ChgEndHeld ==
    IF chgSeenActive /\ ~RunStateFresh THEN Held(chgEndSince) ELSE Unset
ChgEndFires == ChgEndHeld # Unset /\ ChgEndHeld >= ChgEndStop

StallAnchor == IF chgTransChange = Unset THEN 0 ELSE chgTransChange
\* Mutant: the stall is timed from the current tick.
MutStallRestarts == IF ChgFresh /\ ~chgSeenActive /\ ~RunStateFresh THEN 0 ELSE Unset
ChgStallHeld ==
    IF ChgFresh /\ ~chgSeenActive /\ ~RunStateFresh
    THEN IF chgStallSince = Unset \/ StallAnchor < chgStallSince
         THEN StallAnchor ELSE chgStallSince
    ELSE Unset
ChgStallFires == ChgStallHeld # Unset /\ ChgStallHeld >= ChgStallTimeout

\* Mutant: strictly longer than the timeout.
MutSilenceStrict == leafRx # Unset /\ leafRx > BusSilence
SilenceFires == leafRx # Unset /\ leafRx >= BusSilence

ShouldWindDown(cut, authorized) ==
    \/ /\ cut
       /\ trigger' = "staleness"
       /\ UNCHANGED timers
    \/ /\ ~cut /\ ChargeActive /\ authorized
       /\ trigger' = "none"
       /\ ignitionOffSince' = Unset /\ chgEndSince' = Unset /\ chgStallSince' = Unset
    \/ /\ ~cut /\ ~(ChargeActive /\ authorized)
       /\ ignitionOffSince' = IgnitionOffHeld
       /\ \/ /\ IgnitionOffFires
             /\ trigger' = "ignition_off"
             /\ UNCHANGED <<chgEndSince, chgStallSince>>
          \/ /\ ~IgnitionOffFires
             /\ chgEndSince' = ChgEndHeld
             /\ \/ /\ ChgEndFires
                   /\ trigger' = "chg_end"
                   /\ UNCHANGED chgStallSince
                \/ /\ ~ChgEndFires
                   /\ chgStallSince' = ChgStallHeld
                   /\ trigger' = IF ChgStallFires THEN "chg_stall"
                                 ELSE IF SilenceFires THEN "silence" ELSE "none"

-----------------------------------------------------------------------------
(* The transmit loop at the end of bridge_sequencer_tick().                *)

ActiveDuringWindDown(id, elapsed) ==
    CASE id \in {"59E", "5C0", "5EB"} -> FALSE
      [] id \in {"55B", "5BC"}        -> elapsed < Stage2
      [] id \in {"1DB", "1DC"}        -> elapsed < Stage3
      [] OTHER                        -> elapsed < Stage4

StartOffset(id) ==
    CASE id \in {"1DB", "1DC"}        -> T1DBStart
      [] id \in {"55B", "5BC"}        -> T55BStart
      [] id \in {"59E", "5C0", "5EB"} -> T59EStart
      [] OTHER                        -> 0

\* `now_in` is the phase after advance_phase(), `timing` what it returned.
\* Mutant: the wind-down stages are not applied.
MutGatedWithoutStages(id, now_in, timing) ==
    now_in = "startup" /\ timing < StartOffset(id)
Gated(id, now_in, timing) ==
    \/ now_in = "winding_down" /\ ~ActiveDuringWindDown(id, timing)
    \/ now_in = "startup" /\ timing < StartOffset(id)

Transmit(now_in, timing) ==
    LET due == {id \in TxIds : dueIn[id] = 0 /\ ~Gated(id, now_in, timing)}
    IN  /\ sent' = due
        /\ dueIn' = [id \in TxIds |-> IF id \in due THEN Period[id] ELSE dueIn[id]]

NothingSent == sent' = {} /\ UNCHANGED dueIn

-----------------------------------------------------------------------------
Init ==
    /\ phase = "waiting_for_wake"
    /\ sessionAge = 0 /\ shutdownAge = 0
    /\ leafRx = Unset
    /\ rearmed = FALSE
    /\ ignition = [i \in IgnitionIds |-> Unset]
    /\ chgFrame = Unset /\ chgTrans = -1 /\ chgCmdActive = FALSE
    /\ chgTransChange = Unset /\ chgSeenActive = FALSE
    /\ ignitionOffSince = Unset /\ chgEndSince = Unset /\ chgStallSince = Unset
    /\ dueIn = [id \in TxIds |-> 0]
    /\ sent = {} /\ trigger = "none" /\ ticked = FALSE

(* note_leaf_rx(): any Leaf frame wakes an armed bridge, then the IDs the  *)
(* triggers listen to are recorded.                                        *)
LeafFrameSeen ==
    /\ leafRx' = 0
    /\ IF phase = "waiting_for_wake"
       THEN phase' = "startup" /\ sessionAge' = 0
       ELSE UNCHANGED <<phase, sessionAge>>
    /\ sent' = {} /\ trigger' = "none"
    /\ UNCHANGED <<shutdownAge, rearmed, timers, dueIn, ticked>>

OnIgnitionFrame(i) ==
    /\ LeafFrameSeen
    /\ ignition' = [ignition EXCEPT ![i] = 0]
    /\ UNCHANGED <<chgFrame, chgTrans, chgCmdActive, chgTransChange, chgSeenActive>>

OnChargeFrame(trans, cmdActive) ==
    /\ LeafFrameSeen
    /\ chgTransChange' = IF trans # chgTrans THEN 0 ELSE chgTransChange
    /\ chgTrans' = trans /\ chgCmdActive' = cmdActive
    /\ chgFrame' = 0
    /\ chgSeenActive' = (chgSeenActive \/ trans = 1 \/ cmdActive)
    /\ UNCHANGED ignition

OnOtherFrame ==
    /\ LeafFrameSeen
    /\ UNCHANGED <<ignition, chgFrame, chgTrans, chgCmdActive, chgTransChange,
                   chgSeenActive>>

(* bridge_sequencer_tick(), by the phase it finds.  `cut` is staleness_    *)
(* hard_cut as management_engine_apply() has just left it, `authorized`    *)
(* the charge_permission_input of the RZ450e.                              *)
TickWaiting ==
    /\ phase = "waiting_for_wake"
    /\ NothingSent
    /\ trigger' = "none" /\ ticked' = TRUE
    /\ UNCHANGED <<rxVars, timers, seqVars>>

TickUp(cut, authorized) ==
    /\ phase \in Up
    /\ ShouldWindDown(cut, authorized)
    /\ phase' = IF trigger' # "none" THEN "winding_down"
                ELSE IF sessionAge >= TRunning THEN "running" ELSE phase
    /\ shutdownAge' = IF trigger' # "none" THEN 0 ELSE shutdownAge
    /\ Transmit(phase', sessionAge)   \* the session's age, even if it just wound down
    /\ ticked' = TRUE
    /\ UNCHANGED <<rxVars, sessionAge, rearmed, chgSeenActive>>

\* Mutant: the wind-down ends in the idle phase, as the PC app's disarm() does.
MutWindDownToIdle ==
    /\ phase = "winding_down"
    /\ IF shutdownAge >= Stage4
       THEN phase' = "idle" /\ NothingSent
       ELSE phase' = phase /\ Transmit(phase, shutdownAge)
    /\ trigger' = "none" /\ ticked' = TRUE
    /\ UNCHANGED <<rxVars, timers, sessionAge, shutdownAge, rearmed, chgSeenActive>>

TickWindingDown ==
    /\ phase = "winding_down"
    /\ IF shutdownAge >= Stage4
       THEN phase' = "stopped" /\ NothingSent
       ELSE phase' = phase /\ Transmit(phase, shutdownAge)
    /\ trigger' = "none" /\ ticked' = TRUE
    /\ UNCHANGED <<rxVars, timers, sessionAge, shutdownAge, rearmed, chgSeenActive>>

\* Mutant: re-arm on a flat timer, as the PC app did before 2026-07-31.
MutFlatTimer == shutdownAge >= Stage4
\* Mutant: not while a charge has been seen, which only re-arming forgets.
MutQuietOutsideCharge == leafRx # Unset /\ leafRx >= Cooldown /\ ~chgSeenActive
GenuinelyQuiet == leafRx # Unset /\ leafRx >= Cooldown

\* Re-arming leaves "stopped" and falls through to the transmit loop.
TickStopped ==
    /\ phase = "stopped"
    /\ IF GenuinelyQuiet
       THEN /\ phase' = "waiting_for_wake" /\ rearmed' = TRUE
            /\ ignition' = [i \in IgnitionIds |-> Unset]
            /\ chgSeenActive' = FALSE
            /\ Transmit(phase', 0)
       ELSE UNCHANGED <<phase, rearmed, ignition, chgSeenActive>> /\ NothingSent
    /\ trigger' = "none" /\ ticked' = TRUE
    /\ UNCHANGED <<leafRx, chgFrame, chgTrans, chgCmdActive, chgTransChange,
                   timers, sessionAge, shutdownAge>>

Tick(cut, authorized) ==
    TickWaiting \/ TickUp(cut, authorized) \/ TickWindingDown \/ TickStopped

(* The 1 ms SysTick, in units of the model.                                *)
Elapse ==
    /\ PromptLoop => ticked
    /\ sessionAge' = Older(sessionAge, SessionCap)
    /\ shutdownAge' = Older(shutdownAge, Stage4)
    /\ leafRx' = Older(leafRx, BusSilence + 1)
    /\ ignition' = [i \in IgnitionIds |-> Older(ignition[i], IgnitionCap)]
    /\ chgFrame' = Older(chgFrame, ChgCmdFresh + 1)
    /\ chgTransChange' = Older(chgTransChange, ChgStallTimeout)
    /\ ignitionOffSince' = Older(ignitionOffSince, IgnitionOffDelay)
    /\ chgEndSince' = Older(chgEndSince, ChgEndStop)
    /\ chgStallSince' = Older(chgStallSince, ChgStallTimeout)
    /\ dueIn' = [id \in TxIds |-> IF dueIn[id] = 0 THEN 0 ELSE dueIn[id] - 1]
    /\ sent' = {} /\ trigger' = "none" /\ ticked' = FALSE
    /\ UNCHANGED <<phase, rearmed, chgTrans, chgCmdActive, chgSeenActive>>

\* Power loss, or the NVIC reset of Error_Handler(): every static is back to
\* its initial value and bridge_sequencer_init() arms the bridge.
Reset ==
    /\ phase' = "waiting_for_wake"
    /\ sessionAge' = 0 /\ shutdownAge' = 0
    /\ leafRx' = Unset
    /\ rearmed' = FALSE
    /\ ignition' = [i \in IgnitionIds |-> Unset]
    /\ chgFrame' = Unset /\ chgTrans' = -1 /\ chgCmdActive' = FALSE
    /\ chgTransChange' = Unset /\ chgSeenActive' = FALSE
    /\ ignitionOffSince' = Unset /\ chgEndSince' = Unset /\ chgStallSince' = Unset
    /\ dueIn' = [id \in TxIds |-> 0]
    /\ sent' = {} /\ trigger' = "none" /\ ticked' = FALSE

Next ==
    \/ \E i \in IgnitionIds : OnIgnitionFrame(i)
    \/ \E trans \in ChgTrans, cmdActive \in BOOLEAN : OnChargeFrame(trans, cmdActive)
    \/ OnOtherFrame
    \/ \E cut, authorized \in BOOLEAN : Tick(cut, authorized)
    \/ Elapse
    \/ Reset

Spec == Init /\ [][Next]_vars

\* The main loop and the SysTick never stop; frames need not arrive.
Fairness ==
    /\ WF_vars(\E cut, authorized \in BOOLEAN : Tick(cut, authorized))
    /\ WF_vars(Elapse)

FairSpec == Spec /\ Fairness
-----------------------------------------------------------------------------
(* Properties.                                                             *)

\* Every variable stays in its domain; in particular the machine only ever
\* takes the five phases the firmware uses, never BRIDGE_PHASE_IDLE.
TypeOK ==
    /\ phase \in Phases
    /\ sessionAge \in 0..SessionCap /\ shutdownAge \in 0..Stage4
    /\ leafRx \in AgeUpTo(BusSilence + 1)
    /\ rearmed \in BOOLEAN /\ chgSeenActive \in BOOLEAN /\ chgCmdActive \in BOOLEAN
    /\ ignition \in [IgnitionIds -> AgeUpTo(IgnitionCap)]
    /\ chgFrame \in AgeUpTo(ChgCmdFresh + 1)
    /\ chgTrans \in ChgTrans \cup {-1}
    /\ chgTransChange \in AgeUpTo(ChgStallTimeout)
    /\ ignitionOffSince \in AgeUpTo(IgnitionOffDelay)
    /\ chgEndSince \in AgeUpTo(ChgEndStop)
    /\ chgStallSince \in AgeUpTo(ChgStallTimeout)
    /\ dueIn \in [TxIds -> Nat]
    /\ sent \subseteq TxIds /\ trigger \in Triggers /\ ticked \in BOOLEAN

\* Once a session has been wound down, the bridge is armed for the next one
\* only on a bus that has been quiet for the cooldown, however the frames fell
\* between the wind-down and the re-arm, and it stays that way until the frame
\* that wakes it: a VCM that keeps talking can never restart the session that
\* has just been closed.  Nothing the triggers remember of ignition or charge
\* is carried into the armed state.
RearmedBusWasQuiet ==
    phase = "waiting_for_wake" =>
        /\ rearmed => leafRx >= Cooldown
        /\ \A i \in IgnitionIds : ignition[i] = Unset
        /\ ~chgSeenActive

\* A bridge that left the armed state has seen a Leaf frame since power-up, so
\* the re-arm test of "stopped", which reads 0 s of quiet without one, can
\* always succeed later: the bridge cannot be stranded in "stopped".
NeverStranded == phase # "waiting_for_wake" => leafRx # Unset

\* Triggers 1 and 3 are cancelled by any ignition ID that reappears: when they
\* fire, no ignition frame has been seen for the quiet time plus the whole hold
\* time, and trigger 1 has also waited out the grace period.  This is about
\* the timers sampled by ticks while frames arrive in between.
IgnitionCancels ==
    /\ trigger = "ignition_off" =>
           /\ sessionAge >= IgnitionGrace + IgnitionOffDelay
           /\ \A i \in IgnitionIds : ignition[i] > IgnitionQuiet + IgnitionOffDelay
    /\ trigger = "chg_end" =>
           \A i \in IgnitionIds :
               ignition[i] = Unset \/ ignition[i] > IgnitionQuiet + ChgEndStop

\* A car that is switched off ends its session in time, however much it goes on saying:
\* in a session without a charge, a tick never leaves the bridge up when the
\* ignition IDs have all been stale for the whole hold time and the grace period is as
\* long over.
SwitchedOffSessionEnds ==
    /\ phase \in Up /\ ticked /\ ~chgSeenActive
    /\ sessionAge >= IgnitionGrace + IgnitionOffDelay
    => \E i \in IgnitionIds :
          ignition[i] = Unset \/ ignition[i] <= IgnitionQuiet + IgnitionOffDelay

\* No session outlives a Leaf bus that has gone silent: trigger 6 is the last of
\* the six tests, behind the early return that an authorised charge takes, and
\* still no combination of inputs holds it off.
SilenceBounded == phase \in Up => leafRx <= BusSilence

\* The sequencer implements LeafSession.
Session == INSTANCE LeafSession WITH
    Ids <- TxIds,
    SlowIds <- {"59E", "5C0", "5EB"},
    mode <- CASE phase = "waiting_for_wake" -> "armed"
              [] phase \in Up               -> "live"
              [] phase = "winding_down"     -> "closing"
              [] OTHER                      -> "silent",
    quiet <- IF leafRx = Unset THEN 0
             ELSE IF leafRx >= Cooldown THEN Cooldown ELSE leafRx,
    closedOnce <- rearmed,
    sent <- sent

\* Every step of the sequencer is a step of LeafSession, or changes nothing of
\* it: silence while stopped, the status IDs off from the first tick of a
\* wind-down, sessions that never reopen, quiet before the next one.
ImplementsSession == Session!SessionSpec

\* Once the Leaf bus is silent for good the bridge ends up armed, whatever
\* phase and timers the last frame left it with.
SilenceRearms == ([]<>(leafRx = 0)) \/ <>[](phase = "waiting_for_wake")

\* A session does not run on beside a car that is off: with the ignition IDs
\* gone stale and no active charge request it ends even on a bus that keeps
\* talking, if all ignition IDs or an active charge had been seen.
ParkedSessionEnds ==
    ~<>[](/\ phase \in Up /\ ~RunStateFresh /\ ~ChargeActive
          /\ chgSeenActive \/ \A i \in IgnitionIds : ignition[i] # Unset)

\* A charge negotiation that never becomes active ends the session, unless the
\* car keeps moving the transition request.
StalledChargeEnds ==
    \/ []<>(chgTransChange = 0)
    \/ ~<>[](phase \in Up /\ ~RunStateFresh /\ ChgFresh /\ ~chgSeenActive)
================================================================================
