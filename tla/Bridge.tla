--------------------------------- MODULE Bridge ---------------------------------
(***************************************************************************)
(* The session sequencer and the management engine of the firmware, as     *)
(* bridge_sequencer.c puts them together: every tick of a session composes *)
(* (management_engine_apply()) and then advances the phase by what that    *)
(* has found, every frame that wakes an armed bridge starts the session of *)
(* both, and the interlock that the battery reports authorises the charge  *)
(* that holds a session.  The inputs that BridgeSequencer and              *)
(* ManagementEngine leave free are here each other's.                      *)
(***************************************************************************)
EXTENDS BridgeSequencer

\* As in ManagementEngine.
CONSTANTS Signals, Counters, Checks, LowPersistence, CheckSoft, CheckHard,
          StaleSoft, StaleHard, Cap, MaxFaults

VARIABLES low, high, hot, cold, charging, disagrees, age, moved, seen, firstApply,
          lowSince, checkSince, staleSince, changeAge,
          hardLatched, acChargeStopLatched, acChargeTempStopLatched,
          composed, resetAge, lowFor, ended

mgmtVars == <<low, high, hot, cold, charging, disagrees, age, moved, seen, firstApply,
              lowSince, checkSince, staleSince, changeAge,
              hardLatched, acChargeStopLatched, acChargeTempStopLatched,
              composed, resetAge, lowFor, ended>>
bridgeVars == <<vars, mgmtVars>>

\* One session for both: every phase but the armed one.
Management == INSTANCE ManagementEngine WITH
    phase <- IF phase = "waiting_for_wake" THEN "armed" ELSE "session",
    sessionAge <- IF sessionAge < Cap THEN sessionAge ELSE Cap

\* For how long data may be missing before the watchdog ends the session.
StaleLimit == StaleSoft + StaleHard

ASSUME BridgeAssumption ==
    /\ {LowPersistence, CheckSoft, CheckHard, StaleSoft, StaleHard, Cap, MaxFaults} \subseteq Nat
    /\ StaleSoft > 0 /\ Stage4 > 0
    /\ LowPersistence <= Cap /\ CheckSoft + CheckHard <= Cap
    /\ StaleLimit + Stage4 <= Cap /\ Cap <= SessionCap
    /\ PromptLoop

BridgeInit == Init /\ Management!Init

-----------------------------------------------------------------------------
\* Mutant: a session that follows another is not announced.
MutWakes ==
    IF phase = "waiting_for_wake"
    THEN composed' = FALSE /\ UNCHANGED <<low, high, hot, cold, charging, disagrees, age,
         moved, seen, firstApply, lowSince, checkSince, staleSince, changeAge, hardLatched,
         acChargeStopLatched, acChargeTempStopLatched, resetAge, lowFor, ended>>
    ELSE UNCHANGED mgmtVars
\* What note_leaf_rx() tells the management engine.
Wakes == IF phase = "waiting_for_wake" THEN Management!SessionStart ELSE UNCHANGED mgmtVars

LeafFrame ==
    /\ \/ \E i \in IgnitionIds : OnIgnitionFrame(i)
       \/ \E trans \in ChgTrans, cmdActive \in BOOLEAN : OnChargeFrame(trans, cmdActive)
       \/ OnOtherFrame
    /\ Wakes

BatteryFrame == UNCHANGED vars /\ Management!BatteryFrame

Button == UNCHANGED vars /\ Management!Reset

\* Mutant: the charge that holds a session is looked at before the cut.
MutStalenessHardCut ==
    Management!HeldFor(staleSince', StaleHard) /\ ~(ChargeActive /\ charging)
\* staleness_hard_cut, as the apply() of this tick leaves it.
StalenessHardCut == Management!HeldFor(staleSince', StaleHard)

TickInSession ==
    /\ phase # "waiting_for_wake"
    /\ Management!Compose
    /\ Tick(StalenessHardCut, charging)
    /\ composed' = (phase' # "waiting_for_wake")

\* Nothing is composed while the bridge is armed.
TickArmed == TickWaiting /\ UNCHANGED mgmtVars

BridgeElapse == Elapse /\ Management!Elapse

PowerLoss == Reset /\ Management!PowerLoss

BridgeNext ==
    \/ LeafFrame \/ BatteryFrame \/ Button
    \/ TickInSession \/ TickArmed \/ BridgeElapse \/ PowerLoss

BridgeSpec == BridgeInit /\ [][BridgeNext]_bridgeVars
-----------------------------------------------------------------------------
(* Properties.                                                             *)

\* Each of the two behaves as its own module says: the other is one of the
\* environments it was verified against.
ImplementsManagement == Management!Spec
ImplementsSequencer == Spec

\* A bridge whose battery has fallen silent falls silent itself: in a session that has
\* lasted as long (and since the button was pressed) nothing is sent that is composed from an
\* input older than the watchdog's two times and the wind-down, charge or no
\* charge, whatever the Leaf asks for and whatever other cut was latched before.
SilentOnStaleData ==
    sent # {} /\ phase # "waiting_for_wake"
    /\ (\A held \in {sessionAge, firstApply} : held >= StaleLimit + Stage4) =>
        /\ \A s \in Signals : age[s] # Unset /\ age[s] < StaleLimit + Stage4
        /\ \A c \in Counters : c \in seen /\ Management!ChangeAge(c) < StaleLimit + Stage4

\* A hard cut is taken back only by the button, by a loss of power, and by the
\* frame that wakes a bridge whose Leaf bus had been quiet for the cooldown: a car that
\* goes on talking keeps its cut, through wind-down and re-arming.
CutHeldUntilQuiet ==
    [][hardLatched /\ ~hardLatched' =>
         \/ Button \/ PowerLoss
         \/ phase = "waiting_for_wake" /\ rearmed /\ leafRx >= Cooldown]_bridgeVars
================================================================================
