------------------------------ MODULE BridgeProofs ------------------------------
(***************************************************************************)
(* Theorems about Bridge: the composition implements both of its parts, so *)
(* that what is proved of each holds here, and the two properties of the   *)
(* whole follow from what their theorems say together.                     *)
(***************************************************************************)
EXTENDS Bridge, BridgeSequencerProofs

\* The theorems about the management engine, as it runs in the bridge.
MP == INSTANCE ManagementEngineProofs WITH
    phase <- IF phase = "waiting_for_wake" THEN "armed" ELSE "session",
    sessionAge <- IF sessionAge < Cap THEN sessionAge ELSE Cap

\* What ManagementEngine assumes of its constants.
MgmtTiming ==
    /\ {LowPersistence, CheckSoft, CheckHard, StaleSoft, StaleHard, Cap} \subseteq Nat
    /\ StaleSoft > 0
    /\ LowPersistence <= Cap /\ CheckSoft + CheckHard <= Cap /\ StaleSoft + StaleHard <= Cap
    /\ MaxFaults \in Nat

LEMMA MgmtConstants == MgmtTiming
BY BridgeAssumption, TimingAssumption DEF MgmtTiming, StaleLimit

-----------------------------------------------------------------------------
(* An instance of ManagementEngineProofs has its own copy of the operators   *)
(* of ManagementEngine: the copies are the same formulas.                    *)

LEMMA SameInit == Management!Init <=> MP!Init
BY DEF Management!Init, MP!Init, Management!Unset, MP!Unset

LEMMA SameCompose == Management!Compose <=> MP!Compose
BY DEF Management!Compose, MP!Compose, Management!Start, MP!Start, Management!Pending,
       MP!Pending, Management!Stale, MP!Stale, Management!SignalAge, MP!SignalAge,
       Management!CounterAge, MP!CounterAge, Management!ChangeAge, MP!ChangeAge,
       Management!Emergency, MP!Emergency, Management!HeldFor, MP!HeldFor,
       Management!EndsOnLevel, MP!EndsOnLevel, Management!EndsOnHeat, MP!EndsOnHeat,
       Management!TempStop, MP!TempStop, Management!Unset, MP!Unset, Management!readings,
       MP!readings

LEMMA SameSessionStart == Management!SessionStart <=> MP!SessionStart
BY DEF Management!SessionStart, MP!SessionStart, Management!LatchesCleared,
       MP!LatchesCleared, Management!latches, MP!latches, Management!readings,
       MP!readings, Management!arrivals, MP!arrivals, Management!timers, MP!timers

LEMMA SameReset == Management!Reset <=> MP!Reset
BY DEF Management!Reset, MP!Reset, Management!LatchesCleared, MP!LatchesCleared,
       Management!PendingCleared, MP!PendingCleared, Management!Unset, MP!Unset,
       Management!readings, MP!readings, Management!arrivals, MP!arrivals,
       Management!session, MP!session

LEMMA SameElapse == Management!Elapse <=> MP!Elapse
BY DEF Management!Elapse, MP!Elapse, Management!Older, MP!Older, Management!Unset,
       MP!Unset, Management!readings, MP!readings, Management!latches, MP!latches

LEMMA SamePowerLoss == Management!PowerLoss <=> MP!PowerLoss
BY DEF Management!PowerLoss, MP!PowerLoss, Management!Unset, MP!Unset

LEMMA SameCardinality == \A S : Management!Cardinality(S) = MP!Cardinality(S)
BY DEF Management!Cardinality, MP!Cardinality
LEMMA SameFaultCount == Management!FaultCount = MP!FaultCount
BY SameCardinality DEF Management!FaultCount, MP!FaultCount

LEMMA SameBatteryFrame == Management!BatteryFrame <=> MP!BatteryFrame
<1>1. (Management!FaultCount = MP!FaultCount)'
  BY SameFaultCount, PTL
<1>2. QED
  BY <1>1
  DEF Management!BatteryFrame, MP!BatteryFrame, Management!Cells, MP!Cells,
      Management!Temperatures, MP!Temperatures, Management!Interlock, MP!Interlock,
      Management!Sources, MP!Sources, Management!SignalFrame, MP!SignalFrame,
      Management!CounterFrame, MP!CounterFrame, Management!Read, MP!Read,
      Management!Pending, MP!Pending, Management!Unset, MP!Unset, Management!readings,
      MP!readings, Management!arrivals, MP!arrivals, Management!timers, MP!timers,
      Management!latches, MP!latches, Management!session, MP!session, Management!history,
      MP!history

LEMMA SameNext == Management!Next <=> MP!Next
<1>1. Management!Apply <=> MP!Apply
  BY SameCompose DEF Management!Apply, MP!Apply, Management!session, MP!session
<1>2. Management!SessionEnd <=> MP!SessionEnd
  BY SameCompose DEF Management!SessionEnd, MP!SessionEnd
<1>3. QED
  BY <1>1, <1>2, SameSessionStart, SameReset, SamePowerLoss, SameBatteryFrame, SameElapse
  DEF Management!Next, MP!Next

LEMMA SameVars == UNCHANGED Management!vars <=> UNCHANGED MP!vars
BY DEF Management!vars, MP!vars, Management!readings, MP!readings, Management!arrivals,
       MP!arrivals, Management!timers, MP!timers, Management!latches, MP!latches,
       Management!session, MP!session, Management!history, MP!history

-----------------------------------------------------------------------------
(* The composition implements the management engine.                       *)

LEMMA MgmtInit == BridgeInit => MP!Init
BY SameInit DEF BridgeInit

LEMMA ManagementStep == [BridgeNext]_bridgeVars => [MP!Next]_(MP!vars)
<1> SUFFICES ASSUME [BridgeNext]_bridgeVars PROVE MP!Next \/ UNCHANGED MP!vars
  OBVIOUS
<1>stutter. ASSUME UNCHANGED mgmtVars, UNCHANGED <<phase, sessionAge, rearmed>>
            PROVE  UNCHANGED MP!vars
  BY <1>stutter DEF mgmtVars, MP!vars, MP!readings, MP!arrivals, MP!timers, MP!latches,
                    MP!session, MP!history
<1>1. CASE LeafFrame
  <2>1. LeafFrameSeen /\ Wakes
    BY <1>1 DEF LeafFrame, OnIgnitionFrame, OnChargeFrame, OnOtherFrame
  <2>2. CASE phase = "waiting_for_wake"
    BY <2>1, <2>2, SameSessionStart DEF Wakes, MP!Next
  <2>3. CASE phase # "waiting_for_wake"
    BY <2>1, <2>3, <1>stutter DEF Wakes, LeafFrameSeen
  <2>4. QED
    BY <2>2, <2>3
<1>2. CASE BatteryFrame
  BY <1>2, SameBatteryFrame DEF BatteryFrame, MP!Next
<1>3. CASE Button
  BY <1>3, SameReset DEF Button, MP!Next
<1>4. CASE TickInSession
  <2>1. /\ phase # "waiting_for_wake" /\ MP!Compose /\ UNCHANGED sessionAge
        /\ composed' = (phase' # "waiting_for_wake")
        /\ IF phase' = "waiting_for_wake" THEN rearmed' = TRUE ELSE UNCHANGED rearmed
    BY <1>4, SameCompose
    DEF TickInSession, Tick, TickWaiting, TickUp, TickWindingDown, TickStopped, Up
  <2>2. CASE phase' = "waiting_for_wake"
    BY <2>1, <2>2 DEF MP!Next, MP!SessionEnd
  <2>3. CASE phase' # "waiting_for_wake"
    BY <2>1, <2>3 DEF MP!Next, MP!Apply, MP!session
  <2>4. QED
    BY <2>2, <2>3
<1>5. CASE TickArmed
  BY <1>5, <1>stutter DEF TickArmed, TickWaiting, seqVars
<1>6. CASE BridgeElapse
  BY <1>6, SameElapse DEF BridgeElapse, MP!Next
<1>7. CASE PowerLoss
  BY <1>7, SamePowerLoss DEF PowerLoss, MP!Next
<1>8. CASE UNCHANGED bridgeVars
  BY <1>8, <1>stutter DEF bridgeVars, vars, seqVars
<1>9. QED
  BY <1>1, <1>2, <1>3, <1>4, <1>5, <1>6, <1>7, <1>8 DEF BridgeNext

\* What is proved of the management engine holds of it in the bridge.
LEMMA ManagementTheorems == BridgeSpec => MP!Spec
BY MgmtInit, ManagementStep, PTL DEF BridgeSpec, MP!Spec

\* The management engine runs in the bridge as its own module has it run: what is left
\* free there, the session, is here what the sequencer does with what it finds.
THEOREM BridgeImplementsManagement == BridgeSpec => ImplementsManagement
<1>1. BridgeInit => Management!Init
  BY DEF BridgeInit
<1>2. [BridgeNext]_bridgeVars => [Management!Next]_(Management!vars)
  BY ManagementStep, SameNext, SameVars
<1>3. QED
  BY <1>1, <1>2, PTL DEF BridgeSpec, ImplementsManagement, Management!Spec

-----------------------------------------------------------------------------
(* The composition implements the sequencer.                               *)

LEMMA ChargingType == BridgeSpec => [](charging \in BOOLEAN)
<1>1. MP!TypeOK => charging \in BOOLEAN
  BY DEF MP!TypeOK, MP!ReadingsTyped
<1>2. MP!Spec => []MP!TypeOK
  BY MP!TypeCorrect, MgmtConstants DEF MgmtTiming
<1>3. QED
  BY <1>1, <1>2, ManagementTheorems, PTL

LEMMA SequencerStep == charging \in BOOLEAN /\ [BridgeNext]_bridgeVars => [Next]_vars
<1> SUFFICES ASSUME charging \in BOOLEAN, [BridgeNext]_bridgeVars PROVE Next \/ UNCHANGED vars
  OBVIOUS
<1>1. CASE LeafFrame
  BY <1>1 DEF LeafFrame, Next
<1>2. CASE BatteryFrame \/ Button
  BY <1>2 DEF BatteryFrame, Button
<1>3. CASE TickInSession
  <2>1. StalenessHardCut \in BOOLEAN
    BY DEF StalenessHardCut, Management!HeldFor
  <2>2. QED
    BY <1>3, <2>1 DEF TickInSession, Next
<1>4. CASE TickArmed
  BY <1>4 DEF TickArmed, Next, Tick
<1>5. CASE BridgeElapse \/ PowerLoss
  BY <1>5 DEF BridgeElapse, PowerLoss, Next
<1>6. CASE UNCHANGED bridgeVars
  BY <1>6 DEF bridgeVars
<1>7. QED
  BY <1>1, <1>2, <1>3, <1>4, <1>5, <1>6 DEF BridgeNext

\* The sequencer runs in the bridge as its own module has it run: what is left free there,
\* the staleness cut and the charge permission, is here the management engine's.
THEOREM BridgeImplementsSequencer == BridgeSpec => ImplementsSequencer
<1>1. BridgeInit => Init
  BY DEF BridgeInit
<1>2. QED
  BY <1>1, ChargingType, SequencerStep, PTL DEF BridgeSpec, ImplementsSequencer, Spec

-----------------------------------------------------------------------------
(* Taking a cut back.                                                      *)

LEMMA ReleaseStep ==
    ASSUME RearmedBusWasQuiet, BridgeNext, hardLatched, ~hardLatched'
    PROVE  \/ Button \/ PowerLoss
           \/ phase = "waiting_for_wake" /\ rearmed /\ leafRx >= Cooldown
<1>1. CASE LeafFrame
  BY <1>1 DEF LeafFrame, Wakes, Management!SessionStart, Management!latches, mgmtVars,
              RearmedBusWasQuiet
<1>2. CASE BatteryFrame
  BY <1>2 DEF BatteryFrame, Management!BatteryFrame, Management!Cells,
              Management!Temperatures, Management!Interlock, Management!Sources,
              Management!Read, Management!SignalFrame, Management!CounterFrame,
              Management!latches
<1>3. CASE TickInSession
  BY <1>3 DEF TickInSession, Management!Compose
<1>4. CASE TickArmed
  BY <1>4 DEF TickArmed, mgmtVars
<1>5. CASE BridgeElapse
  BY <1>5 DEF BridgeElapse, Management!Elapse, Management!latches
<1>6. QED
  BY <1>1, <1>2, <1>3, <1>4, <1>5 DEF BridgeNext

\* A hard cut is taken back by the button, by a loss of power, or by the frame that wakes
\* a bridge whose Leaf bus has been quiet for the cooldown; whatever the two parts do
\* in between, no other step of either releases it.
THEOREM CutHeld == BridgeSpec => CutHeldUntilQuiet
<1>1. RearmedBusWasQuiet /\ [BridgeNext]_bridgeVars =>
        [hardLatched /\ ~hardLatched' =>
           \/ Button \/ PowerLoss
           \/ phase = "waiting_for_wake" /\ rearmed /\ leafRx >= Cooldown]_bridgeVars
  BY ReleaseStep DEF bridgeVars, mgmtVars
<1>2. BridgeSpec => []RearmedBusWasQuiet
  BY BridgeImplementsSequencer, RearmOnlyWhenQuiet, PTL DEF ImplementsSequencer
<1>3. QED
  BY <1>1, <1>2, PTL DEF BridgeSpec, CutHeldUntilQuiet

-----------------------------------------------------------------------------
(* Silence on stale data.                                                  *)

\* No input is older than `limit', as the watchdog counts ages, or the session is not.
Young(limit) ==
    sessionAge > limit => /\ \A s \in Signals : MP!SignalAge(s) <= limit
                          /\ \A c \in Counters : MP!CounterAge(c) <= limit

\* SilentOnStaleData, with how old the inputs may get in each phase: in a session the
\* watchdog's cut ends it in the tick that finds its time over, and the clock
\* waits for that tick; the wind-down adds its own length.
BridgeInv ==
    /\ composed /\ phase \in Up => ~MP!HeldFor(staleSince, StaleHard)
    /\ ticked /\ phase = "winding_down" => shutdownAge < Stage4
    /\ phase \in Up => Young(StaleLimit)
    /\ phase = "winding_down" => Young(StaleLimit + shutdownAge)
    /\ sent # {} /\ phase # "waiting_for_wake" => Young(StaleLimit + Stage4 - 1)

\* What the theorems of the two parts say of every state of the bridge.
MgmtInv == MP!TypeOK /\ MP!PhaseInv /\ MP!StaleTimed
PartsInv == TypeOK /\ MgmtInv

LEMMA BridgeConstants ==
    /\ StaleSoft \in Nat /\ StaleHard \in Nat /\ Stage4 \in Nat /\ Cap \in Nat
    /\ StaleSoft > 0 /\ Stage4 > 0
    /\ StaleLimit \in Nat /\ StaleLimit + Stage4 <= Cap
BY BridgeAssumption, ConstantTypes DEF StaleLimit

\* The same ages, or some of them new, are as young.
LEMMA YoungKept ==
    ASSUME MP!TypeOK, NEW limit \in Nat, Young(limit), UNCHANGED sessionAge,
           \A s \in Signals : MP!SignalAge(s)' \in {0, MP!SignalAge(s)},
           \A c \in Counters : MP!CounterAge(c)' \in {0, MP!CounterAge(c)}
    PROVE  sessionAge' > limit => /\ \A s \in Signals : MP!SignalAge(s)' <= limit
                                  /\ \A c \in Counters : MP!CounterAge(c)' <= limit
BY DEF Young

\* In a composed state of a session that goes on, every input is younger than the limit.
LEMMA YoungWhileUp ==
    ASSUME PartsInv, phase \in Up, composed, ~MP!HeldFor(staleSince, StaleHard)
    PROVE  Young(StaleLimit - 1)
<1>1. MP!InputsTimed
  BY DEF PartsInv, MgmtInv, MP!StaleTimed, Up
<1>2. staleSince \in Int
  BY MP!StaleAges, MgmtConstants DEF PartsInv, MgmtInv, MgmtTiming
<1>3. ASSUME NEW a \in Int, MP!Timed(a), sessionAge > StaleLimit - 1 PROVE a <= StaleLimit - 1
  BY <1>2, <1>3, BridgeConstants DEF MP!Timed, MP!HeldFor, MP!Unset, StaleLimit, PartsInv, TypeOK
<1>4. /\ \A s \in Signals : MP!SignalAge(s) \in Int
      /\ \A c \in Counters : MP!CounterAge(c) \in Int
  BY MP!AgeRanges, MgmtConstants DEF PartsInv, MgmtInv, MgmtTiming
<1>5. QED
  BY <1>1, <1>3, <1>4 DEF Young, MP!InputsTimed

LEMMA PartsTypes ==
    ASSUME PartsInv
    PROVE  /\ shutdownAge \in Nat /\ shutdownAge <= Stage4 /\ sessionAge \in Nat
           /\ \A s \in Signals : MP!SignalAge(s) \in Nat /\ MP!SignalAge(s) <= Cap
           /\ \A c \in Counters : MP!CounterAge(c) \in Nat /\ MP!CounterAge(c) <= Cap
<1>1. shutdownAge \in Nat /\ shutdownAge <= Stage4 /\ sessionAge \in Nat
  BY BridgeConstants DEF PartsInv, TypeOK
<1>2. MP!TypeOK
  BY DEF PartsInv, MgmtInv
<1>3. QED
  BY <1>1, <1>2, MP!AgeRanges, MgmtConstants DEF MgmtTiming

\* Where no input gets older and the sequencer does not move, the bounds stay.
LEMMA FramesKeepBounds ==
    ASSUME PartsInv, BridgeInv, composed' = FALSE \/ UNCHANGED <<composed, staleSince>>,
           UNCHANGED <<phase, sessionAge, shutdownAge, ticked>>, sent' = {} \/ UNCHANGED sent,
           \A s \in Signals : MP!SignalAge(s)' \in {0, MP!SignalAge(s)},
           \A c \in Counters : MP!CounterAge(c)' \in {0, MP!CounterAge(c)}
    PROVE  BridgeInv'
<1>1. /\ StaleLimit \in Nat /\ StaleLimit + shutdownAge \in Nat
      /\ StaleLimit + Stage4 - 1 \in Nat
  BY PartsTypes, BridgeConstants
<1>2. MP!TypeOK
  BY DEF PartsInv, MgmtInv
<1>3. ASSUME NEW limit \in Nat, Young(limit)
      PROVE  sessionAge' > limit => /\ \A s \in Signals : MP!SignalAge(s)' <= limit
                                    /\ \A c \in Counters : MP!CounterAge(c)' <= limit
  BY <1>2, <1>3, YoungKept
<1>4. /\ (composed /\ phase \in Up => ~MP!HeldFor(staleSince, StaleHard))'
      /\ (ticked /\ phase = "winding_down" => shutdownAge < Stage4)'
  BY DEF BridgeInv, MP!HeldFor
<1>5. /\ (phase \in Up => Young(StaleLimit))'
      /\ (phase = "winding_down" => Young(StaleLimit + shutdownAge))'
      /\ (sent # {} /\ phase # "waiting_for_wake" => Young(StaleLimit + Stage4 - 1))'
  BY <1>1, <1>3 DEF BridgeInv, Young
<1>6. QED
  BY <1>4, <1>5 DEF BridgeInv

\* A tick sees the ages it leaves, and acts on the cut they give rise to.
LEMMA TickKeepsBounds == PartsInv /\ BridgeInv /\ TickInSession => BridgeInv'
<1> SUFFICES ASSUME PartsInv, BridgeInv, TickInSession PROVE BridgeInv'
  OBVIOUS
<1> USE BridgeConstants, PartsTypes
<1>1. MP!Compose /\ MP!TypeOK /\ phase # "waiting_for_wake"
  BY SameCompose DEF TickInSession, PartsInv, MgmtInv
<1>2. /\ \A s \in Signals : MP!SignalAge(s)' = MP!SignalAge(s)
      /\ \A c \in Counters : MP!CounterAge(c)' = MP!CounterAge(c)
  BY <1>1, MP!ApplyKeepsAges, MgmtConstants DEF MgmtTiming
<1>3. sessionAge' = sessionAge \/ phase' = "waiting_for_wake"
  BY DEF TickInSession, Tick, TickUp, TickWindingDown, TickStopped, TickWaiting
<1>4. CASE TickUp(StalenessHardCut, charging)
  <2>1. /\ phase \in Up /\ Young(StaleLimit) /\ ShouldWindDown(StalenessHardCut, charging)
        /\ phase' = "winding_down" \/ (phase' \in Up /\ trigger' = "none")
        /\ phase' = "winding_down" => shutdownAge' = 0
    BY <1>4 DEF TickUp, BridgeInv, Up
  <2>session. UNCHANGED sessionAge
    BY <1>3, <2>1 DEF Up
  <2>2. Young(StaleLimit)' /\ Young(StaleLimit + Stage4 - 1)'
    BY <1>2, <2>1, <2>session DEF Young
  <2>3. phase' \in Up => ~MP!HeldFor(staleSince, StaleHard)'
    BY <2>1
    DEF ShouldWindDown, StalenessHardCut, Management!HeldFor, MP!HeldFor, Management!Unset,
        MP!Unset, Up
  <2>4. phase' = "winding_down" => Young(StaleLimit + shutdownAge)'
    BY <1>2, <2>1, <2>session DEF Young
  <2>5. QED
    BY <2>1, <2>2, <2>3, <2>4 DEF BridgeInv, Up
<1>5. CASE TickWindingDown
  <2>1. /\ phase = "winding_down" /\ Young(StaleLimit + shutdownAge) /\ UNCHANGED shutdownAge
        /\ \/ phase' = "winding_down" /\ shutdownAge < Stage4
           \/ phase' = "stopped" /\ sent' = {}
    BY <1>5 DEF TickWindingDown, NothingSent, BridgeInv
  <2>session. UNCHANGED sessionAge
    BY <1>3, <2>1
  <2>2. shutdownAge < Stage4 => Young(StaleLimit + Stage4 - 1)'
    BY <1>2, <2>1, <2>session DEF Young
  <2>3. Young(StaleLimit + shutdownAge)'
    BY <1>2, <2>1, <2>session DEF Young
  <2>4. QED
    BY <2>1, <2>2, <2>3 DEF BridgeInv, Up
<1>6. CASE TickStopped
  BY <1>6 DEF TickStopped, NothingSent, BridgeInv, Up
<1>7. QED
  BY <1>1, <1>4, <1>5, <1>6 DEF TickInSession, Tick, TickWaiting

\* The clock waits for the tick, in which a session that is over ends.
LEMMA ElapseKeepsBounds == PartsInv /\ BridgeInv /\ BridgeElapse => BridgeInv'
<1> SUFFICES ASSUME PartsInv, BridgeInv, BridgeElapse PROVE BridgeInv'
  OBVIOUS
<1> USE BridgeConstants, PartsTypes
<1>1. /\ MP!Elapse /\ MgmtInv /\ ~composed' /\ ~ticked' /\ sent' = {} /\ UNCHANGED phase
      /\ shutdownAge' = Older(shutdownAge, Stage4) /\ sessionAge' = Older(sessionAge, SessionCap)
      /\ phase = "waiting_for_wake" \/ (composed /\ ticked)
  BY SameElapse, BridgeAssumption DEF BridgeElapse, PartsInv, Elapse, Management!Elapse
<1>session. sessionAge' <= sessionAge + 1 /\ sessionAge' \in Nat
  BY <1>1 DEF Older
<1>2. CASE phase \in Up
  <2>1. composed /\ Young(StaleLimit - 1)
    BY <1>1, <1>2, YoungWhileUp DEF BridgeInv, Up
  <2>2. /\ \A s \in Signals : MP!SignalAge(s)' = MP!Older(MP!SignalAge(s))
        /\ \A c \in Counters : MP!CounterAge(c)' = MP!Older(MP!CounterAge(c))
    BY <1>1, <2>1, MP!ElapseAges, MgmtConstants DEF MgmtTiming, MgmtInv
  <2>3. Young(StaleLimit)'
    BY <1>session, <2>1, <2>2 DEF Young, MP!Older, MP!Unset
  <2>4. QED
    BY <1>1, <1>2, <2>3 DEF BridgeInv, Up
<1>3. CASE phase = "winding_down"
  <2>1. composed /\ Young(StaleLimit + shutdownAge) /\ shutdownAge < Stage4
    BY <1>1, <1>3 DEF BridgeInv
  <2>2. /\ \A s \in Signals : MP!SignalAge(s)' = MP!Older(MP!SignalAge(s))
        /\ \A c \in Counters : MP!CounterAge(c)' = MP!Older(MP!CounterAge(c))
    BY <1>1, <2>1, MP!ElapseAges, MgmtConstants DEF MgmtTiming, MgmtInv
  <2>3. shutdownAge' = shutdownAge + 1
    BY <1>1, <2>1 DEF Older, Unset
  <2>4. Young(StaleLimit + shutdownAge)'
    BY <1>session, <2>1, <2>2, <2>3 DEF Young, MP!Older, MP!Unset
  <2>5. QED
    BY <1>1, <1>3, <2>4 DEF BridgeInv, Up
<1>4. CASE phase \notin Up /\ phase # "winding_down"
  BY <1>1, <1>4 DEF BridgeInv
<1>5. QED
  BY <1>2, <1>3, <1>4

LEMMA BridgeInvStep == PartsInv /\ PartsInv' /\ BridgeInv /\ [BridgeNext]_bridgeVars => BridgeInv'
<1> SUFFICES ASSUME PartsInv, PartsInv', BridgeInv, [BridgeNext]_bridgeVars PROVE BridgeInv'
  OBVIOUS
<1> USE BridgeConstants, PartsTypes
<1>0. MP!TypeOK /\ MP!TypeOK' /\ MP!PhaseInv
  BY DEF PartsInv, MgmtInv
<1>restart. ASSUME MP!Reset
            PROVE  /\ \A s \in Signals : MP!SignalAge(s)' = 0
                   /\ \A c \in Counters : MP!CounterAge(c)' = 0
  BY <1>0, <1>restart, MP!RestartAges, MgmtConstants DEF MgmtTiming
<1>same. ASSUME UNCHANGED mgmtVars
         PROVE  /\ \A s \in Signals : MP!SignalAge(s)' = MP!SignalAge(s)
                /\ \A c \in Counters : MP!CounterAge(c)' = MP!CounterAge(c)
                /\ UNCHANGED <<composed, staleSince>>
  BY <1>same DEF mgmtVars, MP!SignalAge, MP!CounterAge, MP!ChangeAge, MP!Start
<1>1. CASE LeafFrame
  <2>1. LeafFrameSeen /\ Wakes /\ sent' = {}
    BY <1>1 DEF LeafFrame, OnIgnitionFrame, OnChargeFrame, OnOtherFrame, LeafFrameSeen
  <2>2. CASE phase = "waiting_for_wake"
    <3>1. ~composed' /\ phase' = "startup" /\ sessionAge' = 0
      BY <2>1, <2>2 DEF Wakes, LeafFrameSeen, Management!SessionStart
    <3>2. Young(StaleLimit)'
      BY <3>1 DEF Young
    <3>3. QED
      BY <2>1, <3>1, <3>2 DEF BridgeInv, Up
  <2>3. CASE phase # "waiting_for_wake"
    <3>1. UNCHANGED mgmtVars /\ UNCHANGED <<phase, sessionAge, shutdownAge, ticked>>
      BY <2>1, <2>3 DEF Wakes, LeafFrameSeen
    <3>2. QED
      BY <2>1, <3>1, <1>same, FramesKeepBounds
  <2>4. QED
    BY <2>2, <2>3
<1>still. ASSUME UNCHANGED vars
          PROVE  UNCHANGED <<phase, sessionAge, shutdownAge, ticked, sent>>
  BY <1>still DEF vars, seqVars, outVars
<1>2. CASE BatteryFrame
  <2>1. MP!BatteryFrame /\ ~composed' /\ composed' = FALSE
    BY <1>2, SameBatteryFrame
    DEF BatteryFrame, Management!BatteryFrame, Management!Cells, Management!Temperatures,
        Management!Interlock, Management!Sources, Management!Read, Management!SignalFrame,
        Management!CounterFrame
  <2>2. /\ \A s \in Signals : MP!SignalAge(s)' \in {0, MP!SignalAge(s)}
        /\ \A c \in Counters : MP!CounterAge(c)' \in {0, MP!CounterAge(c)}
    BY <1>0, <2>1, MP!FrameAges, MgmtConstants DEF MgmtTiming
  <2>3. QED
    BY <1>2, <2>1, <2>2, <1>still, FramesKeepBounds DEF BatteryFrame
<1>3. CASE Button
  <2>1. MP!Reset /\ composed' = FALSE
    BY <1>3, SameReset DEF Button, Management!Reset
  <2>2. QED
    BY <1>3, <2>1, <1>restart, <1>still, FramesKeepBounds DEF Button
<1>4. CASE TickInSession
  BY <1>4, TickKeepsBounds
<1>5. CASE TickArmed
  BY <1>5 DEF TickArmed, TickWaiting, seqVars, BridgeInv, Up
<1>6. CASE BridgeElapse
  BY <1>6, ElapseKeepsBounds
<1>7. CASE PowerLoss
  BY <1>7 DEF PowerLoss, Reset, BridgeInv, Up
<1>8. CASE UNCHANGED bridgeVars
  <2>1. UNCHANGED vars /\ UNCHANGED mgmtVars
    BY <1>8 DEF bridgeVars
  <2>2. QED
    BY <2>1, <1>same, <1>still, FramesKeepBounds
<1>9. QED
  BY <1>1, <1>2, <1>3, <1>4, <1>5, <1>6, <1>7, <1>8 DEF BridgeNext

\* The clamp to the session start hides no old input from a session that is long enough.
LEMMA YoungIsFresh == PartsInv /\ BridgeInv => SilentOnStaleData
<1> SUFFICES ASSUME PartsInv, BridgeInv, sent # {}, phase # "waiting_for_wake",
                    sessionAge >= StaleLimit + Stage4, firstApply >= StaleLimit + Stage4
             PROVE  /\ \A s \in Signals : age[s] # Unset /\ age[s] < StaleLimit + Stage4
                    /\ \A c \in Counters :
                          c \in seen /\ Management!ChangeAge(c) < StaleLimit + Stage4
  BY DEF SilentOnStaleData
<1> USE BridgeConstants, PartsTypes
<1>1. /\ MP!TypeOK
      /\ \A s \in Signals : MP!SignalAge(s) <= StaleLimit + Stage4 - 1
      /\ \A c \in Counters : MP!CounterAge(c) <= StaleLimit + Stage4 - 1
  BY DEF BridgeInv, PartsInv, MgmtInv, Young
<1>2. firstApply \in Int /\ MP!Start = firstApply
  BY <1>1, MP!StaleAges, MgmtConstants DEF MgmtTiming, MP!Start, MP!Unset
<1>3. \A s \in Signals : age[s] # Unset /\ age[s] < StaleLimit + Stage4
  <2> SUFFICES ASSUME NEW s \in Signals PROVE age[s] # Unset /\ age[s] < StaleLimit + Stage4
    OBVIOUS
  <2>1. age[s] \in Int
    BY <1>1, MP!StaleAges, MgmtConstants DEF MgmtTiming
  <2>2. QED
    BY <1>1, <1>2, <2>1 DEF MP!SignalAge, MP!Unset, Unset
<1>4. \A c \in Counters : c \in seen /\ Management!ChangeAge(c) < StaleLimit + Stage4
  <2> SUFFICES ASSUME NEW c \in Counters
               PROVE  c \in seen /\ Management!ChangeAge(c) < StaleLimit + Stage4
    OBVIOUS
  <2>1. changeAge[c] \in Int
    BY <1>1, MP!StaleAges, MgmtConstants DEF MgmtTiming
  <2>2. Management!ChangeAge(c) = MP!ChangeAge(c) /\ MP!ChangeAge(c) \in Int
    BY <2>1 DEF Management!ChangeAge, MP!ChangeAge
  <2>3. QED
    BY <1>1, <1>2, <2>2 DEF MP!CounterAge
<1>5. QED
  BY <1>3, <1>4

\* A bridge whose battery has fallen silent falls silent itself, however the Leaf, the
\* charge permission and the cuts of the other checks come in between.
THEOREM StaleBatterySilences == BridgeSpec => []SilentOnStaleData
<1>1. BridgeSpec => []TypeOK
  BY BridgeImplementsSequencer, TypeCorrect, PTL DEF ImplementsSequencer
<1>2. MP!Spec => [](MP!TypeOK /\ MP!PhaseInv /\ MP!StaleTimed)
  BY MP!WatchdogKeepsTime, MgmtConstants DEF MgmtTiming
<1>3. BridgeSpec => []PartsInv
  BY <1>1, <1>2, ManagementTheorems, PTL DEF PartsInv, MgmtInv
<1>4. BridgeInit => BridgeInv
  BY DEF BridgeInit, Init, BridgeInv, Up
<1>5. QED
  BY <1>3, <1>4, BridgeInvStep, YoungIsFresh, PTL DEF BridgeSpec
================================================================================
