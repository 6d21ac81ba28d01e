------------------------- MODULE BridgeSequencerProofs -------------------------
(***************************************************************************)
(* Theorems about BridgeSequencer, for every set of IDs, every timing that *)
(* satisfies the assumptions, and a main loop of any speed.                *)
(***************************************************************************)
EXTENDS BridgeSequencer, TLAPS

LEMMA UnsetNotAge == Unset = -1 /\ Unset \in Int /\ Unset \notin Nat
BY DEF Unset

\* Ageing a stamp keeps it in its domain.
LEMMA OlderType ==
    ASSUME NEW cap \in Nat, NEW age \in AgeUpTo(cap)
    PROVE  /\ Older(age, cap) \in AgeUpTo(cap)
           /\ age \in 0..cap => Older(age, cap) \in 0..cap
           /\ age # Unset => Older(age, cap) # Unset
           /\ age <= Older(age, cap)
BY DEF Older, AgeUpTo, Unset

\* A stamp that was just set, or cleared, is in its domain.
LEMMA FreshStampType ==
    ASSUME NEW cap \in Nat
    PROVE  0 \in AgeUpTo(cap) /\ Unset \in AgeUpTo(cap)
BY DEF AgeUpTo, Unset

LEMMA ConstantTypes ==
    /\ IgnitionQuiet \in Nat /\ IgnitionGrace \in Nat /\ IgnitionOffDelay \in Nat
    /\ ChgEndStop \in Nat /\ ChgStallTimeout \in Nat /\ ChgCmdFresh \in Nat
    /\ BusSilence \in Nat /\ Cooldown \in Nat
    /\ Stage2 \in Nat /\ Stage3 \in Nat /\ Stage4 \in Nat
    /\ SessionCap \in Nat /\ IgnitionCap \in Nat
    /\ BusSilence + 1 \in Nat /\ ChgCmdFresh + 1 \in Nat
    /\ Cooldown <= BusSilence
    /\ Period \in [TxIds -> Nat]
    /\ ChgTrans \subseteq 0..3
BY TimingAssumption, CapAssumption, TxAssumption

-----------------------------------------------------------------------------
(* Type correctness.                                                       *)

\* The decision to wind down leaves every persistence timer in its domain.
LEMMA ShouldWindDownType ==
    ASSUME TypeOK, NEW cut \in BOOLEAN, NEW authorized \in BOOLEAN,
           ShouldWindDown(cut, authorized)
    PROVE  /\ ignitionOffSince' \in AgeUpTo(IgnitionOffDelay)
           /\ chgEndSince' \in AgeUpTo(ChgEndStop)
           /\ chgStallSince' \in AgeUpTo(ChgStallTimeout)
           /\ trigger' \in Triggers
<1> USE ConstantTypes, FreshStampType
<1>1. IgnitionOffHeld \in AgeUpTo(IgnitionOffDelay)
  BY DEF TypeOK, IgnitionOffHeld, Held, AgeUpTo
<1>2. ChgEndHeld \in AgeUpTo(ChgEndStop)
  BY DEF TypeOK, ChgEndHeld, Held, AgeUpTo
<1>3. ChgStallHeld \in AgeUpTo(ChgStallTimeout)
  BY DEF TypeOK, ChgStallHeld, StallAnchor, AgeUpTo
<1>4. QED
  BY <1>1, <1>2, <1>3 DEF ShouldWindDown, TypeOK, timers, Triggers

\* The transmit loop sends configured IDs only and keeps the due times sound.
LEMMA TransmitType ==
    ASSUME TypeOK, NEW now_in, NEW timing, Transmit(now_in, timing)
    PROVE  /\ sent' \subseteq TxIds
           /\ dueIn' \in [TxIds -> Nat]
BY ConstantTypes DEF Transmit, TypeOK

LEMMA TypeStep == TypeOK /\ [Next]_vars => TypeOK'
<1> SUFFICES ASSUME TypeOK, [Next]_vars PROVE TypeOK'
  OBVIOUS
<1> USE ConstantTypes, FreshStampType
<1>1. ASSUME NEW i \in IgnitionIds, OnIgnitionFrame(i) PROVE TypeOK'
  BY <1>1 DEF OnIgnitionFrame, LeafFrameSeen, TypeOK, timers, Phases, Up, Triggers
<1>2. ASSUME NEW trans \in ChgTrans, NEW cmdActive \in BOOLEAN,
             OnChargeFrame(trans, cmdActive)
      PROVE  TypeOK'
  BY <1>2 DEF OnChargeFrame, LeafFrameSeen, TypeOK, timers, Phases, Up, Triggers
<1>3. ASSUME OnOtherFrame PROVE TypeOK'
  BY <1>3 DEF OnOtherFrame, LeafFrameSeen, TypeOK, timers, Phases, Up, Triggers
<1>4. ASSUME TickWaiting PROVE TypeOK'
  BY <1>4 DEF TickWaiting, NothingSent, TypeOK, rxVars, timers, seqVars, Triggers
<1>5. ASSUME NEW cut \in BOOLEAN, NEW authorized \in BOOLEAN, TickUp(cut, authorized)
      PROVE  TypeOK'
  <2>1. ShouldWindDown(cut, authorized) /\ Transmit(phase', sessionAge)
    BY <1>5 DEF TickUp
  <2>2. phase' \in Phases /\ shutdownAge' \in 0..Stage4
    BY <1>5 DEF TickUp, TypeOK, Phases, Up
  <2>3. QED
    BY <1>5, <2>1, <2>2, ShouldWindDownType, TransmitType DEF TickUp, TypeOK, rxVars
<1>6. ASSUME TickWindingDown PROVE TypeOK'
  BY <1>6, TransmitType
  DEF TickWindingDown, NothingSent, TypeOK, rxVars, timers, Phases, Up, Triggers
<1>7. ASSUME TickStopped PROVE TypeOK'
  BY <1>7, TransmitType
  DEF TickStopped, NothingSent, TypeOK, timers, Phases, Up, Triggers
<1>8. ASSUME Elapse PROVE TypeOK'
  <2>1. /\ sessionAge' \in 0..SessionCap
        /\ shutdownAge' \in 0..Stage4
    BY <1>8 DEF Elapse, TypeOK, Older, Unset
  <2>2. /\ leafRx' \in AgeUpTo(BusSilence + 1)
        /\ ignition' \in [IgnitionIds -> AgeUpTo(IgnitionCap)]
        /\ chgFrame' \in AgeUpTo(ChgCmdFresh + 1)
        /\ chgTransChange' \in AgeUpTo(ChgStallTimeout)
    BY <1>8, OlderType DEF Elapse, TypeOK
  <2>3. /\ ignitionOffSince' \in AgeUpTo(IgnitionOffDelay)
        /\ chgEndSince' \in AgeUpTo(ChgEndStop)
        /\ chgStallSince' \in AgeUpTo(ChgStallTimeout)
    BY <1>8, OlderType DEF Elapse, TypeOK
  <2>4. dueIn' \in [TxIds -> Nat]
    <3>1. \A id \in TxIds : dueIn[id] # 0 => dueIn[id] - 1 \in Nat
      BY DEF TypeOK
    <3>2. QED
      BY <1>8, <3>1 DEF Elapse, TypeOK
  <2>5. QED
    BY <1>8, <2>1, <2>2, <2>3, <2>4 DEF Elapse, TypeOK, Triggers
<1>9. ASSUME Reset PROVE TypeOK'
  <2>1. /\ ignition' \in [IgnitionIds -> AgeUpTo(IgnitionCap)]
        /\ dueIn' \in [TxIds -> Nat]
    BY <1>9 DEF Reset
  <2>2. /\ phase' \in Phases /\ trigger' \in Triggers
        /\ sessionAge' \in 0..SessionCap /\ shutdownAge' \in 0..Stage4
    BY <1>9 DEF Reset, Phases, Triggers
  <2>3. /\ leafRx' \in AgeUpTo(BusSilence + 1)
        /\ chgFrame' \in AgeUpTo(ChgCmdFresh + 1)
        /\ chgTransChange' \in AgeUpTo(ChgStallTimeout)
        /\ ignitionOffSince' \in AgeUpTo(IgnitionOffDelay)
        /\ chgEndSince' \in AgeUpTo(ChgEndStop)
        /\ chgStallSince' \in AgeUpTo(ChgStallTimeout)
    BY <1>9 DEF Reset
  <2>4. QED
    BY <1>9, <2>1, <2>2, <2>3 DEF Reset, TypeOK
<1>10. ASSUME UNCHANGED vars PROVE TypeOK'
  BY <1>10 DEF vars, rxVars, timers, seqVars, outVars, TypeOK
<1>11. ASSUME NEW cut \in BOOLEAN, NEW authorized \in BOOLEAN, Tick(cut, authorized)
       PROVE  TypeOK'
  BY <1>4, <1>5, <1>6, <1>7, <1>11 DEF Tick
<1>12. QED
  BY <1>1, <1>2, <1>3, <1>8, <1>9, <1>10, <1>11 DEF Next

LEMMA TypeInit == Init => TypeOK
<1> SUFFICES ASSUME Init PROVE TypeOK
  OBVIOUS
<1> USE ConstantTypes, FreshStampType
<1>1. /\ ignition \in [IgnitionIds -> AgeUpTo(IgnitionCap)]
      /\ dueIn \in [TxIds -> Nat]
  BY DEF Init
<1>2. /\ phase \in Phases /\ trigger \in Triggers
      /\ sessionAge \in 0..SessionCap /\ shutdownAge \in 0..Stage4
  BY DEF Init, Phases, Triggers
<1>3. /\ leafRx \in AgeUpTo(BusSilence + 1)
      /\ chgFrame \in AgeUpTo(ChgCmdFresh + 1)
      /\ chgTransChange \in AgeUpTo(ChgStallTimeout)
      /\ ignitionOffSince \in AgeUpTo(IgnitionOffDelay)
      /\ chgEndSince \in AgeUpTo(ChgEndStop)
      /\ chgStallSince \in AgeUpTo(ChgStallTimeout)
  BY DEF Init
<1>4. QED
  BY <1>1, <1>2, <1>3 DEF Init, TypeOK

\* Every reachable state of the sequencer is well typed: the phase machine never
\* leaves the firmware's five phases and no timer leaves its range.
THEOREM TypeCorrect == Spec => []TypeOK
BY TypeInit, TypeStep, PTL DEF Spec

-----------------------------------------------------------------------------
(* The bus is quiet before a session can start again.                      *)

\* RearmedBusWasQuiet and NeverStranded, with the types they rest on, are
\* inductive: only TickStopped arms the bridge, any frame disarms it, and in
\* between only time passes.
QuietInv == TypeOK /\ RearmedBusWasQuiet /\ NeverStranded

LEMMA QuietInit == Init => QuietInv
<1> SUFFICES ASSUME Init PROVE QuietInv
  OBVIOUS
<1>1. TypeOK
  BY TypeInit
<1>2. RearmedBusWasQuiet /\ NeverStranded
  BY DEF Init, RearmedBusWasQuiet, NeverStranded
<1>3. QED
  BY <1>1, <1>2 DEF QuietInv

LEMMA QuietStep == QuietInv /\ [Next]_vars => QuietInv'
<1> SUFFICES ASSUME QuietInv, [Next]_vars PROVE QuietInv'
  OBVIOUS
<1>0. TypeOK' /\ TypeOK
  BY TypeStep DEF QuietInv
<1> USE ConstantTypes, UnsetNotAge DEF QuietInv, RearmedBusWasQuiet, NeverStranded
<1>1. ASSUME LeafFrameSeen PROVE RearmedBusWasQuiet' /\ NeverStranded'
  BY <1>1 DEF LeafFrameSeen, Up
<1>2. ASSUME TickWaiting PROVE RearmedBusWasQuiet' /\ NeverStranded'
  BY <1>2 DEF TickWaiting, rxVars, seqVars
<1>3. ASSUME NEW cut \in BOOLEAN, NEW authorized \in BOOLEAN, TickUp(cut, authorized)
      PROVE  RearmedBusWasQuiet' /\ NeverStranded'
  BY <1>3 DEF TickUp, Up, rxVars
<1>4. ASSUME TickWindingDown PROVE RearmedBusWasQuiet' /\ NeverStranded'
  BY <1>4 DEF TickWindingDown, rxVars
<1>5. ASSUME TickStopped PROVE RearmedBusWasQuiet' /\ NeverStranded'
  BY <1>5 DEF TickStopped, GenuinelyQuiet
<1>6. ASSUME Elapse PROVE RearmedBusWasQuiet' /\ NeverStranded'
  <2>1. leafRx <= leafRx' /\ (leafRx # Unset => leafRx' # Unset)
    BY <1>0, <1>6, OlderType DEF Elapse, TypeOK
  <2>2. leafRx \in Int /\ leafRx' \in Int
    BY <1>0 DEF TypeOK, AgeUpTo
  <2>3. \A i \in IgnitionIds : ignition[i] = Unset => ignition'[i] = Unset
    BY <1>6 DEF Elapse, Older
  <2>4. UNCHANGED <<phase, rearmed, chgSeenActive>>
    BY <1>6 DEF Elapse
  <2>5. QED
    BY <2>1, <2>2, <2>3, <2>4
<1>7. ASSUME Reset PROVE RearmedBusWasQuiet' /\ NeverStranded'
  BY <1>7 DEF Reset
<1>8. ASSUME UNCHANGED vars PROVE RearmedBusWasQuiet' /\ NeverStranded'
  BY <1>8 DEF vars, rxVars, seqVars
<1>9. RearmedBusWasQuiet' /\ NeverStranded'
  BY <1>1, <1>2, <1>3, <1>4, <1>5, <1>6, <1>7, <1>8
  DEF Next, Tick, OnIgnitionFrame, OnChargeFrame, OnOtherFrame
<1>10. QED
  BY <1>0, <1>9

\* After a wind-down the bridge is armed only on a bus that has been quiet for
\* the cooldown, until the frame that wakes it, for every timing and however
\* slowly the main loop runs; nothing of ignition or charge is remembered.
THEOREM RearmOnlyWhenQuiet == Spec => []RearmedBusWasQuiet
<1>1. QuietInv => RearmedBusWasQuiet
  BY DEF QuietInv
<1>2. QED
  BY <1>1, QuietInit, QuietStep, PTL DEF Spec

\* A bridge outside the armed state has heard the Leaf bus: the re-arm test can
\* not be stuck reading zero seconds of quiet.
THEOREM NotStranded == Spec => []NeverStranded
<1>1. QuietInv => NeverStranded
  BY DEF QuietInv
<1>2. QED
  BY <1>1, QuietInit, QuietStep, PTL DEF Spec

-----------------------------------------------------------------------------
(* The sequencer implements LeafSession.                                   *)

Slow == {"59E", "5C0", "5EB"}

\* The status IDs are gated off in a wind-down at every age.
LEMMA SlowIdsGated ==
    ASSUME NEW timing, Transmit("winding_down", timing)
    PROVE  sent' \cap Slow = {}
BY DEF Transmit, Gated, ActiveDuringWindDown, Slow

LEMMA SessionInitImplied == Init => Session!SessionInit
BY DEF Init, Session!SessionInit, Up

LEMMA SessionStep ==
    QuietInv /\ [Next]_vars => [Session!SessionNext]_(Session!sessionVars)
<1> SUFFICES ASSUME QuietInv, [Next]_vars
             PROVE  [Session!SessionNext]_(Session!sessionVars)
  OBVIOUS
<1>0. /\ TypeOK /\ TypeOK' /\ RearmedBusWasQuiet
      /\ leafRx \in Int /\ leafRx' \in Int
  BY TypeStep, ConstantTypes, UnsetNotAge DEF QuietInv, TypeOK, AgeUpTo
<1> USE ConstantTypes, UnsetNotAge
<1>1. ASSUME LeafFrameSeen PROVE Session!Hear
  <2>1. phase = "waiting_for_wake" /\ rearmed => leafRx >= Cooldown /\ leafRx # Unset
    BY <1>0 DEF RearmedBusWasQuiet
  <2>2. QED
    BY <1>0, <1>1, <2>1 DEF LeafFrameSeen, Session!Hear, Up
<1>2. ASSUME TickWaiting PROVE Session!Pass
  BY <1>0, <1>2 DEF TickWaiting, NothingSent, rxVars, seqVars, Session!Pass
<1>3. ASSUME NEW cut \in BOOLEAN, NEW authorized \in BOOLEAN, TickUp(cut, authorized)
      PROVE  Session!Speak
  <2>1. /\ phase \in Up /\ phase' \in Up \cup {"winding_down"}
        /\ UNCHANGED <<leafRx, rearmed>>
    BY <1>3 DEF TickUp, Up, rxVars
  <2>2. sent' \subseteq TxIds
    BY <1>0 DEF TypeOK
  <2>3. phase' = "winding_down" => sent' \cap Slow = {}
    BY <1>3, SlowIdsGated DEF TickUp
  <2>4. QED
    BY <2>1, <2>2, <2>3 DEF Session!Speak, Up, Slow
<1>4. ASSUME TickWindingDown PROVE Session!Close
  <2>1. sent' \subseteq TxIds
    BY <1>0 DEF TypeOK
  <2>2. phase' = "winding_down" => sent' \cap Slow = {}
    BY <1>4, SlowIdsGated DEF TickWindingDown
  <2>3. phase' = "stopped" => sent' = {}
    BY <1>4 DEF TickWindingDown, NothingSent
  <2>4. /\ phase = "winding_down" /\ phase' \in {"winding_down", "stopped"}
        /\ UNCHANGED <<leafRx, rearmed>>
    BY <1>4 DEF TickWindingDown, rxVars
  <2>5. QED
    BY <2>1, <2>2, <2>3, <2>4 DEF Session!Close, Up, Slow
<1>5. ASSUME TickStopped PROVE Session!Rearm \/ Session!Pass
  <2>1. CASE GenuinelyQuiet
    <3>1. sent' \subseteq TxIds
      BY <1>0 DEF TypeOK
    <3>2. QED
      BY <1>0, <1>5, <2>1, <3>1 DEF TickStopped, GenuinelyQuiet, Session!Rearm, Up
  <2>2. CASE ~GenuinelyQuiet
    BY <1>0, <1>5, <2>2 DEF TickStopped, NothingSent, Session!Pass
  <2>3. QED
    BY <2>1, <2>2
<1>6. ASSUME Elapse PROVE Session!Pass
  <2>1. leafRx <= leafRx' /\ (leafRx # Unset <=> leafRx' # Unset)
    BY <1>0, <1>6, OlderType DEF Elapse, TypeOK, Older
  <2>2. leafRx # Unset => leafRx \in Nat /\ leafRx' \in Nat
    BY <1>0, <2>1 DEF TypeOK, AgeUpTo
  <2>3. UNCHANGED <<phase, rearmed>> /\ sent' = {}
    BY <1>6 DEF Elapse
  <2>4. QED
    BY <1>0, <2>1, <2>2, <2>3 DEF Session!Pass
<1>7. ASSUME Reset PROVE Session!PowerCycle
  BY <1>7 DEF Reset, Session!PowerCycle, Up
<1>8. ASSUME UNCHANGED vars PROVE UNCHANGED Session!sessionVars
  BY <1>8 DEF vars, rxVars, seqVars, outVars, Session!sessionVars
<1>9. QED
  BY <1>1, <1>2, <1>3, <1>4, <1>5, <1>6, <1>7, <1>8
  DEF Next, Tick, OnIgnitionFrame, OnChargeFrame, OnOtherFrame, Session!SessionNext

\* The firmware's phase machine keeps the promises of LeafSession: it speaks only
\* in sessions Leaf traffic started (and in the re-arm burst), it never reopens
\* a session it closes, the status IDs fall silent at once, and the next session
\* follows a quiet bus.
THEOREM SequencerImplementsSession == Spec => ImplementsSession
<1>1. Init => Session!SessionInit
  BY SessionInitImplied
<1>2. QED
  BY <1>1, QuietInit, QuietStep, SessionStep, PTL
  DEF Spec, ImplementsSession, Session!SessionSpec

-----------------------------------------------------------------------------
(* No session outlives a silent bus.                                       *)

\* Every frame counts as a sign of life of the bus, the charge frames too; and
\* a tick that lets the session go on has seen less than the timeout.
ChargeHeard == chgFrame = Unset \/ leafRx <= chgFrame \/ chgFrame > ChgCmdFresh
HeardAtTick == phase \in Up /\ ticked => leafRx < BusSilence

SilenceInv == QuietInv /\ SilenceBounded /\ ChargeHeard /\ HeardAtTick

\* What the comparisons of ages need to know of their types.
LEMMA AgesAreNumbers ==
    ASSUME TypeOK
    PROVE  /\ leafRx \in Int /\ chgFrame \in Int /\ sessionAge \in Nat
           /\ ignitionOffSince \in Int /\ chgEndSince \in Int
           /\ \A i \in IgnitionIds : ignition[i] \in Int /\ ignition[i] >= -1
           /\ leafRx >= -1 /\ chgFrame >= -1
           /\ ignitionOffSince # Unset => ignitionOffSince \in Nat
           /\ chgEndSince # Unset => chgEndSince \in Nat
           /\ \A i \in IgnitionIds : ignition[i] # Unset => ignition[i] \in Nat
BY ConstantTypes, UnsetNotAge DEF TypeOK, AgeUpTo

LEMMA SilenceStep ==
    ASSUME PromptLoop, ChgCmdFresh < BusSilence, SilenceInv, [Next]_vars
    PROVE  SilenceBounded' /\ ChargeHeard' /\ HeardAtTick'
<1>0. /\ TypeOK /\ TypeOK' /\ NeverStranded
      /\ leafRx \in Int /\ chgFrame \in Int /\ leafRx' \in Int /\ chgFrame' \in Int
      /\ leafRx' >= -1 /\ chgFrame' >= -1
  <2>1. TypeOK /\ TypeOK' /\ NeverStranded
    BY TypeStep DEF SilenceInv, QuietInv
  <2>2. leafRx' \in Int /\ chgFrame' \in Int /\ leafRx' >= -1 /\ chgFrame' >= -1
    BY <2>1, ConstantTypes, UnsetNotAge DEF TypeOK, AgeUpTo
  <2>3. QED
    BY <2>1, <2>2, AgesAreNumbers
<1> USE ConstantTypes, UnsetNotAge
    DEF SilenceInv, SilenceBounded, ChargeHeard, HeardAtTick
<1>1. ASSUME NEW i \in IgnitionIds, OnIgnitionFrame(i)
      PROVE  SilenceBounded' /\ ChargeHeard' /\ HeardAtTick'
  BY <1>0, <1>1 DEF OnIgnitionFrame, LeafFrameSeen
<1>2. ASSUME NEW trans, NEW cmdActive, OnChargeFrame(trans, cmdActive)
      PROVE  SilenceBounded' /\ ChargeHeard' /\ HeardAtTick'
  BY <1>0, <1>2 DEF OnChargeFrame, LeafFrameSeen
<1>3. ASSUME OnOtherFrame PROVE SilenceBounded' /\ ChargeHeard' /\ HeardAtTick'
  BY <1>0, <1>3 DEF OnOtherFrame, LeafFrameSeen
<1>4. ASSUME TickWaiting \/ TickWindingDown \/ TickStopped
      PROVE  SilenceBounded' /\ ChargeHeard' /\ HeardAtTick'
  <2>1. phase' \notin Up /\ UNCHANGED <<leafRx, chgFrame>>
    BY <1>4 DEF TickWaiting, TickWindingDown, TickStopped, rxVars, seqVars, Up
  <2>2. QED
    BY <2>1
<1>5. ASSUME NEW cut \in BOOLEAN, NEW authorized \in BOOLEAN, TickUp(cut, authorized)
      PROVE  SilenceBounded' /\ ChargeHeard' /\ HeardAtTick'
  <2>1. phase \in Up /\ UNCHANGED <<leafRx, chgFrame>>
    BY <1>5 DEF TickUp, rxVars
  <2>2. ASSUME phase' \in Up PROVE leafRx < BusSilence
    <3>1. trigger' = "none" /\ ShouldWindDown(cut, authorized)
      BY <1>5, <2>2 DEF TickUp, Up
    <3>2. ChgFresh \/ ~SilenceFires
      BY <3>1 DEF ShouldWindDown, ChargeActive
    <3>3. leafRx # Unset
      BY <1>0, <2>1 DEF NeverStranded, Up
    <3>4. QED
      BY <1>0, <3>2, <3>3 DEF ChgFresh, SilenceFires
  <2>3. QED
    BY <1>0, <2>1, <2>2
<1>6. ASSUME Elapse PROVE SilenceBounded' /\ ChargeHeard' /\ HeardAtTick'
  <2>1. ticked /\ ~ticked' /\ phase' = phase
        /\ leafRx' = Older(leafRx, BusSilence + 1)
        /\ chgFrame' = Older(chgFrame, ChgCmdFresh + 1)
    BY <1>6 DEF Elapse
  <2>2. SilenceBounded' /\ HeardAtTick'
    BY <1>0, <2>1 DEF Older
  <2>3. ChargeHeard'
    BY <1>0, <2>1 DEF Older
  <2>4. QED
    BY <2>2, <2>3
<1>7. ASSUME Reset PROVE SilenceBounded' /\ ChargeHeard' /\ HeardAtTick'
  BY <1>7 DEF Reset, Up
<1>8. ASSUME UNCHANGED vars PROVE SilenceBounded' /\ ChargeHeard' /\ HeardAtTick'
  BY <1>8 DEF vars, rxVars, seqVars, outVars
<1>9. QED
  BY <1>1, <1>2, <1>3, <1>4, <1>5, <1>6, <1>7, <1>8 DEF Next, Tick

\* With a main loop that keeps up, no session outlives a silent bus by more
\* than the timeout, for every timing by which a charge command is stale before
\* the bus counts as silent: the authorised charge, which returns before the
\* silence test, cannot hold the session either.
THEOREM SilenceEndsSession ==
    ASSUME PromptLoop, ChgCmdFresh < BusSilence
    PROVE  Spec => []SilenceBounded
<1>1. Init => SilenceInv
  BY QuietInit DEF Init, SilenceInv, SilenceBounded, ChargeHeard, HeardAtTick, Up
<1>2. SilenceInv /\ [Next]_vars => SilenceInv'
  BY QuietStep, SilenceStep DEF SilenceInv
<1>3. SilenceInv => SilenceBounded
  BY DEF SilenceInv
<1>4. QED
  BY <1>1, <1>2, <1>3, PTL DEF Spec

-----------------------------------------------------------------------------
(* A reappearing ignition cancels.                                         *)

\* Seen since the last tick; a session no tick has looked at yet is as young.
Recent(i) == ignition[i] = 0 \/ (ignition[i] = 1 /\ ~ticked)
NewSession == sessionAge = 0 \/ (sessionAge = 1 /\ ~ticked)

\* No ID was seen for the quiet time and as long as a hold timer has run, but
\* for one that the next tick will meet, and cancel the timer.  The timers may
\* be left over from an earlier session, whose ignition is forgotten.
QuietFor(i, since) ==
    ignition[i] = Unset \/ Recent(i) \/ ignition[i] > IgnitionQuiet + since

OffHoldInv ==
    ignitionOffSince # Unset =>
        /\ NewSession \/ sessionAge >= IgnitionGrace + ignitionOffSince
        /\ \A i \in IgnitionIds : QuietFor(i, ignitionOffSince)
EndHoldInv ==
    chgEndSince # Unset => \A i \in IgnitionIds : QuietFor(i, chgEndSince)
NewSessionInv == NewSession => \A i \in IgnitionIds : ignition[i] <= sessionAge

HoldInv == phase \in Up => OffHoldInv /\ EndHoldInv /\ NewSessionInv

IgnitionInv == QuietInv /\ HoldInv /\ IgnitionCancels

\* The trigger that a tick takes, and the timers of a session that goes on.
LEMMA TickCancels ==
    ASSUME IgnitionQuiet >= 1, IgnitionIds # {}, IgnitionInv, phase \in Up,
           NEW cut \in BOOLEAN, NEW authorized \in BOOLEAN,
           ShouldWindDown(cut, authorized), UNCHANGED <<ignition, sessionAge>>
    PROVE  /\ IgnitionCancels'
           /\ trigger' = "none" =>
                /\ ignitionOffSince' # Unset =>
                      /\ sessionAge >= IgnitionGrace + ignitionOffSince'
                      /\ \A i \in IgnitionIds :
                            ignition[i] > IgnitionQuiet + ignitionOffSince'
                /\ chgEndSince' # Unset =>
                      \A i \in IgnitionIds :
                            ignition[i] = Unset \/ ignition[i] > IgnitionQuiet + chgEndSince'
<1>0. TypeOK /\ HoldInv /\ OffHoldInv /\ EndHoldInv /\ NewSessionInv
  BY DEF IgnitionInv, QuietInv, HoldInv
<1> USE ConstantTypes, UnsetNotAge
<1>1. ASSUME IgnitionOffDetected
      PROVE  /\ sessionAge >= IgnitionGrace + IgnitionOffHeld
             /\ \A i \in IgnitionIds : ignition[i] > IgnitionQuiet + IgnitionOffHeld
             /\ IgnitionOffHeld \in Nat
  <2>1. \A i \in IgnitionIds : /\ ignition[i] # Unset /\ ignition[i] > IgnitionQuiet
                              /\ ignition[i] \in Nat
    BY <1>0, <1>1, AgesAreNumbers DEF IgnitionOffDetected, RunStateFresh
  <2>2. sessionAge >= IgnitionGrace /\ sessionAge \in Nat
    BY <1>0, <1>1, AgesAreNumbers DEF IgnitionOffDetected
  <2>3. CASE ignitionOffSince = Unset
    BY <1>1, <2>1, <2>2, <2>3 DEF IgnitionOffHeld, Held
  <2>4. CASE ignitionOffSince # Unset
    <3>1. IgnitionOffHeld = ignitionOffSince /\ ignitionOffSince \in Nat
      BY <1>0, <1>1, <2>4, AgesAreNumbers DEF IgnitionOffHeld, Held
    <3>2. \A i \in IgnitionIds : ~Recent(i)
      BY <2>1 DEF Recent
    <3>3. \A i \in IgnitionIds : ignition[i] > IgnitionQuiet + ignitionOffSince
      BY <1>0, <2>1, <2>4, <3>2 DEF OffHoldInv, QuietFor
    <3>4. ~NewSession
      <4>1. PICK i \in IgnitionIds : TRUE
        OBVIOUS
      <4>2. QED
        BY <1>0, <2>1, <4>1 DEF NewSessionInv, NewSession
    <3>5. QED
      BY <1>0, <2>4, <3>1, <3>3, <3>4 DEF OffHoldInv
  <2>5. QED
    BY <2>3, <2>4
<1>2. ASSUME ~RunStateFresh, chgSeenActive
      PROVE  /\ \A i \in IgnitionIds :
                   ignition[i] = Unset \/ ignition[i] > IgnitionQuiet + ChgEndHeld
             /\ ChgEndHeld \in Nat
  <2>1. \A i \in IgnitionIds : ignition[i] = Unset \/
              (ignition[i] > IgnitionQuiet /\ ignition[i] \in Nat)
    BY <1>0, <1>2, AgesAreNumbers DEF RunStateFresh
  <2>2. CASE chgEndSince = Unset
    BY <1>2, <2>1, <2>2 DEF ChgEndHeld, Held
  <2>3. CASE chgEndSince # Unset
    <3>1. ChgEndHeld = chgEndSince /\ chgEndSince \in Nat
      BY <1>0, <1>2, <2>3, AgesAreNumbers DEF ChgEndHeld, Held
    <3>2. \A i \in IgnitionIds : ~Recent(i)
      BY <2>1 DEF Recent
    <3>3. QED
      BY <1>0, <2>1, <2>3, <3>1, <3>2 DEF EndHoldInv, QuietFor
  <2>4. QED
    BY <2>2, <2>3
<1>3. IgnitionOffHeld # Unset <=> IgnitionOffDetected
  BY <1>0, AgesAreNumbers DEF IgnitionOffHeld, Held
<1>4. ChgEndHeld # Unset <=> chgSeenActive /\ ~RunStateFresh
  BY <1>0, AgesAreNumbers DEF ChgEndHeld, Held
<1>5. /\ \A i \in IgnitionIds : ignition[i] \in Int
      /\ sessionAge \in Nat
  BY <1>0, AgesAreNumbers
<1>6. CASE cut \/ (ChargeActive /\ authorized)
  <2>1. trigger' # "ignition_off" /\ trigger' # "chg_end"
    BY <1>6 DEF ShouldWindDown
  <2>2. trigger' = "none" => ignitionOffSince' = Unset /\ chgEndSince' = Unset
    BY <1>6 DEF ShouldWindDown
  <2>3. QED
    BY <2>1, <2>2 DEF IgnitionCancels
<1>7. CASE ~cut /\ ~(ChargeActive /\ authorized)
  <2>1. CASE IgnitionOffFires
    <3>1. trigger' = "ignition_off"
      BY <1>7, <2>1 DEF ShouldWindDown
    <3>2. IgnitionOffDetected /\ IgnitionOffHeld >= IgnitionOffDelay
      BY <1>3, <2>1 DEF IgnitionOffFires
    <3>3. QED
      BY <1>1, <1>5, <3>1, <3>2 DEF IgnitionCancels
  <2>2. CASE ~IgnitionOffFires /\ ChgEndFires
    <3>1. trigger' = "chg_end"
      BY <1>7, <2>2 DEF ShouldWindDown
    <3>2. chgSeenActive /\ ~RunStateFresh /\ ChgEndHeld >= ChgEndStop
      BY <1>4, <2>2 DEF ChgEndFires
    <3>3. QED
      BY <1>2, <1>5, <3>1, <3>2 DEF IgnitionCancels
  <2>3. CASE ~IgnitionOffFires /\ ~ChgEndFires
    <3>1. /\ trigger' \in {"none", "chg_stall", "silence"}
          /\ ignitionOffSince' = IgnitionOffHeld /\ chgEndSince' = ChgEndHeld
      BY <1>7, <2>3 DEF ShouldWindDown
    <3>2. QED
      BY <1>1, <1>2, <1>3, <1>4, <3>1 DEF IgnitionCancels
  <2>4. QED
    BY <2>1, <2>2, <2>3
<1>8. QED
  BY <1>6, <1>7

\* A frame wakes an armed bridge, which remembers no ignition, or is one more
\* of a session; either way the next tick meets what it brought.
LEMMA FrameKeepsHold ==
    ASSUME IgnitionInv, LeafFrameSeen,
           \A i \in IgnitionIds : ignition'[i] = 0 \/ ignition'[i] = ignition[i]
    PROVE  HoldInv' /\ IgnitionCancels'
<1>0. TypeOK /\ RearmedBusWasQuiet
  BY DEF IgnitionInv, QuietInv
<1>1. /\ trigger' = "none" /\ ticked' = ticked
      /\ ignitionOffSince' = ignitionOffSince /\ chgEndSince' = chgEndSince
  BY DEF LeafFrameSeen, timers
<1>2. CASE phase = "waiting_for_wake"
  <2>1. sessionAge' = 0 /\ \A i \in IgnitionIds : ignition'[i] = 0 \/ ignition'[i] = Unset
    BY <1>0, <1>2 DEF LeafFrameSeen, RearmedBusWasQuiet
  <2>2. QED
    BY <1>1, <2>1, UnsetNotAge
    DEF HoldInv, OffHoldInv, EndHoldInv, NewSessionInv, NewSession, QuietFor, Recent,
        IgnitionCancels
<1>3. CASE phase # "waiting_for_wake"
  <2>1. phase' = phase /\ sessionAge' = sessionAge
    BY <1>3 DEF LeafFrameSeen
  <2>2. sessionAge \in Nat
    BY <1>0, AgesAreNumbers
  <2>3. QED
    BY <1>1, <2>1, <2>2
    DEF IgnitionInv, HoldInv, OffHoldInv, EndHoldInv, NewSessionInv, NewSession, QuietFor,
        Recent, IgnitionCancels
<1>4. QED
  BY <1>2, <1>3

LEMMA ElapseKeepsHold ==
    ASSUME PromptLoop, SessionCap > 1, IgnitionInv, Elapse
    PROVE  HoldInv'
<1> SUFFICES ASSUME phase \in Up PROVE OffHoldInv' /\ EndHoldInv' /\ NewSessionInv'
  BY DEF Elapse, HoldInv
<1>0. TypeOK /\ OffHoldInv /\ EndHoldInv /\ NewSessionInv
  BY DEF IgnitionInv, QuietInv, HoldInv
<1> USE ConstantTypes, UnsetNotAge
<1>1. /\ ticked /\ ~ticked'
      /\ sessionAge' = Older(sessionAge, SessionCap)
      /\ \A i \in IgnitionIds : ignition'[i] = Older(ignition[i], IgnitionCap)
      /\ ignitionOffSince' = Older(ignitionOffSince, IgnitionOffDelay)
      /\ chgEndSince' = Older(chgEndSince, ChgEndStop)
  BY DEF Elapse
<1>2. /\ sessionAge' = IF sessionAge >= SessionCap THEN sessionAge ELSE sessionAge + 1
      /\ sessionAge \in Nat
  BY <1>0, <1>1, AgesAreNumbers DEF Older
<1>3. /\ IgnitionGrace + IgnitionOffDelay <= SessionCap
      /\ IgnitionQuiet + IgnitionOffDelay < IgnitionCap
      /\ IgnitionQuiet + ChgEndStop < IgnitionCap
  BY CapAssumption
<1>4. \A i \in IgnitionIds :
         /\ ignition[i] \in Int /\ ignition[i] >= -1
         /\ ignition[i] = Unset => ignition'[i] = Unset
         /\ ignition[i] # Unset =>
              ignition'[i] = IF ignition[i] >= IgnitionCap THEN ignition[i] ELSE ignition[i] + 1
         /\ Recent(i) => ignition[i] = 0 /\ ignition'[i] = 1
  <2>1. IgnitionCap > 0
    BY <1>3
  <2>2. QED
    BY <1>0, <1>1, <2>1, AgesAreNumbers DEF Older, Recent
<1>5. (ignitionOffSince # Unset /\ ignitionOffSince \in 0..IgnitionOffDelay)
      \/ ignitionOffSince = Unset
  BY <1>0 DEF TypeOK, AgeUpTo
<1>6. (chgEndSince # Unset /\ chgEndSince \in 0..ChgEndStop) \/ chgEndSince = Unset
  BY <1>0 DEF TypeOK, AgeUpTo
<1>7. NewSession => sessionAge = 0 /\ sessionAge' = 1
  BY <1>1, <1>2 DEF NewSession
<1>8. NewSessionInv'
  <2>1. NewSession' => sessionAge = 0 /\ sessionAge' = 1
    BY <1>1, <1>2 DEF NewSession
  <2>2. QED
    BY <1>0, <1>4, <2>1 DEF NewSessionInv, NewSession
<1>9. OffHoldInv'
  <2> SUFFICES ASSUME ignitionOffSince' # Unset
               PROVE  /\ NewSession' \/ sessionAge' >= IgnitionGrace + ignitionOffSince'
                      /\ \A i \in IgnitionIds : QuietFor(i, ignitionOffSince)'
    BY DEF OffHoldInv
  <2>1. /\ ignitionOffSince # Unset /\ ignitionOffSince \in 0..IgnitionOffDelay
        /\ ignitionOffSince' \in 0..IgnitionOffDelay
        /\ ignitionOffSince' <= ignitionOffSince + 1
    BY <1>1, <1>5 DEF Older
  <2>2. NewSession' \/ sessionAge' >= IgnitionGrace + ignitionOffSince'
    BY <1>0, <1>1, <1>2, <1>3, <1>7, <2>1 DEF OffHoldInv, NewSession
  <2>3. \A i \in IgnitionIds : QuietFor(i, ignitionOffSince)'
    BY <1>0, <1>1, <1>3, <1>4, <2>1 DEF OffHoldInv, QuietFor, Recent
  <2>4. QED
    BY <2>2, <2>3
<1>10. EndHoldInv'
  <2> SUFFICES ASSUME chgEndSince' # Unset
               PROVE  \A i \in IgnitionIds : QuietFor(i, chgEndSince)'
    BY DEF EndHoldInv
  <2>1. /\ chgEndSince # Unset /\ chgEndSince \in 0..ChgEndStop
        /\ chgEndSince' \in 0..ChgEndStop /\ chgEndSince' <= chgEndSince + 1
    BY <1>1, <1>6 DEF Older
  <2>2. QED
    BY <1>0, <1>1, <1>3, <1>4, <2>1 DEF EndHoldInv, QuietFor, Recent
<1>11. QED
  BY <1>8, <1>9, <1>10

LEMMA IgnitionStep ==
    ASSUME PromptLoop, SessionCap > 1, IgnitionQuiet >= 1, IgnitionIds # {},
           IgnitionInv, [Next]_vars
    PROVE  HoldInv' /\ IgnitionCancels'
<1>0. TypeOK /\ QuietInv
  BY DEF IgnitionInv, QuietInv
<1> USE UnsetNotAge
<1>1. ASSUME NEW i \in IgnitionIds, OnIgnitionFrame(i)
      PROVE  HoldInv' /\ IgnitionCancels'
  BY <1>0, <1>1, FrameKeepsHold DEF OnIgnitionFrame, TypeOK
<1>2. ASSUME NEW trans, NEW cmdActive, OnChargeFrame(trans, cmdActive)
      PROVE  HoldInv' /\ IgnitionCancels'
  BY <1>2, FrameKeepsHold DEF OnChargeFrame
<1>3. ASSUME OnOtherFrame PROVE HoldInv' /\ IgnitionCancels'
  BY <1>3, FrameKeepsHold DEF OnOtherFrame
<1>4. ASSUME TickWaiting \/ TickWindingDown \/ TickStopped
      PROVE  HoldInv' /\ IgnitionCancels'
  <2>1. phase' \notin Up /\ trigger' = "none"
    BY <1>4 DEF TickWaiting, TickWindingDown, TickStopped, seqVars, Up
  <2>2. QED
    BY <2>1 DEF HoldInv, IgnitionCancels
<1>5. ASSUME NEW cut \in BOOLEAN, NEW authorized \in BOOLEAN, TickUp(cut, authorized)
      PROVE  HoldInv' /\ IgnitionCancels'
  <2>1. /\ phase \in Up /\ ShouldWindDown(cut, authorized)
        /\ UNCHANGED <<ignition, sessionAge>> /\ ticked'
    BY <1>5 DEF TickUp, rxVars
  <2>2. IgnitionCancels'
    BY <2>1, TickCancels
  <2>3. ASSUME phase' \in Up PROVE OffHoldInv' /\ EndHoldInv' /\ NewSessionInv'
    <3>1. trigger' = "none"
      BY <1>5, <2>3 DEF TickUp, Up
    <3>2. OffHoldInv' /\ EndHoldInv'
      BY <2>1, <3>1, TickCancels DEF OffHoldInv, EndHoldInv, QuietFor
    <3>3. NewSessionInv'
      BY <2>1 DEF IgnitionInv, HoldInv, NewSessionInv, NewSession
    <3>4. QED
      BY <3>2, <3>3
  <2>4. QED
    BY <2>2, <2>3 DEF HoldInv
<1>6. ASSUME Elapse PROVE HoldInv' /\ IgnitionCancels'
  <2>1. trigger' = "none"
    BY <1>6 DEF Elapse
  <2>2. QED
    BY <1>6, <2>1, ElapseKeepsHold DEF IgnitionCancels
<1>7. ASSUME Reset PROVE HoldInv' /\ IgnitionCancels'
  BY <1>7 DEF Reset, HoldInv, IgnitionCancels, Up
<1>8. ASSUME UNCHANGED vars PROVE HoldInv' /\ IgnitionCancels'
  BY <1>8 DEF vars, rxVars, timers, seqVars, outVars, IgnitionInv, HoldInv, OffHoldInv,
     EndHoldInv, NewSessionInv, NewSession, QuietFor, Recent, IgnitionCancels
<1>9. QED
  BY <1>1, <1>2, <1>3, <1>4, <1>5, <1>6, <1>7, <1>8 DEF Next, Tick

\* With a main loop that keeps up, the triggers that time the ignition away fire
\* only when no ignition ID was seen for the quiet time and the whole hold time,
\* wherever the frames fell between the ticks and whatever the timers kept of an
\* earlier session.
THEOREM ReappearingIgnitionCancels ==
    ASSUME PromptLoop, SessionCap > 1, IgnitionQuiet >= 1, IgnitionIds # {}
    PROVE  Spec => []IgnitionCancels
<1>1. Init => IgnitionInv
  BY QuietInit DEF Init, IgnitionInv, HoldInv, IgnitionCancels, Up
<1>2. IgnitionInv /\ [Next]_vars => IgnitionInv'
  BY QuietStep, IgnitionStep DEF IgnitionInv
<1>3. IgnitionInv => IgnitionCancels
  BY DEF IgnitionInv
<1>4. QED
  BY <1>1, <1>2, <1>3, PTL DEF Spec

-----------------------------------------------------------------------------
(* A car that is switched off ends its session in time.                    *)

\* A charge that is active has been seen since the bridge was armed.
ActiveSeen == ChargeActive => chgSeenActive

\* The ignition has been off, and the grace period over, for n units.
OffFor(n) == /\ sessionAge >= IgnitionGrace + n
             /\ \A i \in IgnitionIds : ignition[i] # Unset /\ ignition[i] > IgnitionQuiet + n

\* The hold timer has run for as long as that, but for the unit that the next tick will
\* look at; and it stops at the delay.
OffTimed ==
    phase \in Up /\ ~chgSeenActive =>
        \A n \in 0..IgnitionOffDelay :
            /\ ticked /\ OffFor(n) =>
                  ignitionOffSince # Unset /\ ignitionOffSince >= n
            /\ ~ticked /\ OffFor(n + 1) =>
                  /\ ignitionOffSince # Unset
                  /\ ignitionOffSince >= n + 1 \/ ignitionOffSince = IgnitionOffDelay

OffInv == SilenceInv /\ ActiveSeen /\ OffTimed /\ SwitchedOffSessionEnds

LEMMA OffForGoal ==
    ASSUME TypeOK
    PROVE  SwitchedOffSessionEnds <=>
              ~(phase \in Up /\ ticked /\ ~chgSeenActive /\ OffFor(IgnitionOffDelay))
BY AgesAreNumbers, ConstantTypes DEF SwitchedOffSessionEnds, OffFor

LEMMA OffForGoalNext ==
    ASSUME TypeOK'
    PROVE  SwitchedOffSessionEnds' <=>
              ~(phase' \in Up /\ ticked' /\ ~chgSeenActive' /\ OffFor(IgnitionOffDelay)')
<1>1. \A i \in IgnitionIds : ignition'[i] \in Int
  BY ConstantTypes, UnsetNotAge DEF TypeOK, AgeUpTo
<1>2. QED
  BY <1>1, ConstantTypes DEF SwitchedOffSessionEnds, OffFor

\* No frame has the ignition off for longer.
LEMMA FrameKeepsOff ==
    ASSUME IgnitionIds # {}, OffInv, LeafFrameSeen, chgSeenActive' \in {TRUE, chgSeenActive},
           TypeOK',
           \A i \in IgnitionIds : ignition'[i] = 0 \/ ignition'[i] = ignition[i]
    PROVE  OffTimed' /\ SwitchedOffSessionEnds'
<1>0. TypeOK /\ RearmedBusWasQuiet
  BY DEF OffInv, SilenceInv, QuietInv
<1> USE ConstantTypes, UnsetNotAge
<1>1. ticked' = ticked /\ ignitionOffSince' = ignitionOffSince
  BY DEF LeafFrameSeen, timers
<1>2. ASSUME NEW n \in Nat, OffFor(n)', phase' \in Up
      PROVE  OffFor(n) /\ phase \in Up
  <2>1. PICK i \in IgnitionIds : TRUE
    OBVIOUS
  <2>2. \A j \in IgnitionIds : ignition'[j] = ignition[j] /\ ignition[j] # Unset
    BY <1>2 DEF OffFor
  <2>3. phase # "waiting_for_wake"
    BY <1>0, <2>1, <2>2 DEF RearmedBusWasQuiet
  <2>4. phase' = phase /\ sessionAge' = sessionAge
    BY <2>3 DEF LeafFrameSeen
  <2>5. QED
    BY <1>2, <2>2, <2>4 DEF OffFor
<1>3. ~chgSeenActive' => ~chgSeenActive
  OBVIOUS
<1>4. SwitchedOffSessionEnds'
  BY <1>0, <1>1, <1>2, <1>3, OffForGoal, OffForGoalNext DEF OffInv
<1>5. OffTimed'
  <2> SUFFICES ASSUME phase' \in Up, ~chgSeenActive', NEW n \in 0..IgnitionOffDelay
               PROVE  /\ ticked /\ OffFor(n)' =>
                            ignitionOffSince # Unset /\ ignitionOffSince >= n
                      /\ ~ticked /\ OffFor(n + 1)' =>
                            /\ ignitionOffSince # Unset
                            /\ ignitionOffSince >= n + 1 \/ ignitionOffSince = IgnitionOffDelay
    BY <1>1 DEF OffTimed
  <2>1. n \in Nat /\ n + 1 \in Nat
    OBVIOUS
  <2>2. CASE OffFor(n)' \/ OffFor(n + 1)'
    <3>1. phase \in Up /\ ~chgSeenActive /\ (OffFor(n)' => OffFor(n))
          /\ (OffFor(n + 1)' => OffFor(n + 1))
      BY <1>2, <1>3, <2>1, <2>2
    <3>2. QED
      BY <3>1 DEF OffInv, OffTimed
  <2>3. QED
    BY <2>2
<1>6. QED
  BY <1>4, <1>5

\* A tick that leaves the session going has looked at the timer.
LEMMA TickKeepsOff ==
    ASSUME OffInv, TypeOK', NEW cut \in BOOLEAN, NEW authorized \in BOOLEAN,
           TickUp(cut, authorized)
    PROVE  OffTimed' /\ SwitchedOffSessionEnds'
<1>0. TypeOK /\ ActiveSeen /\ OffTimed
  BY DEF OffInv, SilenceInv, QuietInv
<1> USE ConstantTypes, UnsetNotAge
<1>1. /\ phase \in Up /\ ticked' /\ chgSeenActive' = chgSeenActive
      /\ UNCHANGED <<ignition, sessionAge>> /\ ShouldWindDown(cut, authorized)
  BY DEF TickUp, rxVars
<1> SUFFICES ASSUME phase' \in Up, ~chgSeenActive
             PROVE  \A n \in 0..IgnitionOffDelay :
                       OffFor(n) => /\ ignitionOffSince' # Unset /\ ignitionOffSince' >= n
                                    /\ n # IgnitionOffDelay
  <2>1. \A n \in Nat : OffFor(n)' <=> OffFor(n)
    BY <1>1 DEF OffFor
  <2>2. QED
    BY <1>1, <2>1, OffForGoalNext DEF OffTimed
<1>2. trigger' = "none"
  BY DEF TickUp, Up
<1>3. ~(ChargeActive /\ authorized)
  BY <1>0 DEF ActiveSeen
<1>4. ~IgnitionOffFires /\ ignitionOffSince' = IgnitionOffHeld
  BY <1>1, <1>2, <1>3 DEF ShouldWindDown
<1>5. ASSUME NEW n \in 0..IgnitionOffDelay, OffFor(n)
      PROVE  ignitionOffSince' # Unset /\ ignitionOffSince' >= n /\ n # IgnitionOffDelay
  <2>1. IgnitionOffDetected
    BY <1>0, <1>5, AgesAreNumbers DEF OffFor, IgnitionOffDetected, RunStateFresh
  <2>2. IgnitionOffHeld = Held(ignitionOffSince) /\ IgnitionOffHeld \in Nat
    BY <1>0, <2>1, AgesAreNumbers DEF IgnitionOffHeld, Held
  <2>3. Held(ignitionOffSince) >= n
    <3>1. CASE n = 0
      BY <2>2, <3>1
    <3>2. CASE n > 0 /\ ticked
      BY <1>0, <1>1, <1>5, <3>2 DEF OffTimed, Held
    <3>3. CASE n > 0 /\ ~ticked
      <4>1. n - 1 \in 0..IgnitionOffDelay /\ (n - 1) + 1 = n
        BY <3>3
      <4>2. ignitionOffSince # Unset
            /\ (ignitionOffSince >= n \/ ignitionOffSince = IgnitionOffDelay)
        BY <1>0, <1>1, <1>5, <3>3, <4>1 DEF OffTimed
      <4>3. QED
        BY <4>2 DEF Held
    <3>4. ticked \in BOOLEAN
      BY <1>0 DEF TypeOK
    <3>5. QED
      BY <3>1, <3>2, <3>3, <3>4
  <2>4. QED
    BY <1>4, <2>2, <2>3 DEF IgnitionOffFires
<1>6. QED
  BY <1>5

\* What has been off for n + 1 units was off for n one unit ago.
LEMMA ElapseKeepsOff ==
    ASSUME PromptLoop, OffInv, Elapse
    PROVE  OffTimed' /\ SwitchedOffSessionEnds'
<1>0. TypeOK /\ OffTimed
  BY DEF OffInv, SilenceInv, QuietInv
<1> USE ConstantTypes, UnsetNotAge
<1>1. /\ ticked /\ ~ticked' /\ phase' = phase /\ chgSeenActive' = chgSeenActive
      /\ sessionAge' <= sessionAge + 1
      /\ ignitionOffSince' = Older(ignitionOffSince, IgnitionOffDelay)
      /\ \A i \in IgnitionIds : ignition'[i] = Older(ignition[i], IgnitionCap)
  BY <1>0, AgesAreNumbers DEF Elapse, Older
<1>2. sessionAge' \in Nat
  BY <1>0, AgesAreNumbers DEF Elapse, Older
<1>3. ASSUME NEW n \in 0..IgnitionOffDelay, OffFor(n + 1)' PROVE OffFor(n)
  <2>1. sessionAge >= IgnitionGrace + n
    BY <1>0, <1>1, <1>2, <1>3, AgesAreNumbers DEF OffFor
  <2>2. ASSUME NEW i \in IgnitionIds
        PROVE  ignition[i] # Unset /\ ignition[i] > IgnitionQuiet + n
    <3>1. ignition'[i] = Older(ignition[i], IgnitionCap) /\ ignition[i] \in Int
      BY <1>0, <1>1, AgesAreNumbers
    <3>2. ignition'[i] # Unset /\ ignition'[i] > IgnitionQuiet + (n + 1)
      BY <1>3 DEF OffFor
    <3>3. QED
      BY <3>1, <3>2 DEF Older
  <2>3. QED
    BY <2>1, <2>2 DEF OffFor
<1>4. ignitionOffSince # Unset => ignitionOffSince \in 0..IgnitionOffDelay
  BY <1>0 DEF TypeOK, AgeUpTo
<1>5. OffTimed'
  BY <1>0, <1>1, <1>3, <1>4 DEF OffTimed, Older
<1>6. QED
  BY <1>1, <1>5 DEF SwitchedOffSessionEnds

LEMMA ActiveSeenStep ==
    ASSUME ChgCmdFresh < Cooldown, SilenceInv, ActiveSeen, [Next]_vars
    PROVE  ActiveSeen'
<1>0. TypeOK /\ ChargeHeard
  BY DEF SilenceInv, QuietInv
<1> USE ConstantTypes, UnsetNotAge DEF ActiveSeen, ChargeActive, ChgFresh
<1>1. ASSUME NEW i \in IgnitionIds, OnIgnitionFrame(i) PROVE ActiveSeen'
  BY <1>1 DEF OnIgnitionFrame
<1>2. ASSUME NEW trans, NEW cmdActive, OnChargeFrame(trans, cmdActive) PROVE ActiveSeen'
  BY <1>2 DEF OnChargeFrame
<1>3. CASE OnOtherFrame
  BY <1>3 DEF OnOtherFrame
<1>4. CASE TickWaiting \/ TickWindingDown \/ \E c, a \in BOOLEAN : TickUp(c, a)
  BY <1>4 DEF TickWaiting, TickWindingDown, TickUp, rxVars, seqVars
<1>5. CASE TickStopped
  <2>1. CASE GenuinelyQuiet
    BY <1>0, <1>5, <2>1, AgesAreNumbers DEF TickStopped, GenuinelyQuiet, ChargeHeard
  <2>2. CASE ~GenuinelyQuiet
    BY <1>5, <2>2 DEF TickStopped
  <2>3. QED
    BY <2>1, <2>2
<1>6. CASE Elapse
  BY <1>0, <1>6, AgesAreNumbers DEF Elapse, Older
<1>7. CASE Reset
  BY <1>7 DEF Reset
<1>8. CASE UNCHANGED vars
  BY <1>8 DEF vars, rxVars, seqVars
<1>9. QED
  BY <1>1, <1>2, <1>3, <1>4, <1>5, <1>6, <1>7, <1>8 DEF Next, Tick

LEMMA OffStep ==
    ASSUME PromptLoop, ChgCmdFresh < Cooldown, IgnitionIds # {}, OffInv, [Next]_vars
    PROVE  OffTimed' /\ SwitchedOffSessionEnds'
<1>0. TypeOK /\ TypeOK'
  BY TypeStep DEF OffInv, SilenceInv, QuietInv
<1>1. ASSUME NEW i \in IgnitionIds, OnIgnitionFrame(i)
      PROVE  OffTimed' /\ SwitchedOffSessionEnds'
  BY <1>0, <1>1, FrameKeepsOff DEF OnIgnitionFrame, TypeOK
<1>2. ASSUME NEW trans \in ChgTrans, NEW cmdActive \in BOOLEAN,
             OnChargeFrame(trans, cmdActive)
      PROVE  OffTimed' /\ SwitchedOffSessionEnds'
  <2>1. chgSeenActive' \in {TRUE, chgSeenActive}
    BY <1>0, <1>2 DEF OnChargeFrame, TypeOK
  <2>2. QED
    BY <1>0, <1>2, <2>1, FrameKeepsOff DEF OnChargeFrame
<1>3. CASE OnOtherFrame
  BY <1>0, <1>3, FrameKeepsOff DEF OnOtherFrame
<1>4. CASE TickWaiting \/ TickWindingDown \/ TickStopped \/ Reset
  <2>1. phase' \notin Up
    BY <1>4 DEF TickWaiting, TickWindingDown, TickStopped, Reset, seqVars, Up
  <2>2. QED
    BY <2>1 DEF OffTimed, SwitchedOffSessionEnds
<1>5. CASE \E cut, authorized \in BOOLEAN : TickUp(cut, authorized)
  BY <1>0, <1>5, TickKeepsOff
<1>6. CASE Elapse
  BY <1>6, ElapseKeepsOff
<1>7. CASE UNCHANGED vars
  BY <1>7 DEF vars, rxVars, timers, seqVars, outVars, OffInv, OffTimed, OffFor,
              SwitchedOffSessionEnds
<1>8. QED
  BY <1>1, <1>2, <1>3, <1>4, <1>5, <1>6, <1>7 DEF Next, Tick

\* A session without a charge never outlives the ignition by more than the quiet time
\* and the hold time (after the grace period), however much the car goes on
\* saying: with a main loop that keeps up, and a charge command that is stale before a
\* bus counts as quiet, so that no charge of an earlier session can hold this one.
THEOREM SwitchedOffEnds ==
    ASSUME PromptLoop, ChgCmdFresh < Cooldown, IgnitionIds # {}
    PROVE  Spec => []SwitchedOffSessionEnds
<1>0. ChgCmdFresh < BusSilence
  BY ConstantTypes
<1>1. Init => OffInv
  BY QuietInit, UnsetNotAge
  DEF Init, OffInv, SilenceInv, SilenceBounded, ChargeHeard, HeardAtTick, ActiveSeen,
      ChargeActive, ChgFresh, OffTimed, SwitchedOffSessionEnds, Up
<1>2. OffInv /\ [Next]_vars => OffInv'
  BY <1>0, QuietStep, SilenceStep, ActiveSeenStep, OffStep DEF OffInv, SilenceInv
<1>3. OffInv => SwitchedOffSessionEnds
  BY DEF OffInv
<1>4. QED
  BY <1>1, <1>2, <1>3, PTL DEF Spec
================================================================================
