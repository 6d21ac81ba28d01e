------------------------- MODULE RealtimeEngineProofs -------------------------
(***************************************************************************)
(* What the threads of the PC engine keep, for all timings that the        *)
(* assumption of RealtimeEngine allows.                                    *)
(***************************************************************************)
EXTENDS RealtimeEngine, TLAPS

USE DEF clocks, loopVars, mgmtVars, history

\* A clock keeps its range as it grows older, and grows by one below its limit.
LEMMA OlderInRange ==
    ASSUME NEW limit \in Nat, NEW age \in 0 .. limit \cup {None}
    PROVE  /\ Older(age, limit) \in 0 .. limit \cup {None}
           /\ age # None => Older(age, limit) \in 0 .. limit
           /\ age = None => Older(age, limit) = None
BY EngineAssumption DEF Older

-----------------------------------------------------------------------------
\* The type invariant holds at the start, and each of its parts is inductive
\* by itself.
LEMMA TypeInit == Init => TypeOK
<1> SUFFICES ASSUME Init PROVE TypeOK
    OBVIOUS
<1> USE EngineAssumption DEF Init
<1>1. ClocksOK
      BY DEF ClocksOK
<1>2. FlagsOK
      BY DEF FlagsOK
<1>3. PlacesOK
      BY DEF PlacesOK, Phases
<1> QED BY <1>1, <1>2, <1>3 DEF TypeOK

\* The clocks stay within their limits.
LEMMA ClocksKept ==
    ASSUME ClocksOK, [Next]_vars
    PROVE  ClocksOK'
<1> USE EngineAssumption DEF ClocksOK
<1>1. CASE GuiRuns
      BY <1>1 DEF GuiRuns, StartBridge, StopBridge, ClearLeafTx, RequestShutdown
<1>2. CASE OnOtherFrame
      BY <1>2 DEF OnOtherFrame, NoteLeafRx
<1>3. CASE OnChargeFrame
      BY <1>3 DEF OnChargeFrame, NoteLeafRx
<1>4. CASE LookAtPhase \/ Skip
      BY <1>4 DEF LookAtPhase, Skip
<1>5. CASE Act
      <2>1. lateBursts' \in 0 .. 2 \cup {None}
            BY <1>5, OlderInRange DEF Act
      <2> QED BY <1>5, <2>1 DEF Act
<1>6. ASSUME NEW stale \in BOOLEAN, NEW emergency \in BOOLEAN, Compose(stale, emergency)
      PROVE  ClocksOK'
      BY <1>6 DEF Compose
<1>7. ASSUME NEW authorized \in BOOLEAN, NEW trigger \in BOOLEAN, Tick(authorized, trigger)
      PROVE  ClocksOK'
      <2>1. windAge' \in 0 .. Stage4
            BY <1>7 DEF Tick, TickSession, TickWindingDown, TickStopped, TickParked
      <2> QED BY <1>7, <2>1 DEF Tick
<1>8. CASE Advance
      BY <1>8 DEF Advance, Older
<1>9. CASE UNCHANGED vars
      BY <1>9 DEF vars
<1> QED BY <1>1, <1>2, <1>3, <1>4, <1>5, <1>6, <1>7, <1>8, <1>9 DEF Next, TxRuns

\* The flags stay Boolean.
LEMMA FlagsKept ==
    ASSUME ClocksOK, FlagsOK, [Next]_vars
    PROVE  FlagsOK'
<1> USE EngineAssumption DEF FlagsOK
<1>1. CASE GuiRuns
      <2>1. overtook' \in BOOLEAN
            BY <1>1, Zenon DEF GuiRuns, StartBridge, StopBridge, ClearLeafTx, RequestShutdown
      <2>2. CASE ClearLeafTx
            <3>1. /\ shown' = FALSE
                  /\ UNCHANGED <<rearmed, manual, asks, lastWaiting, prevActive, latched,
                                 staleCut, sampled, absent, stopped, quietWake>>
                  BY <2>2 DEF ClearLeafTx
            <3> QED BY <2>1, <3>1
      <2>3. CASE StartBridge
            BY <2>3 DEF StartBridge
      <2>4. CASE StopBridge
            BY <2>4 DEF StopBridge
      <2>5. CASE RequestShutdown
            BY <2>5 DEF RequestShutdown
      <2> QED BY <1>1, <2>2, <2>3, <2>4, <2>5 DEF GuiRuns
<1>2. CASE OnOtherFrame
      <2>1. quietWake' \in BOOLEAN
            <3>1. CASE phase = "waiting"
                  <4>1. quietWake' = (quietFor >= Cooldown)
                        BY <1>2, <3>1 DEF OnOtherFrame, NoteLeafRx
                  <4> QED BY <4>1 DEF ClocksOK
            <3>2. CASE phase # "waiting"
                  BY <1>2, <3>2 DEF OnOtherFrame, NoteLeafRx
            <3> QED BY <3>1, <3>2
      <2> QED BY <1>2, <2>1 DEF OnOtherFrame, NoteLeafRx
<1>3. CASE OnChargeFrame
      <2>1. quietWake' \in BOOLEAN
            <3>1. CASE phase = "waiting"
                  <4>1. quietWake' = (quietFor >= Cooldown)
                        BY <1>3, <3>1 DEF OnChargeFrame, NoteLeafRx
                  <4> QED BY <4>1 DEF ClocksOK
            <3>2. CASE phase # "waiting"
                  BY <1>3, <3>2 DEF OnChargeFrame, NoteLeafRx
            <3> QED BY <3>1, <3>2
      <2> QED BY <1>3, <2>1 DEF OnChargeFrame, NoteLeafRx
<1>4. CASE LookAtPhase
      BY <1>4 DEF LookAtPhase
<1>5. CASE Skip
      BY <1>5 DEF Skip
<1>6. CASE Act
      BY <1>6 DEF Act
<1>7. ASSUME NEW stale \in BOOLEAN, NEW emergency \in BOOLEAN, Compose(stale, emergency)
      PROVE  FlagsOK'
      BY <1>7 DEF Compose, ChargeActive
<1>8. ASSUME NEW authorized \in BOOLEAN, NEW trigger \in BOOLEAN, Tick(authorized, trigger)
      PROVE  FlagsOK'
      <2>1. rearmed' \in BOOLEAN /\ manual' \in BOOLEAN
            BY <1>8 DEF Tick, TickSession, TickWindingDown, TickStopped, TickParked
      <2> QED BY <1>8, <2>1 DEF Tick
<1>9. CASE Advance
      BY <1>9 DEF Advance
<1>10. CASE UNCHANGED vars
      BY <1>10 DEF vars
<1> QED BY <1>1, <1>2, <1>3, <1>4, <1>5, <1>6, <1>7, <1>8, <1>9, <1>10 DEF Next, TxRuns

\* Each thread stays where its code can take it.
LEMMA PlacesKept ==
    ASSUME PlacesOK, [Next]_vars
    PROVE  PlacesOK'
<1> USE EngineAssumption DEF PlacesOK, Phases
<1>1. CASE GuiRuns
      BY <1>1 DEF GuiRuns, StartBridge, StopBridge, ClearLeafTx, RequestShutdown
<1>2. CASE OnOtherFrame \/ OnChargeFrame
      BY <1>2 DEF OnOtherFrame, OnChargeFrame, NoteLeafRx
<1>3. CASE LookAtPhase
      BY <1>3 DEF LookAtPhase
<1>4. CASE Skip
      BY <1>4 DEF Skip
<1>5. CASE Act
      BY <1>5 DEF Act
<1>6. ASSUME NEW stale \in BOOLEAN, NEW emergency \in BOOLEAN, Compose(stale, emergency)
      PROVE  PlacesOK'
      BY <1>6 DEF Compose
<1>7. ASSUME NEW authorized \in BOOLEAN, NEW trigger \in BOOLEAN, Tick(authorized, trigger)
      PROVE  PlacesOK'
      <2>1. phase' \in Phases
            BY <1>7 DEF Tick, TickSession, TickWindingDown, TickStopped, TickParked
      <2> QED BY <1>7, <2>1 DEF Tick
<1>8. CASE Advance
      BY <1>8 DEF Advance, Older
<1>9. CASE UNCHANGED vars
      BY <1>9 DEF vars
<1> QED BY <1>1, <1>2, <1>3, <1>4, <1>5, <1>6, <1>7, <1>8, <1>9 DEF Next, TxRuns

\* So the type invariant is inductive.
LEMMA TypeKept ==
    ASSUME TypeOK, [Next]_vars
    PROVE  TypeOK'
BY ClocksKept, FlagsKept, PlacesKept DEF TypeOK

\* Every variable of the engine keeps its domain (realtime_engine.py).
THEOREM EngineTypeCorrect == Spec => []TypeOK
<1>1. Init => TypeOK
      BY TypeInit
<1>2. TypeOK /\ [Next]_vars => TypeOK'
      BY TypeKept
<1> QED BY <1>1, <1>2, PTL DEF Spec

-----------------------------------------------------------------------------
(* Bursts after Stop.  From Stop to the frame that wakes the bridge again  *)
(* no session is open, so that only a pass whose tick came before Stop can *)
(* send; once it has, the pass is over.                                    *)
BurstInv ==
    /\ lateBursts # None => phase \in Parked
    /\ lateBursts = 1 => got \in Parked \cup {None}
    /\ lateBursts # 2

\* Every step keeps the bound on late bursts.
LEMMA BurstKept ==
    ASSUME TypeOK, BurstInv, [Next]_vars
    PROVE  BurstInv'
<1> USE EngineAssumption DEF BurstInv, Parked
<1>1. CASE GuiRuns
      BY <1>1 DEF GuiRuns, StartBridge, StopBridge, ClearLeafTx, RequestShutdown
<1>2. CASE OnOtherFrame \/ OnChargeFrame
      BY <1>2 DEF OnOtherFrame, OnChargeFrame, NoteLeafRx
<1>3. CASE LookAtPhase \/ Skip
      BY <1>3 DEF LookAtPhase, Skip
<1>4. CASE Act
      BY <1>4 DEF Act, Sends, Older, TypeOK, ClocksOK, PlacesOK
<1>5. ASSUME NEW stale \in BOOLEAN, NEW emergency \in BOOLEAN, Compose(stale, emergency)
      PROVE  BurstInv'
      BY <1>5 DEF Compose
<1>6. ASSUME NEW authorized \in BOOLEAN, NEW trigger \in BOOLEAN, Tick(authorized, trigger)
      PROVE  BurstInv'
      BY <1>6 DEF Tick, TickSession, TickWindingDown, TickStopped, TickParked, Session
<1>7. CASE Advance \/ UNCHANGED vars
      BY <1>7 DEF Advance, vars
<1> QED BY <1>1, <1>2, <1>3, <1>4, <1>5, <1>6, <1>7 DEF Next, TxRuns

\* However Stop falls into a pass of the transmit loop, at most one burst
\* follows it before the bus wakes the bridge again (realtime_engine.py:1158).
THEOREM EngineOneBurst == Spec => []OneBurstAfterStop
<1>1. Init => BurstInv
      BY EngineAssumption DEF Init, BurstInv
<1>2. TypeOK /\ BurstInv /\ [Next]_vars => BurstInv'
      BY BurstKept
<1>3. BurstInv => OneBurstAfterStop
      BY DEF BurstInv, OneBurstAfterStop
<1> QED BY <1>1, <1>2, <1>3, EngineTypeCorrect, PTL DEF Spec

-----------------------------------------------------------------------------
(* What a stopped bridge shows.  The property becomes inductive with what  *)
(* it says of the pass that is about to publish.                           *)
ShownInv ==
    /\ StoppedShowsNothing
    /\ (phase = "idle" /\ gui = "ready" /\ tx = "composing") => overtook

\* Every step keeps a stopped bridge from showing values, but for that pass.
LEMMA ShownKept ==
    ASSUME TypeOK, ShownInv, [Next]_vars
    PROVE  ShownInv'
<1> USE DEF ShownInv, StoppedShowsNothing
<1>1. CASE GuiRuns
      <2>1. CASE ClearLeafTx
            <3>1. shown' = FALSE
                  BY <2>1 DEF ClearLeafTx
            <3>2. tx' = "composing" => overtook'
                  BY <2>1 DEF ClearLeafTx
            <3> QED BY <3>1, <3>2
      <2> QED BY <1>1, <2>1 DEF GuiRuns, StartBridge, StopBridge, RequestShutdown
<1>2. CASE OnOtherFrame \/ OnChargeFrame
      BY <1>2 DEF OnOtherFrame, OnChargeFrame, NoteLeafRx
<1>3. CASE LookAtPhase \/ Skip \/ Act
      BY <1>3 DEF LookAtPhase, Skip, Act, Parked
<1>4. ASSUME NEW stale \in BOOLEAN, NEW emergency \in BOOLEAN, Compose(stale, emergency)
      PROVE  ShownInv'
      BY <1>4 DEF Compose
<1>5. ASSUME NEW authorized \in BOOLEAN, NEW trigger \in BOOLEAN, Tick(authorized, trigger)
      PROVE  ShownInv'
      BY <1>5 DEF Tick, TickSession, TickWindingDown, TickStopped, TickParked, Session, Parked
<1>6. CASE Advance \/ UNCHANGED vars
      BY <1>6 DEF Advance, vars
<1> QED BY <1>1, <1>2, <1>3, <1>4, <1>5, <1>6 DEF Next, TxRuns

\* A stopped bridge shows no values, unless a pass of the transmit loop was
\* between its look at the phase and its publication (state.py:264).
THEOREM EngineStoppedShowsNothing == Spec => []StoppedShowsNothing
<1>1. Init => ShownInv
      BY DEF Init, ShownInv, StoppedShowsNothing
<1>2. TypeOK /\ ShownInv /\ [Next]_vars => ShownInv'
      BY ShownKept
<1>3. ShownInv => StoppedShowsNothing
      BY DEF ShownInv
<1> QED BY <1>1, <1>2, <1>3, EngineTypeCorrect, PTL DEF Spec

-----------------------------------------------------------------------------
(* Session starts.  What a session that started by itself (`rearmed') has  *)
(* behind it: a quiet bus when it was armed, which it still was when a     *)
(* frame woke it; and a pass that has ticked in it may find it stopped,    *)
(* but not armed again without arm(), which forgets `rearmed'.             *)
StartInv ==
    /\ (phase = "waiting" /\ rearmed) => quietFor >= Cooldown
    /\ (phase = "startup" /\ rearmed) => quietWake
    /\ (got = "startup" /\ rearmed) => phase # "waiting" /\ quietWake

\* Every step keeps it.
LEMMA StartKept ==
    ASSUME TypeOK, StartInv, [Next]_vars
    PROVE  StartInv'
<1> USE EngineAssumption DEF StartInv
<1>1. CASE GuiRuns
      BY <1>1 DEF GuiRuns, StartBridge, StopBridge, ClearLeafTx, RequestShutdown
<1>2. ASSUME NoteLeafRx, UNCHANGED got
      PROVE  StartInv'
      <2>1. CASE phase = "waiting"
            <3>1. phase' = "startup" /\ quietWake' = (quietFor >= Cooldown) /\ rearmed' = rearmed
                  BY <1>2, <2>1 DEF NoteLeafRx
            <3>2. rearmed' => quietWake'
                  BY <2>1, <3>1
            <3> QED BY <1>2, <2>1, <3>1, <3>2
      <2>2. CASE phase # "waiting"
            BY <1>2, <2>2 DEF NoteLeafRx
      <2> QED BY <2>1, <2>2
<1>3. CASE OnOtherFrame \/ OnChargeFrame
      BY <1>2, <1>3 DEF OnOtherFrame, OnChargeFrame, NoteLeafRx
<1>4. CASE LookAtPhase \/ Skip \/ Act
      BY <1>4 DEF LookAtPhase, Skip, Act
<1>5. ASSUME NEW stale \in BOOLEAN, NEW emergency \in BOOLEAN, Compose(stale, emergency)
      PROVE  StartInv'
      BY <1>5 DEF Compose
<1>6. ASSUME NEW authorized \in BOOLEAN, NEW trigger \in BOOLEAN, Tick(authorized, trigger)
      PROVE  StartInv'
      BY <1>6 DEF Tick, TickSession, TickWindingDown, TickStopped, TickParked, Session, Parked
<1>7. CASE Advance
      BY <1>7 DEF Advance, Older, TypeOK, ClocksOK
<1>8. CASE UNCHANGED vars
      BY <1>8 DEF vars
<1> QED BY <1>1, <1>3, <1>4, <1>5, <1>6, <1>7, <1>8 DEF Next, TxRuns

\* The step that takes a cut back for a session start is one of Act's, after a
\* start that had a quiet bus before it (realtime_engine.py:1140).
THEOREM EngineSessionStartWasReal == Spec => SessionStartWasReal
<1>1. Init => StartInv
      BY EngineAssumption DEF Init, StartInv
<1>2. TypeOK /\ StartInv /\ [Next]_vars => StartInv'
      BY StartKept
<1>3. StartInv /\ [Next]_vars => [(tx = "acting" /\ Unlatched) => quietWake]_vars
      <2> SUFFICES ASSUME StartInv, Next, tx = "acting", Unlatched
                   PROVE  quietWake
          OBVIOUS
      <2>1. CASE Act
            <3>1. NotifySessionStart
                  BY <2>1 DEF Act, Unlatched
            <3> QED BY <3>1 DEF NotifySessionStart, StartInv
      <2>2. CASE ~Act
            <3>1. latched' = latched
                  BY <2>2 DEF Next, TxRuns, GuiRuns, StartBridge, StopBridge, ClearLeafTx,
                     RequestShutdown, OnOtherFrame, OnChargeFrame, NoteLeafRx, LookAtPhase,
                     Skip, Compose, Tick, Advance
            <3> QED BY <3>1 DEF Unlatched
      <2> QED BY <2>1, <2>2
<1> QED BY <1>1, <1>2, <1>3, EngineTypeCorrect, PTL DEF Spec, SessionStartWasReal

-----------------------------------------------------------------------------
(* Replugs.  While the request counts as away, it was away for at least as *)
(* long as no frame has asked to charge - but for a frame that the pass to *)
(* come has yet to see.  An idle bridge, which composes nothing, has been  *)
(* stopped, or never composed a request, or does not count; one that a     *)
(* pass composes for all the same has been stopped.                        *)
Seen == ~sampled /\ asks /\ chgAge = 0

ReplugInv ==
    /\ inactiveFor = None \/ inactiveFor <= askAge \/ absent \/ stopped \/ Seen
    /\ (inactiveFor # None /\ inactiveFor >= ChgEnd) => absent \/ stopped
    /\ phase = "idle" => absent \/ stopped \/ inactiveFor = None
    /\ (phase = "idle" /\ tx = "composing") => absent \/ stopped
    /\ phase = "waiting" => chgAge # 0
    /\ (phase = "waiting" /\ rearmed) => quietFor >= Cooldown
    /\ chgAge = 0 => quietFor = 0

\* In a phase that is not composed for, a frame not seen yet changes nothing.
LEMMA ParkedUnseen ==
    ASSUME TypeOK, ReplugInv, phase \in Parked
    PROVE  inactiveFor = None \/ inactiveFor <= askAge \/ absent \/ stopped
BY EngineAssumption DEF ReplugInv, Parked, Seen

\* Every step keeps the account of the request's absence.
LEMMA ReplugKept ==
    ASSUME TypeOK, ReplugInv, [Next]_vars
    PROVE  ReplugInv'
<1> USE EngineAssumption DEF ReplugInv, Seen
<1>1. CASE GuiRuns
      <2>1. CASE StartBridge
            BY <2>1, ParkedUnseen DEF StartBridge, Parked
      <2>2. CASE StopBridge
            BY <2>2 DEF StopBridge
      <2>3. CASE ClearLeafTx \/ RequestShutdown
            BY <2>3 DEF ClearLeafTx, RequestShutdown
      <2> QED BY <1>1, <2>1, <2>2, <2>3 DEF GuiRuns
<1>2. CASE OnOtherFrame
      BY <1>2 DEF OnOtherFrame, NoteLeafRx
<1>3. CASE OnChargeFrame
      <2>1. asks' \in BOOLEAN /\ sampled' = FALSE /\ chgAge' = 0 /\ quietFor' = 0
            BY <1>3 DEF OnChargeFrame, NoteLeafRx
      <2>2. phase' # "waiting" /\ (phase' = "idle" => phase = "idle")
            BY <1>3 DEF OnChargeFrame, NoteLeafRx
      <2>3. UNCHANGED <<inactiveFor, absent, stopped, rearmed, tx>>
            BY <1>3 DEF OnChargeFrame, NoteLeafRx
      <2>4. CASE asks'
            BY <2>1, <2>2, <2>3, <2>4
      <2>5. CASE ~asks'
            <3>1. askAge' = askAge
                  BY <1>3, <2>5 DEF OnChargeFrame
            <3>2. inactiveFor = None \/ inactiveFor <= askAge \/ absent \/ stopped
                  BY <1>3, ParkedUnseen DEF OnChargeFrame
            <3> QED BY <2>1, <2>2, <2>3, <3>1, <3>2
      <2> QED BY <2>4, <2>5
<1>4. CASE LookAtPhase \/ Skip \/ Act
      BY <1>4 DEF LookAtPhase, Skip, Act, Parked
<1>5. ASSUME NEW stale \in BOOLEAN, NEW emergency \in BOOLEAN, Compose(stale, emergency)
      PROVE  ReplugInv'
      <2>1. UNCHANGED <<phase, clocks, rearmed, asks, askAge>> /\ sampled' = TRUE
            BY <1>5 DEF Compose
      <2>2. CASE ChargeActive
            BY <1>5, <2>1, <2>2 DEF Compose
      <2> tx = "composing" /\ tx' = "ticking"
            BY <1>5 DEF Compose
      <2>3. CASE ~ChargeActive
            <3>1. (absent => absent') /\ (ChgEnd = 0 => absent') /\ stopped' = stopped
                  BY <1>5, <2>3, Zenon DEF Compose, TypeOK, FlagsOK
            <3>2. ~Seen
                  BY <2>3 DEF ChargeActive
            <3>3. inactiveFor' = IF inactiveFor = None THEN 0 ELSE inactiveFor
                  BY <1>5, <2>3 DEF Compose
            <3>4. absent \/ stopped => absent' \/ stopped'
                  BY <3>1
            <3>5. inactiveFor' = None \/ inactiveFor' <= askAge' \/ absent' \/ stopped'
                  BY <2>1, <3>2, <3>3, <3>4 DEF TypeOK, ClocksOK
            <3>6. (inactiveFor' # None /\ inactiveFor' >= ChgEnd) => absent' \/ stopped'
                  <4>1. CASE inactiveFor = None
                        BY <3>1, <3>3, <4>1
                  <4>2. CASE inactiveFor # None
                        BY <3>3, <3>4, <4>2
                  <4> QED BY <4>1, <4>2
            <3>7. phase' = "idle" => absent' \/ stopped' \/ inactiveFor' = None
                  BY <2>1, <3>4
            <3> QED BY <2>1, <3>5, <3>6, <3>7
      <2> QED BY <2>2, <2>3
<1>6. ASSUME NEW authorized \in BOOLEAN, NEW trigger \in BOOLEAN, Tick(authorized, trigger)
      PROVE  ReplugInv'
      <2>1. /\ UNCHANGED <<inactiveFor, askAge, absent, stopped, sampled, asks, chgAge, quietFor>>
            /\ tx' = "acting"
            BY <1>6 DEF Tick
      <2>2. phase' = "idle" => phase = "idle"
            BY <1>6 DEF Tick, TickSession, TickWindingDown, TickStopped, TickParked, Session
      <2>3. /\ phase' = "waiting" => chgAge # 0
            /\ (phase' = "waiting" /\ rearmed') => quietFor >= Cooldown
            BY <1>6 DEF Tick, TickSession, TickWindingDown, TickStopped, TickParked, Session
      <2> QED BY <2>1, <2>2, <2>3
<1>7. CASE Advance
      <2> USE DEF TypeOK, ClocksOK
      <2>1. /\ inactiveFor' = Older(inactiveFor, ChgEnd) /\ askAge' = Older(askAge, ChgEnd)
            /\ chgAge' = Older(chgAge, ChgFresh + 1) /\ quietFor' = Older(quietFor, Cooldown)
            /\ absent' = (absent \/ askAge' >= ChgEnd)
            /\ UNCHANGED <<phase, rearmed, stopped, asks>> /\ tx' # "composing"
            BY <1>7 DEF Advance
      <2>2. inactiveFor = None \/ inactiveFor <= askAge \/ absent \/ stopped
            BY <1>7, ParkedUnseen DEF Advance
      <2>3. chgAge' # 0 /\ (quietFor >= Cooldown => quietFor' >= Cooldown)
            BY <2>1 DEF Older
      <2>4. phase' = "idle" => absent' \/ stopped' \/ inactiveFor' = None
            BY <2>1 DEF Older
      <2>5. CASE absent \/ stopped
            BY <2>1, <2>3, <2>5
      <2>6. CASE inactiveFor = None
            <3>1. inactiveFor' = None
                  BY <2>1, <2>6 DEF Older
            <3> QED BY <2>1, <2>3, <3>1
      <2>7. CASE inactiveFor # None /\ inactiveFor <= askAge
            <3>1. inactiveFor' <= askAge' /\ inactiveFor' \in 0 .. ChgEnd /\ askAge' \in 0 .. ChgEnd
                  BY <2>1, <2>7 DEF Older
            <3>2. inactiveFor' >= ChgEnd => askAge' >= ChgEnd
                  BY <3>1
            <3>3. askAge' >= ChgEnd => absent'
                  BY <2>1, Zenon
            <3> QED BY <2>1, <2>3, <2>4, <3>1, <3>2, <3>3
      <2> QED BY <2>2, <2>5, <2>6, <2>7
<1>8. CASE UNCHANGED vars
      BY <1>8 DEF vars
<1> QED BY <1>1, <1>2, <1>3, <1>4, <1>5, <1>6, <1>7, <1>8 DEF Next, TxRuns

\* A replug that takes an emergency cut back was one, unless Stop was pressed
\* since the request was last composed (realtime_engine.py:740).
THEOREM EngineReplugWasReal == Spec => ReplugWasRealUnlessStopped
<1>1. Init => ReplugInv
      BY EngineAssumption DEF Init, ReplugInv
<1>2. TypeOK /\ ReplugInv /\ [Next]_vars => ReplugInv'
      BY ReplugKept
<1>3. ReplugInv /\ [Next]_vars => [(tx = "composing" /\ Unlatched) => absent \/ stopped]_vars
      <2> SUFFICES ASSUME ReplugInv, Next, tx = "composing", Unlatched
                   PROVE  absent \/ stopped
          OBVIOUS
      <2>1. ASSUME NEW stale \in BOOLEAN, NEW emergency \in BOOLEAN, Compose(stale, emergency)
            PROVE  absent \/ stopped
            <3>1. Replugged
                  BY <2>1 DEF Compose, Unlatched
            <3> QED BY <3>1 DEF Replugged, ReplugInv
      <2>2. CASE ~\E stale, emergency \in BOOLEAN : Compose(stale, emergency)
            <3>1. latched' = latched
                  BY <2>2 DEF Next, TxRuns, GuiRuns, StartBridge, StopBridge, ClearLeafTx,
                     RequestShutdown, OnOtherFrame, OnChargeFrame, NoteLeafRx, LookAtPhase,
                     Skip, Act, Tick, Advance
            <3> QED BY <3>1 DEF Unlatched
      <2> QED BY <2>1, <2>2
<1> QED BY <1>1, <1>2, <1>3, EngineTypeCorrect, PTL DEF Spec, ReplugWasRealUnlessStopped
=============================================================================
