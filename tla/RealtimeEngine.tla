--------------------------- MODULE RealtimeEngine ---------------------------
(***************************************************************************)
(* The threads of the PC application around its session sequencer:         *)
(* src/bridge/realtime_engine.py with the parts of management_engine.py    *)
(* and state.py they touch.                                                *)
(*                                                                         *)
(* The transmit thread passes through its loop in steps between which the  *)
(* GUI (Start, Stop, Simulate power-down) and the Leaf ingest thread run:  *)
(* it looks at the phase, composes the values (the replug detection of the *)
(* charge ramp, the management engine and its hard-cut latch) and publishes*)
(* them for the GUI, ticks the sequencer, and acts on the phase it got.    *)
(* Time stamps are kept as ages, which is all the code takes of them; each *)
(* stops at the threshold it is compared with.                             *)
(*                                                                         *)
(* Free choices stand for what other modules detail: the ignition,         *)
(* charge-end, stall and silence triggers (BridgeSequencer has them in the *)
(* firmware's port) and the conditions of the management engine's cuts     *)
(* (ManagementEngine).                                                     *)
(***************************************************************************)
EXTENDS Naturals

CONSTANTS
    ChgFresh,    \* chg_cmd_fresh_s
    ChgEnd,      \* chg_end_stop_s
    Running,     \* T_RUNNING
    Stage4,      \* PWRDOWN_STAGE4_MS
    Cooldown,    \* PWRDOWN_DEFAULT_COOLDOWN_S
    None         \* a time stamp that is not set

(* None is neither a number nor a phase.                                   *)
ASSUME EngineAssumption ==
    /\ {ChgFresh, ChgEnd, Running, Stage4, Cooldown} \subseteq Nat
    /\ Cooldown # 0
    /\ None \notin Nat
    /\ None \notin {"idle", "waiting", "startup", "running", "winding_down", "stopped"}

VARIABLES
    \* ShutdownSequencer
    phase, sessionAge, windAge, quietFor,
    rearmed,      \* rearmed_naturally
    manual,       \* _manual_shutdown_requested
    chgAge,       \* since chg_last_frame_t
    asks,         \* the last 0x1F2 frame asks to charge
    \* the transmit thread
    tx,           \* where it stands
    lastWaiting,  \* last_phase = 'waiting_for_wake'
    got,          \* the phase tick() returned, None when it is done with
    prevActive,   \* _prev_charge_active
    inactiveFor,  \* since _chg_inactive_since
    \* ManagementEngine
    latched,      \* _hard_latched
    staleCut,     \* staleness_hard_cut
    \* SharedState and the GUI thread
    shown,        \* leaf_tx has values
    gui,          \* "clearing" inside stop_bridge()
    \* pace of the transmit loop
    sampled,      \* it has composed since the last 0x1F2 frame and time step
    \* history
    askAge,       \* since a 0x1F2 frame asked to charge
    absent,       \* the request was away for ChgEnd since it was last composed
    stopped,      \* Stop was pressed since the request was last composed
    quietWake,    \* the bus was quiet for Cooldown before the frame that woke it
    lateBursts,   \* bursts since Stop, None once a frame has woken the bridge
    overtook      \* Stop cleared the values under a pass that had begun

clocks   == <<sessionAge, windAge, quietFor, chgAge>>
loopVars == <<tx, lastWaiting, got, prevActive, inactiveFor>>
mgmtVars == <<latched, staleCut>>
history  == <<askAge, absent, stopped, quietWake, lateBursts, overtook>>
vars == <<phase, clocks, rearmed, manual, asks, loopVars, mgmtVars,
          shown, gui, sampled, history>>

Phases  == {"idle", "waiting", "startup", "running", "winding_down", "stopped"}
Session == {"startup", "running"}
Parked  == {"idle", "waiting"}     \* nothing is composed

(* An age one unit on, up to where it is compared.                         *)
Older(age, limit) ==
    IF age # None /\ age < limit THEN age + 1 ELSE age

ClocksOK ==
    /\ sessionAge \in 0 .. Running /\ windAge \in 0 .. Stage4
    /\ quietFor \in 0 .. Cooldown /\ askAge \in 0 .. ChgEnd
    /\ chgAge \in 0 .. ChgFresh + 1 \cup {None}
    /\ inactiveFor \in 0 .. ChgEnd \cup {None}
    /\ lateBursts \in 0 .. 2 \cup {None}

FlagsOK ==
    /\ rearmed \in BOOLEAN /\ manual \in BOOLEAN /\ asks \in BOOLEAN
    /\ lastWaiting \in BOOLEAN /\ prevActive \in BOOLEAN
    /\ latched \in BOOLEAN /\ staleCut \in BOOLEAN
    /\ shown \in BOOLEAN /\ sampled \in BOOLEAN
    /\ absent \in BOOLEAN /\ stopped \in BOOLEAN
    /\ quietWake \in BOOLEAN /\ overtook \in BOOLEAN

PlacesOK ==
    /\ phase \in Phases /\ got \in Phases \cup {None}
    /\ tx \in {"top", "skipping", "composing", "ticking", "acting"}
    /\ gui \in {"ready", "clearing"}
    /\ tx = "acting" <=> got # None
    /\ prevActive => inactiveFor = None

TypeOK == ClocksOK /\ FlagsOK /\ PlacesOK

Init ==
    /\ phase = "idle" /\ sessionAge = 0 /\ windAge = 0 /\ quietFor = 0
    /\ rearmed = FALSE /\ manual = FALSE /\ chgAge = None /\ asks = FALSE
    /\ tx = "top" /\ lastWaiting = FALSE /\ got = None
    /\ prevActive = FALSE /\ inactiveFor = None
    /\ latched = FALSE /\ staleCut = FALSE
    /\ shown = FALSE /\ gui = "ready" /\ sampled = TRUE
    /\ askAge = ChgEnd /\ absent = TRUE /\ stopped = FALSE
    /\ quietWake = FALSE /\ lateBursts = None /\ overtook = FALSE
-----------------------------------------------------------------------------
(* The GUI thread.                                                         *)

\* Mutant: arm() keeps rearmed_naturally.
MutArmKeepsRearmed ==
    /\ gui = "ready" /\ phase = "idle"
    /\ phase' = "waiting"
    /\ chgAge' = None /\ asks' = FALSE
    /\ UNCHANGED <<sessionAge, windAge, quietFor, rearmed, manual, loopVars,
                   mgmtVars, shown, gui, sampled, history>>

(* arm() starts afresh, and leaves a power-down request where it is.       *)
StartBridge ==
    /\ gui = "ready" /\ phase = "idle"
    /\ phase' = "waiting"
    /\ rearmed' = FALSE
    /\ chgAge' = None /\ asks' = FALSE
    /\ UNCHANGED <<sessionAge, windAge, quietFor, manual, loopVars, mgmtVars,
                   shown, gui, sampled, history>>

StopBridge ==
    /\ gui = "ready" /\ phase # "idle"
    /\ phase' = "idle"
    /\ gui' = "clearing"
    /\ stopped' = TRUE /\ lateBursts' = 0 /\ overtook' = FALSE
    /\ UNCHANGED <<clocks, rearmed, manual, asks, loopVars, mgmtVars, shown,
                   sampled, askAge, absent, quietWake>>

ClearLeafTx ==
    /\ gui = "clearing"
    /\ gui' = "ready"
    /\ shown' = FALSE
    /\ overtook' = (tx = "composing")
    /\ UNCHANGED <<phase, clocks, rearmed, manual, asks, loopVars, mgmtVars,
                   sampled, askAge, absent, stopped, quietWake, lateBursts>>

RequestShutdown ==
    /\ gui = "ready" /\ ~manual
    /\ manual' = TRUE
    /\ UNCHANGED <<phase, clocks, rearmed, asks, loopVars, mgmtVars, shown, gui,
                   sampled, history>>
-----------------------------------------------------------------------------
(* The Leaf ingest thread.                                                 *)

NoteLeafRx ==
    /\ quietFor' = 0
    /\ IF phase = "waiting"
       THEN /\ phase' = "startup" /\ sessionAge' = 0
            /\ lateBursts' = None /\ quietWake' = (quietFor >= Cooldown)
       ELSE UNCHANGED <<phase, sessionAge, lateBursts, quietWake>>
    /\ UNCHANGED <<windAge, rearmed, manual, loopVars, mgmtVars, shown, gui,
                   absent, stopped, overtook>>

OnOtherFrame ==
    /\ NoteLeafRx
    /\ UNCHANGED <<chgAge, asks, sampled, askAge>>

(* 0x1F2 comes every 10 ms and the loop passes every millisecond.          *)
OnChargeFrame ==
    /\ sampled \/ phase \in Parked
    /\ NoteLeafRx
    /\ asks' \in BOOLEAN
    /\ chgAge' = 0
    /\ askAge' = IF asks' THEN 0 ELSE askAge
    /\ sampled' = FALSE
-----------------------------------------------------------------------------
(* The transmit thread.                                                    *)

\* Mutant: a stopped bridge goes on composing.
MutLooksForWaitingOnly ==
    /\ tx = "top"
    /\ tx' = IF phase = "waiting" THEN "skipping" ELSE "composing"
    /\ UNCHANGED <<phase, clocks, rearmed, manual, asks, lastWaiting, got,
                   prevActive, inactiveFor, mgmtVars, shown, gui, sampled,
                   history>>

LookAtPhase ==
    /\ tx = "top"
    /\ tx' = IF phase \in Parked THEN "skipping" ELSE "composing"
    /\ UNCHANGED <<phase, clocks, rearmed, manual, asks, lastWaiting, got,
                   prevActive, inactiveFor, mgmtVars, shown, gui, sampled,
                   history>>

(* The phase is read a second time; it may have become another.            *)
Skip ==
    /\ tx = "skipping"
    /\ tx' = "top"
    /\ lastWaiting' = (phase = "waiting")
    /\ UNCHANGED <<phase, clocks, rearmed, manual, asks, got, prevActive,
                   inactiveFor, mgmtVars, shown, gui, sampled, history>>

ChargeActive == asks /\ chgAge # None /\ chgAge <= ChgFresh

\* Mutant: any rising edge of the request is a replug.
MutBareEdge == ChargeActive /\ ~prevActive

Replugged ==
    /\ ChargeActive /\ ~prevActive
    /\ inactiveFor # None /\ inactiveFor >= ChgEnd

\* Mutant: a request that is back leaves the stamp of its absence.
MutAbsenceKept(stale, emergency) ==
    /\ tx = "composing"
    /\ tx' = "ticking"
    /\ prevActive' = ChargeActive
    /\ inactiveFor' = IF ~ChargeActive /\ inactiveFor = None THEN 0
                      ELSE inactiveFor
    /\ staleCut' = stale
    /\ latched' = ((latched /\ ~Replugged) \/ emergency \/ stale)
    /\ shown' = TRUE /\ sampled' = TRUE
    /\ absent' = (~ChargeActive /\ (absent \/ ChgEnd = 0))
    /\ stopped' = (stopped /\ ~ChargeActive)
    /\ UNCHANGED <<phase, clocks, rearmed, manual, asks, lastWaiting, got, gui,
                   askAge, quietWake, lateBursts, overtook>>

(* _apply_charge_ramp(), ManagementEngine.apply(), and the publication of  *)
(* what they give.  A hard cut is the staleness watchdog's, or another.    *)
Compose(stale, emergency) ==
    /\ tx = "composing"
    /\ tx' = "ticking"
    /\ prevActive' = ChargeActive
    /\ inactiveFor' = IF ChargeActive THEN None
                      ELSE IF inactiveFor = None THEN 0 ELSE inactiveFor
    /\ staleCut' = stale
    /\ latched' = ((latched /\ ~Replugged) \/ emergency \/ stale)
    /\ shown' = TRUE
    /\ sampled' = TRUE
    /\ absent' = (~ChargeActive /\ (absent \/ ChgEnd = 0))
    /\ stopped' = (stopped /\ ~ChargeActive)
    /\ UNCHANGED <<phase, clocks, rearmed, manual, asks, lastWaiting, got, gui,
                   askAge, quietWake, lateBursts, overtook>>

\* Mutant: an authorised charge is looked at first.
MutChargeFirst(authorized, trigger) ==
    ~(ChargeActive /\ authorized) /\ (manual \/ staleCut \/ trigger)

(* _should_wind_down(), in its order: the request of the GUI is taken, the *)
(* staleness cut ends the session, an authorised charge holds it, and the  *)
(* other triggers may end it.                                              *)
ShouldWindDown(authorized, trigger) ==
    \/ manual
    \/ staleCut
    \/ trigger /\ ~(ChargeActive /\ authorized)

TickSession(authorized, trigger) ==
    /\ phase \in Session
    /\ manual' = FALSE
    /\ IF ShouldWindDown(authorized, trigger)
       THEN phase' = "winding_down" /\ windAge' = 0
       ELSE /\ phase' = IF sessionAge >= Running THEN "running" ELSE phase
            /\ UNCHANGED windAge
    /\ UNCHANGED rearmed

TickWindingDown ==
    /\ phase = "winding_down"
    /\ phase' = IF windAge >= Stage4 THEN "stopped" ELSE phase
    /\ UNCHANGED <<windAge, rearmed, manual>>

TickStopped ==
    /\ phase = "stopped"
    /\ IF quietFor >= Cooldown
       THEN phase' = "waiting" /\ rearmed' = TRUE
       ELSE UNCHANGED <<phase, rearmed>>
    /\ UNCHANGED <<windAge, manual>>

\* Mutant: the tick of a pass that Stop overtook brings its session back.
MutStopOverwritten ==
    /\ phase \in Parked
    /\ phase' = IF phase = "idle" THEN "running" ELSE phase
    /\ UNCHANGED <<windAge, rearmed, manual>>

TickParked ==
    /\ phase \in Parked
    /\ UNCHANGED <<phase, windAge, rearmed, manual>>

Tick(authorized, trigger) ==
    /\ tx = "ticking"
    /\ tx' = "acting"
    /\ \/ TickSession(authorized, trigger) \/ TickWindingDown
       \/ TickStopped \/ TickParked
    /\ got' = phase'
    /\ UNCHANGED <<sessionAge, quietFor, chgAge, asks, lastWaiting, prevActive,
                   inactiveFor, mgmtVars, shown, gui, sampled, history>>

NotifySessionStart == got = "startup" /\ lastWaiting /\ rearmed
Sends == got \notin {"idle", "waiting", "stopped"}

Act ==
    /\ tx = "acting"
    /\ tx' = "top"
    /\ lastWaiting' = (got = "waiting")
    /\ got' = None
    /\ latched' = (latched /\ ~NotifySessionStart)
    /\ lateBursts' = IF Sends THEN Older(lateBursts, 2) ELSE lateBursts
    /\ UNCHANGED <<phase, clocks, rearmed, manual, asks, prevActive, inactiveFor,
                   staleCut, shown, gui, sampled, askAge, absent, stopped,
                   quietWake, overtook>>
-----------------------------------------------------------------------------
(* Bound on the pace: a pass takes milliseconds, so that it is over before *)
(* time moves on, and each unit of time sees one.                          *)
Advance ==
    /\ tx \in {"top", "skipping"}
    /\ sampled \/ phase \in Parked
    /\ sampled' = FALSE
    /\ sessionAge' = Older(sessionAge, Running)
    /\ windAge' = Older(windAge, Stage4)
    /\ quietFor' = Older(quietFor, Cooldown)
    /\ chgAge' = Older(chgAge, ChgFresh + 1)
    /\ inactiveFor' = Older(inactiveFor, ChgEnd)
    /\ askAge' = Older(askAge, ChgEnd)
    /\ absent' = (absent \/ askAge' >= ChgEnd)
    /\ UNCHANGED <<phase, rearmed, manual, asks, tx, lastWaiting, got, prevActive,
                   mgmtVars, shown, gui, stopped, quietWake, lateBursts, overtook>>

TxRuns == \/ LookAtPhase \/ Skip \/ Act
          \/ \E stale, emergency \in BOOLEAN : Compose(stale, emergency)
          \/ \E authorized, trigger \in BOOLEAN : Tick(authorized, trigger)
GuiRuns == StartBridge \/ StopBridge \/ ClearLeafTx \/ RequestShutdown
Next == TxRuns \/ GuiRuns \/ OnOtherFrame \/ OnChargeFrame \/ Advance

Spec == Init /\ [][Next]_vars

(* The transmit thread never ends (it contains its exceptions), and a      *)
(* press of Stop is carried through.                                       *)
FairSpec == Spec /\ WF_vars(TxRuns) /\ WF_vars(ClearLeafTx)
-----------------------------------------------------------------------------
Unlatched == latched /\ ~latched'

(* The charge replug that takes an emergency cut back is one: the request  *)
(* was off the bus for chg_end_stop_s (realtime_engine.py:740).            *)
ReplugWasReal == [][(tx = "composing" /\ Unlatched) => absent]_vars

(* It is while the bridge is not stopped in between: gaps between frames,  *)
(* sleep and wake included.                                                *)
ReplugWasRealUnlessStopped ==
    [][(tx = "composing" /\ Unlatched) => absent \/ stopped]_vars

(* A session start takes a cut back only when the Leaf bus had been silent *)
(* before it: never by Stop and Start beside a car that stayed on.         *)
SessionStartWasReal == [][(tx = "acting" /\ Unlatched) => quietWake]_vars

(* However Stop falls into a pass of the loop, and although Start may      *)
(* follow at once, no second burst leaves before the bus has woken it.     *)
OneBurstAfterStop == lateBursts # 2

(* What the GUI shows of a stopped bridge is cleared; the one exception is *)
(* a pass that was between its look at the phase and its publication when  *)
(* the values were cleared.                                                *)
StoppedShowsNothing ==
    (phase = "idle" /\ gui = "ready" /\ shown) => overtook

(* A power-down request ends the session it meets, charging or not.        *)
PowerDownHonoured == (manual /\ phase \in Session) ~> phase \notin Session
=============================================================================
