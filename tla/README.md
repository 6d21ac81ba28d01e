# Verification of the RZ450e-to-Leaf CAN bridge

TLA+ models, TLC configurations and TLAPS proofs for the bridge that makes a
Lexus/Toyota RZ450e traction battery look like a Nissan Leaf battery: a Python
PC application (`src/bridge`, `src/gui`) and the STM32 firmware ported from it
(`src/STM32_MiniLeaf_Bridge_Translator_uVision/Software/CANBRIDGE-2port/source`,
called FW below). The firmware is what runs in the car, unattended and on
interrupts; it is modelled first. Of the PC application its two knots of
threads are modelled: the connection to an adapter, and the transmit loop under
Start and Stop.

Contents: 1 inventory, 2 modules and their correspondence to the code, 3 runs
and bounds, 4 fairness, 5 proofs, 6 findings and remarks, 7 what is not
modelled, 8 plan.

## 1. Inventory

### Firmware

| Part | State | Operations | Talks to |
|---|---|---|---|
| CAN driver, `FW/Src/can.c` | a transmit and a receive ring per bus (head, tail, `CAN_QUEUE` slots), the re-entrancy guard of `sendCan` | `PushCan`, `PopCan`, `LenCan`, `sendCan`, receive callbacks | the controllers' mailboxes and FIFOs; main loop and interrupt share the rings |
| Main loop, `FW/Src/main.c` | error counters | drain both queues, tick, send, bus-off recovery, sleep (WFI) | calls everything else; interrupts end its sleep |
| Session sequencer, `FW/Src/bridge_sequencer.c` | phase, session and shutdown stamps, stamps of the Leaf frames it listens to, three persistence timers, due time per transmitted ID | `on_frame`, `tick`, `should_sleep` | told of Leaf frames, asks the management engine, pushes frames to the Leaf bus |
| DID poll, `FW/Src/rz450e_uds.c` | request state, round-robin index, reassembly buffer and its lengths | `on_frame`, `tick` | the battery's diagnostic responder; writes `g_rz_state` |
| Broadcast ingest, `FW/Src/rz450e_ingest.c` | `g_rz_state`: value and stamp of every signal | one decoder per broadcast ID | writes what the management engine reads; shares `temp[]` with the DID poll |
| Management engine, `FW/Src/management_engine.c` | three latches, five pending timers, taper factors, AC level, counter watchdogs | `apply`, `notify_session_start`, `reset_all_conditions`, `notify_charge_replug` | reads `g_rz_state`, writes `LeafState`; its staleness cut ends sessions |
| Mapping and output builders, `mapping_engine.c`, `leaf_output.c` | none | build the bytes of one frame | called by the transmit loop |

What is hard here: the receive interrupt cuts the main loop at any point and
itself runs `sendCan`; sleep is entered while interrupts stay enabled; six
wind-down triggers with persistence timers are evaluated in an order with early
returns while frames arrive between the ticks; requests to the battery time
out, and its answers may be late or incomplete; state of one session may leak
into the next.

### PC application

| Part | State | Operations and threads | Talks to |
|---|---|---|---|
| CAN backend, `can_backend.py` | per bus: `_want_connected`, `_worker`, `_stop_monitor`; per worker: `connected`, `error`, `_stop_evt` | `connect`, `disconnect` (GUI thread), `_auto_reconnect_loop` (monitor thread), `CanWorker.run` (one thread per attempt) | the adapter; a lock makes critical sections of the first three |
| Realtime engine, `realtime_engine.py` | `ShutdownSequencer` (phase, stamps, triggers), charge ramp and its replug detection | two ingest threads, the transmit thread `_tx_loop`, DID-poll and prun threads; `start_bridge`, `stop_bridge`, `request_shutdown` from the GUI | `SharedState`, the management engine, both connections |
| Shared state, `state.py` | inputs, outputs (`leaf_tx`), settings, under one lock | getters and setters; `clear_leaf_tx` | all threads |
| Management engine, `management_engine.py` | as the firmware's, which is a port of it | `apply`, `notify_session_start`, `notify_charge_replug` | called by the transmit thread |
| Signals, `rz450e_signals.py`, `leaf_signals.py`, `mapping_engine.py` | `DidClient`'s answer queue | decode, encode, `DidClient.request` | ingest and DID-poll threads |
| Logs and profiles, GUI | files, widgets | bookkeeping and presentation | read `SharedState` |

Its own difficulties are its threads: Connect against Disconnect against the
monitor against a worker that is opening or failing, and Start and Stop against
a pass of the transmit loop that is under way.

### What makes each part correct

* CAN driver: accepted frames are neither lost, duplicated nor reordered; what
  `sendCan` has checked still holds when it acts; transmission never locks up.
* Main loop: traffic is served although the loop sleeps; silence lets it sleep.
* Sequencer: it speaks only in a session; every trigger has waited as long as
  it says; a session ends when the car is gone; a closed session is not
  restarted by the VCM's own last words.
* DID poll: a value is taken only from a whole answer to its own request; no
  DID starves; temperatures are polled before they lose their freshness.
* Ingest: who owns the effective temperatures at any time.
* Management engine: a latched cut stays until a session start or a replug; a
  pending condition has been pending in this session.
* Connection (PC): a closed one stays closed and lets go of the adapter; a wanted
  one has a monitor and comes back; no running worker is lost sight of.
* Engine (PC): Stop stops, whatever pass it falls into; a latched hard cut is
  taken back for a real replug or a real session start and for nothing that
  looks like one; a power-down request is honoured.

`PROJECT.json` lists the hazards behind these, line by line, and the properties
that cover them.

## 2. Modules

### BridgeSequencer, LeafSession

`BridgeSequencer` is `bridge_sequencer.c`. Each time stamp is modelled by its
age, saturated where no comparison can change any more; a flag and the stamp
read only under it are one variable (`Unset`). One action per frame class of
`note_leaf_rx` (`OnIgnitionFrame`, `OnChargeFrame`, `OnOtherFrame`), one per
phase a tick can find (`TickWaiting`, `TickUp`, `TickWindingDown`,
`TickStopped`), `Elapse` for SysTick and `Reset` for power loss. A tick is the
whole of `bridge_sequencer_tick()`: triggers with their early returns,
phase change and transmit loop. The staleness cut of the management engine and
the charge permission are inputs of the tick. `sent` and `trigger` record what
the last tick showed to the outside.

`LeafSession` is what the Leaf bus may rely on: the bridge speaks only in
a session (and once at the moment of re-arming, see the remarks under 6), the status IDs are
off from the first moment of closing, a closed session never reopens, and the
next one needs a quiet bus. `ImplementsSession` is the refinement.

### CanQueue, FrameQueues

`CanQueue` is the driver for one bus: the two rings slot by slot, the guard,
the main loop cut into the pieces between which an interrupt can fall
(`EnterSend`, `CheckTx`, `PopTx`, `AddTx`, `LeaveSend`, `PostTx`, `TakeRx`), and
`RxInterrupt` as one action, because the CAN interrupts share a priority and the
main loop stands still during one. `MailboxDone` is the controller.
Unwritten memory is `Garbage`. The two buses have rings and guards of their
own and share nothing, so one stands for each.

`FrameQueues` is the abstract driver: two bounded FIFO queues and a set of mailboxes.
The refinement mapping reads the rings from tail to head, and counts a frame
that `sendCan` has popped but not yet handed over as still heading the queue.

### MainLoop

The loop of `main.c`: drains, tick, sleep check, WFI. Queues are counted, the
sequencer is reduced to `armed`, the DID poll to its pace. Interrupts may fall
between any two steps. SysTick is suspended in WFI, so time passes only in
`Tick`, at most one unit in an iteration (an iteration takes less than the gap
between two requests: the real figures are microseconds and 300 ms).

### RzUds, DidExchange

The DID poll: `TickIdle`, `TickAwaitingRR`, `TickGapAfterRR`,
`TickAwaitingTemp`, `TickGapAfterTemp` are the cases of `rz450e_uds_tick()`,
`OnFrame` the three branches of `rz450e_uds_on_frame()`. A payload is the
sequence of parts (ISO-TP frames) it was put together from, with the received
and expected lengths in bytes, as the code counts them. The battery
(external) serves one request at a time, waits for Flow Control, may refuse, give up or
take its time; the bus may lose any frame. It does not duplicate frames. Time
advances only when no tick is due: the loop runs many times in a unit.

`DidExchange` is what the poll promises: one request at a time with a gap after each,
the DIDs of the round robin in turn whatever becomes of a request, the temperatures
offered after each of them and asked for when their interval is over, and of each request
its own whole answer or, by its timeout at the latest, nothing. Its clock (`Clock`) does not pass the timeout
(`waited`); in the code it is the tick that ends the request, and it ends it at the timeout because the
loop runs many times in a unit. Frames and parts do not occur in it. The refinement
mapping is `Exchange` in `RzUds`; a request's turn counts from the moment it is sent, not,
as in the code, from its end.

### TempSources

Extends `RzUds` by the effective probe temperatures, `g_rz_state.temp[]`, and the two
that write them. `PollTemps` is the tick that takes a temperature answer, with
`DecodeAndIngestTemp` for what `decode_and_ingest_temp()` makes of it, each probe plausible
or not; every other step of the poll leaves the temperatures alone
(`OtherPollStep`). `Broadcast` is a round of 0x4AA frames, which `rz_decode_temp_msg()`
lets write only while the DID's value of probe 1 (`First`, `didAge`) is out of its
window. A temperature is its age; `Pass` is a unit of time, in each of which the
battery has broadcast. `didRefused` and `broadcast` are kept for the property.

### ManagementEngine

`management_engine.c` over the sessions the sequencer runs it in. `Apply` is one
`management_engine_apply()`: the five pending timers, the change stamps of the
counters, and the three latches. `Output` reads off the state it leaves what the
call writes to `LeafState` (`Compose` is the state it leaves), as far as an override and not a taper decides it;
`AcTaper`, `AcTempDerate`, `OverTemperature` and `Staleness` are the four parts
that write the charger limit, in their order. `SessionStart` and `SessionEnd` are
the sequencer's calls (the first session after power-up clears nothing; the tick that re-arms
the bridge still composes, so `SessionEnd` does), `Reset` the button, `PowerLoss` the static initialisers. `Cells`, `Temperatures`, `Interlock`, `Sources`, `SignalFrame` and
`CounterFrame` (together `BatteryFrame`) are the battery's frames, which are taken in every phase: the first four
change a reading, the last two are what the watchdog sees of any frame. A
reading is the class its thresholds put it in; the
two sources that a cross check compares either agree or do not. `resetAge`,
`lowFor` and `ended` are history, for the properties only.

### Bridge

`BridgeSequencer` and an instance of `ManagementEngine` (`Management`), put together as
`bridge_sequencer.c` calls the one from the other. What either module leaves free is here the
other's: a Leaf frame that finds the bridge armed is `SessionStart` of both (`Wakes`); a
tick in any other phase composes first and then advances the phase by what that found
(`TickInSession`, with `StalenessHardCut` read after the call, and the charging interlock as the
permission); a tick of an armed bridge composes nothing (`TickArmed`); time, the button and power
loss are common. A tick is atomic: frames are taken in by the main loop, between ticks.
The engine's two phases are the mapping of the sequencer's five, which makes
`ImplementsManagement` a refinement, and `ImplementsSequencer` a projection.

### BusConnection (PC)

One `BusConnection` of `can_backend.py` with the GUI's Connect button, the reconnect
monitor, and the workers, one thread per attempt to open the adapter. A critical
section of the connection's lock is one step (`Connect`, `Disconnect`,
`MonitorReconnects`, `MonitorPasses`); what runs outside the lock is a step of its own: the button's look at
`connected` (`Press`), the 150 ms after a start (`Settled`, `MonitorSettled`), the monitor's
`wait()` (`MonitorTold`, `MonitorDue`), and each stage of `CanWorker.run()` (`OpenSucceeds`,
`OpenFails`, `ReceiveFails`, `SeesStop`, `ShutsDown`, `Ends`). `SendFails` is `send()`,
from any thread. The adapter (external) is plugged and unplugged at any time and
has one user at a time (`Holders`). `overtaken` is history: workers that `connect()`
replaced while they were running.

### RealtimeEngine (PC)

The transmit thread of `realtime_engine.py` against the GUI and the Leaf ingest
thread. A pass of `_tx_loop` is cut where the others can come in between:
`LookAtPhase`, `Skip` (which reads the phase a second time), `Compose` (the replug detection,
`ManagementEngine.apply()` reduced to its hard-cut latch, and the publication of the
values), `Tick` (`ShutdownSequencer.tick()`, one disjunct per phase) and `Act` (the
session-start notification and the burst). The GUI is `StartBridge`, `StopBridge`, then
`ClearLeafTx` (`stop_bridge()` calls `disarm()` and then `clear_leaf_tx()`), and `RequestShutdown`; the
ingest thread is `OnChargeFrame` and `OnOtherFrame`. The triggers that
`BridgeSequencer` details in their firmware form, and the conditions of the cuts, are free choices
here. Ages again stand for time stamps. `askAge`, `absent`, `stopped`, `quietWake`,
`lateBursts` and `overtook` are history. Two bounds on the pace are named there:
time moves on only between passes, and every unit of time and every 0x1F2 frame of a
session sees a pass (passes take milliseconds, 0x1F2 comes every 10 ms).

## 3. Runs and bounds

| Run | Shows | Bounds, and why they are enough |
|---|---|---|
| Seq | `TypeOK`, `IgnitionCancels`, `SwitchedOffSessionEnds`, `SilenceBounded`, `ImplementsSession`, `SilenceRearms`, `ParkedSessionEnds`, `StalledChargeEnds` | Two ignition IDs (one may be fresh while the other is stale), one transmitted ID of every stage, small timings that keep the order of the configured ones; ages saturate past the largest threshold, so no session is too long for the model. `PromptLoop = TRUE`, see below |
| Queue | `TypeOK`, `CheckHolds`, `ImplementsQueues`, `TxKeepsMoving` | Ring of three slots (two usable: empty, one and full, wrapping), two frames (order is visible), two mailboxes (one may be free while one is busy). No symmetry, because of the liveness property |
| LoopLiveness | `TypeOK`, `LeafTrafficServed`, `SilenceSleeps` | Queues of two, idle time and request gap of two units, two frames in flight |
| UdsPoll | `TypeOK`, `OwnAnswerOnly`, `TempPolledWhileFresh`, `TempsKeptCurrent`, `ImplementsExchange`, `EveryDidPolled` | `RzUds` and `TempSources` together, in units of 1.25 s: timeout 5 s, temperature interval 2 s and gap 0.3 s rounded up, fresh window 20 s; two probes, one of them the one whose age counts; the battery is busy for less than timeout plus gap |
| UdsLateAnswer | finding 1 | the same times in half seconds, with a battery busy for timeout plus gap |
| MgmtSafety | `TypeOK`, `StaleSessionIsCut`, `LowCellIsCut`, `EndedChargeStaysEnded`, `StaleOnlyInSession` | One signal, one counter, one cross check: each treats its like independently, and the watchdog takes the worst. One reading out of order at a time (`MaxFaults`); readings of several latches still meet, because latches outlive readings. Persistence and escalation times of one unit, the watchdog's soft time of two, so that a soft cut comes before a hard one and neither at once; `Cap` is the longest of them |
| MgmtStopAsserted | finding 2 | as MgmtSafety |
| Bridge | `SilentOnStaleData`, `ImplementsManagement`, `CutHeldUntilQuiet` | One transmitted ID, one ignition ID and one watched signal, no counters, no cross checks and no reading out of order (`MaxFaults = 0`), so that the watchdog's is the one cut there is; the sequencer's times are 0 or 1 and a session's age ends at 3, past the watchdog's two times and the wind-down together. What the two do to each other (cut, permission, session start, re-arming) is all there; the theorems of 5 are about every other instance |
| Bus | `TypeOK`, `WorkersAccountedFor`, `DisconnectStaysDown`, `DisconnectReleases`, `Reconnects` | Three worker threads at once: the connection's, one that `connect()` has overtaken, and one that was told to stop and is still leaving. A thread object that has ended is used again, so attempts are not bounded |
| BusWantedIsMonitored | finding 3 | two workers |
| Engine | `TypeOK`, `OneBurstAfterStop`, `StoppedShowsNothing`, `ReplugWasRealUnlessStopped`, `SessionStartWasReal`, `PowerDownHonoured` | A fresh charge command lasts one unit, the absence that makes a replug three (as 0.5 s to 3 s, shortened), all other times one; ages saturate, so nothing is too long |
| EngineReplugWasReal | finding 4 | as Engine |

`Seq` asks for safety and for liveness in one instance. What earlier runs showed about single
ticks and timers of the sequencer, and about the frame that is slept on, is kept among the remarks
under 6.

Every property of a passing run has a mutant, an operator next to the
definition it changes (`Mut...`), under which TLC finds that property violated.

Some invariants that the proofs need are stated in the modules and proved (5), and no run
checks them by themselves: `RearmedBusWasQuiet`, `NeverStranded` (`CutHeldUntilQuiet` and `SilenceRearms`
fail without them), `PendingSinceReset`, and `ImplementsSequencer` of `Bridge`.

`IgnitionCancels`, `SwitchedOffSessionEnds` and `SilenceBounded` need `PromptLoop`: the main loop runs
at least once in a unit of time. Without it a tick may simply come late. The other
properties of `Seq` are checked at that pace too; the theorems about the type invariant and
`ImplementsSession` (5) do without it.
`ManagementEngine` assumes the same: in a session the clock advances (`Elapse`) only
after an `apply()` that nothing has followed. `Bridge` has both conditions, which are the same there.

`MgmtSafety` and `Bridge` press the button in every phase, as the code reads it. `CountedFor` is
where this matters: see the remarks under 6.

## 4. Fairness

* `BridgeSequencer`: ticks and time go on (the loop has no blocking call, SysTick
  is a timer). Frames need not arrive.
* `CanQueue`: the loop calls `sendCan()` again and again (strong, because it has
  other things to do in between), finishes it, and the controller disposes of
  every frame: automatic retransmission is disabled (`can.c:61`, `:93`), so a
  mailbox empties whether or not anybody acknowledges.
* `MainLoop`: the loop does not stand still, time passes in it, mailboxes empty,
  and a drain loop catches up with its queue again and again (`DrainsKeepUp`):
  processing a frame takes microseconds, receiving one about 200 of them.
* `TempSources` (and `RzUds` in it): ticks, time, a battery that answers, refuses or
  gives up, and broadcasts in every unit of time.
* `ManagementEngine`: none; its properties are about what a call leaves, and every
  session that reaches a call has one.
* `Bridge`: none, for the same reason.
* `BusConnection`: threads that can run do, as the operating system schedules them,
  and `recv()` on an adapter that is gone raises. Nobody has to press the
  button or to plug the adapter in.
* `RealtimeEngine`: the transmit thread never ends (`_tx_loop` contains its
  exceptions), and a press of Stop is carried through. Nobody has to press anything,
  and time need not pass.

## 5. Proofs

TLAPS proves the following for every value of the constants allowed by the
`ASSUME`s.

`BridgeSequencerProofs`
* `TypeCorrect`: the type invariant, inductive by itself; one step per action.
* `RearmOnlyWhenQuiet`, `NotStranded`: by the inductive invariant `QuietInv`, type
  correctness together with both properties. `RearmedBusWasQuiet` alone is not
  inductive: its ages must be known to be `Unset` or naturals.
* `SequencerImplementsSession`: initial states map to initial states, and each
  action to the action of `LeafSession` of the same meaning or a stutter. The step
  needs type correctness and `NeverStranded`. These four hold for any pace of the
  main loop.
* `SwitchedOffEnds`: assumes `PromptLoop`, a charge command that goes stale before the cooldown is
  over, and at least one ignition ID. `ParkedSessionEnds` with a bound in place of fairness: the invariant
  `OffTimed` says that in a session without a charge the hold timer has run for as long
  as the ignition has been off after the grace period, but for the unit whose tick is still to come.
  `ActiveSeen` (a charge that is active has been noticed) keeps out the authorised charge, which returns before
  the timer is looked at; it needs `RearmedBusWasQuiet`, because re-arming forgets what was noticed.
* `SilenceEndsSession`: assumes `PromptLoop` and `ChgCmdFresh < BusSilence` (0.5 s and 30 s as
  exported). An authorised charge returns before the silence test, so the
  invariant `SilenceInv` relates two stamps: every charge frame is also a Leaf frame
  (`ChargeHeard`), so that a bus silent for the timeout has no fresh charge command.
* `ReappearingIgnitionCancels`: assumes `PromptLoop`, at least one ignition ID, a quiet time
  of at least one unit and room for ages (`SessionCap > 1`). The hold timers are sampled by ticks and survive a
  session, so the invariant `HoldInv` says of a running timer that every ignition ID has been away
  for the quiet time and for as long as it has run, or has just been seen and the
  next tick will cancel it.

`BridgeProofs`
* `BridgeImplementsManagement`, `BridgeImplementsSequencer`: every step of the composition is a step of
  each part, or a stutter. The module instantiates `ManagementEngineProofs`, and with the first refinement
  every theorem about the engine is one about the bridge; the second one carries over those about the
  sequencer. The sequencer's step needs to know that the interlock is Boolean.
* `CutHeld`: from `RearmedBusWasQuiet`, carried over. What a session start takes back was latched before
  a quiet bus; no other step of either part releases it.
* `StaleBatterySilences`: from the engine comes `WatchdogKeepsTime`: the watchdog's timer has run for
  whatever an input is older than the soft time, or for as long as the session. `BridgeInv` adds what only
  the two together give: while the bridge is up and this tick has composed, the
  timer is short of the hard time, so that every input, or the session itself, is younger than `StaleLimit`;
  in the wind-down neither is older than that and the age of the wind-down, which the last stage ends. The one
  exception is the burst at re-arming (6), which the property excludes by its phase.

`CanQueueProofs`
* `TypeCorrect`, `GuardWorks`: by `IInv`, the conjunction of both properties. Neither is
  inductive alone: that the popped slot holds a frame (`TypeOK`) needs the guard
  (`CheckHolds`), and that the hand-over still finds its frame needs the ring's
  contents.
* `DriverImplementsQueues`: the rings, read from tail to head, are sequences:
  `PushAppends` (a push is an `Append`, unless full) and `PopTails` (a pop is a `Tail`)
  carry the modular arithmetic, and every action then maps to one of `FrameQueues`.
  It holds for every ring size from two up; the firmware's is 16 (`can.h:48`).

`ManagementEngineProofs`
* `TypeCorrect`, and `ButtonRestarts` from it: a pending timer and the age of the last
  press grow alike, and both are set to 0 where one of them is.
* `EndedStays`: by `EndedLatched`, which says that an ended charge has one of the two latches
  set. `EndedChargeStaysEnded` speaks of the output only and is not inductive.
* `StaleSinceSession`: by `WatchdogInv`, which bounds the watchdog's timer by the age of
  its reference, and that by `CountedFor`: the age of the session, or, in the first one after
  power-up, of a press of the button before it. Until that session starts the reference is the last press's,
  or unset (`firstApply = resetAge`).
* `LowCellCut`, `StaleSessionCut`: by `LowTimed` and `StaleTimed`. Each
  says that in a session either the hard cut is latched or a pending timer has
  run for as long as its condition has lasted (less the soft time, for the watchdog) or as the session has,
  with the calls of `apply()` that are still to come as the exception; `PhaseInv` keeps the
  engine's calls within sessions. `WatchdogKeepsTime` states the second of these
  invariants for other modules.

`DidPollProofs`
* `PollTypeCorrect`: by `TypeInv`, which adds that a multi-frame answer under way has as many
  bytes as its parts account for, and what the battery is doing.
* `TempsPolledInTime`: assumes that the longest wait between two temperature polls
  (`Longest`: the interval or one round-robin request, whichever is longer, and the
  temperature request itself) and one more timeout fit in the window. `TempInv`
  bounds the age of the last poll by what each state of the machine still has to wait.
* `OnlyOwnAnswers`: assumes that the battery is done with a request before the next
  one goes out. `OwnInv` adds which request the battery is at (`JobIsCurrent`), and that the buffer
  holds nothing, a refusal, or the answer's parts so far in an order the lost frames allow
  (`ContentInv`): a lost part shifts the ones after it, and the length then is never reached.
* `PollImplementsExchange`: under the assumption of `OnlyOwnAnswers`. Each case of the tick is
  one action of `DidExchange`, a frame is its `Frame`, and `Elapse` its `Clock`, which stands still once the timeout
  of a request is reached: a tick is due then (`ClockImplied`). It needs `GapOver` (no gap is left over where a request is next or under way) and, for what a request may yield,
  `OwnInv` (`TakesWholeOrNothing`).
* `TempsStayCurrent`: by `TempsInv`, for any set of probes.

`MainLoopProofs`: `LoopTypeCorrect`, inductive by itself; with the domains it says that the loop is
never on its way to sleep in a session.

`BusConnectionProofs`: `BusTypeCorrect`, `BusWorkersAccountedFor` and `BusDisconnectStaysDown`, by `BusInv`,
which adds `OpeningHasNoError`: a worker that is still opening the adapter has no error, so that what
the monitor replaces, down and with an error, has ended. For any number of workers.

`RealtimeEngineProofs`: `EngineTypeCorrect`; `EngineOneBurst` by `BurstInv`; `EngineStoppedShowsNothing` by `ShownInv`;
`EngineSessionStartWasReal` by `StartInv`, which follows a natural re-arm from the quiet bus to the
notification, whatever the GUI does in between; `EngineReplugWasReal` by `ReplugInv`, which
bounds the measured absence of the request by its real one, with what happened
unseen in the parked phases as the exception (`ParkedUnseen`). For all timings, those the GUI's bounds allow included: a fresh time of the charge
command longer than the absence that makes a replug (`ChgFresh >= ChgEnd`), and an absence of 0, where any gap is a
replug. Only the cooldown must not be 0 (`EngineAssumption`): it is a constant of 1 s
(`leaf_signals.py:554`), which no field of the GUI sets.

Only model-checked: all liveness properties (fairness and ENABLED are beyond the
prover). Every safety property that a passing run checks is proved. What holds at the
bounds of a run only is `PowerDownHonoured`, `DisconnectReleases`, `Reconnects`,
`EveryDidPolled`, `TxKeepsMoving`, `LeafTrafficServed`, `SilenceSleeps`, `SilenceRearms`, `ParkedSessionEnds`
and `StalledChargeEnds`.

## 6. Findings and remarks

### Findings

Each is refuted by a run of its own.

1. A late answer completes the next request (`CompleteIsCurrent`). The echoed
   DID is not looked at; the temperature answer is long enough to be decoded as
   any of the others. `OwnAnswerOnly` shows that a battery that is done
   before the next request can cause no such mix-up, whatever frames are lost.
2. A latched charge stop is not always asserted as one (`StopAsserted`). The AC
   taper writes -10 kW; the AC temperature derate, which follows it
   (`management_engine.c:471`), multiplies whatever it finds, so that on a cold or warm
   pack the stop goes out as something between -10 and 0 kW, and an over-temperature
   emergency (`:526`) writes 0. `EndedChargeStaysEnded` shows what is kept: the
   full-charge flag stays up, regeneration is off and the charger is never asked for
   power.
3. A wanted connection may have no reconnect monitor (`WantedIsMonitored`).
   `disconnect()` sets `_stop_monitor`; a `connect()` that follows before the old monitor thread has
   returned from `wait()` finds it alive, keeps it (`can_backend.py:202`) and leaves the event set; the
   thread then ends. This is item 3.1 of `docs/13`, marked as fixed. Run against the repository's
   class, connect, disconnect and connect in a row lose the monitor
   every time; the test of this race cycles often enough to pass by parity
   (every second cycle starts a new monitor). `Reconnects` shows that a connection that does have its monitor
   comes back.
4. A moment's absence counts as a replug (`ReplugWasReal`). `_chg_inactive_since`
   survives Stop and Start. A request that was away for an instant when Stop was
   pressed, and came back while nothing was composed, is measured over the whole
   stop, and the first pass that sees it takes the latched hard cut back.
   `ReplugWasRealUnlessStopped` shows that nothing else does: not sleep and wake, and not
   gaps between frames.

### Remarks

Not refuted by a run: nothing in the repository states the contrary, or what the
statement says is too coarse to decide it.

Firmware:

* A frame may be slept on. The sleep check looks at what was drained, and interrupts stay
  enabled up to WFI (`main.c:162`): a frame received in between waits for the next interrupt.
  `LeafTrafficServed` shows that the damage is bounded: traffic that goes on is served.
* The tick that re-arms the sequencer transmits. After the phase has left STOPPED
  the test at `bridge_sequencer.c:529` no longer returns, and every ID that is due goes
  out, ungated, on a bus that has just gone quiet. `LeafSession` states it as its
  one exception. The PC sequencer has no such burst.
* A charge-end timer survives into the next session: re-arming (`bridge_sequencer.c:271`)
  clears what the trigger remembers and not `chg_end_pending`, so a later session may
  end without the 3 s of `docs/07:108`.
* The stall timer is anchored at the last transition of a request that may have
  come while the car was on (`bridge_sequencer.c:192`).
* A probe whose DID value is implausible, in answers whose probe 1 is plausible, keeps its
  old effective temperature: its DID reading is dropped, and the broadcasts stand back,
  because the freshness of probe 1 decides for all sixteen (`rz450e_ingest.c:208-212`).
  `TempsKeptCurrent` has this as its one exception.
* The pending timers of the cross checks survive a session start
  (`management_engine.c:138-142` says so, on purpose), and the engine does not run while the
  bridge is armed. A disagreement that ended and came back in that time
  counts as one, and the first call of the session may latch the hard cut.
* The button is read in every phase (`bridge_sequencer.c:465`) and sets the
  watchdog's reference. Pressed before the first session after power-up, which sets no
  reference of its own, it leaves that session an old one, and the watchdog holds silence
  of before the session against it: the state the fix described at
  `management_engine.c:127-133` is meant to exclude. `CountedFor`, in `StaleOnlyInSession`, is exactly
  this exception, and with `CountedFor == sessionAge` TLC finds the property violated in five steps: button, two units of
  time, session start, `apply()`, whose soft cut is there at once and whose hard cut comes after the escalation time. No other session is affected (`StaleSinceSession`).

PC application:

* A running worker that `connect()` replaces is dropped and not stopped
  (`can_backend.py:231`): one that is opening, or that has opened between the button's look at the connection
  (`Press`) and the lock (`Connect`). It may get the adapter; `disconnect()` cannot reach it, and its
  successors cannot open. `DisconnectReleases`, `Reconnects` and `WorkersAccountedFor` name it as their
  exception (`overtaken`).
* A pass that was composing when Stop cleared the values publishes them again
  (the exception of `StoppedShowsNothing`), and one burst may still go out.
* The transmit loop reads the phase twice (`realtime_engine.py:1109-1110`). A wake between the
  two leaves `last_phase` at the newer phase, and that session is not announced to the management engine.
* Where a session is announced, it is announced after the first pass has
  composed: a cut that this pass latches is taken back until the next one.
* A power-down request made while the bridge is stopped or armed is kept by
  `arm()`, and ends the next session at its first tick. `PowerDownHonoured` shows that it is never lost in one.

## 7. Not modelled

* Values: scaling, tapers, plausibility bounds and frame layouts are pure
  floating-point or bit computations; the repository's golden-vector tests
  (`src/tests/check_stm32_*`) compare them with the Python original.
* Peripheral set-up, indicator lights, bus-off recovery (what the controller
  does is not determined by this code).
* Tick values at the wrap of the 32-bit millisecond counter: the value 0 that
  stands for `never', and due times of an ID not looked at for 24.8 days.
* The free-running prun counter and the contents of frames.
* In `ManagementEngine`: the limits that only a taper decides, the AC current level
  and its convergence (`ac_uprate_level`), the fault indicator, and
  `notify_charge_replug()`, which nothing in the firmware calls.
* In `BusConnection`: the queues' contents, counters and logs, and `DemoWorker`.
* In `RealtimeEngine`: the ramp's values, the DID and prun threads, and the
  containment of exceptions, which abandons a pass at any point.
* Of the PC application, the management engine and the DID client as such: the
  firmware's ports of them are modelled. Logs, profiles and the GUI, but for the
  buttons, are bookkeeping and presentation.
* `src/Refrance` and `FW/Drivers`: vendored. They make up most of the
  repository's lines.

## 8. Plan

Done since the first version: the temperatures' two sources over the DID poll, the PC's
connection and transmit loop, the composition of the sequencer with the management engine,
an abstract specification of the DID poll, and proofs of every safety property the passing runs
check. Left, in order:

1. `TxBurst`: the sequencer's transmissions over `FrameQueues`: no ID is
   skipped on a ring of 16 slots.
2. Bounds in time in place of the liveness of `StalledChargeEnds`, as `SwitchedOffSessionEnds` is
   for `ParkedSessionEnds`, and their proofs.
3. Abstract specifications of the PC's `BusConnection` (a link that is wanted, up or down) and
   `RealtimeEngine`, with refinements.
4. The PC's `DidClient`: its drain of stale answers against the ingest thread.
5. The exception containment of the transmit loop, and the DID and prun threads, in `RealtimeEngine`.

The runs take a few minutes together; a new one replaces or absorbs an old one.
