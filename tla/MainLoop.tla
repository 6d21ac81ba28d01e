-------------------------------- MODULE MainLoop --------------------------------
(***************************************************************************)
(* The main loop of the firmware (Src/main.c) and its sleep: it drains     *)
(* both receive queues, runs the sequencer, sends, and enters WFI when the *)
(* bridge is armed and no frame has been processed for the idle timeout.   *)
(* Interrupts arrive at any point of it.  The queues are counted here (see *)
(* CanQueue for their order), the sequencer is reduced to whether it is    *)
(* armed (see BridgeSequencer) and the DID poll to its pace.               *)
(***************************************************************************)
EXTENDS Naturals

CONSTANTS
    Capacity,       \* frames a receive queue holds: CAN_QUEUE - 1
    SleepIdle,      \* BRIDGE_CFG_ET_SLEEP_IDLE_TIMEOUT_S
    RequestGap,     \* time between two DID requests nobody answers
    MaxInFlight     \* transmit mailboxes of the two controllers

ASSUME LoopAssumption ==
    /\ Capacity \in Nat \ {0} /\ SleepIdle \in Nat /\ MaxInFlight \in Nat \ {0}
    /\ RequestGap \in Nat \ {0, 1}   \* an iteration is shorter than the gap

VARIABLES
    at,             \* where the loop stands; "asleep" is inside WFI
    waiting,        \* waiting[bus], the frames in its receive queue
    armed,          \* phase = BRIDGE_PHASE_WAITING_FOR_WAKE
    idle,           \* since last_activity_tick
    requestIn,      \* time left until the next DID request
    inFlight,       \* transmit mailboxes that will raise an interrupt
    arrived         \* the bus of the frame the last step received, or "none"

vars == <<at, waiting, armed, idle, requestIn, inFlight, arrived>>

Buses == {"RZ450e", "Leaf"}
Places == {"drainRZ450e", "drainLeaf", "tick", "check", "sleep", "asleep"}
Drain(bus) == IF bus = "RZ450e" THEN "drainRZ450e" ELSE "drainLeaf"
AfterDrain(bus) == IF bus = "RZ450e" THEN "drainLeaf" ELSE "tick"

Init ==
    /\ at = "drainRZ450e" /\ waiting = [bus \in Buses |-> 0]
    /\ armed = TRUE /\ idle = 0 /\ requestIn = 0 /\ inFlight = 0
    /\ arrived = "none"

\* PopCan and bridge_sequencer_on_frame(): any Leaf frame opens a session.
OnFrame(bus) ==
    /\ at = Drain(bus) /\ waiting[bus] > 0
    /\ waiting' = [waiting EXCEPT ![bus] = @ - 1]
    /\ idle' = 0
    /\ armed' = (armed /\ bus # "Leaf")
    /\ arrived' = "none"
    /\ UNCHANGED <<at, requestIn, inFlight>>

\* The drain loop is left on an empty queue.
Drained(bus) ==
    /\ at = Drain(bus) /\ waiting[bus] = 0
    /\ at' = AfterDrain(bus) /\ arrived' = "none"
    /\ UNCHANGED <<waiting, armed, idle, requestIn, inFlight>>

\* A due DID request is one frame, in any phase; the Leaf frames are any number,
\* in a session only, which the tick may end.
Sent ==
    /\ armed' \in IF armed THEN {TRUE} ELSE BOOLEAN
    /\ inFlight' \in
           IF ~armed THEN inFlight..MaxInFlight
           ELSE IF requestIn' = RequestGap /\ inFlight < MaxInFlight THEN {inFlight + 1}
           ELSE {inFlight}

\* bridge_sequencer_tick(), `elapsed' after the one before it.
\* Mutant: the bridge's own requests count as activity.
MutTick(elapsed) ==
    /\ at = "tick" /\ at' = "check"
    /\ requestIn' = IF requestIn <= elapsed THEN RequestGap ELSE requestIn - elapsed
    /\ idle' = IF requestIn <= elapsed THEN 0
               ELSE IF idle <= SleepIdle THEN idle + elapsed ELSE idle
    /\ Sent
    /\ arrived' = "none"
    /\ UNCHANGED waiting
Tick(elapsed) ==
    /\ at = "tick" /\ at' = "check"
    /\ requestIn' = IF requestIn <= elapsed THEN RequestGap ELSE requestIn - elapsed
    /\ idle' = IF idle <= SleepIdle THEN idle + elapsed ELSE idle
    /\ Sent
    /\ arrived' = "none"
    /\ UNCHANGED waiting

\* bridge_sequencer_should_sleep()
ShouldSleep == armed /\ idle > SleepIdle

Check ==
    /\ at = "check" /\ at' = IF ShouldSleep THEN "sleep" ELSE "drainRZ450e"
    /\ arrived' = "none"
    /\ UNCHANGED <<waiting, armed, idle, requestIn, inFlight>>

\* HAL_SuspendTick() and WFI: an interrupt served before it does not end it.
EnterSleep ==
    /\ at = "sleep" /\ at' = "asleep" /\ arrived' = "none"
    /\ UNCHANGED <<waiting, armed, idle, requestIn, inFlight>>

\* Any interrupt ends WFI; HAL_ResumeTick() and back to the top of the loop.
Woken == at' = IF at = "asleep" THEN "drainRZ450e" ELSE at

\* Mutant: only the battery's bus ends WFI.
MutRxInterrupt(bus) ==
    /\ waiting' = [waiting EXCEPT ![bus] = IF @ < Capacity THEN @ + 1 ELSE @]
    /\ arrived' = bus
    /\ at' = IF at = "asleep" /\ bus = "RZ450e" THEN "drainRZ450e" ELSE at
    /\ UNCHANGED <<armed, idle, requestIn, inFlight>>
\* Mutant: a full queue takes another frame.
MutRxIntoFull(bus) ==
    /\ waiting' = [waiting EXCEPT ![bus] = IF @ <= Capacity THEN @ + 1 ELSE @]
    /\ arrived' = bus
    /\ Woken
    /\ UNCHANGED <<armed, idle, requestIn, inFlight>>
RxInterrupt(bus) ==
    /\ waiting' = [waiting EXCEPT ![bus] = IF @ < Capacity THEN @ + 1 ELSE @]
    /\ arrived' = bus
    /\ Woken
    /\ UNCHANGED <<armed, idle, requestIn, inFlight>>

TxInterrupt ==
    /\ inFlight > 0 /\ inFlight' = inFlight - 1
    /\ arrived' = "none"
    /\ Woken
    /\ UNCHANGED <<waiting, armed, idle, requestIn>>

MainStep ==
    \/ \E bus \in Buses : OnFrame(bus) \/ Drained(bus)
    \/ \E elapsed \in {0, 1} : Tick(elapsed)
    \/ Check \/ EnterSleep

Next ==
    \/ MainStep
    \/ \E bus \in Buses : RxInterrupt(bus)
    \/ TxInterrupt

Spec == Init /\ [][Next]_vars

\* A drain is ahead of its queue again and again: processing a frame takes less
\* time than receiving one.
DrainsKeepUp ==
    \A bus \in Buses : []<>(at = Drain(bus) => waiting[bus] = 0) /\ SF_vars(Drained(bus))

\* The loop never stands still, time passes in it, and what is in a mailbox leaves it.
Fairness ==
    /\ WF_vars(MainStep) /\ SF_vars(Tick(1)) /\ WF_vars(TxInterrupt)
    /\ DrainsKeepUp

FairSpec == Spec /\ Fairness
-----------------------------------------------------------------------------
(* Properties.                                                             *)

\* Every variable stays in its domain, and the bridge is awake in a session.
TypeOK ==
    /\ at \in Places /\ waiting \in [Buses -> 0..Capacity]
    /\ armed \in BOOLEAN /\ idle \in 0..(SleepIdle + 1)
    /\ requestIn \in 0..RequestGap
    /\ inFlight \in 0..MaxInFlight /\ arrived \in Buses \cup {"none"}
    /\ at \in {"sleep", "asleep"} => armed

\* Leaf traffic that goes on opens a session again and again, asleep or not: a
\* frame that the sleep overlooked is made up for by the ones after it.
LeafTrafficServed == []<>(arrived = "Leaf") => []<>(~armed)

\* On silent buses an armed bridge goes to sleep for good, although it goes on
\* requesting DIDs: the interrupts of its own transmissions do not keep it awake.
SilenceSleeps == <>[](arrived = "none" /\ armed) => <>[](at = "asleep")
================================================================================
