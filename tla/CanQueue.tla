-------------------------------- MODULE CanQueue --------------------------------
(***************************************************************************)
(* The CAN driver of the firmware (Src/can.c) for one of its two buses:    *)
(* the transmit and receive rings, shared by the main loop and the receive *)
(* interrupt, and sendCan(), which both of them run.  The buses have rings *)
(* and guards of their own, so one stands for each.                        *)
(*                                                                         *)
(* The main loop's steps are those between which an interrupt can fall:    *)
(* the critical sections of PushCan, PopCan and LenCan, and the parts of   *)
(* sendCan between them.  The CAN interrupts share one priority: one of    *)
(* them runs from its start to its end while the main loop stands still,   *)
(* so a whole interrupt is one action.                                     *)
(***************************************************************************)
EXTENDS Naturals, Sequences

CONSTANTS Frames,      \* the frames either side can put on the bus
          Mailboxes,   \* the transmit mailboxes of the controller
          CAN_QUEUE,   \* the slots of a ring
          Free,        \* an empty mailbox
          Garbage      \* the contents of memory nobody has written yet

ASSUME QueueAssumption == CAN_QUEUE \in Nat \ {0, 1}
ASSUME FrameAssumption ==
    Free \notin Frames /\ Garbage \notin Frames /\ Free # Garbage

VARIABLES
    CanBuffer,   \* CanBuffer[dir][slot]
    canHead,     \* canHead[dir], the slot the next frame goes to
    canTail,     \* canTail[dir], the slot of the oldest frame
    sending,     \* the re-entrancy guard of sendCan()
    at,          \* where the main loop stands
    frame,       \* sendCan()'s local variable, in the main loop's call
    mailbox,     \* what each mailbox holds, or Free
    taken        \* the frame the main loop's last PopCan gave it

ringVars == <<CanBuffer, canHead, canTail>>
vars == <<ringVars, sending, at, frame, mailbox, taken>>

Dirs == {"CAN_TX", "CAN_RX"}
Slots == 0..(CAN_QUEUE - 1)
Places == {"loop", "send", "check", "pop", "add", "leave"}

-----------------------------------------------------------------------------
(* The rings.                                                              *)

\* Mutant: the wrap comes one slot late.
MutNextSlot(slot) == (slot + 1) % (CAN_QUEUE + 1)
NextSlot(slot) == (slot + 1) % CAN_QUEUE

\* Mutant: no room is kept between head and tail.
MutNeverFull(dir) == FALSE
Full(dir) == NextSlot(canHead[dir]) = canTail[dir]

Empty(dir) == canHead[dir] = canTail[dir]
Oldest(dir) == CanBuffer[dir][canTail[dir]]

Written(buffer, slot, f) == [buffer EXCEPT ![slot] = f]

\* The critical section of PushCan(): a full ring leaves the frame out.
Pushed(dir, f) ==
    IF Full(dir) THEN UNCHANGED <<CanBuffer, canHead>>
    ELSE /\ CanBuffer' = [CanBuffer EXCEPT ![dir] = Written(@, canHead[dir], f)]
         /\ canHead' = [canHead EXCEPT ![dir] = NextSlot(canHead[dir])]

PoppedFrom(dir) == canTail' = [canTail EXCEPT ![dir] = NextSlot(canTail[dir])]

FreeMailboxes == {m \in Mailboxes : mailbox[m] = Free}

-----------------------------------------------------------------------------
Init ==
    /\ CanBuffer = [dir \in Dirs |-> [slot \in Slots |-> Garbage]]
    /\ canHead = [dir \in Dirs |-> 0] /\ canTail = [dir \in Dirs |-> 0]
    /\ sending = FALSE /\ at = "loop" /\ frame = Garbage
    /\ mailbox = [m \in Mailboxes |-> Free] /\ taken = Free

(* The main loop.  The code between these steps may run them in any order. *)

\* PopCan(CAN_RX), under LenCan(CAN_RX) > 0: only the main loop takes from this
\* ring, so what LenCan saw is still there.
TakeRx ==
    /\ at = "loop" /\ ~Empty("CAN_RX")
    /\ taken' = Oldest("CAN_RX") /\ PoppedFrom("CAN_RX")
    /\ UNCHANGED <<CanBuffer, canHead, sending, at, frame, mailbox>>

\* PushCan(CAN_TX), which goes on with sendCan().
PostTx(f) ==
    /\ at = "loop" /\ at' = "send"
    /\ Pushed("CAN_TX", f)
    /\ UNCHANGED <<canTail, sending, frame, mailbox, taken>>

CallSend ==
    /\ at = "loop" /\ at' = "send"
    /\ UNCHANGED <<ringVars, sending, frame, mailbox, taken>>

\* Mutant: the guard is tested and not set.
MutEnterUnguarded ==
    /\ at = "send"
    /\ at' = IF sending THEN "loop" ELSE "check"
    /\ UNCHANGED <<ringVars, sending, frame, mailbox, taken>>
EnterSend ==
    /\ at = "send"
    /\ IF sending THEN at' = "loop" /\ UNCHANGED sending
       ELSE at' = "check" /\ sending' = TRUE
    /\ UNCHANGED <<ringVars, frame, mailbox, taken>>

CheckTx ==
    /\ at = "check"
    /\ at' = IF ~Empty("CAN_TX") /\ FreeMailboxes # {} THEN "pop" ELSE "leave"
    /\ UNCHANGED <<ringVars, sending, frame, mailbox, taken>>

\* On an empty ring PopCan leaves the local frame unwritten.
PopTx ==
    /\ at = "pop" /\ at' = "add"
    /\ IF Empty("CAN_TX") THEN frame' = Garbage /\ UNCHANGED canTail
       ELSE frame' = Oldest("CAN_TX") /\ PoppedFrom("CAN_TX")
    /\ UNCHANGED <<CanBuffer, canHead, sending, mailbox, taken>>

\* HAL_CAN_AddTxMessage(), whose failure is ignored.
AddTx ==
    /\ at = "add" /\ at' = "leave"
    /\ IF FreeMailboxes = {} THEN UNCHANGED mailbox
       ELSE \E m \in FreeMailboxes : mailbox' = [mailbox EXCEPT ![m] = frame]
    /\ UNCHANGED <<ringVars, sending, frame, taken>>

\* Mutant: the guard stays set when there was nothing to send.
MutLeaveHolding ==
    /\ at = "leave" /\ at' = "loop"
    /\ sending' = (FreeMailboxes = {})
    /\ UNCHANGED <<ringVars, frame, mailbox, taken>>
LeaveSend ==
    /\ at = "leave" /\ at' = "loop"
    /\ sending' = FALSE
    /\ UNCHANGED <<ringVars, frame, mailbox, taken>>

(* The receive interrupt: PushCan(CAN_RX), and its sendCan() unless it has *)
(* interrupted the main loop's.                                            *)
RxInterrupt(f) ==
    /\ Pushed("CAN_RX", f)
    /\ IF sending \/ Empty("CAN_TX") \/ FreeMailboxes = {}
       THEN UNCHANGED <<canTail, mailbox>>
       ELSE /\ PoppedFrom("CAN_TX")
            /\ \E m \in FreeMailboxes :
                   mailbox' = [mailbox EXCEPT ![m] = Oldest("CAN_TX")]
    /\ UNCHANGED <<sending, at, frame, taken>>

\* The controller sends the frame of a mailbox, or gives it up: automatic
\* retransmission is disabled.
MailboxDone(m) ==
    /\ mailbox[m] # Free
    /\ mailbox' = [mailbox EXCEPT ![m] = Free]
    /\ UNCHANGED <<ringVars, sending, at, frame, taken>>

MainStep ==
    \/ TakeRx
    \/ \E f \in Frames : PostTx(f)
    \/ CallSend
    \/ EnterSend \/ CheckTx \/ PopTx \/ AddTx \/ LeaveSend

Next ==
    \/ MainStep
    \/ \E f \in Frames : RxInterrupt(f)
    \/ \E m \in Mailboxes : MailboxDone(m)

Spec == Init /\ [][Next]_vars

\* The main loop calls sendCan() in every iteration and never stands still
\* inside it; the controller disposes of every frame it holds.
Fairness ==
    /\ SF_vars(CallSend)
    /\ WF_vars(EnterSend \/ CheckTx \/ PopTx \/ AddTx \/ LeaveSend)
    /\ \A m \in Mailboxes : WF_vars(MailboxDone(m))

FairSpec == Spec /\ Fairness
-----------------------------------------------------------------------------
(* Properties.                                                             *)

\* The frames of a ring, oldest first.
Length(head, tail) == IF head >= tail THEN head - tail ELSE CAN_QUEUE - tail + head
Contents(buffer, head, tail) ==
    [i \in 1..Length(head, tail) |-> buffer[(tail + i - 1) % CAN_QUEUE]]
Waiting(dir) == Contents(CanBuffer[dir], canHead[dir], canTail[dir])

\* Every variable stays in its domain, and the slots between tail and head hold
\* frames somebody has pushed.
TypeOK ==
    /\ CanBuffer \in [Dirs -> [Slots -> Frames \cup {Garbage}]]
    /\ canHead \in [Dirs -> Slots] /\ canTail \in [Dirs -> Slots]
    /\ \A dir \in Dirs : Waiting(dir) \in Seq(Frames)
    /\ sending \in BOOLEAN /\ at \in Places
    /\ frame \in Frames \cup {Garbage}
    /\ mailbox \in [Mailboxes -> Frames \cup {Free}]
    /\ taken \in Frames \cup {Free}

\* Between the check and the hand-over of the main loop's sendCan() an
\* interrupt may run, and itself call sendCan().  Still the frame the check
\* promised is there to be popped, and the mailbox it saw is free to take it:
\* no frame is lost after PopCan() and no unwritten frame is sent.  The guard
\* is held for just that long.
CheckHolds ==
    /\ sending <=> at \in {"check", "pop", "add", "leave"}
    /\ at = "pop" => ~Empty("CAN_TX")
    /\ at = "add" => frame # Garbage
    /\ at \in {"pop", "add"} => FreeMailboxes # {}

\* A frame popped for transmission still heads the queue until a mailbox has it.
Queues == INSTANCE FrameQueues WITH
    Capacity <- CAN_QUEUE - 1,
    tx <- IF at = "add" THEN <<frame>> \o Waiting("CAN_TX") ELSE Waiting("CAN_TX"),
    rx <- Waiting("CAN_RX")

\* Every step of the driver is a step of FrameQueues: whatever the interrupts
\* do, both directions are bounded FIFO queues that lose, duplicate and reorder
\* nothing they have accepted.
ImplementsQueues == Queues!QueuesSpec

\* An accepted frame does not wait for ever: the ring empties again and again,
\* or the oldest frame keeps leaving it.
TxKeepsMoving ==
    []<>Empty("CAN_TX") \/ []<><<canTail'["CAN_TX"] # canTail["CAN_TX"]>>_vars
================================================================================
