------------------------------- MODULE FrameQueues -------------------------------
(***************************************************************************)
(* What the CAN driver of the firmware promises for one bus: two bounded   *)
(* FIFO queues and a set of transmit mailboxes.  A posted frame is refused *)
(* only when the queue is full; an accepted one stays in its order and     *)
(* goes, unchanged, to exactly one mailbox.  CanQueue implements it.       *)
(***************************************************************************)
EXTENDS Naturals, Sequences

CONSTANTS Frames, Mailboxes, Free, Capacity

VARIABLES tx,        \* frames waiting for a mailbox
          rx,        \* frames waiting for the main loop
          mailbox,   \* what each transmit mailbox holds, or Free
          taken      \* the frame the main loop last took, Free before that

queueVars == <<tx, rx, mailbox, taken>>

QueuesInit ==
    /\ tx = <<>> /\ rx = <<>>
    /\ mailbox = [m \in Mailboxes |-> Free] /\ taken = Free

Post(f) ==
    /\ tx' = IF Len(tx) < Capacity THEN Append(tx, f) ELSE tx
    /\ UNCHANGED <<rx, mailbox, taken>>

HandOver ==
    /\ tx # <<>>
    /\ \E m \in Mailboxes :
           mailbox[m] = Free /\ mailbox' = [mailbox EXCEPT ![m] = Head(tx)]
    /\ tx' = Tail(tx)

Send == HandOver /\ UNCHANGED <<rx, taken>>

\* A frame arrives; the interrupt may send one as well.
Receive(f) ==
    /\ rx' = IF Len(rx) < Capacity THEN Append(rx, f) ELSE rx
    /\ HandOver \/ UNCHANGED <<tx, mailbox>>
    /\ UNCHANGED taken

Take ==
    /\ rx # <<>>
    /\ taken' = Head(rx) /\ rx' = Tail(rx)
    /\ UNCHANGED <<tx, mailbox>>

\* The controller is done with a frame, sent or not.
Vacate(m) ==
    /\ mailbox[m] # Free
    /\ mailbox' = [mailbox EXCEPT ![m] = Free]
    /\ UNCHANGED <<tx, rx, taken>>

QueuesNext ==
    \/ \E f \in Frames : Post(f) \/ Receive(f)
    \/ Send \/ Take
    \/ \E m \in Mailboxes : Vacate(m)

QueuesSpec == QueuesInit /\ [][QueuesNext]_queueVars
================================================================================
