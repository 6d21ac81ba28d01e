------------------------------ MODULE CanQueueProofs ------------------------------
(***************************************************************************)
(* The rings and the guard of CanQueue are right for every size of ring,   *)
(* every set of frames and every number of mailboxes.                      *)
(***************************************************************************)
EXTENDS CanQueue, SequenceTheorems, TLAPS

-----------------------------------------------------------------------------
(* The ring.                                                               *)

\* Stepping round the ring without the modulus.
LEMMA NextSlotValue ==
    ASSUME NEW s \in Slots
    PROVE  NextSlot(s) = IF s = CAN_QUEUE - 1 THEN 0 ELSE s + 1
<1>1. CASE s = CAN_QUEUE - 1
  BY <1>1, QueueAssumption DEF NextSlot, Slots
<1>2. CASE s # CAN_QUEUE - 1
  BY <1>2, QueueAssumption DEF NextSlot, Slots
<1> QED BY <1>1, <1>2

\* The slot i places after slot s, for a whole turn.
LEMMA SlotAfter ==
    ASSUME NEW s \in Slots, NEW i \in 0..CAN_QUEUE
    PROVE  (s + i) % CAN_QUEUE = IF s + i < CAN_QUEUE THEN s + i
                                 ELSE IF s + i < 2 * CAN_QUEUE THEN s + i - CAN_QUEUE
                                 ELSE s + i - 2 * CAN_QUEUE
<1> QED BY QueueAssumption DEF Slots

\* The type and the length of a ring's contents.
LEMMA ContentsType ==
    ASSUME NEW S, NEW buffer \in [Slots -> S], NEW head \in Slots, NEW tail \in Slots
    PROVE  /\ Length(head, tail) \in 0..(CAN_QUEUE - 1)
           /\ Contents(buffer, head, tail) \in Seq(S)
           /\ Len(Contents(buffer, head, tail)) = Length(head, tail)
<1> DEFINE len == Length(head, tail)
<1>1. len \in 0..(CAN_QUEUE - 1)
  BY QueueAssumption DEF Length, Slots
<1>2. ASSUME NEW i \in 1..len
      PROVE  buffer[(tail + i - 1) % CAN_QUEUE] \in S
  <2>1. (tail + i - 1) % CAN_QUEUE \in Slots
    BY <1>1, QueueAssumption DEF Slots
  <2> QED BY <2>1
<1>3. Contents(buffer, head, tail) \in [1..len -> S]
  BY <1>2 DEF Contents
<1> QED BY <1>1, <1>3

\* A full ring holds one frame less than it has slots, an empty one none.
LEMMA LengthExtremes ==
    ASSUME NEW head \in Slots, NEW tail \in Slots
    PROVE  /\ NextSlot(head) = tail <=> Length(head, tail) = CAN_QUEUE - 1
           /\ head = tail <=> Length(head, tail) = 0
<1> QED BY NextSlotValue, QueueAssumption DEF Length, Slots

\* Writing at the head of a ring that is not full appends the frame.
LEMMA PushAppends ==
    ASSUME NEW S, NEW buffer \in [Slots -> S], NEW head \in Slots, NEW tail \in Slots,
           NEW f \in S, NextSlot(head) # tail
    PROVE  Contents(Written(buffer, head, f), NextSlot(head), tail)
             = Append(Contents(buffer, head, tail), f)
<1> DEFINE new == Written(buffer, head, f)
           len == Length(head, tail)
           before == Contents(buffer, head, tail)
           after == Contents(new, NextSlot(head), tail)
<1>1. len \in 0..(CAN_QUEUE - 1) /\ before \in Seq(S) /\ Len(before) = len
  BY ContentsType
<1>2. NextSlot(head) \in Slots /\ Length(NextSlot(head), tail) = len + 1
  <2>1. NextSlot(head) = IF head = CAN_QUEUE - 1 THEN 0 ELSE head + 1
    BY NextSlotValue
  <2>2. NextSlot(head) # tail /\ head \in 0..(CAN_QUEUE - 1) /\ tail \in 0..(CAN_QUEUE - 1)
    BY DEF Slots
  <2>3. CASE head = CAN_QUEUE - 1
    BY <2>1, <2>2, <2>3, QueueAssumption DEF Length, Slots
  <2>4. CASE head # CAN_QUEUE - 1
    BY <2>1, <2>2, <2>4, QueueAssumption DEF Length, Slots
  <2> QED BY <2>3, <2>4
<1>3. new \in [Slots -> S] /\ new[head] = f
      /\ \A s \in Slots \ {head} : new[s] = buffer[s]
  BY DEF Written
<1>4. after \in Seq(S) /\ Len(after) = len + 1
  BY <1>2, <1>3, ContentsType, ZenonT(40)
<1>5. ASSUME NEW i \in 1..(len + 1)
      PROVE  after[i] = Append(before, f)[i]
  <2>1. after[i] = new[(tail + i - 1) % CAN_QUEUE]
    BY <1>2 DEF Contents
  <2>2. CASE i = len + 1
    <3>1. (tail + i - 1) % CAN_QUEUE = head
      BY <2>2, QueueAssumption DEF Length, Slots
    <3> QED BY <1>1, <1>3, <2>1, <2>2, <3>1
  <2>3. CASE i # len + 1
    <3>1. i \in 1..len
      BY <1>1, <2>3
    <3>2. (tail + i - 1) % CAN_QUEUE \in Slots \ {head}
      BY <1>1, <3>1, QueueAssumption DEF Length, Slots
    <3>3. before[i] = buffer[(tail + i - 1) % CAN_QUEUE]
      BY <3>1 DEF Contents
    <3> QED BY <1>1, <1>3, <2>1, <3>1, <3>2, <3>3
  <2> QED BY <2>2, <2>3
<1>6. Append(before, f) \in Seq(S) /\ Len(Append(before, f)) = len + 1
  BY <1>1
<1>7. after = Append(before, f)
  BY <1>4, <1>5, <1>6, SeqEqual
<1> QED BY <1>7

\* Stepping the tail of a ring that is not empty removes the oldest frame.
LEMMA PopTails ==
    ASSUME NEW S, NEW buffer \in [Slots -> S], NEW head \in Slots, NEW tail \in Slots,
           head # tail
    PROVE  LET before == Contents(buffer, head, tail)
           IN  /\ before # <<>>
               /\ Head(before) = buffer[tail]
               /\ Tail(before) = Contents(buffer, head, NextSlot(tail))
<1> DEFINE len == Length(head, tail)
           before == Contents(buffer, head, tail)
           after == Contents(buffer, head, NextSlot(tail))
<1>1. len \in 1..(CAN_QUEUE - 1) /\ before \in Seq(S) /\ Len(before) = len
  <2>1. len \in 0..(CAN_QUEUE - 1) /\ before \in Seq(S) /\ Len(before) = len
    BY ContentsType, ZenonT(40)
  <2>2. len # 0
    BY LengthExtremes
  <2> QED BY <2>1, <2>2, QueueAssumption
<1>2. NextSlot(tail) \in Slots /\ Length(head, NextSlot(tail)) = len - 1
  BY NextSlotValue, QueueAssumption DEF Length, Slots
<1>3. after \in Seq(S) /\ Len(after) = len - 1
  BY <1>2, ContentsType
<1>4. before[1] = buffer[tail]
  <2>1. (tail + 1 - 1) % CAN_QUEUE = tail
    BY QueueAssumption DEF Slots
  <2> QED BY <1>1, <2>1 DEF Contents
<1>5. ASSUME NEW i \in 1..(len - 1)
      PROVE  after[i] = before[i + 1]
  <2>1. (NextSlot(tail) + i - 1) % CAN_QUEUE = (tail + (i + 1) - 1) % CAN_QUEUE
    <3>1. i \in 0..CAN_QUEUE /\ i - 1 \in 0..CAN_QUEUE
      BY <1>1, QueueAssumption
    <3>2. CASE tail = CAN_QUEUE - 1
      <4>1. NextSlot(tail) + i - 1 = 0 + (i - 1) /\ 0 \in Slots
        BY <3>1, <3>2, NextSlotValue, QueueAssumption DEF Slots
      <4>2. tail + (i + 1) - 1 = tail + i
        BY <3>1 DEF Slots
      <4> QED BY <1>1, <3>1, <3>2, <4>1, <4>2, SlotAfter, QueueAssumption
    <3>3. CASE tail # CAN_QUEUE - 1
      BY <3>1, <3>3, NextSlotValue DEF Slots
    <3> QED BY <3>2, <3>3
  <2>2. after[i] = buffer[(NextSlot(tail) + i - 1) % CAN_QUEUE]
    BY <1>2 DEF Contents
  <2>3. i + 1 \in 1..len
    BY <1>1
  <2>4. before[i + 1] = buffer[(tail + (i + 1) - 1) % CAN_QUEUE]
    BY <2>3 DEF Contents
  <2> QED BY <2>1, <2>2, <2>4
<1>6. Tail(before) \in Seq(S) /\ Len(Tail(before)) = len - 1
      /\ \A i \in 1..(len - 1) : Tail(before)[i] = before[i + 1]
  BY <1>1
<1>7. Tail(before) = after
  BY <1>1, <1>3, <1>5, <1>6
<1> QED BY <1>1, <1>4, <1>7

-----------------------------------------------------------------------------
(* What the critical sections do to the frames that wait in a ring.        *)

LEMMA PushedWaiting ==
    ASSUME TypeOK, NEW dir \in Dirs, NEW f \in Frames,
           Pushed(dir, f), canTail'[dir] = canTail[dir]
    PROVE  /\ Waiting(dir)' = IF Len(Waiting(dir)) < CAN_QUEUE - 1
                              THEN Append(Waiting(dir), f) ELSE Waiting(dir)
           /\ \A other \in Dirs \ {dir} :
                  CanBuffer'[other] = CanBuffer[other] /\ canHead'[other] = canHead[other]
           /\ CanBuffer' \in [Dirs -> [Slots -> Frames \cup {Garbage}]]
           /\ canHead' \in [Dirs -> Slots]
<1> DEFINE S == Frames \cup {Garbage}
           buffer == CanBuffer[dir]
           head == canHead[dir]
           tail == canTail[dir]
<1>1. buffer \in [Slots -> S] /\ head \in Slots /\ tail \in Slots /\ f \in S
  BY DEF TypeOK
<1> HIDE DEF S
<1>2. Len(Waiting(dir)) = Length(head, tail) /\ Length(head, tail) \in 0..(CAN_QUEUE - 1)
  BY <1>1, ContentsType, ZenonT(40) DEF Waiting
<1>3. Full(dir) <=> Len(Waiting(dir)) = CAN_QUEUE - 1
  BY <1>1, <1>2, LengthExtremes DEF Full
<1>4. CASE Full(dir)
  BY <1>2, <1>3, <1>4, QueueAssumption DEF Pushed, Waiting, TypeOK
<1>5. CASE ~Full(dir)
  <2>1. /\ CanBuffer' = [CanBuffer EXCEPT ![dir] = Written(buffer, head, f)]
        /\ canHead' = [canHead EXCEPT ![dir] = NextSlot(head)]
    BY <1>5 DEF Pushed
  <2>2. /\ CanBuffer'[dir] = Written(buffer, head, f)
        /\ canHead'[dir] = NextSlot(head)
    BY <2>1 DEF TypeOK
  <2>3. Waiting(dir)' = Contents(Written(buffer, head, f), NextSlot(head), tail)
    BY <2>2 DEF Waiting
  <2>4. Waiting(dir)' = Append(Waiting(dir), f)
    <3>1. NextSlot(head) # tail
      BY <1>5 DEF Full
    <3> QED BY <1>1, <2>3, <3>1, PushAppends, ZenonT(40) DEF Waiting
  <2>5. NextSlot(head) \in Slots
    BY <1>1, NextSlotValue, QueueAssumption DEF Slots
  <2>6. /\ CanBuffer' \in [Dirs -> [Slots -> S]]
        /\ canHead' \in [Dirs -> Slots]
    BY <1>1, <2>1, <2>5 DEF TypeOK, S, Written
  <2>7. Len(Waiting(dir)) < CAN_QUEUE - 1
    BY <1>2, <1>3, <1>5, QueueAssumption
  <2> QED BY <2>1, <2>4, <2>6, <2>7 DEF TypeOK, S
<1> QED BY <1>4, <1>5

LEMMA PoppedWaiting ==
    ASSUME TypeOK, NEW dir \in Dirs, ~Empty(dir), PoppedFrom(dir),
           CanBuffer'[dir] = CanBuffer[dir], canHead'[dir] = canHead[dir]
    PROVE  /\ Waiting(dir) # <<>>
           /\ Oldest(dir) = Head(Waiting(dir)) /\ Oldest(dir) \in Frames
           /\ Waiting(dir)' = Tail(Waiting(dir))
           /\ \A other \in Dirs \ {dir} : canTail'[other] = canTail[other]
           /\ canTail' \in [Dirs -> Slots]
<1> DEFINE S == Frames \cup {Garbage}
           buffer == CanBuffer[dir]
           head == canHead[dir]
           tail == canTail[dir]
<1>1. buffer \in [Slots -> S] /\ head \in Slots /\ tail \in Slots /\ head # tail
  BY DEF TypeOK, Empty
<1>2. /\ Waiting(dir) # <<>>
      /\ Head(Waiting(dir)) = buffer[tail]
      /\ Tail(Waiting(dir)) = Contents(buffer, head, NextSlot(tail))
  BY <1>1, PopTails DEF Waiting
<1>3. canTail' = [canTail EXCEPT ![dir] = NextSlot(tail)]
  BY DEF PoppedFrom
<1>4. Waiting(dir)' = Contents(buffer, head, NextSlot(tail))
  BY <1>3 DEF Waiting, TypeOK
<1>5. NextSlot(tail) \in Slots
  BY <1>1, NextSlotValue, QueueAssumption DEF Slots
<1>6. Waiting(dir) \in Seq(Frames)
  BY DEF TypeOK
<1>7. Head(Waiting(dir)) \in Frames
  BY <1>2, <1>6
<1> QED BY <1>2, <1>3, <1>4, <1>5, <1>7 DEF Oldest, TypeOK

\* Appending a frame and removing one keep a sequence of frames.
LEMMA FramesOnly ==
    ASSUME NEW w \in Seq(Frames)
    PROVE  /\ \A f \in Frames : Append(w, f) \in Seq(Frames)
           /\ w # <<>> => Tail(w) \in Seq(Frames)
<1> QED OBVIOUS

LEMMA SameWaiting ==
    ASSUME NEW dir \in Dirs, CanBuffer'[dir] = CanBuffer[dir],
           canHead'[dir] = canHead[dir], canTail'[dir] = canTail[dir]
    PROVE  Waiting(dir)' = Waiting(dir)
<1> QED BY DEF Waiting

-----------------------------------------------------------------------------
(* Type correctness and the guard.                                         *)

IInv == TypeOK /\ CheckHolds

LEMMA InvInit == Init => IInv
<1> SUFFICES ASSUME Init PROVE IInv
  OBVIOUS
<1>1. 0 \in Slots
  BY QueueAssumption DEF Slots
<1>2. ASSUME NEW dir \in Dirs PROVE Waiting(dir) = <<>>
  BY DEF Init, Waiting, Contents, Length
<1>3. TypeOK
  <2>1. \A dir \in Dirs : Waiting(dir) \in Seq(Frames)
    BY <1>2, EmptySeq
  <2> QED BY <1>1, <2>1 DEF Init, TypeOK, Places
<1>4. CheckHolds
  BY DEF Init, CheckHolds
<1> QED BY <1>3, <1>4 DEF IInv

LEMMA InvStep == IInv /\ [Next]_vars => IInv'
<1> SUFFICES ASSUME IInv, [Next]_vars PROVE IInv'
  OBVIOUS
<1> USE DEF IInv
<1>1. CASE TakeRx
  <2>1. /\ Waiting("CAN_RX") # <<>> /\ Waiting("CAN_RX")' = Tail(Waiting("CAN_RX"))
        /\ Oldest("CAN_RX") \in Frames /\ canTail' \in [Dirs -> Slots]
        /\ canTail'["CAN_TX"] = canTail["CAN_TX"]
    BY <1>1, PoppedWaiting DEF TakeRx, Dirs
  <2>2. Waiting("CAN_TX")' = Waiting("CAN_TX")
    BY <1>1, <2>1, SameWaiting DEF TakeRx, Dirs
  <2>3. \A dir \in Dirs : Waiting(dir)' \in Seq(Frames)
    <3>1. Waiting("CAN_TX") \in Seq(Frames) /\ Waiting("CAN_RX") \in Seq(Frames)
      BY DEF TypeOK, Dirs
    <3>2. Waiting("CAN_TX")' \in Seq(Frames)
      BY <2>1, <2>2, <3>1, FramesOnly
    <3>3. Waiting("CAN_RX")' \in Seq(Frames)
      BY <2>1, <2>2, <3>1, FramesOnly
    <3> QED BY <3>2, <3>3 DEF Dirs
  <2>4. TypeOK'
    BY <1>1, <2>1, <2>3 DEF TypeOK, TakeRx
  <2>5. CheckHolds'
    BY <1>1, <2>1 DEF CheckHolds, TakeRx, Empty, FreeMailboxes
  <2> QED BY <2>4, <2>5
<1>2. ASSUME NEW f \in Frames, PostTx(f) PROVE IInv'
  <2>1. /\ Waiting("CAN_TX")' = IF Len(Waiting("CAN_TX")) < CAN_QUEUE - 1
                                THEN Append(Waiting("CAN_TX"), f) ELSE Waiting("CAN_TX")
        /\ CanBuffer'["CAN_RX"] = CanBuffer["CAN_RX"] /\ canHead'["CAN_RX"] = canHead["CAN_RX"]
        /\ CanBuffer' \in [Dirs -> [Slots -> Frames \cup {Garbage}]]
        /\ canHead' \in [Dirs -> Slots]
    BY <1>2, PushedWaiting DEF PostTx, Dirs
  <2>2. Waiting("CAN_RX")' = Waiting("CAN_RX")
    BY <1>2, <2>1, SameWaiting DEF PostTx, Dirs
  <2>3. \A dir \in Dirs : Waiting(dir)' \in Seq(Frames)
    <3>1. Waiting("CAN_TX") \in Seq(Frames) /\ Waiting("CAN_RX") \in Seq(Frames)
      BY DEF TypeOK, Dirs
    <3>2. Waiting("CAN_TX")' \in Seq(Frames)
      BY <2>1, <2>2, <3>1, FramesOnly
    <3>3. Waiting("CAN_RX")' \in Seq(Frames)
      BY <2>1, <2>2, <3>1, FramesOnly
    <3> QED BY <3>2, <3>3 DEF Dirs
  <2>4. TypeOK'
    BY <1>2, <2>1, <2>3 DEF TypeOK, PostTx, Places
  <2>5. CheckHolds'
    BY <1>2 DEF CheckHolds, PostTx
  <2> QED BY <2>4, <2>5
<1>3. ASSUME UNCHANGED ringVars
      PROVE  \A dir \in Dirs : Waiting(dir)' \in Seq(Frames)
  BY <1>3, SameWaiting DEF ringVars, TypeOK
<1>4. CASE CallSend
  BY <1>3, <1>4 DEF CallSend, TypeOK, CheckHolds, Places, ringVars
<1>5. CASE EnterSend
  BY <1>3, <1>5 DEF EnterSend, TypeOK, CheckHolds, Places, ringVars
<1>6. CASE CheckTx
  BY <1>3, <1>6 DEF CheckTx, TypeOK, CheckHolds, Places, ringVars, Empty, FreeMailboxes
<1>7. CASE PopTx
  <2>1. /\ Waiting("CAN_TX") # <<>> /\ Waiting("CAN_TX")' = Tail(Waiting("CAN_TX"))
        /\ Oldest("CAN_TX") \in Frames /\ canTail' \in [Dirs -> Slots]
        /\ canTail'["CAN_RX"] = canTail["CAN_RX"] /\ frame' = Oldest("CAN_TX")
    BY <1>7, PoppedWaiting DEF PopTx, Dirs, CheckHolds
  <2>2. Waiting("CAN_RX")' = Waiting("CAN_RX")
    BY <1>7, <2>1, SameWaiting DEF PopTx, Dirs
  <2>3. \A dir \in Dirs : Waiting(dir)' \in Seq(Frames)
    <3>1. Waiting("CAN_TX") \in Seq(Frames) /\ Waiting("CAN_RX") \in Seq(Frames)
      BY DEF TypeOK, Dirs
    <3>2. Waiting("CAN_TX")' \in Seq(Frames)
      BY <2>1, <2>2, <3>1, FramesOnly
    <3>3. Waiting("CAN_RX")' \in Seq(Frames)
      BY <2>1, <2>2, <3>1, FramesOnly
    <3> QED BY <3>2, <3>3 DEF Dirs
  <2>4. TypeOK'
    BY <1>7, <2>1, <2>3 DEF TypeOK, PopTx, Places
  <2>5. CheckHolds'
    BY <1>7, <2>1, FrameAssumption DEF CheckHolds, PopTx, FreeMailboxes
  <2> QED BY <2>4, <2>5
<1>8. CASE AddTx
  <2>1. frame \in Frames
    BY <1>8 DEF AddTx, CheckHolds, TypeOK
  <2>2. mailbox' \in [Mailboxes -> Frames \cup {Free}]
    BY <1>8, <2>1 DEF AddTx, TypeOK, FreeMailboxes
  <2> QED BY <1>3, <1>8, <2>2 DEF AddTx, TypeOK, CheckHolds, Places, ringVars
<1>9. CASE LeaveSend
  BY <1>3, <1>9 DEF LeaveSend, TypeOK, CheckHolds, Places, ringVars
<1>10. ASSUME NEW f \in Frames, RxInterrupt(f) PROVE IInv'
  <2>1. canTail'["CAN_RX"] = canTail["CAN_RX"]
    BY <1>10 DEF RxInterrupt, PoppedFrom, TypeOK, Dirs
  <2>2. /\ Waiting("CAN_RX")' = IF Len(Waiting("CAN_RX")) < CAN_QUEUE - 1
                                THEN Append(Waiting("CAN_RX"), f) ELSE Waiting("CAN_RX")
        /\ CanBuffer'["CAN_TX"] = CanBuffer["CAN_TX"] /\ canHead'["CAN_TX"] = canHead["CAN_TX"]
        /\ CanBuffer' \in [Dirs -> [Slots -> Frames \cup {Garbage}]]
        /\ canHead' \in [Dirs -> Slots]
    BY <1>10, <2>1, PushedWaiting DEF RxInterrupt, Dirs
  <2>3. CASE sending \/ Empty("CAN_TX") \/ FreeMailboxes = {}
    <3>1. UNCHANGED <<canTail, mailbox, sending, at, frame, taken>>
      BY <1>10, <2>3 DEF RxInterrupt
    <3>2. Waiting("CAN_TX")' = Waiting("CAN_TX")
      BY <2>2, <3>1, SameWaiting DEF Dirs
    <3>3. \A dir \in Dirs : Waiting(dir)' \in Seq(Frames)
      <4>1. Waiting("CAN_TX") \in Seq(Frames) /\ Waiting("CAN_RX") \in Seq(Frames)
        BY DEF TypeOK, Dirs
      <4>2. Waiting("CAN_TX")' \in Seq(Frames)
        BY <1>10, <2>2, <3>2, <4>1, FramesOnly
      <4>3. Waiting("CAN_RX")' \in Seq(Frames)
        BY <1>10, <2>2, <3>2, <4>1, FramesOnly
      <4> QED BY <4>2, <4>3 DEF Dirs
    <3>4. TypeOK'
      BY <2>2, <3>1, <3>3 DEF TypeOK
    <3>5. CheckHolds'
      BY <2>2, <3>1 DEF CheckHolds, Empty, FreeMailboxes
    <3> QED BY <3>4, <3>5
  <2>4. CASE ~(sending \/ Empty("CAN_TX") \/ FreeMailboxes = {})
    <3>1. /\ PoppedFrom("CAN_TX") /\ UNCHANGED <<sending, at, frame, taken>>
          /\ \E m \in FreeMailboxes : mailbox' = [mailbox EXCEPT ![m] = Oldest("CAN_TX")]
      BY <1>10, <2>4 DEF RxInterrupt
    <3>2. /\ Waiting("CAN_TX") # <<>> /\ Waiting("CAN_TX")' = Tail(Waiting("CAN_TX"))
          /\ Oldest("CAN_TX") \in Frames /\ canTail' \in [Dirs -> Slots]
      BY <2>2, <2>4, <3>1, PoppedWaiting DEF Dirs
    <3>3. mailbox' \in [Mailboxes -> Frames \cup {Free}]
      BY <3>1, <3>2 DEF TypeOK, FreeMailboxes
    <3>4. \A dir \in Dirs : Waiting(dir)' \in Seq(Frames)
      <4>1. Waiting("CAN_TX") \in Seq(Frames) /\ Waiting("CAN_RX") \in Seq(Frames)
        BY DEF TypeOK, Dirs
      <4>2. Waiting("CAN_TX")' \in Seq(Frames)
        BY <1>10, <2>2, <3>2, <4>1, FramesOnly
      <4>3. Waiting("CAN_RX")' \in Seq(Frames)
        BY <1>10, <2>2, <3>2, <4>1, FramesOnly
      <4> QED BY <4>2, <4>3 DEF Dirs
    <3>5. TypeOK'
      BY <2>2, <3>1, <3>2, <3>3, <3>4 DEF TypeOK
    <3>6. CheckHolds'
      BY <2>4, <3>1 DEF CheckHolds
    <3> QED BY <3>5, <3>6
  <2> QED BY <2>3, <2>4
<1>11. ASSUME NEW m \in Mailboxes, MailboxDone(m) PROVE IInv'
  <2>1. FreeMailboxes \subseteq FreeMailboxes'
    BY <1>11 DEF MailboxDone, FreeMailboxes, TypeOK
  <2> QED BY <1>3, <1>11, <2>1 DEF MailboxDone, TypeOK, CheckHolds, ringVars, Empty
<1>12. CASE UNCHANGED vars
  BY <1>3, <1>12 DEF vars, ringVars, TypeOK, CheckHolds, Empty, FreeMailboxes
<1> QED BY <1>1, <1>2, <1>4, <1>5, <1>6, <1>7, <1>8, <1>9, <1>10, <1>11, <1>12
           DEF Next, MainStep

LEMMA Inductive == Spec => []IInv
<1> QED BY InvInit, InvStep, PTL DEF Spec

\* Every variable of the driver stays in its domain, and the occupied slots of
\* both rings hold frames that somebody has pushed (can.c, PushCan and PopCan).
THEOREM TypeCorrect == Spec => []TypeOK
<1>1. IInv => TypeOK
  BY DEF IInv
<1> QED BY <1>1, Inductive, PTL

\* What sendCan() has checked still holds when it acts on it, whatever receive
\* interrupts ran in between (can.c, the guard of sendCan).
THEOREM GuardWorks == Spec => []CheckHolds
<1>1. IInv => CheckHolds
  BY DEF IInv
<1> QED BY <1>1, Inductive, PTL

-----------------------------------------------------------------------------
(* The driver implements FrameQueues.                                      *)

LEMMA QueuesInitImplied == Init => Queues!QueuesInit
<1> SUFFICES ASSUME Init PROVE Queues!QueuesInit
  OBVIOUS
<1>1. \A dir \in Dirs : Waiting(dir) = <<>>
  BY DEF Init, Waiting, Contents, Length
<1> QED BY <1>1 DEF Init, Queues!QueuesInit, Dirs

\* While the popped frame waits for its mailbox it still heads the queue.
LEMMA FrontAndRest ==
    ASSUME NEW S, NEW w \in Seq(S), w # <<>>
    PROVE  <<Head(w)>> \o Tail(w) = w
<1>1. <<Head(w)>> \in Seq(S) /\ Tail(w) \in Seq(S) /\ Len(Tail(w)) = Len(w) - 1
  OBVIOUS
<1>2. /\ <<Head(w)>> \o Tail(w) \in Seq(S)
      /\ Len(<<Head(w)>> \o Tail(w)) = Len(w)
      /\ \A i \in 1..Len(w) : (<<Head(w)>> \o Tail(w))[i] = w[i]
  BY <1>1
<1> QED BY <1>2, SeqEqual

LEMMA FrontOf ==
    ASSUME NEW S, NEW w \in Seq(S), NEW x \in S
    PROVE  <<x>> \o w # <<>> /\ Head(<<x>> \o w) = x /\ Tail(<<x>> \o w) = w
<1>1. <<x>> \o w \in Seq(S) /\ Len(<<x>> \o w) = Len(w) + 1
  OBVIOUS
<1>2. Head(<<x>> \o w) = x
  BY <1>1
<1>3. /\ Tail(<<x>> \o w) \in Seq(S) /\ Len(Tail(<<x>> \o w)) = Len(w)
      /\ \A i \in 1..Len(w) : Tail(<<x>> \o w)[i] = w[i]
  BY <1>1
<1>4. Tail(<<x>> \o w) = w
  BY <1>3, SeqEqual
<1> QED BY <1>1, <1>2, <1>4

LEMMA QueuesStep ==
    IInv /\ [Next]_vars => [Queues!QueuesNext]_(Queues!queueVars)
<1> SUFFICES ASSUME IInv, [Next]_vars
             PROVE  [Queues!QueuesNext]_(Queues!queueVars)
  OBVIOUS
<1> USE DEF IInv
<1> DEFINE txq == IF at = "add" THEN <<frame>> \o Waiting("CAN_TX") ELSE Waiting("CAN_TX")
           rxq == Waiting("CAN_RX")
<1>0. "CAN_TX" \in Dirs /\ "CAN_RX" \in Dirs /\ "CAN_TX" # "CAN_RX"
      /\ Waiting("CAN_TX") \in Seq(Frames) /\ Waiting("CAN_RX") \in Seq(Frames)
  BY DEF TypeOK, Dirs
<1>1. CASE TakeRx
  <2>1. /\ rxq # <<>> /\ taken' = Head(rxq) /\ rxq' = Tail(rxq)
        /\ canTail'["CAN_TX"] = canTail["CAN_TX"]
    BY <1>0, <1>1, PoppedWaiting DEF TakeRx
  <2>2. txq' = txq /\ UNCHANGED mailbox
    BY <1>0, <1>1, <2>1, SameWaiting DEF TakeRx
  <2>3. Queues!Take
    BY <2>1, <2>2 DEF Queues!Take
  <2> QED BY <2>3 DEF Queues!QueuesNext
<1>2. ASSUME NEW f \in Frames, PostTx(f) PROVE Queues!QueuesNext
  <2>1. /\ Waiting("CAN_TX")' = IF Len(Waiting("CAN_TX")) < CAN_QUEUE - 1
                                THEN Append(Waiting("CAN_TX"), f) ELSE Waiting("CAN_TX")
        /\ CanBuffer'["CAN_RX"] = CanBuffer["CAN_RX"] /\ canHead'["CAN_RX"] = canHead["CAN_RX"]
    BY <1>0, <1>2, PushedWaiting DEF PostTx
  <2>2. rxq' = rxq
    BY <1>0, <1>2, <2>1, SameWaiting DEF PostTx
  <2>3. txq' = IF Len(txq) < CAN_QUEUE - 1 THEN Append(txq, f) ELSE txq
    BY <1>2, <2>1 DEF PostTx
  <2>4. UNCHANGED <<mailbox, taken>>
    BY <1>2 DEF PostTx
  <2>5. Queues!Post(f)
    BY <2>2, <2>3, <2>4 DEF Queues!Post
  <2> QED BY <2>5 DEF Queues!QueuesNext
<1>3. ASSUME UNCHANGED <<ringVars, mailbox, taken>>, at # "add", at' # "add"
      PROVE  UNCHANGED Queues!queueVars
  BY <1>0, <1>3, SameWaiting DEF Queues!queueVars, ringVars
<1>4. CASE CallSend
  BY <1>3, <1>4 DEF CallSend
<1>5. CASE EnterSend
  BY <1>3, <1>5 DEF EnterSend
<1>6. CASE CheckTx
  BY <1>3, <1>6 DEF CheckTx
<1>7. CASE PopTx
  <2>1. /\ Waiting("CAN_TX") # <<>> /\ Waiting("CAN_TX")' = Tail(Waiting("CAN_TX"))
        /\ frame' = Head(Waiting("CAN_TX")) /\ canTail'["CAN_RX"] = canTail["CAN_RX"]
    BY <1>0, <1>7, PoppedWaiting DEF PopTx, CheckHolds
  <2>2. rxq' = rxq
    BY <1>0, <1>7, <2>1, SameWaiting DEF PopTx
  <2>3. txq' = txq
    BY <1>0, <1>7, <2>1, FrontAndRest DEF PopTx
  <2> QED BY <1>7, <2>2, <2>3 DEF PopTx, Queues!queueVars
<1>8. CASE AddTx
  <2>1. /\ at = "add" /\ at' = "leave" /\ FreeMailboxes # {} /\ frame \in Frames
        /\ UNCHANGED <<ringVars, taken>>
    BY <1>8 DEF AddTx, CheckHolds, TypeOK
  <2>2. Waiting("CAN_TX")' = Waiting("CAN_TX") /\ rxq' = rxq
    BY <1>0, <2>1, SameWaiting DEF ringVars
  <2>3. txq # <<>> /\ Head(txq) = frame /\ txq' = Tail(txq)
    BY <1>0, <2>1, <2>2, FrontOf
  <2>4. \E m \in Mailboxes :
            mailbox[m] = Free /\ mailbox' = [mailbox EXCEPT ![m] = Head(txq)]
    BY <1>8, <2>1, <2>3 DEF AddTx, FreeMailboxes
  <2>5. Queues!Send
    BY <2>1, <2>2, <2>3, <2>4 DEF Queues!Send, Queues!HandOver
  <2> QED BY <2>5 DEF Queues!QueuesNext
<1>9. CASE LeaveSend
  BY <1>3, <1>9 DEF LeaveSend
<1>10. ASSUME NEW f \in Frames, RxInterrupt(f) PROVE Queues!QueuesNext
  <2>1. canTail'["CAN_RX"] = canTail["CAN_RX"] /\ UNCHANGED <<sending, at, frame, taken>>
    BY <1>10 DEF RxInterrupt, PoppedFrom, TypeOK, Dirs
  <2>2. /\ rxq' = IF Len(rxq) < CAN_QUEUE - 1 THEN Append(rxq, f) ELSE rxq
        /\ CanBuffer'["CAN_TX"] = CanBuffer["CAN_TX"] /\ canHead'["CAN_TX"] = canHead["CAN_TX"]
    BY <1>0, <1>10, <2>1, PushedWaiting DEF RxInterrupt
  <2>3. CASE sending \/ Empty("CAN_TX") \/ FreeMailboxes = {}
    <3>1. UNCHANGED <<canTail, mailbox>>
      BY <1>10, <2>3 DEF RxInterrupt
    <3>2. txq' = txq
      BY <1>0, <2>1, <2>2, <3>1, SameWaiting
    <3>3. Queues!Receive(f)
      BY <2>1, <2>2, <3>1, <3>2 DEF Queues!Receive
    <3> QED BY <3>3 DEF Queues!QueuesNext
  <2>4. CASE ~(sending \/ Empty("CAN_TX") \/ FreeMailboxes = {})
    <3>1. /\ PoppedFrom("CAN_TX")
          /\ \E m \in FreeMailboxes : mailbox' = [mailbox EXCEPT ![m] = Oldest("CAN_TX")]
      BY <1>10, <2>4 DEF RxInterrupt
    <3>2. at # "add" /\ at' # "add"
      BY <2>1, <2>4 DEF CheckHolds
    <3>3. /\ txq # <<>> /\ txq' = Tail(txq) /\ Oldest("CAN_TX") = Head(txq)
      BY <1>0, <2>2, <2>4, <3>1, <3>2, PoppedWaiting
    <3>4. Queues!HandOver
      BY <3>1, <3>3 DEF Queues!HandOver, FreeMailboxes
    <3>5. Queues!Receive(f)
      BY <2>1, <2>2, <3>4 DEF Queues!Receive
    <3> QED BY <3>5 DEF Queues!QueuesNext
  <2> QED BY <2>3, <2>4
<1>11. ASSUME NEW m \in Mailboxes, MailboxDone(m) PROVE Queues!QueuesNext
  <2>1. txq' = txq /\ rxq' = rxq /\ UNCHANGED taken
    BY <1>0, <1>11, SameWaiting DEF MailboxDone, ringVars
  <2>2. Queues!Vacate(m)
    BY <1>11, <2>1 DEF MailboxDone, Queues!Vacate
  <2> QED BY <2>2 DEF Queues!QueuesNext
<1>12. CASE UNCHANGED vars
  <2>1. txq' = txq /\ rxq' = rxq
    BY <1>0, <1>12, SameWaiting DEF vars, ringVars
  <2> QED BY <1>12, <2>1 DEF vars, Queues!queueVars
<1> QED BY <1>1, <1>2, <1>4, <1>5, <1>6, <1>7, <1>8, <1>9, <1>10, <1>11, <1>12
           DEF Next, MainStep

\* Whatever the interrupts do, each direction of the driver is a bounded FIFO
\* queue, and a frame leaves the transmit queue only in its turn and only into
\* one mailbox, unchanged (can.c, PushCan, PopCan and sendCan).
THEOREM DriverImplementsQueues == Spec => ImplementsQueues
<1>1. IInv /\ [Next]_vars => [Queues!QueuesNext]_(Queues!queueVars)
  BY QueuesStep
<1> QED BY <1>1, QueuesInitImplied, Inductive, PTL
           DEF Spec, ImplementsQueues, Queues!QueuesSpec
================================================================================
