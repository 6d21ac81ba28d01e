----------------------------- MODULE DidPollProofs -----------------------------
(***************************************************************************)
(* The DID poll for all timings: nothing is received past the end of an    *)
(* answer, what is ingested is one whole answer to the DID it is ingested  *)
(* for (of a battery that is done before the next request), and the        *)
(* temperatures are asked for again in time and never grow old unnoticed.  *)
(***************************************************************************)
EXTENDS TempSources, Integers, TLAPS

USE UdsAssumption

Frames == [did : Dids, part : Nat]

(* What the lengths of the four answers and refusals come to.              *)
LEMMA Lengths ==
  /\ \A did \in Dids :
       /\ AnswerLength[did] \in 4..35 /\ MinLength[did] = AnswerLength[did]
       /\ LastPart(did) \in 0..5
       /\ SingleFrame(did) <=> LastPart(did) = 0
       /\ ~SingleFrame(did) =>
            /\ AnswerLength[did] > 7
            /\ \A n \in Nat : 6 + 7 * n >= AnswerLength[did] <=> n >= LastPart(did)
  /\ RefusalLength = 3
  /\ \A d \in Dids, k \in Nat : Part(d, k) \in Frames
  /\ \A d \in Dids : Refusal(d) \in Frames
  <1>1. /\ LastPart("soc") = 0 /\ LastPart("capacity") = 1
        /\ LastPart("primary_vi") = 1 /\ LastPart("temp_probes") = 5
    BY DEF LastPart, SingleFrame, AnswerLength, Dids
  <1>2. \A did \in Dids : did \in {"soc", "capacity", "primary_vi", "temp_probes"}
    BY DEF Dids
  <1>3. \A did \in Dids :
       /\ AnswerLength[did] \in 4..35 /\ MinLength[did] = AnswerLength[did]
       /\ LastPart(did) \in 0..5
       /\ SingleFrame(did) <=> LastPart(did) = 0
       /\ ~SingleFrame(did) =>
            /\ AnswerLength[did] > 7
            /\ \A n \in Nat : 6 + 7 * n >= AnswerLength[did] <=> n >= LastPart(did)
    BY <1>1, <1>2 DEF SingleFrame, AnswerLength, MinLength, Dids
  <1> QED BY <1>3 DEF RefusalLength, Part, Refusal, Frames

LEMMA AskedTyped == rr_index \in 0..2 => Asked \in Dids
  BY DEF Asked, RoundRobin, Dids

-----------------------------------------------------------------------------
(* Types.  While an answer is put together, the bytes counted are those of *)
(* the parts: six and then seven each - the last brings what is missing.   *)
RespTyped ==
    /\ resp_buf \in Seq(Frames) /\ Len(resp_buf) <= 6
    /\ resp_expected_len \in 0..40
    /\ resp_received_len \in 0..resp_expected_len

InProgressInv ==
    resp_in_progress =>
         \/ Len(resp_buf) = 1 /\ resp_received_len = resp_expected_len
         \/ /\ Len(resp_buf) > 0
            /\ resp_received_len = 6 + 7 * (Len(resp_buf) - 1)
            /\ resp_received_len < resp_expected_len

PollTyped ==
    /\ uds_state \in {"idle", "awaiting_rr", "gap_after_rr", "awaiting_temp", "gap_after_temp"}
    /\ rr_index \in 0..2 /\ sentFor \in 0..ResponseTimeout
    /\ gapLeft \in 0..RequestGap /\ tempDueIn \in 0..TempInterval /\ tempAge \in 0..TempFresh

(* The battery is at a part its answer has.                                *)
BatteryTyped ==
    /\ job \in Dids \cup {"none"} /\ nextPart \in 0..5
    /\ jobAge \in 0..AnswerTime
    /\ job = "none" => nextPart = 0 /\ jobAge = 0
    /\ job # "none" => nextPart <= LastPart(job)

IngestedTyped == ingested \in [did : Dids \cup {"none"}, from : Seq(Frames)]

FlagsTyped == resp_in_progress \in BOOLEAN /\ resp_complete \in BOOLEAN /\ cleared \in BOOLEAN

TypeInv ==
    /\ PollTyped /\ RespTyped /\ InProgressInv /\ BatteryTyped
    /\ IngestedTyped /\ FlagsTyped

LEMMA TypeInvImplies == TypeInv => TypeOK
  <1> SUFFICES ASSUME TypeInv PROVE TypeOK
    OBVIOUS
  <1> USE DEF TypeInv
  <1>1. \A i \in DOMAIN resp_buf : resp_buf[i].did \in Dids
    <2>1. \A i \in DOMAIN resp_buf : resp_buf[i] \in Frames
      BY DEF RespTyped
    <2> QED BY <2>1 DEF Frames
  <1>2. {resp_in_progress, resp_complete, cleared} \subseteq BOOLEAN
    BY DEF FlagsTyped
  <1>3. ingested.did \in Dids \cup {"none"}
    BY DEF IngestedTyped
  <1>4. resp_expected_len \in 0..RESP_BUF_SIZE
    BY DEF RespTyped, RESP_BUF_SIZE
  <1>5. Len(resp_buf) <= 6 /\ resp_received_len \in 0..resp_expected_len
    BY DEF RespTyped
  <1>6. nextPart \in 0..5 /\ jobAge \in 0..AnswerTime /\ job \in Dids \cup {"none"}
    BY DEF BatteryTyped
  <1> QED BY <1>1, <1>2, <1>3, <1>4, <1>5, <1>6 DEF PollTyped, TypeOK

LEMMA Singleton ==
  ASSUME NEW S, NEW e \in S
  PROVE  <<e>> \in Seq(S) /\ Len(<<e>>) = 1
  OBVIOUS

LEMMA Longer ==
  ASSUME NEW S, NEW e \in S, NEW s \in Seq(S)
  PROVE  /\ Append(s, e) \in Seq(S) /\ Len(Append(s, e)) = Len(s) + 1
         /\ Len(s) \in Nat
  OBVIOUS

(* What the receive handler leaves is well formed, whatever it is given.   *)
LEMMA SingleTyped ==
  ASSUME RespTyped, InProgressInv, NEW f \in Frames, NEW n \in 0..7,
         OnSingleFrame(f, n)
  PROVE  RespTyped' /\ InProgressInv'
  <1>1. resp_buf' \in Seq(Frames) /\ Len(resp_buf') = 1
    BY Singleton DEF OnSingleFrame
  <1>2. /\ resp_received_len' = n /\ resp_expected_len' = n
    BY DEF OnSingleFrame, RespTyped
  <1> QED BY <1>1, <1>2 DEF RespTyped, InProgressInv

LEMMA FirstTyped ==
  ASSUME RespTyped, InProgressInv, NEW f \in Frames, NEW n \in 8..35,
         OnFirstFrame(f, n)
  PROVE  RespTyped' /\ InProgressInv'
  <1>1. resp_buf' \in Seq(Frames) /\ Len(resp_buf') = 1
    BY Singleton DEF OnFirstFrame
  <1>2. /\ resp_received_len' = 6 /\ resp_expected_len' = n
    BY DEF OnFirstFrame, RespTyped, Min, RESP_BUF_SIZE
  <1> QED BY <1>1, <1>2 DEF RespTyped, InProgressInv

LEMMA ConsecutiveTyped ==
  ASSUME RespTyped, InProgressInv, NEW f \in Frames, OnConsecutiveFrame(f)
  PROVE  RespTyped' /\ InProgressInv'
  <1>1. CASE ~resp_in_progress
    BY <1>1 DEF OnConsecutiveFrame, resp, RespTyped, InProgressInv
  <1>2. CASE resp_in_progress
    <2>1. /\ resp_buf' = Append(resp_buf, f)
          /\ resp_received_len' = Min(resp_received_len + 7, resp_expected_len)
          /\ resp_expected_len' = resp_expected_len
          /\ resp_in_progress' = (resp_received_len' < resp_expected_len)
      BY <1>2, Zenon DEF OnConsecutiveFrame
    <2>3. resp_in_progress' <=> resp_received_len' < resp_expected_len
      BY <2>1
    <2>2. /\ resp_buf' \in Seq(Frames) /\ Len(resp_buf') = Len(resp_buf) + 1
          /\ Len(resp_buf) \in Nat
      BY <2>1, Longer DEF RespTyped
    <2> QED BY <1>2, <2>1, <2>2, <2>3 DEF RespTyped, InProgressInv, Min
  <1> QED BY <1>1, <1>2

LEMMA OnFrameTyped ==
  ASSUME RespTyped, InProgressInv, NEW d \in Dids, NEW k \in Nat, OnFrame(d, k)
  PROVE  RespTyped' /\ InProgressInv'
  <1>1. CASE UNCHANGED resp
    BY <1>1 DEF resp, RespTyped, InProgressInv
  <1>2. CASE OnSingleFrame(Part(d, k), AnswerLength[d]) /\ SingleFrame(d)
    <2>1. AnswerLength[d] \in 0..7
      BY <1>2, Lengths DEF SingleFrame
    <2> QED BY <1>2, <2>1, Lengths, SingleTyped
  <1>3. CASE OnFirstFrame(Part(d, k), AnswerLength[d]) /\ ~SingleFrame(d)
    <2>1. AnswerLength[d] \in 8..35
      BY <1>3, Lengths
    <2> QED BY <1>3, <2>1, Lengths, FirstTyped
  <1>4. CASE OnConsecutiveFrame(Part(d, k))
    BY <1>4, Lengths, ConsecutiveTyped
  <1> QED BY <1>1, <1>2, <1>3, <1>4 DEF OnFrame

LEMMA RefusalTyped ==
  ASSUME RespTyped, InProgressInv, NEW d \in Dids,
         OnSingleFrame(Refusal(d), RefusalLength)
  PROVE  RespTyped' /\ InProgressInv'
  BY Lengths, SingleTyped

(* A step sets a flag to a truth value or leaves it.                       *)
LEMMA OnFrameFlags ==
  ASSUME FlagsTyped, NEW d, NEW k, OnFrame(d, k)
  PROVE  resp_in_progress' \in BOOLEAN /\ resp_complete' \in BOOLEAN
  <1> USE DEF FlagsTyped
  <1>1. CASE UNCHANGED resp
    BY <1>1 DEF resp
  <1>2. CASE OnSingleFrame(Part(d, k), AnswerLength[d])
    BY <1>2 DEF OnSingleFrame
  <1>3. CASE OnFirstFrame(Part(d, k), AnswerLength[d])
    BY <1>3 DEF OnFirstFrame
  <1>4. CASE OnConsecutiveFrame(Part(d, k)) /\ resp_in_progress
    <2>1. resp_complete' = (resp_complete \/ resp_received_len' >= resp_expected_len)
          /\ resp_in_progress' = (resp_received_len' < resp_expected_len)
      BY <1>4, Zenon DEF OnConsecutiveFrame
    <2> QED BY <2>1
  <1> QED BY <1>1, <1>2, <1>3, <1>4 DEF OnFrame, OnConsecutiveFrame

LEMMA NextFlags == FlagsTyped /\ [Next]_vars => FlagsTyped'
  <1> SUFFICES ASSUME FlagsTyped, [Next]_vars PROVE FlagsTyped'
    OBVIOUS
  <1> USE DEF FlagsTyped, resp, battery, poll, vars, SendUdsRequest, Reaches, JobDone
  <1>1. CASE UNCHANGED vars
    BY <1>1
  <1>2. CASE TickIdle \/ TickGapAfterRR \/ TickGapAfterTemp
    BY <1>2 DEF TickIdle, TickGapAfterRR, TickGapAfterTemp
  <1>3. CASE TickAwaitingRR \/ TickAwaitingTemp
    BY <1>3 DEF TickAwaitingRR, TickAwaitingTemp, TickAwaiting
  <1>4. CASE SendPart
    <2>1. cleared' \in BOOLEAN
      BY <1>4 DEF SendPart
    <2> QED BY <1>4, <2>1, OnFrameFlags DEF SendPart
  <1>5. CASE Refuse \/ GiveUp
    BY <1>5 DEF Refuse, GiveUp, OnSingleFrame
  <1>6. CASE Elapse
    BY <1>6 DEF Elapse
  <1> QED BY <1>1, <1>2, <1>3, <1>4, <1>5, <1>6 DEF Next, Tick

LEMMA SendTyped ==
  ASSUME TypeInv, NEW did \in Dids, SendUdsRequest(did)
  PROVE  sentFor' = 0 /\ RespTyped' /\ InProgressInv' /\ BatteryTyped'
  <1>1. sentFor' = 0 /\ RespTyped' /\ InProgressInv'
    BY DEF SendUdsRequest, RespTyped, InProgressInv
  <1>2. CASE UNCHANGED battery
    BY <1>1, <1>2 DEF battery, TypeInv, BatteryTyped
  <1>3. CASE job' = did /\ nextPart' = 0 /\ cleared' = FALSE /\ jobAge' = 0
    <2>1. 0 <= LastPart(did) /\ did # "none"
      BY Lengths DEF Dids
    <2> QED BY <1>1, <1>3, <2>1 DEF BatteryTyped
  <1> QED BY <1>1, <1>2, <1>3 DEF SendUdsRequest, Reaches

NothingIngested == ingested' = None

LEMMA NothingTyped == NothingIngested => IngestedTyped'
  BY DEF NothingIngested, IngestedTyped, None

LEMMA DecodedTyped == TypeInv /\ ingested' = Decoded => IngestedTyped'
  BY AskedTyped DEF TypeInv, PollTyped, RespTyped, IngestedTyped, Decoded, None

LEMMA InitType == Init => TypeInv
  <1> SUFFICES ASSUME Init PROVE TypeInv
    OBVIOUS
  <1> USE DEF Init
  <1>1. PollTyped
    BY DEF PollTyped
  <1>2. RespTyped /\ InProgressInv
    BY DEF RespTyped, InProgressInv
  <1>3. BatteryTyped
    BY DEF BatteryTyped
  <1>4. IngestedTyped
    BY DEF IngestedTyped, None
  <1>5. FlagsTyped
    BY DEF FlagsTyped
  <1> QED BY <1>1, <1>2, <1>3, <1>4, <1>5 DEF TypeInv

(* The battery's last part, its refusal and its giving up end its job.     *)
LEMMA DoneTyped == JobDone => BatteryTyped'
  BY DEF JobDone, BatteryTyped

LEMMA NextType == TypeInv /\ [Next]_vars => TypeInv'
  <1> SUFFICES ASSUME TypeInv, [Next]_vars
               PROVE  PollTyped' /\ RespTyped' /\ InProgressInv' /\ BatteryTyped'
                      /\ IngestedTyped'
    BY NextFlags DEF TypeInv
  <1> USE AskedTyped, NothingTyped DEF TypeInv
  <1>1. CASE UNCHANGED vars
    BY <1>1 DEF vars, poll, resp, battery, PollTyped, RespTyped, InProgressInv,
                BatteryTyped, IngestedTyped
  <1>2. CASE TickIdle
    <2>1. RespTyped' /\ InProgressInv' /\ BatteryTyped' /\ sentFor' = 0
      BY <1>2, SendTyped DEF TickIdle, PollTyped
    <2> QED BY <1>2, <2>1 DEF TickIdle, PollTyped, NothingIngested
  <1>3. CASE TickAwaitingRR \/ TickAwaitingTemp
    <2>1. PollTyped'
      BY <1>3 DEF TickAwaitingRR, TickAwaitingTemp, TickAwaiting, PollTyped
    <2>2. RespTyped' /\ InProgressInv' /\ BatteryTyped'
      <3>1. UNCHANGED <<resp, battery>>
        BY <1>3 DEF TickAwaitingRR, TickAwaitingTemp, TickAwaiting
      <3> QED BY <3>1 DEF resp, battery, RespTyped, InProgressInv, BatteryTyped
    <2>3. IngestedTyped'
      BY <1>3, DecodedTyped DEF TickAwaitingRR, TickAwaitingTemp, TickAwaiting,
                                NothingIngested
    <2> QED BY <2>1, <2>2, <2>3
  <1>4. CASE TickGapAfterRR
    <2>1. IngestedTyped' /\ (rr_index + 1) % 3 \in 0..2
      BY <1>4 DEF TickGapAfterRR, NothingIngested, PollTyped
    <2>2. CASE tempDueIn = 0
      <3>1. RespTyped' /\ InProgressInv' /\ BatteryTyped' /\ sentFor' = 0
        BY <1>4, <2>2, SendTyped DEF TickGapAfterRR, Dids
      <3> QED BY <1>4, <2>1, <2>2, <3>1 DEF TickGapAfterRR, PollTyped
    <2>3. CASE tempDueIn # 0
      BY <1>4, <2>1, <2>3 DEF TickGapAfterRR, resp, battery, PollTyped, RespTyped,
                         InProgressInv, BatteryTyped
    <2> QED BY <2>2, <2>3
  <1>5. CASE TickGapAfterTemp
    BY <1>5 DEF TickGapAfterTemp, resp, battery, PollTyped, RespTyped, InProgressInv,
                BatteryTyped, NothingIngested
  <1>6. CASE SendPart
    <2>1. PollTyped' /\ IngestedTyped'
      BY <1>6 DEF SendPart, poll, PollTyped, NothingIngested
    <2>2. BatteryTyped'
      <3>1. CASE nextPart = LastPart(job)
        BY <1>6, <3>1, DoneTyped DEF SendPart
      <3>2. CASE nextPart # LastPart(job)
        <4>1. nextPart' = nextPart + 1 /\ job' = job /\ jobAge' = jobAge /\ job # "none"
          BY <1>6, <3>2 DEF SendPart
        <4>2. nextPart' <= LastPart(job) /\ LastPart(job) \in 0..5
          BY <4>1, <3>2, Lengths DEF BatteryTyped
        <4> QED BY <4>1, <4>2 DEF BatteryTyped
      <3> QED BY <3>1, <3>2
    <2>3. RespTyped' /\ InProgressInv'
      <3>1. CASE UNCHANGED resp
        BY <3>1 DEF resp, RespTyped, InProgressInv
      <3>2. CASE OnFrame(job, nextPart)
        BY <1>6, <3>2, OnFrameTyped DEF SendPart, BatteryTyped
      <3> QED BY <1>6, <3>1, <3>2 DEF SendPart
    <2> QED BY <2>1, <2>2, <2>3
  <1>7. CASE Refuse
    <2>1. PollTyped' /\ IngestedTyped' /\ BatteryTyped'
      BY <1>7, DoneTyped DEF Refuse, poll, PollTyped, NothingIngested
    <2>2. RespTyped' /\ InProgressInv'
      <3>1. CASE UNCHANGED resp
        BY <3>1 DEF resp, RespTyped, InProgressInv
      <3>2. CASE OnSingleFrame(Refusal(job), RefusalLength)
        BY <1>7, <3>2, RefusalTyped DEF Refuse, BatteryTyped
      <3> QED BY <1>7, <3>1, <3>2 DEF Refuse
    <2> QED BY <2>1, <2>2
  <1>8. CASE GiveUp
    BY <1>8, DoneTyped DEF GiveUp, poll, resp, PollTyped, RespTyped, InProgressInv,
                           NothingIngested
  <1>9. CASE Elapse
    <2>1. PollTyped'
      BY <1>9 DEF Elapse, PollTyped, Min, Less
    <2>2. BatteryTyped'
      BY <1>9 DEF Elapse, BatteryTyped
    <2> QED BY <1>9, <2>1, <2>2 DEF Elapse, resp, RespTyped, InProgressInv,
                                    NothingIngested
  <1> QED BY <1>1, <1>2, <1>3, <1>4, <1>5, <1>6, <1>7, <1>8, <1>9 DEF Next, Tick

(* Every variable of the poll stays in its domain, and no more bytes are   *)
(* counted than are expected.                                              *)
THEOREM PollTypeCorrect == Spec => []TypeOK
  BY InitType, NextType, TypeInvImplies, PTL DEF Spec

-----------------------------------------------------------------------------
(* The temperature poll.  A request that is not due yet is made within its *)
(* interval; one that is due waits for the request and the gap under way,  *)
(* and, if that was its own, for one of the round robin.                   *)
RequestTime == ResponseTimeout + RequestGap
Longest == (IF TempInterval > RequestTime THEN TempInterval ELSE RequestTime) + RequestTime

(* From now on until the next gap after a round robin request ends.        *)
WaitLeft == CASE uds_state = "gap_after_rr" -> gapLeft
              [] AwaitingRR -> (ResponseTimeout - sentFor) + RequestGap
              [] OTHER -> RequestTime

TempInv ==
    /\ tempDueIn > 0 => tempAge + tempDueIn <= TempInterval
    /\ AwaitingTemp => tempAge <= sentFor
    /\ uds_state = "gap_after_temp" => tempAge + gapLeft <= RequestTime
    /\ uds_state \in {"idle", "awaiting_rr", "gap_after_rr"} /\ tempDueIn = 0
          => tempAge + WaitLeft <= Longest

LEMMA TempAgeBound == PollTyped /\ TempInv => tempAge <= Longest
  BY DEF PollTyped, TempInv, AwaitingTemp, AwaitingRR, WaitLeft, Longest, RequestTime

LEMMA TempInitInv == Init => TempInv
  BY DEF Init, TempInv, AwaitingTemp, AwaitingRR, WaitLeft, Longest, RequestTime

LEMMA TempNextInv == TypeInv /\ TempInv /\ [Next]_vars => TempInv'
  <1> SUFFICES ASSUME PollTyped, TempInv, [Next]_vars PROVE TempInv'
    BY DEF TypeInv
  <1> USE DEF PollTyped, TempInv, AwaitingTemp, AwaitingRR, WaitLeft, Longest, RequestTime
  <1>1. CASE UNCHANGED vars \/ SendPart \/ Refuse \/ GiveUp
    <2>1. UNCHANGED poll
      BY <1>1 DEF vars, SendPart, Refuse, GiveUp
    <2> QED BY <2>1 DEF poll
  <1>2. CASE TickIdle
    BY <1>2 DEF TickIdle, SendUdsRequest
  <1>3. CASE TickAwaitingRR
    BY <1>3 DEF TickAwaitingRR, TickAwaiting
  <1>4. CASE TickAwaitingTemp
    BY <1>4 DEF TickAwaitingTemp, TickAwaiting
  <1>5. CASE TickGapAfterRR
    BY <1>5 DEF TickGapAfterRR, SendUdsRequest
  <1>6. CASE TickGapAfterTemp
    BY <1>6 DEF TickGapAfterTemp
  <1>7. CASE Elapse
    BY <1>7 DEF Elapse, TickDue, Awaiting, Min, Less
  <1> QED BY <1>1, <1>2, <1>3, <1>4, <1>5, <1>6, <1>7 DEF Next, Tick

(* The temperatures are asked for again in time for an answer before the   *)
(* last ones lose their freshness, whatever requests run into timeouts:    *)
(* for all timings whose window outlasts the longest wait and one timeout. *)
THEOREM TempsPolledInTime ==
  ASSUME Longest + ResponseTimeout < TempFresh
  PROVE  Spec => []TempPolledWhileFresh
  <1>1. Init => TypeInv /\ TempInv
    BY InitType, TempInitInv
  <1>2. TypeInv /\ TempInv /\ [Next]_vars => (TypeInv /\ TempInv)'
    BY NextType, TempNextInv
  <1>3. TypeInv /\ TempInv => TempPolledWhileFresh
    BY TempAgeBound DEF TypeInv, PollTyped, TempPolledWhileFresh, Longest, RequestTime
  <1> QED BY <1>1, <1>2, <1>3, PTL DEF Spec

-----------------------------------------------------------------------------
(* Own answers.  A battery that is done with a request before the gap that *)
(* follows its timeout has ended is busy with the request under way, or    *)
(* with none.                                                              *)
Gap == uds_state \in {"gap_after_rr", "gap_after_temp"}

JobIsCurrent ==
    job # "none" =>
        /\ Awaiting \/ Gap
        /\ Awaiting => job = Asked /\ jobAge = sentFor
        /\ Gap => jobAge + gapLeft >= RequestTime

(* What has arrived of its answer are some of the parts sent so far, in    *)
(* their order; as they are counted, a full count means that all of them   *)
(* came.                                                                   *)
LastSent == IF job = "none" THEN LastPart(Asked) ELSE nextPart - 1
Parts == Len(resp_buf)

InOrder ==
    \A i \in 1..Parts : /\ resp_buf[i].did = Asked
                        /\ i - 1 <= resp_buf[i].part
                        /\ resp_buf[i].part <= LastSent - (Parts - i)

Nothing ==
    /\ resp_buf = <<>> /\ resp_received_len = 0
    /\ ~resp_in_progress /\ ~resp_complete

Refused ==
    /\ resp_buf = <<Refusal(Asked)>> /\ resp_received_len = 3
    /\ ~resp_in_progress /\ resp_complete /\ job = "none"

Arriving ==
    /\ Parts > 0 /\ InOrder
    /\ resp_expected_len = AnswerLength[Asked]
    /\ resp_received_len = IF Parts > LastPart(Asked) THEN AnswerLength[Asked]
                           ELSE 6 + 7 * (Parts - 1)
    /\ resp_complete <=> Parts > LastPart(Asked)
    /\ resp_in_progress <=> Parts <= LastPart(Asked)

ContentInv == Awaiting => Nothing \/ Refused \/ Arriving

OwnInv == JobIsCurrent /\ ContentInv /\ OwnAnswerOnly

(* The parts in the buffer, and the DID asked for, as the provers need them. *)
LEMMA PartsTyped ==
  ASSUME TypeInv
  PROVE  /\ Parts \in Nat /\ Asked \in Dids /\ LastPart(Asked) \in 0..5
         /\ \A i \in 1..Parts : resp_buf[i] \in Frames /\ resp_buf[i].part \in Nat
  <1>1. Parts \in Nat /\ \A i \in 1..Parts : resp_buf[i] \in Frames
    BY DEF TypeInv, RespTyped, Parts
  <1>2. Asked \in Dids /\ LastPart(Asked) \in 0..5
    BY AskedTyped, Lengths DEF TypeInv, PollTyped
  <1> QED BY <1>1, <1>2 DEF Frames

(* The battery has sent the last part of what is complete.                 *)
LEMMA CompleteDone ==
  ASSUME TypeInv, OwnInv, Awaiting, resp_complete
  PROVE  job = "none"
  <1> SUFFICES ASSUME job # "none" PROVE FALSE
    OBVIOUS
  <1>1. job = Asked /\ nextPart <= LastPart(Asked) /\ nextPart \in Nat
    BY DEF OwnInv, JobIsCurrent, TypeInv, BatteryTyped
  <1>2. Arriving
    BY DEF OwnInv, ContentInv, Nothing, Refused
  <1>3. Parts \in 1..Parts /\ Parts > LastPart(Asked)
    BY <1>2, PartsTyped DEF Arriving
  <1>4. Parts - 1 <= resp_buf[Parts].part /\ resp_buf[Parts].part <= nextPart - 1
        /\ resp_buf[Parts].part \in Nat
    BY <1>1, <1>2, <1>3, PartsTyped DEF Arriving, InOrder, LastSent
  <1> QED BY <1>1, <1>3, <1>4, PartsTyped

(* A complete response of full length is the whole answer.                 *)
LEMMA CompleteIsWhole ==
  ASSUME TypeInv, OwnInv, Awaiting, resp_complete,
         resp_received_len >= MinLength[Asked]
  PROVE  resp_buf = Answer(Asked)
  <1>1. Arriving
    <2>1. MinLength[Asked] > 3 /\ MinLength[Asked] \in Nat
      BY PartsTyped, Lengths
    <2> QED BY <2>1 DEF OwnInv, ContentInv, Nothing, Refused
  <1>2. LastSent = LastPart(Asked)
    BY CompleteDone DEF LastSent
  <1>3. Parts = LastPart(Asked) + 1
    <2>1. 1 \in 1..Parts /\ Parts > LastPart(Asked)
      BY <1>1, PartsTyped DEF Arriving
    <2>2. 0 <= resp_buf[1].part /\ resp_buf[1].part <= LastPart(Asked) - (Parts - 1)
          /\ resp_buf[1].part \in Nat
      BY <1>1, <1>2, <2>1, PartsTyped DEF Arriving, InOrder
    <2> QED BY <2>1, <2>2, PartsTyped
  <1>4. \A i \in 1..Parts : resp_buf[i] = Part(Asked, i - 1)
    <2> SUFFICES ASSUME NEW i \in 1..Parts PROVE resp_buf[i] = Part(Asked, i - 1)
      OBVIOUS
    <2>1. resp_buf[i].did = Asked /\ resp_buf[i] \in Frames /\ resp_buf[i].part \in Nat
      BY <1>1, PartsTyped DEF Arriving, InOrder
    <2>2. resp_buf[i].part = i - 1
      <3>1. i - 1 <= resp_buf[i].part /\ resp_buf[i].part <= LastSent - (Parts - i)
        BY <1>1 DEF Arriving, InOrder
      <3>2. Parts \in Nat /\ LastPart(Asked) \in Nat /\ resp_buf[i].part \in Nat /\ i \in Nat
        BY <2>1, PartsTyped
      <3> QED BY <1>2, <1>3, <3>1, <3>2
    <2> QED BY <2>1, <2>2 DEF Frames, Part
  <1>5. resp_buf \in Seq(Frames) /\ DOMAIN resp_buf = 1..Parts
    BY DEF TypeInv, RespTyped, Parts
  <1> QED BY <1>3, <1>4, <1>5 DEF Answer

(* Nothing arrives, and the battery goes on: what has arrived still fits.  *)
LEMMA ContentKept ==
  ASSUME TypeInv, ContentInv, UNCHANGED <<resp, Awaiting, Asked>>,
         LastSent <= LastSent', job = "none" => job' = "none",
         LastSent \in Int, LastSent' \in Int
  PROVE  ContentInv'
  <1> SUFFICES ASSUME Awaiting PROVE (Nothing \/ Refused \/ Arriving)'
    BY DEF ContentInv
  <1>1. CASE Nothing
    BY <1>1 DEF Nothing, resp
  <1>2. CASE Refused
    BY <1>2 DEF Refused, resp
  <1>3. CASE Arriving
    <2>1. Parts' = Parts /\ resp_buf' = resp_buf
      BY DEF Parts, resp
    <2>2. InOrder'
      BY <1>3, <2>1, PartsTyped DEF Arriving, InOrder
    <2> QED BY <1>3, <2>1, <2>2 DEF Arriving, resp
  <1> QED BY <1>1, <1>2, <1>3 DEF ContentInv

(* The next part of the answer to the request under way arrives.           *)
LEMMA PartArrives ==
  ASSUME TypeInv, OwnInv, Awaiting, job # "none", SendPart,
         OnFrame(job, nextPart), UNCHANGED <<Awaiting, Asked>>
  PROVE  ContentInv'
  <1> DEFINE last == LastPart(Asked)
  <1>0. /\ job = Asked /\ nextPart \in 0..last /\ last \in 0..5
        /\ nextPart' \in Nat
        /\ LastSent = nextPart - 1 /\ LastSent' = nextPart
    <2>1. job = Asked /\ nextPart \in 0..last /\ last \in 0..5
      BY PartsTyped DEF OwnInv, JobIsCurrent, TypeInv, BatteryTyped
    <2>2. CASE nextPart = last
      BY <2>1, <2>2 DEF SendPart, JobDone, LastSent
    <2>3. CASE nextPart # last
      BY <2>1, <2>3 DEF SendPart, LastSent
    <2> QED BY <2>1, <2>2, <2>3
  <1>1. Nothing \/ Arriving
    BY DEF OwnInv, ContentInv, Refused
  <1>2. CASE nextPart = 0
    <2>1. Nothing
      <3> SUFFICES ASSUME Arriving PROVE FALSE
        BY <1>1
      <3>1. Parts \in 1..Parts
        BY PartsTyped DEF Arriving
      <3> QED BY <1>0, <1>2, <3>1, PartsTyped DEF Arriving, InOrder
    <2>2. /\ resp_buf' = <<Part(Asked, 0)>> /\ resp_expected_len' = AnswerLength[Asked]
          /\ IF SingleFrame(Asked)
             THEN resp_received_len' = AnswerLength[Asked] /\ resp_complete'
                  /\ ~resp_in_progress'
             ELSE resp_received_len' = 6 /\ ~resp_complete' /\ resp_in_progress'
      <3>1. AnswerLength[Asked] \in 4..35
        BY PartsTyped, Lengths
      <3>2. CASE SingleFrame(Asked)
        <4>1. OnSingleFrame(Part(Asked, 0), AnswerLength[Asked])
          BY <1>0, <1>2, <3>2 DEF OnFrame
        <4> QED BY <2>1, <3>2, <4>1 DEF OnSingleFrame, Nothing
      <3>3. CASE ~SingleFrame(Asked)
        <4>1. OnFirstFrame(Part(Asked, 0), AnswerLength[Asked])
          BY <1>0, <1>2, <3>3 DEF OnFrame
        <4>2. resp_in_progress' /\ ~resp_complete'
          BY <2>1, <4>1, Zenon DEF OnFirstFrame, Nothing
        <4> QED BY <3>1, <3>3, <4>1, <4>2 DEF OnFirstFrame, Min, RESP_BUF_SIZE
      <3> QED BY <3>2, <3>3
    <2>3. Parts' = 1 /\ resp_buf'[1] = Part(Asked, 0)
      BY <2>2 DEF Parts
    <2>4. InOrder'
      BY <1>0, <1>2, <2>3 DEF InOrder, Part
    <2>5. SingleFrame(Asked) <=> last = 0
      BY PartsTyped, Lengths
    <2> HIDE DEF last
    <2> QED BY <1>0, <2>2, <2>3, <2>4, <2>5, PartsTyped DEF ContentInv, Arriving, last
  <1>3. CASE nextPart # 0 /\ ~resp_in_progress
    <2>1. UNCHANGED resp
      BY <1>0, <1>3 DEF OnFrame, OnConsecutiveFrame
    <2> QED BY <1>0, <2>1, ContentKept DEF OwnInv
  <1>4. CASE nextPart # 0 /\ resp_in_progress
    <2>1. Arriving /\ Parts <= last
      BY <1>1, <1>4 DEF Nothing, Arriving
    <2>0. OnConsecutiveFrame(Part(Asked, nextPart))
      BY <1>0, <1>4 DEF OnFrame
    <2>2. /\ resp_buf' = Append(resp_buf, Part(Asked, nextPart))
          /\ resp_expected_len' = resp_expected_len
          /\ resp_received_len' = Min(resp_received_len + 7, resp_expected_len)
          /\ resp_in_progress' = (resp_received_len' < resp_expected_len)
      BY <1>4, <2>0, Zenon DEF OnConsecutiveFrame
    <2>3. ~resp_complete
      BY <2>1, <1>0, PartsTyped DEF Arriving
    <2>4. resp_complete' <=> resp_received_len' >= resp_expected_len
      BY <1>4, <2>0, <2>3, Zenon DEF OnConsecutiveFrame
    <2>5. /\ Parts' = Parts + 1
          /\ \A i \in 1..Parts : resp_buf'[i] = resp_buf[i]
          /\ resp_buf'[Parts + 1] = Part(Asked, nextPart)
      BY <2>2 DEF Parts, TypeInv, RespTyped
    <2>6. InOrder'
      <3>1. Parts \in 1..Parts /\ Parts - 1 <= resp_buf[Parts].part
            /\ resp_buf[Parts].part <= nextPart - 1 /\ resp_buf[Parts].part \in Nat
        BY <1>0, <2>1, PartsTyped DEF Arriving, InOrder
      <3>2. SUFFICES ASSUME NEW i \in 1..(Parts + 1)
                     PROVE  /\ resp_buf'[i].did = Asked
                            /\ i - 1 <= resp_buf'[i].part
                            /\ resp_buf'[i].part <= nextPart - (Parts + 1 - i)
        <4>1. Asked' = Asked
          OBVIOUS
        <4> QED BY <1>0, <2>5, <4>1, PartsTyped DEF InOrder
      <3>3. CASE i = Parts + 1
        BY <1>0, <2>5, <3>1, <3>3, PartsTyped DEF Part
      <3>4. CASE i \in 1..Parts
        BY <1>0, <2>1, <2>5, <3>4, PartsTyped DEF Arriving, InOrder
      <3> QED BY <3>3, <3>4, PartsTyped
    <2>7. /\ AnswerLength[Asked] \in Nat
          /\ 6 + 7 * Parts >= AnswerLength[Asked] <=> Parts >= last
      <3>1. ~SingleFrame(Asked) /\ Parts \in Nat /\ Asked \in Dids
        BY <1>0, <1>4, PartsTyped, Lengths
      <3> QED BY <3>1, Lengths
    <2> HIDE DEF last
    <2>8. resp_received_len' = Min(6 + 7 * Parts, AnswerLength[Asked])
          /\ resp_expected_len' = AnswerLength[Asked]
      BY <2>1, <2>2, PartsTyped DEF Arriving, last
    <2>9. /\ resp_received_len' = IF Parts' > last THEN AnswerLength[Asked]
                                   ELSE 6 + 7 * (Parts' - 1)
          /\ resp_received_len' >= resp_expected_len' <=> Parts' > last
          /\ resp_received_len' < resp_expected_len' <=> Parts' <= last
      BY <1>0, <2>5, <2>7, <2>8, PartsTyped DEF Min
    <2>10. Parts' > 0 /\ (resp_complete' <=> Parts' > last)
      BY <2>2, <2>4, <2>5, <2>9, PartsTyped
    <2>11. resp_in_progress' <=> Parts' <= last
      BY <2>2, <2>9
    <2>12. Arriving'
      BY <2>5, <2>6, <2>8, <2>9, <2>10, <2>11, PartsTyped DEF Arriving, last
    <2> QED BY <2>12 DEF ContentInv
  <1> QED BY <1>2, <1>3, <1>4

LEMMA OwnInit == Init => OwnInv
  BY DEF Init, OwnInv, JobIsCurrent, ContentInv, OwnAnswerOnly, Awaiting, AwaitingRR,
         AwaitingTemp, None

(* A request meets a battery that has nothing to do.                       *)
LEMMA RequestKeepsInv ==
  ASSUME job = "none", NEW did \in Dids, SendUdsRequest(did),
         Awaiting', Asked' = did, ingested' = None
  PROVE  OwnInv'
  <1>1. ContentInv'
    BY Zenon DEF SendUdsRequest, ContentInv, Nothing
  <1>2. job' = "none" \/ (job' = did /\ jobAge' = 0 /\ sentFor' = 0)
    BY DEF SendUdsRequest, Reaches, battery
  <1>3. ~Gap'
    BY DEF Gap, Awaiting, AwaitingRR, AwaitingTemp
  <1>4. JobIsCurrent'
    BY <1>2, <1>3 DEF JobIsCurrent
  <1> QED BY <1>1, <1>4 DEF OwnInv, OwnAnswerOnly

LEMMA OwnNext ==
  ASSUME AnswerTime < RequestTime, TypeInv, OwnInv, [Next]_vars
  PROVE  OwnInv'
  <1> USE DEF RequestTime
  <1>0. job # "none" /\ Gap => gapLeft > 0
    BY DEF OwnInv, JobIsCurrent, TypeInv, BatteryTyped, PollTyped
  <1>1. CASE UNCHANGED vars
    <2>1. UNCHANGED <<Awaiting, Gap, Asked, LastSent, job, jobAge, sentFor, gapLeft>>
      BY <1>1 DEF vars, poll, battery, Awaiting, AwaitingRR, AwaitingTemp, Gap, Asked,
                  LastSent
    <2>2. ContentInv'
      BY <1>1, <2>1 DEF OwnInv, ContentInv, Nothing, Refused, Arriving, InOrder, Parts,
                        vars, resp
    <2>3. OwnAnswerOnly'
      BY <1>1 DEF OwnInv, OwnAnswerOnly, vars
    <2> QED BY <2>1, <2>2, <2>3 DEF OwnInv, JobIsCurrent
  <1>2. CASE TickIdle
    <2>1. job = "none"
      BY <1>2 DEF OwnInv, JobIsCurrent, TickIdle, Awaiting, AwaitingRR, AwaitingTemp, Gap
    <2>2. Awaiting' /\ Asked' = Asked
      BY <1>2 DEF TickIdle, Awaiting, AwaitingRR, AwaitingTemp, Asked
    <2> QED BY <1>2, <2>1, <2>2, PartsTyped, RequestKeepsInv DEF TickIdle
  <1>3. CASE TickAwaitingRR \/ TickAwaitingTemp
    <2>1. /\ Awaiting /\ Gap' /\ ~Awaiting' /\ gapLeft' = RequestGap
          /\ job' = job /\ jobAge' = jobAge
      BY <1>3 DEF TickAwaitingRR, TickAwaitingTemp, TickAwaiting, Awaiting, AwaitingRR,
                  AwaitingTemp, Gap, battery
    <2>2. \/ resp_complete /\ ingested' = Decoded
          \/ sentFor >= ResponseTimeout /\ ingested' = None
      BY <1>3 DEF TickAwaitingRR, TickAwaitingTemp, TickAwaiting
    <2>3. JobIsCurrent'
      <3> SUFFICES ASSUME job # "none"
                   PROVE  jobAge + RequestGap >= RequestTime
        BY <2>1 DEF JobIsCurrent
      <3>1. sentFor >= ResponseTimeout
        BY <2>1, <2>2, CompleteDone
      <3> QED BY <2>1, <3>1 DEF OwnInv, JobIsCurrent, TypeInv, PollTyped
    <2>4. OwnAnswerOnly'
      <3>1. CASE ingested' = None
        BY <3>1 DEF OwnAnswerOnly
      <3>2. CASE resp_complete /\ ingested' = [did |-> Asked, from |-> resp_buf]
                 /\ ~(resp_received_len < MinLength[Asked])
        <4>1. resp_received_len >= MinLength[Asked]
          <5>1. MinLength[Asked] \in Nat
            BY PartsTyped, Lengths
          <5>2. resp_received_len \in Nat
            BY DEF TypeInv, RespTyped
          <5> QED BY <3>2, <5>1, <5>2
        <4>2. resp_buf = Answer(Asked)
          BY <2>1, <3>2, <4>1, CompleteIsWhole
        <4>3. ingested'.did = Asked /\ ingested'.from = resp_buf
          BY <3>2
        <4> QED BY <4>2, <4>3 DEF OwnAnswerOnly
      <3> QED BY <2>2, <3>1, <3>2 DEF Decoded
    <2> QED BY <2>1, <2>3, <2>4 DEF OwnInv, ContentInv
  <1>4. CASE TickGapAfterRR
    <2>1. job = "none"
      BY <1>0, <1>4 DEF TickGapAfterRR, Gap, TypeInv, PollTyped
    <2>2. CASE tempDueIn = 0
      <3>1. Awaiting' /\ Asked' = "temp_probes" /\ SendUdsRequest("temp_probes")
        BY <1>4, <2>2 DEF TickGapAfterRR, Awaiting, AwaitingTemp, Asked
      <3> QED BY <1>4, <2>1, <3>1, RequestKeepsInv DEF TickGapAfterRR, Dids
    <2>3. CASE tempDueIn # 0
      BY <1>4, <2>1, <2>3 DEF TickGapAfterRR, OwnInv, JobIsCurrent, ContentInv,
                  OwnAnswerOnly, Awaiting, AwaitingRR, AwaitingTemp, battery
    <2> QED BY <2>2, <2>3
  <1>5. CASE TickGapAfterTemp
    <2>1. job = "none"
      BY <1>0, <1>5 DEF TickGapAfterTemp, Gap, TypeInv, PollTyped
    <2> QED BY <1>5, <2>1 DEF TickGapAfterTemp, OwnInv, JobIsCurrent, ContentInv,
                  OwnAnswerOnly, Awaiting, AwaitingRR, AwaitingTemp, battery
  <1>6. CASE SendPart \/ Refuse \/ GiveUp
    <2>0. OwnAnswerOnly'
      BY <1>6 DEF SendPart, Refuse, GiveUp, OwnAnswerOnly
    <2>1. /\ UNCHANGED <<Awaiting, Gap, Asked, sentFor, gapLeft>> /\ job # "none"
          /\ job' = "none" \/ (job' = job /\ jobAge' = jobAge)
      BY <1>6 DEF SendPart, Refuse, GiveUp, JobDone, poll, Awaiting, AwaitingRR,
                  AwaitingTemp, Gap, Asked
    <2>2. JobIsCurrent'
      BY <2>1 DEF OwnInv, JobIsCurrent
    <2>3. ContentInv'
      <3> SUFFICES ASSUME Awaiting PROVE ContentInv'
        BY <2>1 DEF ContentInv
      <3>1. job = Asked /\ nextPart \in 0..LastPart(Asked) /\ LastPart(Asked) \in 0..5
        BY <2>1, PartsTyped DEF OwnInv, JobIsCurrent, TypeInv, BatteryTyped
      <3>2. CASE UNCHANGED resp
        <4>1. job' = "none" \/ (job' = job /\ nextPart' = nextPart + 1)
          BY <1>6 DEF SendPart, Refuse, GiveUp, JobDone
        <4>2. /\ LastSent \in Int /\ LastSent' \in Int /\ LastSent <= LastSent'
          BY <2>1, <3>1, <4>1 DEF LastSent
        <4> QED BY <2>1, <3>2, <4>2, ContentKept DEF OwnInv
      <3>3. CASE SendPart /\ OnFrame(job, nextPart)
        BY <2>1, <3>3, PartArrives
      <3>4. CASE Refuse /\ OnSingleFrame(Refusal(job), RefusalLength)
        <4>1. Nothing
          <5>1. Nothing \/ Arriving
            BY <2>1 DEF OwnInv, ContentInv, Refused
          <5>2. CASE Arriving
            <6>1. Parts \in 1..Parts
              BY <5>2, PartsTyped DEF Arriving
            <6>2. LastSent = 0 - 1
              BY <2>1, <3>4 DEF LastSent, Refuse
            <6> QED BY <5>2, <6>1, <6>2, PartsTyped DEF Arriving, InOrder
          <5> QED BY <5>1, <5>2
        <4>2. job' = "none"
          BY <3>4 DEF Refuse, JobDone
        <4>3. resp_complete' /\ ~resp_in_progress'
          BY <3>4, <4>1, Zenon DEF OnSingleFrame, Nothing
        <4>4. resp_buf' = <<Refusal(Asked)>> /\ resp_received_len' = 3
          BY <3>1, <3>4 DEF OnSingleFrame, RefusalLength
        <4> QED BY <2>1, <4>2, <4>3, <4>4 DEF ContentInv, Refused
      <3> QED BY <1>6, <3>2, <3>3, <3>4 DEF SendPart, Refuse, GiveUp
    <2> QED BY <2>0, <2>2, <2>3 DEF OwnInv
  <1>7. CASE Elapse
    <2>1. /\ UNCHANGED <<resp, Awaiting, Gap, Asked, LastSent, job>>
          /\ ingested' = None
      BY <1>7 DEF Elapse, Awaiting, AwaitingRR, AwaitingTemp, Gap, Asked, LastSent
    <2>2. ContentInv'
      BY <2>1 DEF OwnInv, ContentInv, Nothing, Refused, Arriving, InOrder, Parts, resp
    <2>3. JobIsCurrent'
      <3> SUFFICES ASSUME job # "none"
                   PROVE  /\ Awaiting \/ Gap
                          /\ Awaiting => job = Asked /\ jobAge' = sentFor'
                          /\ Gap => jobAge' + gapLeft' >= RequestTime
        BY <2>1 DEF JobIsCurrent
      <3>1. jobAge' = jobAge + 1 /\ jobAge \in Nat
        BY <1>7 DEF Elapse, TypeInv, BatteryTyped
      <3>2. Awaiting => sentFor' = sentFor + 1
        <4>1. Awaiting => ~(sentFor >= ResponseTimeout)
          BY <1>7, Zenon DEF Elapse, TickDue
        <4>2. sentFor' = Min(sentFor + 1, ResponseTimeout)
          BY <1>7 DEF Elapse
        <4>3. sentFor \in Nat /\ ResponseTimeout \in Nat
          BY DEF TypeInv, PollTyped
        <4> QED BY <4>1, <4>2, <4>3 DEF Min
      <3>3. Gap => gapLeft' + 1 = gapLeft /\ gapLeft \in Nat /\ gapLeft' \in Nat
        BY <1>7 DEF Elapse, TickDue, Gap, Less, TypeInv, PollTyped
      <3> QED BY <3>1, <3>2, <3>3 DEF OwnInv, JobIsCurrent
    <2> QED BY <2>1, <2>2, <2>3 DEF OwnInv, OwnAnswerOnly
  <1> QED BY <1>1, <1>2, <1>3, <1>4, <1>5, <1>6, <1>7 DEF Next, Tick

(* Of a battery that is done before the next request, only whole answers   *)
(* are ingested, each for the DID it answers, whatever the bus loses.      *)
THEOREM OnlyOwnAnswers ==
  ASSUME AnswerTime < RequestTime
  PROVE  Spec => []OwnAnswerOnly
  <1>1. Init => TypeInv /\ OwnInv
    BY InitType, OwnInit
  <1>2. TypeInv /\ OwnInv /\ [Next]_vars => (TypeInv /\ OwnInv)'
    BY NextType, OwnNext
  <1>3. OwnInv => OwnAnswerOnly
    BY DEF OwnInv
  <1> QED BY <1>1, <1>2, <1>3, PTL DEF Spec

-----------------------------------------------------------------------------
(* The poll implements DidExchange.                                        *)

(* No gap is left over where a request is next or under way.               *)
GapOver == Awaiting \/ uds_state = "idle" => gapLeft = 0

ExchangeInv == TypeInv /\ OwnInv /\ GapOver

LEMMA GapOverNext == GapOver /\ [Next]_vars => GapOver'
  <1> SUFFICES ASSUME GapOver, [Next]_vars PROVE GapOver'
    OBVIOUS
  <1> USE DEF GapOver, Awaiting, AwaitingRR, AwaitingTemp
  <1>1. CASE UNCHANGED vars \/ SendPart \/ Refuse \/ GiveUp
    BY <1>1 DEF vars, poll, SendPart, Refuse, GiveUp
  <1>2. CASE TickIdle \/ TickGapAfterRR \/ TickGapAfterTemp
    BY <1>2 DEF TickIdle, TickGapAfterRR, TickGapAfterTemp
  <1>3. CASE TickAwaitingRR \/ TickAwaitingTemp
    BY <1>3 DEF TickAwaitingRR, TickAwaitingTemp, TickAwaiting
  <1>4. CASE Elapse
    BY <1>4 DEF Elapse, Less
  <1> QED BY <1>1, <1>2, <1>3, <1>4 DEF Next, Tick

LEMMA ExchangeInitImplied == Init => Exchange!ExchangeInit
  BY DEF Init, Exchange!ExchangeInit, Awaiting, AwaitingRR, AwaitingTemp

(* What is taken over is the whole answer to the request that ends, or nothing. *)
LEMMA TakesWholeOrNothing ==
  ASSUME TypeInv, OwnInv, Awaiting, resp_complete, ingested' = Decoded
  PROVE  ingested' \in {[did |-> Asked, from |-> Answer(Asked)], None}
  <1>1. CASE resp_received_len < MinLength[Asked]
    BY <1>1 DEF Decoded
  <1>2. CASE ~(resp_received_len < MinLength[Asked])
    <2>1. MinLength[Asked] \in Nat
      BY PartsTyped, Lengths
    <2>2. resp_received_len \in Nat
      BY DEF TypeInv, RespTyped
    <2>3. resp_buf = Answer(Asked)
      BY <1>2, <2>1, <2>2, CompleteIsWhole
    <2> QED BY <1>2, <2>3 DEF Decoded
  <1> QED BY <1>1, <1>2

(* Where the request, the turn and the clock stay, a frame was taken in.   *)
LEMMA FrameImplied ==
  ASSUME UNCHANGED <<uds_state, rr_index, sentFor, gapLeft, tempDueIn>>, ingested' = None
  PROVE  Exchange!Frame
  BY DEF Exchange!Frame, Awaiting, AwaitingRR, AwaitingTemp, Asked

(* The clock waits for the tick that finds the timeout over.               *)
LEMMA ClockImplied ==
  ASSUME TypeInv, Elapse
  PROVE  Exchange!Clock
  <1>1. UNCHANGED <<Awaiting, Asked, uds_state, rr_index>> /\ ingested' = None
    BY DEF Elapse, Awaiting, AwaitingRR, AwaitingTemp, Asked
  <1>2. gapLeft' = Less(gapLeft) /\ tempDueIn' = Less(tempDueIn)
    BY DEF Elapse
  <1>3. Asked # "none"
    BY PartsTyped DEF Dids
  <1>4. Awaiting => sentFor < ResponseTimeout /\ sentFor' = sentFor + 1
    <2>1. Awaiting => ~(sentFor >= ResponseTimeout)
      BY Zenon DEF Elapse, TickDue
    <2>2. sentFor' = Min(sentFor + 1, ResponseTimeout)
      BY DEF Elapse
    <2>3. sentFor \in Nat /\ ResponseTimeout \in Nat
      BY DEF TypeInv, PollTyped
    <2> QED BY <2>1, <2>2, <2>3 DEF Min
  <1>5. CASE Awaiting
    BY <1>1, <1>2, <1>3, <1>4, <1>5 DEF Exchange!Clock, Exchange!Less, Less
  <1>6. CASE ~Awaiting
    BY <1>1, <1>2, <1>6 DEF Exchange!Clock, Exchange!Less, Less
  <1> QED BY <1>5, <1>6

LEMMA ExchangeStep ==
  ExchangeInv /\ [Next]_vars => [Exchange!ExchangeNext]_(Exchange!exchangeVars)
  <1> SUFFICES ASSUME TypeInv, OwnInv, GapOver, [Next]_vars
               PROVE  [Exchange!ExchangeNext]_(Exchange!exchangeVars)
    BY DEF ExchangeInv
  <1> USE DEF Awaiting, AwaitingRR, AwaitingTemp
  <1>0. rr_index \in 0..2 /\ Len(RoundRobin) = 3
    BY DEF TypeInv, PollTyped, RoundRobin
  <1>1. CASE TickIdle
    <2>1. RoundRobin[rr_index + 1] # "none"
      BY <1>0 DEF RoundRobin
    <2>2. Exchange!Ask
      BY <1>0, <1>1, <2>1
      DEF TickIdle, SendUdsRequest, GapOver, Asked, Exchange!Ask, Exchange!MayAsk
    <2> QED BY <2>2 DEF Exchange!ExchangeNext
  <1>2. CASE TickAwaitingRR \/ TickAwaitingTemp
    <2>1. ingested' \in {[did |-> Asked, from |-> Answer(Asked)], None}
      BY <1>2, TakesWholeOrNothing DEF TickAwaitingRR, TickAwaitingTemp, TickAwaiting
    <2>2. Asked \in Dids /\ Asked # "none"
      BY PartsTyped DEF Dids
    <2>3. ingested' \in {[did \in Dids |-> [did |-> did, from |-> Answer(did)]][Asked], None}
      BY <2>1, <2>2
    <2>4. (Asked # "temp_probes") = AwaitingRR
      BY <1>0, <1>2 DEF TickAwaitingRR, TickAwaitingTemp, Asked, RoundRobin
    <2>5. Exchange!Finish
      BY <1>2, <2>2, <2>3, <2>4
      DEF TickAwaitingRR, TickAwaitingTemp, TickAwaiting, Exchange!Finish
    <2> QED BY <2>5 DEF Exchange!ExchangeNext
  <1>3. CASE TickGapAfterRR
    <2>1. CASE tempDueIn = 0
      <3>1. Exchange!AskTemperatures
        BY <1>0, <1>3, <2>1
        DEF TickGapAfterRR, SendUdsRequest, Asked, Exchange!AskTemperatures, Exchange!MayAsk
      <3> QED BY <3>1 DEF Exchange!ExchangeNext
    <2>2. CASE tempDueIn # 0
      <3>1. Exchange!PassOver
        BY <1>0, <1>3, <2>2
        DEF TickGapAfterRR, TypeInv, PollTyped, Exchange!PassOver, Exchange!MayAsk
      <3> QED BY <3>1 DEF Exchange!ExchangeNext
    <2> QED BY <2>1, <2>2
  <1>4. CASE TickGapAfterTemp
    <2>1. Exchange!Frame
      BY <1>4 DEF TickGapAfterTemp, Exchange!Frame
    <2> QED BY <2>1 DEF Exchange!ExchangeNext
  <1>5. CASE SendPart \/ Refuse \/ GiveUp
    <2>1. Exchange!Frame
      BY <1>5, FrameImplied DEF SendPart, Refuse, GiveUp, poll
    <2> QED BY <2>1 DEF Exchange!ExchangeNext
  <1>7. CASE Elapse
    BY <1>7, ClockImplied DEF Exchange!ExchangeNext
  <1>6. CASE UNCHANGED vars
    BY <1>6 DEF vars, poll, Asked, Exchange!exchangeVars
  <1> QED BY <1>1, <1>2, <1>3, <1>4, <1>5, <1>6, <1>7 DEF Next, Tick

(* Every step of the poll is a step of DidExchange: turns and gaps are     *)
(* kept, no request is under way for longer than its timeout, due          *)
(* temperatures are not passed over, and a request yields its own whole    *)
(* answer or nothing.  As above, the battery is done with a request        *)
(* before the next one.                                                    *)
THEOREM PollImplementsExchange ==
  ASSUME AnswerTime < RequestTime
  PROVE  Spec => ImplementsExchange
  <1>1. Init => ExchangeInv
    BY InitType, OwnInit DEF Init, ExchangeInv, GapOver
  <1>2. ExchangeInv /\ [Next]_vars => ExchangeInv'
    BY NextType, OwnNext, GapOverNext DEF ExchangeInv
  <1>3. QED
    BY <1>1, <1>2, ExchangeInitImplied, ExchangeStep, PTL
    DEF Spec, ImplementsExchange, Exchange!ExchangeSpec

-----------------------------------------------------------------------------
(* The temperatures.  Refining the poll, the sources change nothing of it. *)
LEMMA TempsRefinePoll == TempsSpec => Spec
  <1>1. TempsInit => Init
    BY DEF TempsInit
  <1>2. [TempsNext]_allVars => [Next]_vars
    BY DEF TempsNext, PollTemps, OtherPollStep, Broadcast, Pass, allVars, Next, Tick
  <1> QED BY <1>1, <1>2, PTL DEF TempsSpec, Spec

TempsTyped ==
    /\ didAge \in 0..Stale /\ tempSeen \in [Probes -> 0..(TempFresh + 2)]
    /\ didRefused \subseteq Probes

(* A probe is as fresh as the DID's last answer, or was left out of it; and *)
(* once that answer is stale, a broadcast writes every one of them.         *)
NoOlder(p) == (p \in didRefused /\ (DidFresh \/ ~broadcast)) \/ tempSeen[p] <= didAge

WrittenWhenStale == ~DidFresh /\ broadcast => \A p \in Probes : tempSeen[p] = 0

TempsInv == TempsTyped /\ WrittenWhenStale /\ \A p \in Probes : NoOlder(p)

LEMMA TempsInitInv == TempsInit => TempsInv
  BY DEF TempsInit, TempsInv, TempsTyped, NoOlder, WrittenWhenStale, Stale

LEMMA TempsNextInv == TempsInv /\ [TempsNext]_allVars => TempsInv'
  <1> SUFFICES ASSUME TempsInv, [TempsNext]_allVars PROVE TempsInv'
    OBVIOUS
  <1> USE DEF TempsInv, TempsTyped, NoOlder, WrittenWhenStale, Stale, DidFresh
  <1>1. CASE UNCHANGED temps
    BY <1>1 DEF temps
  <1>2. CASE PollTemps
    <2> SUFFICES ASSUME NEW plausible \in SUBSET Probes, DecodeAndIngestTemp(plausible)
                 PROVE  TempsInv'
      BY <1>1, <1>2 DEF PollTemps
    <2>1. TempsTyped'
      BY DEF DecodeAndIngestTemp
    <2>2. \A p \in Probes : NoOlder(p)'
      BY DEF DecodeAndIngestTemp
    <2>3. WrittenWhenStale'
      BY ProbesAssumption DEF DecodeAndIngestTemp
    <2> QED BY <2>1, <2>2, <2>3
  <1>3. CASE Broadcast
    BY <1>3 DEF Broadcast, RzDecodeTempMsg
  <1>4. CASE Pass
    <2>1. TempsTyped' /\ WrittenWhenStale'
      BY <1>4 DEF Pass, Min
    <2>2. \A p \in Probes : NoOlder(p)'
      BY <1>4 DEF Pass, Min
    <2> QED BY <2>1, <2>2
  <1> QED BY <1>1, <1>2, <1>3, <1>4 DEF TempsNext, OtherPollStep, allVars

(* While the broadcasts go on, only a probe that the DID keeps reporting   *)
(* implausibly beside a fresh probe 1 has a temperature older than the     *)
(* window, for all timings and any number of probes.                       *)
THEOREM TempsStayCurrent == TempsSpec => []TempsKeptCurrent
  <1>1. TempsInv => TempsKeptCurrent
    BY DEF TempsInv, TempsTyped, NoOlder, TempsKeptCurrent, Stale
  <1> QED BY <1>1, TempsInitInv, TempsNextInv, PTL DEF TempsSpec
================================================================================
