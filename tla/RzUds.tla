--------------------------------- MODULE RzUds ---------------------------------
(***************************************************************************)
(* The DID poll of the firmware (Src/rz450e_uds.c): one request/response   *)
(* machine over a shared reassembly buffer, a round robin of three DIDs    *)
(* with a temperature poll of its own interleaved, and the battery's       *)
(* diagnostic responder at the other end of a bus that loses frames.       *)
(*                                                                         *)
(* A payload is the sequence of the parts (frames) it was put together     *)
(* from; its length is kept in bytes, as the code counts it.               *)
(***************************************************************************)
EXTENDS Naturals, Sequences

CONSTANTS
    ResponseTimeout,   \* BRIDGE_CFG_ET_DID_RESPONSE_TIMEOUT_S
    RequestGap,        \* BRIDGE_CFG_ET_DID_INTER_REQUEST_GAP_S
    TempInterval,      \* BRIDGE_CFG_ET_DID_TEMP_POLL_INTERVAL_S
    TempFresh,         \* BRIDGE_CFG_ET_DID_TEMP_FRESH_WINDOW_S
    AnswerTime         \* the longest the battery is busy with a request

ASSUME UdsAssumption ==
    /\ {ResponseTimeout, RequestGap, TempInterval} \subseteq Nat \ {0}
    /\ AnswerTime \in Nat /\ TempFresh \in Nat

VARIABLES
    uds_state, rr_index,
    sentFor,       \* now - request_sent_tick, up to ResponseTimeout
    gapLeft,       \* gap_until_tick - now, down to 0
    tempDueIn,     \* next_temp_due_tick - now, down to 0
    resp_buf,      \* the parts of resp_buf below resp_received_len
    resp_expected_len, resp_received_len, resp_in_progress, resp_complete,
    ingested,      \* what the last step took over into g_rz_state, or None
    tempAge,       \* since the last temperature request
    job,           \* the DID the battery is answering, or "none"
    nextPart,      \* the part it sends next
    cleared,       \* it has been sent a Flow Control frame
    jobAge         \* since it received the request

resp == <<resp_buf, resp_expected_len, resp_received_len, resp_in_progress, resp_complete>>
poll == <<uds_state, rr_index, sentFor, gapLeft, tempDueIn, tempAge>>
battery == <<job, nextPart, cleared, jobAge>>
vars == <<poll, resp, ingested, battery>>

RoundRobin == <<"soc", "capacity", "primary_vi">>
Dids == {"soc", "capacity", "primary_vi", "temp_probes"}

\* The bytes of an answer: UDS header (3) and data; a refusal is 7F 22 xx.
AnswerLength == [did \in Dids |->
    CASE did = "soc" -> 4 [] did = "capacity" -> 11
      [] did = "primary_vi" -> 9 [] did = "temp_probes" -> 35]
RefusalLength == 3
\* What a decoder asks for before it reads.
MinLength == [did \in Dids |->
    CASE did = "soc" -> 4 [] did = "capacity" -> 11
      [] did = "primary_vi" -> 9 [] did = "temp_probes" -> 35]
RESP_BUF_SIZE == 40

\* ISO-TP: up to 7 bytes in a single frame, else 6 in the first, 7 in each after it.
SingleFrame(did) == AnswerLength[did] <= 7
LastPart(did) == IF SingleFrame(did) THEN 0 ELSE AnswerLength[did] \div 7
Part(did, k) == [did |-> did, part |-> k]
Answer(did) == [i \in 1..(LastPart(did) + 1) |-> Part(did, i - 1)]
Refusal(did) == Part(did, 9)   \* no answer has a part 9

None == [did |-> "none", from |-> <<>>]
AwaitingRR == uds_state = "awaiting_rr"
AwaitingTemp == uds_state = "awaiting_temp"
Awaiting == AwaitingRR \/ AwaitingTemp
\* The DID of the request under way.
Asked == IF AwaitingTemp THEN "temp_probes" ELSE RoundRobin[rr_index + 1]

Init ==
    /\ uds_state = "idle" /\ rr_index = 0
    /\ sentFor = 0 /\ gapLeft = 0 /\ tempDueIn = 0 /\ tempAge = 0
    /\ resp_buf = <<>> /\ resp_expected_len = 0 /\ resp_received_len = 0
    /\ resp_in_progress = FALSE /\ resp_complete = FALSE
    /\ ingested = None
    /\ job = "none" /\ nextPart = 0 /\ cleared = FALSE /\ jobAge = 0

-----------------------------------------------------------------------------
(* bridge_sequencer_tick() runs rz450e_uds_tick() in every iteration.      *)

Min(a, b) == IF a < b THEN a ELSE b

\* The battery fields one request at a time; the bus may lose the request.
Reaches(did) ==
    \/ UNCHANGED battery
    \/ /\ job = "none" /\ job' = did
       /\ nextPart' = 0 /\ cleared' = FALSE /\ jobAge' = 0

\* Mutant: the answer to the previous request stays where it was.
MutSendUdsRequest(did) ==
    /\ sentFor' = 0 /\ UNCHANGED resp
    /\ Reaches(did)
SendUdsRequest(did) ==
    /\ sentFor' = 0
    /\ resp_buf' = <<>> /\ resp_expected_len' = 0 /\ resp_received_len' = 0
    /\ resp_in_progress' = FALSE /\ resp_complete' = FALSE
    /\ Reaches(did)

TickIdle ==
    /\ uds_state = "idle" /\ uds_state' = "awaiting_rr"
    /\ SendUdsRequest(Asked)
    /\ ingested' = None
    /\ UNCHANGED <<rr_index, gapLeft, tempDueIn, tempAge>>

\* decode_and_ingest_rr() and decode_and_ingest_temp(): a short answer is dropped.
Decoded == IF resp_received_len < MinLength[Asked] THEN None
           ELSE [did |-> Asked, from |-> resp_buf]

\* A complete answer wins over a timeout in the same tick.
TickAwaiting(gap) ==
    /\ Awaiting
    /\ \/ resp_complete /\ ingested' = Decoded
       \/ ~resp_complete /\ sentFor >= ResponseTimeout /\ ingested' = None
    /\ gapLeft' = RequestGap /\ uds_state' = gap
    /\ UNCHANGED <<rr_index, sentFor, tempDueIn, tempAge, resp, battery>>

TickAwaitingRR == AwaitingRR /\ TickAwaiting("gap_after_rr")
\* Mutant: the gap after the temperatures is taken for one of the round robin.
MutTickAwaitingTemp == AwaitingTemp /\ TickAwaiting("gap_after_rr")
TickAwaitingTemp == AwaitingTemp /\ TickAwaiting("gap_after_temp")

\* Mutant: the temperature poll takes the turn of the next DID.
MutTickGapAfterRR ==
    /\ uds_state = "gap_after_rr" /\ gapLeft = 0
    /\ IF tempDueIn = 0
       THEN /\ uds_state' = "awaiting_temp"
            /\ tempDueIn' = TempInterval /\ tempAge' = 0
            /\ SendUdsRequest("temp_probes")
            /\ UNCHANGED rr_index
       ELSE /\ uds_state' = "idle"
            /\ rr_index' = (rr_index + 1) % 3
            /\ UNCHANGED <<sentFor, tempDueIn, tempAge, resp, battery>>
    /\ ingested' = None
    /\ UNCHANGED gapLeft
\* Mutant: the temperatures are polled once in a round.
MutTempOnceInRound ==
    /\ uds_state = "gap_after_rr" /\ gapLeft = 0
    /\ rr_index' = (rr_index + 1) % 3
    /\ IF tempDueIn = 0 /\ rr_index = 2
       THEN /\ uds_state' = "awaiting_temp"
            /\ tempDueIn' = TempInterval /\ tempAge' = 0
            /\ SendUdsRequest("temp_probes")
       ELSE /\ uds_state' = "idle"
            /\ UNCHANGED <<sentFor, tempDueIn, tempAge, resp, battery>>
    /\ ingested' = None
    /\ UNCHANGED gapLeft
TickGapAfterRR ==
    /\ uds_state = "gap_after_rr" /\ gapLeft = 0
    /\ rr_index' = (rr_index + 1) % 3
    /\ IF tempDueIn = 0
       THEN /\ uds_state' = "awaiting_temp"
            /\ tempDueIn' = TempInterval /\ tempAge' = 0
            /\ SendUdsRequest("temp_probes")
       ELSE /\ uds_state' = "idle"
            /\ UNCHANGED <<sentFor, tempDueIn, tempAge, resp, battery>>
    /\ ingested' = None
    /\ UNCHANGED gapLeft

TickGapAfterTemp ==
    /\ uds_state = "gap_after_temp" /\ gapLeft = 0
    /\ uds_state' = "idle" /\ ingested' = None
    /\ UNCHANGED <<rr_index, sentFor, gapLeft, tempDueIn, tempAge, resp, battery>>

Tick == TickIdle \/ TickAwaitingRR \/ TickGapAfterRR \/ TickAwaitingTemp \/ TickGapAfterTemp

-----------------------------------------------------------------------------
(* rz450e_uds_on_frame(), and whether it sends Flow Control.               *)

OnSingleFrame(part, length) ==
    /\ resp_buf' = <<part>>
    /\ resp_received_len' = length /\ resp_expected_len' = length
    /\ resp_complete' = TRUE
    /\ UNCHANGED resp_in_progress

OnFirstFrame(part, length) ==
    /\ resp_buf' = <<part>>
    /\ resp_expected_len' = Min(length, RESP_BUF_SIZE) /\ resp_received_len' = 6
    /\ resp_in_progress' = TRUE
    /\ UNCHANGED resp_complete

\* Mutant: the bytes of a part are counted although they are past the end.
MutOnConsecutiveFrame(part) ==
    IF ~resp_in_progress THEN UNCHANGED resp
    ELSE /\ resp_received_len' = resp_received_len + 7
         /\ resp_buf' = Append(resp_buf, part)
         /\ resp_complete' = (resp_received_len' >= resp_expected_len)
         /\ resp_in_progress' = (resp_received_len' < resp_expected_len)
         /\ UNCHANGED resp_expected_len
OnConsecutiveFrame(part) ==
    IF ~resp_in_progress THEN UNCHANGED resp
    ELSE /\ resp_received_len' = Min(resp_received_len + 7, resp_expected_len)
         /\ resp_buf' = Append(resp_buf, part)
         /\ resp_complete' = (resp_complete \/ resp_received_len' >= resp_expected_len)
         /\ resp_in_progress' = (resp_received_len' < resp_expected_len)
         /\ UNCHANGED resp_expected_len

OnFrame(did, k) ==
    IF ~Awaiting THEN UNCHANGED resp
    ELSE IF k > 0 THEN OnConsecutiveFrame(Part(did, k))
    ELSE IF SingleFrame(did) THEN OnSingleFrame(Part(did, k), AnswerLength[did])
    ELSE OnFirstFrame(Part(did, k), AnswerLength[did])

-----------------------------------------------------------------------------
(* The battery.                                                            *)

JobDone == job' = "none" /\ nextPart' = 0 /\ cleared' = FALSE /\ jobAge' = 0

\* The parts go out in order, those after the first once Flow Control came.
\* A part may be lost, and so may the Flow Control that a first frame is met with.
SendPart ==
    /\ job # "none"
    /\ nextPart > 0 => cleared
    /\ IF nextPart = LastPart(job) THEN JobDone
       ELSE nextPart' = nextPart + 1 /\ UNCHANGED <<job, jobAge>>
    /\ \/ /\ UNCHANGED resp
          /\ nextPart # LastPart(job) => UNCHANGED cleared
       \/ /\ OnFrame(job, nextPart)
          /\ nextPart # LastPart(job) => cleared' \in {cleared, cleared \/ Awaiting}
    /\ ingested' = None
    /\ UNCHANGED poll

Refuse ==
    /\ job # "none" /\ nextPart = 0
    /\ IF Awaiting THEN OnSingleFrame(Refusal(job), RefusalLength) ELSE UNCHANGED resp
    /\ JobDone
    /\ ingested' = None
    /\ UNCHANGED poll

GiveUp ==
    /\ job # "none"
    /\ JobDone
    /\ ingested' = None
    /\ UNCHANGED <<poll, resp>>

-----------------------------------------------------------------------------
\* A tick that has something to do comes before the next unit of time.
TickDue ==
    \/ uds_state = "idle"
    \/ Awaiting /\ (resp_complete \/ sentFor >= ResponseTimeout)
    \/ uds_state \in {"gap_after_rr", "gap_after_temp"} /\ gapLeft = 0

Less(left) == IF left = 0 THEN 0 ELSE left - 1

\* SysTick.
Elapse ==
    /\ ~TickDue
    /\ job # "none" => jobAge < AnswerTime
    /\ sentFor' = Min(sentFor + 1, ResponseTimeout)
    /\ gapLeft' = Less(gapLeft) /\ tempDueIn' = Less(tempDueIn)
    /\ tempAge' = Min(tempAge + 1, TempFresh)
    /\ jobAge' = IF job = "none" THEN 0 ELSE jobAge + 1
    /\ ingested' = None
    /\ UNCHANGED <<uds_state, rr_index, resp, job, nextPart, cleared>>

Next == Tick \/ SendPart \/ Refuse \/ GiveUp \/ Elapse

Spec == Init /\ [][Next]_vars

\* The main loop and time go on; the battery answers or gives up.
Fairness == WF_vars(Tick) /\ WF_vars(Elapse) /\ WF_vars(SendPart \/ Refuse \/ GiveUp)

FairSpec == Spec /\ Fairness
-----------------------------------------------------------------------------
(* Properties.                                                             *)

\* Every variable stays in its domain, and no more is received than expected.
TypeOK ==
    /\ uds_state \in {"idle", "awaiting_rr", "gap_after_rr", "awaiting_temp", "gap_after_temp"}
    /\ rr_index \in 0..2 /\ sentFor \in 0..ResponseTimeout
    /\ gapLeft \in 0..RequestGap /\ tempDueIn \in 0..TempInterval /\ tempAge \in 0..TempFresh
    /\ Len(resp_buf) <= 6 /\ \A i \in DOMAIN resp_buf : resp_buf[i].did \in Dids
    /\ resp_expected_len \in 0..RESP_BUF_SIZE
    /\ resp_received_len \in 0..resp_expected_len
    /\ {resp_in_progress, resp_complete, cleared} \subseteq BOOLEAN
    /\ ingested.did \in Dids \cup {"none"} /\ job \in Dids \cup {"none"}
    /\ nextPart \in 0..5 /\ jobAge \in 0..AnswerTime

\* Whatever the bus loses and however long the battery takes (up to the next
\* request), a value is ingested only from all the parts of one answer, in
\* their order, to the DID it is ingested for.
OwnAnswerOnly == ingested # None => ingested.from = Answer(ingested.did)

\* The poll implements DidExchange.
Exchange == INSTANCE DidExchange WITH
    Temperatures <- "temp_probes",
    Whole <- [did \in Dids |-> [did |-> did, from |-> Answer(did)]],
    Nothing <- None,
    Timeout <- ResponseTimeout,
    Gap <- RequestGap,
    Interval <- TempInterval,
    asked <- IF Awaiting THEN Asked ELSE "none",
    waited <- IF Awaiting THEN sentFor ELSE 0,
    turn <- IF uds_state \in {"awaiting_rr", "gap_after_rr"} THEN (rr_index + 1) % 3
            ELSE rr_index,
    offered <- uds_state = "gap_after_rr",
    pause <- gapLeft,
    due <- tempDueIn

\* Every step of the poll is a step of DidExchange: however requests, answers and parts
\* of them are lost or refused, the DIDs keep their turns and their distance, and a
\* request yields its own whole answer, once, or, by its timeout at the latest, nothing.
ImplementsExchange == Exchange!ExchangeSpec

\* The temperatures are requested again in time for an answer to arrive before
\* the last ones lose their freshness, although each request, theirs included,
\* may run into its timeout.
TempPolledWhileFresh == tempAge + ResponseTimeout < TempFresh

\* No DID is starved: each is requested again and again, although the battery
\* may leave any request unanswered.
EveryDidPolled == \A did \in Dids : []<>(Awaiting /\ Asked = did)

\* A complete response answers the request under way.  Src/rz450e_uds.c:53: "a
\* full response is ready for the current transaction".
CompleteIsCurrent ==
    Awaiting /\ resp_complete => \A i \in DOMAIN resp_buf : resp_buf[i].did = Asked
================================================================================
