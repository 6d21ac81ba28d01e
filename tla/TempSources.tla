------------------------------ MODULE TempSources ------------------------------
(***************************************************************************)
(* The effective probe temperatures of the firmware and the two that write *)
(* them: the DID poll (RzUds; Src/rz450e_uds.c) and the 0x4AA broadcasts   *)
(* (Src/rz450e_ingest.c), which stand back while the DID's values are      *)
(* fresh.  Freshness is that of probe 1, for all of them.                  *)
(*                                                                         *)
(* A temperature is modelled by its age.  A reading is plausible or not;   *)
(* an implausible one is dropped where the code drops it.                  *)
(***************************************************************************)
EXTENDS RzUds

CONSTANTS Probes, First   \* the probes, and the one whose DID age counts

ASSUME ProbesAssumption == First \in Probes

VARIABLES
    didAge,      \* since temp_did[0].last_update_tick; past the window: stale or never
    tempSeen,    \* [probe -> since temp[n].last_update_tick], from start-up on
    didRefused,  \* the probes whose value the last DID answer had implausible
    broadcast    \* a 0x4AA with plausible values came in this unit of time

temps == <<didAge, tempSeen, didRefused, broadcast>>
allVars == <<vars, temps>>

Stale == TempFresh + 1   \* where didAge saturates

DidFresh == didAge <= TempFresh

TempsInit ==
    /\ Init
    /\ didAge = Stale
    /\ tempSeen = [p \in Probes |-> 0]
    /\ didRefused = {} /\ broadcast = FALSE

(* decode_and_ingest_temp(): every probe whose own reading is plausible.   *)
DecodeAndIngestTemp(plausible) ==
    /\ didAge' = IF First \in plausible THEN 0 ELSE didAge
    /\ tempSeen' = [p \in Probes |-> IF p \in plausible THEN 0 ELSE tempSeen[p]]
    /\ didRefused' = Probes \ plausible
    /\ UNCHANGED broadcast

PollTemps ==
    /\ TickAwaitingTemp
    /\ IF ingested' = None THEN UNCHANGED temps
       ELSE \E plausible \in SUBSET Probes : DecodeAndIngestTemp(plausible)

\* Mutant: the DID is trusted for good once it has answered.
MutRzDecodeTempMsg ==
    /\ tempSeen' = IF didAge < Stale \/ didRefused # {} THEN tempSeen
                   ELSE [p \in Probes |-> 0]
    /\ broadcast' = TRUE
    /\ UNCHANGED <<didAge, didRefused>>
(* rz_decode_temp_msg(): the three frames of a 0x4AA round, taken together. *)
RzDecodeTempMsg ==
    /\ tempSeen' = IF DidFresh THEN tempSeen ELSE [p \in Probes |-> 0]
    /\ broadcast' = TRUE
    /\ UNCHANGED <<didAge, didRefused>>

OtherPollStep ==
    /\ \/ TickIdle \/ TickAwaitingRR \/ TickGapAfterRR \/ TickGapAfterTemp
       \/ SendPart \/ Refuse \/ GiveUp
    /\ UNCHANGED temps

Broadcast == ~broadcast /\ RzDecodeTempMsg /\ UNCHANGED vars

\* The battery broadcasts its temperatures in every unit of time.
Pass ==
    /\ Elapse
    /\ broadcast /\ broadcast' = FALSE
    /\ didAge' = Min(didAge + 1, Stale)
    /\ tempSeen' = [p \in Probes |-> Min(tempSeen[p] + 1, TempFresh + 2)]
    /\ UNCHANGED didRefused

TempsNext == PollTemps \/ OtherPollStep \/ Broadcast \/ Pass

TempsSpec == TempsInit /\ [][TempsNext]_allVars

\* The main loop, time and the broadcasts go on; the battery answers or gives up.
FairTempsSpec ==
    /\ TempsSpec
    /\ WF_allVars(PollTemps \/ (Tick /\ OtherPollStep))
    /\ WF_allVars((SendPart \/ Refuse \/ GiveUp) /\ OtherPollStep)
    /\ WF_allVars(Broadcast) /\ WF_allVars(Pass)
-----------------------------------------------------------------------------
\* While the broadcasts go on, no effective temperature is older than the
\* window the DID's values are trusted for, however answers are lost, late or
\* partly implausible - but for a probe that the DID reports implausibly while
\* it keeps probe 1 fresh: nobody writes that one before the next broadcast
\* after probe 1 has lost its freshness (README, "Remarks").
TempsKeptCurrent ==
    \A p \in Probes :
        tempSeen[p] > TempFresh + 1 => p \in didRefused /\ (DidFresh \/ ~broadcast)
================================================================================
