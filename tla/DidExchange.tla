------------------------------ MODULE DidExchange ------------------------------
(***************************************************************************)
(* What the DID poll promises the battery and the readers of its values:   *)
(*   - one request is under way at a time, for no longer than its timeout, *)
(*     and none follows the end of another before the gap is over;         *)
(*   - the DIDs of the round robin take turns, whatever becomes of a       *)
(*     request and whether or not the temperatures are asked for between   *)
(*     two of them;                                                        *)
(*   - the temperatures are asked for after a request of the round robin,  *)
(*     once in an interval at the most, and not passed over when due;      *)
(*   - a request yields the whole answer to its own DID, once, or nothing. *)
(* RzUds implements this specification.                                    *)
(***************************************************************************)
EXTENDS Naturals, Sequences

CONSTANTS RoundRobin,    \* the DIDs that take turns, a sequence
          Temperatures,  \* the DID that is asked for in between
          Whole,         \* [DID -> its whole answer]
          Nothing,       \* stands for no answer
          Timeout, Gap, Interval

VARIABLES asked,    \* the DID of the request under way, or "none"
          waited,   \* how long that request has been under way
          turn,     \* the place in the round robin of its next request
          offered,  \* the temperatures may be asked for now
          pause,    \* until the gap is over
          due,      \* until the interval is over
          ingested  \* what the last step took over

exchangeVars == <<asked, waited, turn, offered, pause, due, ingested>>

ExchangeInit ==
    /\ asked = "none" /\ waited = 0 /\ turn = 0 /\ offered = FALSE
    /\ pause = 0 /\ due = 0 /\ ingested = Nothing

MayAsk == asked = "none" /\ pause = 0

Ask ==
    /\ MayAsk /\ ~offered
    /\ asked' = RoundRobin[turn + 1] /\ waited' = 0
    /\ turn' = (turn + 1) % Len(RoundRobin)
    /\ ingested' = Nothing
    /\ UNCHANGED <<offered, pause, due>>

AskTemperatures ==
    /\ MayAsk /\ offered /\ due = 0
    /\ asked' = Temperatures /\ waited' = 0
    /\ offered' = FALSE /\ due' = Interval
    /\ ingested' = Nothing
    /\ UNCHANGED <<turn, pause>>

PassOver ==
    /\ MayAsk /\ offered /\ due > 0
    /\ offered' = FALSE
    /\ ingested' = Nothing
    /\ UNCHANGED <<asked, waited, turn, pause, due>>

Finish ==
    /\ asked # "none"
    /\ asked' = "none" /\ waited' = 0 /\ pause' = Gap
    /\ offered' = (asked # Temperatures)
    /\ ingested' \in {Whole[asked], Nothing}
    /\ UNCHANGED <<turn, due>>

Less(left) == IF left = 0 THEN 0 ELSE left - 1

\* Time passes, but not beyond the timeout of the request under way.
Clock ==
    /\ \/ asked = "none" /\ UNCHANGED waited
       \/ asked # "none" /\ waited < Timeout /\ waited' = waited + 1
    /\ pause' = Less(pause) /\ due' = Less(due)
    /\ ingested' = Nothing
    /\ UNCHANGED <<asked, turn, offered>>

\* A frame that takes nothing over.
Frame ==
    /\ ingested' = Nothing
    /\ UNCHANGED <<asked, waited, turn, offered, pause, due>>

ExchangeNext == Ask \/ AskTemperatures \/ PassOver \/ Finish \/ Clock \/ Frame

ExchangeSpec == ExchangeInit /\ [][ExchangeNext]_exchangeVars
================================================================================
