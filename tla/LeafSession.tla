------------------------------ MODULE LeafSession ------------------------------
(***************************************************************************)
(* What the bridge promises the Leaf bus, whatever its timers say:         *)
(*   - it speaks only in a session that Leaf traffic started, except for   *)
(*     one burst at the moment it re-arms (see README, "Remarks");         *)
(*   - a session is closed once, never reopened, and while it closes the   *)
(*     status IDs (SlowIds) are already silent;                            *)
(*   - after a closed session nothing can start the next one before the    *)
(*     bus has been quiet for Cooldown.                                    *)
(* BridgeSequencer implements this specification.                          *)
(***************************************************************************)
EXTENDS Integers

CONSTANTS Ids,        \* the IDs the bridge may transmit
          SlowIds,    \* those that stop as soon as a session starts to close
          Cooldown

VARIABLES mode,       \* "armed", "live", "closing" or "silent"
          quiet,      \* for how long the bus has been quiet, capped at Cooldown
          closedOnce, \* a session has been closed since power-up
          sent        \* the IDs the last step transmitted

sessionVars == <<mode, quiet, closedOnce, sent>>

SessionInit ==
    /\ mode = "armed" /\ quiet = 0 /\ closedOnce = FALSE /\ sent = {}

\* A frame on the Leaf bus; the first one after arming opens a session, and
\* after a closed session it can only follow a quiet bus.
Hear ==
    /\ mode = "armed" /\ closedOnce => quiet = Cooldown
    /\ mode' = IF mode = "armed" THEN "live" ELSE mode
    /\ quiet' = 0 /\ sent' = {}
    /\ UNCHANGED closedOnce

\* Time passes; without a frame on the bus quiet can only grow.
Pass ==
    /\ quiet' \in quiet..Cooldown
    /\ sent' = {}
    /\ UNCHANGED <<mode, closedOnce>>

Speak ==
    /\ mode = "live"
    /\ \/ mode' = "live" /\ sent' \in SUBSET Ids
       \/ mode' = "closing" /\ sent' \in SUBSET (Ids \ SlowIds)
    /\ UNCHANGED <<quiet, closedOnce>>

Close ==
    /\ mode = "closing"
    /\ \/ mode' = "closing" /\ sent' \in SUBSET (Ids \ SlowIds)
       \/ mode' = "silent" /\ sent' = {}
    /\ UNCHANGED <<quiet, closedOnce>>

Rearm ==
    /\ mode = "silent" /\ quiet = Cooldown
    /\ mode' = "armed" /\ closedOnce' = TRUE
    /\ sent' \in SUBSET Ids
    /\ UNCHANGED quiet

PowerCycle ==
    /\ mode' = "armed" /\ quiet' = 0 /\ closedOnce' = FALSE /\ sent' = {}

SessionNext == Hear \/ Pass \/ Speak \/ Close \/ Rearm \/ PowerCycle

SessionSpec == SessionInit /\ [][SessionNext]_sessionVars
================================================================================
