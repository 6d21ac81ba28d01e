------------------------ MODULE BusConnectionProofs ------------------------
(***************************************************************************)
(* For any number of worker threads: which of them may run, and that the   *)
(* monitor does not undo a Disconnect.                                     *)
(***************************************************************************)
EXTENDS BusConnection, TLAPS

(* A worker that is still opening the adapter has no error yet: what the   *)
(* monitor replaces (down, with an error) has ended.                       *)
OpeningHasNoError == \A w \in Workers : state[w] = "opening" => ~error[w]

BusInv == TypeOK /\ OpeningHasNoError /\ WorkersAccountedFor

USE WorkersAssumption

LEMMA InitInv == Init => BusInv
  BY DEF Init, BusInv, TypeOK, OpeningHasNoError, WorkersAccountedFor, Alive,
         MonitorSteps, UserSteps, WorkerSteps

(* Starting a worker keeps the invariant when the one it replaces has      *)
(* ended or is recorded as overtaken.                                      *)
LEMMA StartKeepsInv ==
  ASSUME BusInv, NEW w \in Workers, StartWorker(w),
         overtaken' = overtaken \cup (IF worker # NoWorker /\ Alive(worker)
                                      THEN {worker} ELSE {})
  PROVE  /\ worker' \in Workers
         /\ state' \in [Workers -> WorkerSteps]
         /\ stop' \in [Workers -> BOOLEAN] /\ error' \in [Workers -> BOOLEAN]
         /\ overtaken' \subseteq {v \in Workers : state'[v] # "ended"}
         /\ \A u, v \in Workers :
               state'[u] \in {"open", "leaving"} /\ state'[v] \in {"open", "leaving"}
                  => u = v
         /\ OpeningHasNoError' /\ WorkersAccountedFor'
  <1> USE DEF BusInv, TypeOK, StartWorker, Alive, WorkerSteps
  <1>1. worker' \in Workers /\ state' \in [Workers -> WorkerSteps]
        /\ stop' \in [Workers -> BOOLEAN] /\ error' \in [Workers -> BOOLEAN]
    OBVIOUS
  <1>2. overtaken' \subseteq {v \in Workers : state'[v] # "ended"}
    OBVIOUS
  <1>3. \A u, v \in Workers :
               state'[u] \in {"open", "leaving"} /\ state'[v] \in {"open", "leaving"}
                  => u = v
    OBVIOUS
  <1>4. OpeningHasNoError'
    BY DEF OpeningHasNoError
  <1>5. WorkersAccountedFor'
    BY DEF WorkersAccountedFor
  <1> QED BY <1>1, <1>2, <1>3, <1>4, <1>5

LEMMA NextInv == BusInv /\ [Next]_vars => BusInv'
  <1> SUFFICES ASSUME BusInv, [Next]_vars PROVE BusInv'
    OBVIOUS
  <1> USE DEF BusInv, TypeOK, MonitorSteps, UserSteps, WorkerSteps,
              connVars, workerVars
  <1>1. CASE UNCHANGED vars
    BY <1>1 DEF vars, OpeningHasNoError, WorkersAccountedFor, Alive
  <1>2. CASE Press \/ Settled
    BY <1>2 DEF Press, Settled, OpeningHasNoError, WorkersAccountedFor, Alive
  <1>3. CASE Connect
    <2>1. PICK w \in Workers : StartWorker(w)
      BY <1>3 DEF Connect
    <2>2. overtaken' = overtaken \cup (IF worker # NoWorker /\ Alive(worker)
                                       THEN {worker} ELSE {})
      BY <1>3 DEF Connect
    <2> QED BY <2>1, <2>2, <1>3, StartKeepsInv DEF Connect
  <1>4. CASE Disconnect
    BY <1>4 DEF Disconnect, OpeningHasNoError, WorkersAccountedFor, Alive
  <1>5. CASE MonitorTold \/ MonitorDue \/ MonitorPasses \/ MonitorSettled
    BY <1>5 DEF MonitorTold, MonitorDue, MonitorPasses, MonitorSettled,
                OpeningHasNoError, WorkersAccountedFor, Alive
  <1>6. CASE MonitorReconnects
    <2>1. PICK w \in Workers : StartWorker(w)
      BY <1>6 DEF MonitorReconnects
    <2>2. ~Alive(worker) /\ worker # NoWorker
      BY <1>6 DEF MonitorReconnects, NeedsReconnect, Connected, IsUp, Alive,
                  OpeningHasNoError
    <2>3. overtaken' = overtaken \cup (IF worker # NoWorker /\ Alive(worker)
                                       THEN {worker} ELSE {})
      BY <1>6, <2>2 DEF MonitorReconnects
    <2> QED BY <2>1, <2>3, <1>6, StartKeepsInv DEF MonitorReconnects
  <1>7. CASE \E w \in Workers : WorkerRuns(w) \/ ReceiveFails(w)
    <2>1. PICK w \in Workers : WorkerRuns(w) \/ ReceiveFails(w)
      BY <1>7
    <2>2. CASE OpenSucceeds(w)
      BY <2>2 DEF OpenSucceeds, Holders, OpeningHasNoError,
                  WorkersAccountedFor, Alive
    <2>3. CASE OpenFails(w)
      BY <2>3 DEF OpenFails, OpeningHasNoError, WorkersAccountedFor, Alive
    <2>4. CASE ReceiveFails(w) \/ SeesStop(w)
      BY <2>4 DEF ReceiveFails, SeesStop, OpeningHasNoError,
                  WorkersAccountedFor, Alive
    <2>5. CASE ShutsDown(w) \/ Ends(w)
      BY <2>5 DEF ShutsDown, Ends, OpeningHasNoError, WorkersAccountedFor,
                  Alive
    <2> QED BY <2>1, <2>2, <2>3, <2>4, <2>5 DEF WorkerRuns
  <1>8. CASE SendFails
    BY <1>8 DEF SendFails, IsUp, OpeningHasNoError, WorkersAccountedFor, Alive
  <1>9. CASE Plug
    BY <1>9 DEF Plug, OpeningHasNoError, WorkersAccountedFor, Alive
  <1> QED BY <1>1, <1>2, <1>3, <1>4, <1>5, <1>6, <1>7, <1>8, <1>9
          DEF Next, UserRuns, MonitorRuns

LEMMA BusInvariant == Spec => []BusInv
  BY InitInv, NextInv, PTL DEF Spec

(* The state is well formed, and at most one worker has the adapter.       *)
THEOREM BusTypeCorrect == Spec => []TypeOK
  BY BusInvariant, PTL DEF BusInv

(* No worker runs unaccounted for: the monitor replaces only workers that  *)
(* have ended, however its steps mix with connect() and the workers'.      *)
THEOREM BusWorkersAccountedFor == Spec => []WorkersAccountedFor
  BY BusInvariant, PTL DEF BusInv

(* What opens the adapter wants the connection at that very step.          *)
THEOREM BusDisconnectStaysDown == Spec => DisconnectStaysDown
  <1>1. BusInv /\ [Next]_vars
          => [\A w \in Workers : Started(w) => want']_vars
    <2> SUFFICES ASSUME BusInv, Next, NEW w \in Workers, Started(w)
                 PROVE  want'
      BY DEF vars
    <2> USE DEF BusInv, TypeOK, Started, connVars, workerVars
    <2>1. CASE Connect
      BY <2>1 DEF Connect
    <2>2. CASE MonitorReconnects
      BY <2>2 DEF MonitorReconnects, NeedsReconnect
    <2>3. CASE \E v \in Workers : WorkerRuns(v) \/ ReceiveFails(v)
      <3>1. PICK v \in Workers : WorkerRuns(v) \/ ReceiveFails(v)
        BY <2>3
      <3> QED BY <3>1 DEF WorkerRuns, ReceiveFails, OpenSucceeds, OpenFails,
                 SeesStop, ShutsDown, Ends
    <2>4. CASE \/ Press \/ Settled \/ Disconnect \/ MonitorTold \/ MonitorDue
               \/ MonitorPasses \/ MonitorSettled \/ SendFails \/ Plug
      BY <2>4 DEF Press, Settled, Disconnect, MonitorTold, MonitorDue,
                  MonitorPasses, MonitorSettled, SendFails, Plug
    <2> QED BY <2>1, <2>2, <2>3, <2>4 DEF Next, UserRuns, MonitorRuns
  <1> QED BY <1>1, BusInvariant, PTL DEF Spec, DisconnectStaysDown
=============================================================================
