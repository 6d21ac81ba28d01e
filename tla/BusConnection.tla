--------------------------- MODULE BusConnection ---------------------------
(***************************************************************************)
(* One bus slot of the PC application: src/bridge/can_backend.py and the   *)
(* Connect button of src/gui/panels.py.                                    *)
(*                                                                         *)
(* Three kinds of threads share a BusConnection: the GUI, whose button     *)
(* calls connect() or disconnect(); the reconnect monitor; and the workers,*)
(* one thread per attempt to open the adapter.  The lock of the connection *)
(* makes each critical section one step; what runs outside it (the GUI's   *)
(* look at `connected', the monitor's wait, the sleep after a start, and   *)
(* everything a worker does) is a step of its own.                         *)
(***************************************************************************)
EXTENDS FiniteSets

CONSTANTS Workers,    \* thread objects; one that has ended is used again
          NoWorker    \* _worker = None

ASSUME WorkersAssumption == Workers # {} /\ NoWorker \notin Workers

VARIABLES
    want,      \* _want_connected
    worker,    \* _worker
    stopEvt,   \* _stop_monitor
    monitor,   \* where the monitor thread is; "ended" is not is_alive()
    user,      \* where the GUI thread is
    state,     \* per worker: where its run() is
    stop,      \* per worker: _stop_evt
    error,     \* per worker: error is not None
    present,   \* the adapter is plugged in
    overtaken  \* history: running workers connect() replaced without stopping them

connVars   == <<want, worker, stopEvt>>
workerVars == <<state, stop, error>>
vars == <<want, worker, stopEvt, monitor, user, state, stop, error, present,
          overtaken>>

MonitorSteps == {"ended", "waiting", "checking", "settling"}
UserSteps    == {"idle", "connecting", "disconnecting", "settling"}
(* "leaving": recv() raised or the stop event was seen, bus.shutdown() is   *)
(* to come; "released": shut down, `connected' not yet cleared.             *)
WorkerSteps  == {"ended", "opening", "open", "leaving", "released"}

TypeOK ==
    /\ want \in BOOLEAN /\ stopEvt \in BOOLEAN /\ present \in BOOLEAN
    /\ worker \in Workers \cup {NoWorker}
    /\ monitor \in MonitorSteps
    /\ user \in UserSteps
    /\ state \in [Workers -> WorkerSteps]
    /\ stop \in [Workers -> BOOLEAN]
    /\ error \in [Workers -> BOOLEAN]
    /\ overtaken \subseteq {w \in Workers : state[w] # "ended"}
    /\ \A v, w \in Workers :
          state[v] \in {"open", "leaving"} /\ state[w] \in {"open", "leaving"}
              => v = w

Alive(w)  == state[w] # "ended"
IsUp(w)   == state[w] \in {"open", "leaving", "released"}   \* w.connected
Connected == worker # NoWorker /\ IsUp(worker)
Holders   == {w \in Workers : state[w] \in {"open", "leaving"}}
Monitored == monitor # "ended" /\ ~stopEvt

Init ==
    /\ want = FALSE /\ worker = NoWorker /\ stopEvt = FALSE
    /\ monitor = "ended" /\ user = "idle"
    /\ state = [w \in Workers |-> "ended"]
    /\ stop  = [w \in Workers |-> FALSE]
    /\ error = [w \in Workers |-> FALSE]
    /\ present \in BOOLEAN
    /\ overtaken = {}
-----------------------------------------------------------------------------
(* The worker that is replaced is dropped and not stopped: it goes on.      *)
StartWorker(w) ==
    /\ ~Alive(w)
    /\ worker' = w
    /\ state' = [state EXCEPT ![w] = "opening"]
    /\ stop'  = [stop EXCEPT ![w] = FALSE]
    /\ error' = [error EXCEPT ![w] = FALSE]

Press ==
    /\ user = "idle"
    /\ user' = IF Connected THEN "disconnecting" ELSE "connecting"
    /\ UNCHANGED <<connVars, monitor, workerVars, present, overtaken>>

(* A monitor thread that is alive is kept, and only a new one clears the   *)
(* event.                                                                  *)
MonitorKept == monitor # "ended"

Connect ==
    /\ user = "connecting"
    /\ user' = "settling"
    /\ want' = TRUE
    /\ \E w \in Workers : StartWorker(w)
    /\ overtaken' = overtaken \cup (IF worker # NoWorker /\ Alive(worker)
                                    THEN {worker} ELSE {})
    /\ IF MonitorKept THEN UNCHANGED <<stopEvt, monitor>>
                      ELSE stopEvt' = FALSE /\ monitor' = "waiting"
    /\ UNCHANGED present

Settled ==
    /\ user = "settling"
    /\ user' = "idle"
    /\ UNCHANGED <<connVars, monitor, workerVars, present, overtaken>>

\* Mutant: the worker is forgotten and not stopped.
MutDisconnectForgetsWorker ==
    /\ user = "disconnecting"
    /\ user' = "idle"
    /\ want' = FALSE /\ stopEvt' = TRUE /\ worker' = NoWorker
    /\ UNCHANGED <<monitor, workerVars, present, overtaken>>

Disconnect ==
    /\ user = "disconnecting"
    /\ user' = "idle"
    /\ want' = FALSE
    /\ stopEvt' = TRUE
    /\ stop' = [w \in Workers |-> stop[w] \/ w = worker]
    /\ worker' = NoWorker
    /\ UNCHANGED <<monitor, state, error, present, overtaken>>
-----------------------------------------------------------------------------
(* _stop_monitor.wait() returns: the event is set, or the interval is over. *)
MonitorTold ==
    /\ monitor = "waiting" /\ stopEvt
    /\ monitor' = "ended"
    /\ UNCHANGED <<connVars, user, workerVars, present, overtaken>>

MonitorDue ==
    /\ monitor = "waiting" /\ ~stopEvt
    /\ monitor' = "checking"
    /\ UNCHANGED <<connVars, user, workerVars, present, overtaken>>

\* Mutant: a worker with an error is replaced, connected or not.
MutReconnectOnError ==
    want /\ worker # NoWorker /\ error[worker]

\* Mutant: whatever is not connected is reconnected.
MutReconnectWhateverIsDown ==
    ~Connected /\ (worker = NoWorker \/ error[worker])

NeedsReconnect ==
    /\ want
    /\ worker # NoWorker
    /\ ~Connected
    /\ error[worker]

MonitorReconnects ==
    /\ monitor = "checking" /\ NeedsReconnect
    /\ monitor' = "settling"
    /\ \E w \in Workers : StartWorker(w)
    /\ UNCHANGED <<want, stopEvt, user, present, overtaken>>

MonitorPasses ==
    /\ monitor = "checking" /\ ~NeedsReconnect
    /\ monitor' = "waiting"
    /\ UNCHANGED <<connVars, user, workerVars, present, overtaken>>

MonitorSettled ==
    /\ monitor = "settling"
    /\ monitor' = "waiting"
    /\ UNCHANGED <<connVars, user, workerVars, present, overtaken>>
-----------------------------------------------------------------------------
\* Mutant: the adapter is opened although a worker has it.
MutOpenShared(w) ==
    /\ state[w] = "opening" /\ present
    /\ state' = [state EXCEPT ![w] = "open"]
    /\ error' = [error EXCEPT ![w] = FALSE]
    /\ UNCHANGED <<connVars, monitor, user, stop, present, overtaken>>

OpenSucceeds(w) ==
    /\ state[w] = "opening" /\ present /\ Holders = {}
    /\ state' = [state EXCEPT ![w] = "open"]
    /\ error' = [error EXCEPT ![w] = FALSE]
    /\ UNCHANGED <<connVars, monitor, user, stop, present, overtaken>>

\* Mutant: an attempt that fails leaves no error.
MutOpenFailsSilently(w) ==
    /\ state[w] = "opening" /\ (~present \/ Holders # {})
    /\ state' = [state EXCEPT ![w] = "ended"]
    /\ overtaken' = overtaken \ {w}
    /\ UNCHANGED <<connVars, monitor, user, stop, error, present>>

OpenFails(w) ==
    /\ state[w] = "opening" /\ (~present \/ Holders # {})
    /\ state' = [state EXCEPT ![w] = "ended"]
    /\ error' = [error EXCEPT ![w] = TRUE]
    /\ overtaken' = overtaken \ {w}
    /\ UNCHANGED <<connVars, monitor, user, stop, present>>

ReceiveFails(w) ==
    /\ state[w] = "open"
    /\ state' = [state EXCEPT ![w] = "leaving"]
    /\ error' = [error EXCEPT ![w] = TRUE]
    /\ UNCHANGED <<connVars, monitor, user, stop, present, overtaken>>

SeesStop(w) ==
    /\ state[w] = "open" /\ stop[w]
    /\ state' = [state EXCEPT ![w] = "leaving"]
    /\ UNCHANGED <<connVars, monitor, user, stop, error, present, overtaken>>

ShutsDown(w) ==
    /\ state[w] = "leaving"
    /\ state' = [state EXCEPT ![w] = "released"]
    /\ UNCHANGED <<connVars, monitor, user, stop, error, present, overtaken>>

Ends(w) ==
    /\ state[w] = "released"
    /\ state' = [state EXCEPT ![w] = "ended"]
    /\ overtaken' = overtaken \ {w}
    /\ UNCHANGED <<connVars, monitor, user, stop, error, present>>

(* A frame that cannot be sent leaves its error and the worker runs on.    *)
SendFails ==
    /\ worker # NoWorker /\ IsUp(worker)
    /\ error' = [error EXCEPT ![worker] = TRUE]
    /\ UNCHANGED <<connVars, monitor, user, state, stop, present, overtaken>>

Plug ==
    /\ present' = ~present
    /\ UNCHANGED <<connVars, monitor, user, workerVars, overtaken>>
-----------------------------------------------------------------------------
UserRuns     == Connect \/ Settled \/ Disconnect
MonitorRuns  == \/ MonitorTold \/ MonitorDue \/ MonitorReconnects
                \/ MonitorPasses \/ MonitorSettled
WorkerRuns(w) == \/ OpenSucceeds(w) \/ OpenFails(w) \/ SeesStop(w)
                 \/ ShutsDown(w) \/ Ends(w)
Next == \/ Press \/ UserRuns \/ MonitorRuns \/ SendFails \/ Plug
        \/ \E w \in Workers : WorkerRuns(w) \/ ReceiveFails(w)

Spec == Init /\ [][Next]_vars

(* Threads that can run do: the operating system schedules them.  Nobody   *)
(* has to press the button, or to plug in the adapter.  recv() on an       *)
(* adapter that is gone raises.                                            *)
Fairness ==
    /\ WF_vars(UserRuns)
    /\ WF_vars(MonitorRuns)
    /\ \A w \in Workers : /\ WF_vars(WorkerRuns(w))
                          /\ WF_vars(~present /\ ReceiveFails(w))
FairSpec == Spec /\ Fairness
-----------------------------------------------------------------------------
Started(w) == state[w] = "ended" /\ state'[w] = "opening"

(* After Disconnect nothing is opened until Connect is pressed: not by a   *)
(* monitor that was on its way to reconnect when the button was pressed    *)
(* (the second of the races the lock is there for, can_backend.py:164).    *)
DisconnectStaysDown == [][\A w \in Workers : Started(w) => want']_vars

(* Every worker thread that runs is the connection's, or has been told to  *)
(* stop, or connect() replaced it while it was running.  The monitor       *)
(* in particular never leaves a worker behind that still has the adapter.  *)
WorkersAccountedFor ==
    \A w \in Workers : Alive(w) => w = worker \/ stop[w] \/ w \in overtaken

(* A connection that was closed lets go of the adapter, also when it was   *)
(* closed while a worker was opening it; only a worker that connect()      *)
(* overtook is out of disconnect()'s reach.                                *)
DisconnectReleases ==
    (~want /\ overtaken = {}) ~> (want \/ Holders = {})

(* A wanted connection that has its monitor comes back, whatever failed    *)
(* and however often, once the adapter stays plugged in and no overtaken   *)
(* worker keeps it.                                                        *)
Reconnects ==
    <>[](want /\ present /\ Monitored /\ overtaken = {}) => []<>Connected

(* A wanted connection has a reconnect monitor that goes on: the first of  *)
(* the races the lock is there for (can_backend.py:161).                   *)
WantedIsMonitored == (want /\ user = "idle") => Monitored
=============================================================================
