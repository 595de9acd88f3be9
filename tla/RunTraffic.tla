------------------------------ MODULE RunTraffic ------------------------------
(***************************************************************************)
(* RunLifecycle under several kinds of traffic: which requests there are   *)
(* is chosen initially.  decided and inTime remember what the past of a    *)
(* run promises.                                                           *)
(***************************************************************************)
EXTENDS RunLifecycle

VARIABLES
    workload,   \* the traffic chosen
    decided,    \* runs whose cancellation was saved in time
    inTime      \* runs whose backend logs came in time

Workload ==
    [everything |-> [ops |-> Operations, restarts |-> MaxRestarts],
     cancels    |-> [ops |-> {"cancel"}, restarts |-> MaxRestarts],
     logs       |-> [ops |-> Operations \ {"delete"}, restarts |-> 0]]

Chosen == Workload[workload]

trafficVars == <<vars, workload, decided, inTime>>

BeforeLook == {"enter", "exec", "fallback", "ended"}
BeforeWaiting == RunPc \ {"new", "missed", "mark", "markSave", "done"}

WorkloadInit ==
    /\ Init
    /\ workload \in DOMAIN Workload
    /\ decided = {} /\ inTime = {}

WorkloadNext ==
    /\ UNCHANGED workload
    /\ decided' = decided \cup
         {r \in Run : Stored(r, "CANCELLED") /\ pc[r] \in BeforeLook}
    /\ inTime' = inTime \cup {r \in events : pc[r] \in BeforeWaiting}
    /\ \/ \E r \in Run : StartRun(r) \/ Execute(r)
       \/ \E u \in User : Continue(u)
       \/ \E u \in User, r \in Run :
            \/ "ingest" \in Chosen.ops /\ Ingest(u, r)
            \/ "external" \in Chosen.ops /\ MarkExternal(u, r)
            \/ "cancel" \in Chosen.ops /\ CancelRead(u, r)
            \/ "delete" \in Chosen.ops /\ Delete(u, r)
       \/ restarts < Chosen.restarts /\ Restart

WorkloadSpec == WorkloadInit /\ [][WorkloadNext]_trafficVars

\* A cancellation saved before _persist_result looks for one (run_service,
\* 628) decides the run: it stays CANCELLED, whatever the browser reports and
\* although the process restarts, as long as nobody writes about logs.
CancelWins ==
    workload = "cancels" => \A r \in decided : Stored(r, "CANCELLED")

\* Backend logs that arrive before await_backend_logs has begun to wait keep
\* the run from being labelled partial, whoever else writes the record, as
\* long as nobody deletes the run.
LogsInTime ==
    workload = "logs" =>
        \A r \in inTime : Exists(r) => store[r].trace # "partial"
=============================================================================
