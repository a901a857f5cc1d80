------------------------------ MODULE WorkerApp ------------------------------
(***************************************************************************)
(* Applications of TokioTaskPlugin: examples/worker-app, which adds the    *)
(* HeartbeatWorker, and one that has the host plugin alone.  The           *)
(* executor's walk over the plugins, the host's hooks, the heartbeat task  *)
(* the worker spawns and other tasks that holders of the published         *)
(* interface spawn all interleave; the supervisor is TaskSupervisor,       *)
(* action for action.                                                      *)
(*                                                                         *)
(* HeartbeatWorker relies on the default quiesce, stop and dispose, which  *)
(* do nothing; the heartbeat ends by the host's cancellation token.        *)
(***************************************************************************)
EXTENDS TaskSupervisor

CONSTANT TickRange   \* stands for 2^64, where the AtomicU64 wraps

ASSUME TickAssumption == TickRange \in Nat \ {0, 1}

VARIABLES
    app,         \* where the executor is
    worker,      \* HeartbeatWorker: "Absent", or its tasks, "None" or "Some"
    heartbeat,   \* the heartbeat's task, none or one
    beat,        \* its future: "Waiting" for a poll, "Checking" the token or "Counting"
    ticks        \* the metrics counter

workerVars == <<app, worker, heartbeat, beat, ticks>>

WorkerInit ==
    /\ accepting = TRUE /\ next_id = 1 /\ tasks = {}
    /\ terminal_failure = << >> /\ drain_reported = FALSE
    /\ closed = FALSE /\ tracked = {} /\ cancelled = FALSE /\ aborted = {}
    /\ task = [t \in TaskIds |-> "None"]
    /\ supervisor = FALSE /\ stage = "Serving" /\ hook = "Idle"
    /\ pending = {} /\ errors = << >> /\ outside = FALSE /\ cut = {} /\ restarts = 0
    /\ app = "Resolved" /\ worker \in {"Absent", "None"} /\ heartbeat = {} /\ beat = "Waiting" /\ ticks = 0

Goes(from, to) == app = from /\ app' = to

-----------------------------------------------------------------------------
(* Start-up: the host comes first, the worker requires its capability *)

\* TokioTaskPlugin::initialize finds a runtime and a timer.
InitializeHost ==
    /\ Goes("Resolved", IF worker = "Absent" THEN "Running" ELSE "HostReady")
    /\ supervisor' = TRUE
    /\ UNCHANGED <<state, tokio, task, stage, hook, pending, errors, outside, cut, restarts,
                   worker, heartbeat, beat, ticks>>

\* One of them is missing: the rollback's dispose finds no supervisor.
InitializeHostFails ==
    /\ Goes("Resolved", "Failed")
    /\ UNCHANGED <<vars, worker, heartbeat, beat, ticks>>

InitializeWorker ==
    /\ Goes("HostReady", "Initialized")
    /\ worker' = "Some"
    /\ UNCHANGED <<vars, heartbeat, beat, ticks>>

\* require refused the capability: rollback_initialize disposes the host.
InitializeWorkerFails ==
    /\ Goes("HostReady", "RollingBack")
    /\ RollbackDispose
    /\ UNCHANGED <<worker, heartbeat, beat, ticks>>

\* HeartbeatWorker::start; the host's start does nothing.
StartWorker ==
    /\ Goes("Initialized", "Running") /\ worker = "Some"
    /\ heartbeat' = {next_id} /\ beat' = "Waiting"
    /\ Spawn
    /\ UNCHANGED <<worker, ticks>>

\* spawn was refused: start() is polled outside Tokio now.
StartWorkerFails ==
    /\ Goes("Initialized", "RollingBack")
    /\ UNCHANGED <<vars, worker, heartbeat, beat, ticks>>

-----------------------------------------------------------------------------
(* The heartbeat and its peers *)

IsHeartbeat(t) == t \in heartbeat

Wake(t) ==
    /\ IsHeartbeat(t) /\ task[t] = "Running" /\ beat = "Waiting"
    /\ beat' = "Checking"
    /\ UNCHANGED <<vars, app, worker, heartbeat, ticks>>

\* Seeded defect: the loop does not look at the token.
CheckToken_Unconditional(t) ==
    /\ IsHeartbeat(t) /\ task[t] = "Running" /\ beat = "Checking"
    /\ beat' = "Counting"
    /\ UNCHANGED <<vars, app, worker, heartbeat, ticks>>

\* The loop's condition.
CheckToken(t) ==
    /\ IsHeartbeat(t) /\ beat = "Checking"
    /\ IF cancelled
       THEN TaskReturns(t) /\ UNCHANGED beat
       ELSE task[t] = "Running" /\ beat' = "Counting" /\ UNCHANGED vars
    /\ UNCHANGED <<app, worker, heartbeat, ticks>>

\* fetch_add, up to the sleep; the token may have been cancelled meanwhile.
Count(t) ==
    /\ IsHeartbeat(t) /\ beat = "Counting"
    /\ ticks' = (ticks + 1) % TickRange
    /\ beat' = "Waiting"
    /\ UNCHANGED <<vars, app, worker, heartbeat>>

Heartbeats(t) == Wake(t) \/ CheckToken(t) \/ Count(t)

\* capability_from has handed out the interface; its holders spawn whenever they
\* like, whatever became of the application.
SpawnPeer ==
    /\ app \in {"Running", "ShuttingDown", "Stopped", "Dropped"}
    /\ Spawn \/ SpawnRefused
    /\ UNCHANGED workerVars

PeerStep(t) ==
    /\ ~IsHeartbeat(t)
    /\ TaskReturns(t) \/ TaskUnwinds(t)
    /\ UNCHANGED workerVars

\* An abort takes the heartbeat only where it awaits.
EndStep(t) ==
    /\ TaskEnds(t)
    /\ IsHeartbeat(t) /\ task[t] = "Running" => beat = "Waiting"
    /\ UNCHANGED workerVars

-----------------------------------------------------------------------------
(* Cleanup: shutdown(), or rollback_start after the worker's start failed *)

BeginShutdown == Goes("Running", "ShuttingDown") /\ UNCHANGED <<vars, worker, heartbeat, beat, ticks>>

Cleaning == app \in {"RollingBack", "ShuttingDown"}

HostHook == Cleaning /\ (CallQuiesce \/ CallStop \/ CallDispose) /\ UNCHANGED workerVars
HostDrain == Cleaning /\ Drain /\ UNCHANGED workerVars
ShutdownAgain == app = "ShuttingDown" /\ RestartShutdown /\ UNCHANGED workerVars

CleanupDone ==
    /\ Disposed
    /\ Goes("RollingBack", "Failed") \/ Goes("ShuttingDown", "Stopped")
    /\ UNCHANGED <<vars, worker, heartbeat, beat, ticks>>

\* The caller drops the running application, or a future that waits for a hook.
DropApp ==
    /\ \/ app = "Running"
       \/ Cleaning /\ hook \in {"Waiting", "Joining"}
    /\ app' = "Dropped"
    /\ hook' = "Idle" /\ cut' = IF hook = "Idle" THEN cut ELSE cut \cup {stage}
    /\ UNCHANGED <<state, tokio, task, supervisor, stage, pending, errors, outside, restarts,
                   worker, heartbeat, beat, ticks>>

AppOver == app \in {"Failed", "Stopped", "Dropped"} /\ UNCHANGED <<vars, workerVars>>

-----------------------------------------------------------------------------
Executor ==
    \/ InitializeHost \/ InitializeHostFails \/ InitializeWorker \/ InitializeWorkerFails
    \/ StartWorker \/ StartWorkerFails
    \/ HostHook \/ HostDrain \/ CleanupDone

WorkerNext ==
    \/ Executor \/ BeginShutdown \/ ShutdownAgain \/ DropApp \/ SpawnPeer \/ AppOver
    \/ \E t \in TaskIds : Heartbeats(t) \/ PeerStep(t) \/ EndStep(t)

\* The futures of start() and shutdown() are polled, the runtime polls its tasks
\* and fires its timer; no peer is assumed to end by itself.
WorkerSpec ==
    /\ WorkerInit /\ [][WorkerNext]_<<vars, workerVars>>
    /\ WF_<<vars, workerVars>>(Executor)
    /\ \A t \in TaskIds : WF_<<vars, workerVars>>(Heartbeats(t))
                          /\ WF_<<vars, workerVars>>(EndStep(t))

-----------------------------------------------------------------------------
(* Properties *)

\* The metrics count only what happened while the application ran: when the
\* host's stop has returned, on Tokio and not cut short, no heartbeat is counted
\* any more, and a start that failed never counted one (HeartbeatWorker::start,
\* TokioTaskPlugin::stop).
TicksEnd ==
    [][/\ stage \in {"Stopped", "Disposed"} /\ hook = "Idle" /\ ~outside /\ cut = {} => UNCHANGED ticks
       /\ app = "Failed" => ticks = 0 /\ heartbeat = {}]_<<vars, workerVars>>

\* The heartbeat leaves by itself once a peer panics or the host quiesces, also
\* when the shutdown that cancelled the token is dropped and nobody drains; and
\* a panic closes admission for whoever would spawn next (HeartbeatWorker::start,
\* TaskRegistration::record_panic, TaskSupervisor::quiesce).
HeartbeatLeaves ==
    \A t \in TaskIds :
        /\ t \in heartbeat /\ cancelled ~> task[t] = "Gone"
        /\ t \in heartbeat /\ (\E u \in TaskIds : task[u] = "Panicking")
             ~> task[t] = "Gone" /\ ~accepting
=============================================================================
