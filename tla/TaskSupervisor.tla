--------------------------- MODULE TaskSupervisor ---------------------------
(***************************************************************************)
(* kernox-host-tokio: the TaskSupervisor and the lifecycle hooks of        *)
(* TokioTaskPlugin that drain it.                                          *)
(*                                                                         *)
(* Threads that hold the published TokioTasks interface spawn tasks, the   *)
(* tasks end on worker threads, and the application's executor runs the    *)
(* plugin's hooks, all at once.  A step is a section under the state mutex *)
(* or one call into TaskTracker, CancellationToken or AbortHandle; those   *)
(* three and the timer are Tokio's and are modelled by what this crate     *)
(* relies on.  spawn holds the mutex throughout and is one step.           *)
(***************************************************************************)
EXTENDS Naturals, Sequences, FiniteSets

CONSTANTS
    MaxTasks,     \* TokioTaskConfig::max_tasks
    LastId,       \* stands for u64::MAX, where next_id.checked_add fails
    MaxRestarts   \* bound: how often shutdown() is dropped and called again

ASSUME SupervisorAssumption == MaxTasks \in Nat \ {0} /\ LastId \in Nat \ {0} /\ MaxRestarts \in Nat

VARIABLES
    accepting, next_id, tasks, terminal_failure, drain_reported,  \* State, under the mutex
    closed, tracked,   \* TaskTracker: closed, and the tasks whose token lives
    cancelled,         \* CancellationToken
    aborted,           \* tasks whose AbortHandle was used
    task,              \* where each task is, see TaskStates
    supervisor,        \* TokioTaskPlugin::supervisor is Some
    stage,             \* which hooks of the plugin have been run
    hook,              \* where the running hook is, see HookStates
    pending,           \* drain: the tasks unfinished when the budget expired
    errors,            \* history: the error tags the hooks returned
    outside,           \* history: some drain found no Tokio runtime
    cut,               \* history: the hooks whose future was dropped while it waited
    restarts           \* how often shutdown() was dropped and called again

state == <<accepting, next_id, tasks, terminal_failure, drain_reported>>
tokio == <<closed, tracked, cancelled, aborted>>
plugin == <<supervisor, stage, hook, pending, errors, outside, cut, restarts>>
vars == <<state, tokio, task, plugin>>

TaskIds == 1..LastId

\* Panicking to Cancelling are the steps of record_panic; a Returned task
\* drops its TaskRegistration, a Released one its tracker token.
TaskStates == {"None", "Running", "Panicking", "Recorded", "Cancelling",
               "Returned", "Released", "Gone"}

HookStates == {"Idle", "Entered", "Waiting", "Expired", "Aborting", "Joining",
               "Drained", "NoRuntime", "Claimed", "ClaimedNoRuntime"}

Init ==
    /\ accepting = TRUE /\ next_id = 1 /\ tasks = {}
    /\ terminal_failure = << >> /\ drain_reported = FALSE
    /\ closed = FALSE /\ tracked = {} /\ cancelled = FALSE /\ aborted = {}
    /\ task = [t \in TaskIds |-> "None"]
    /\ supervisor = TRUE /\ stage = "Serving" /\ hook = "Idle"
    /\ pending = {} /\ errors = << >> /\ outside = FALSE /\ cut = {} /\ restarts = 0

-----------------------------------------------------------------------------
(* TokioTasks::spawn *)

\* Seeded defect: the task at the limit is still admitted.
Admits_OneMore == accepting /\ Cardinality(tasks) <= MaxTasks /\ next_id < LastId

\* Admission is open, the bound is not reached and next_id does not overflow.
Admits == accepting /\ Cardinality(tasks) < MaxTasks /\ next_id < LastId

Spawn ==
    /\ Admits
    /\ next_id' = next_id + 1
    /\ tasks' = tasks \cup {next_id}
    /\ tracked' = tracked \cup {next_id}
    /\ task' = [task EXCEPT ![next_id] = "Running"]
    /\ UNCHANGED <<accepting, terminal_failure, drain_reported, closed, cancelled, aborted, plugin>>

\* Closed, NoRuntime and Capacity leave everything as it was.
SpawnRefused == ~Admits /\ UNCHANGED vars

-----------------------------------------------------------------------------
(* The spawned future *)

At(t, from, to) == task[t] = from /\ task' = [task EXCEPT ![t] = to]

TaskReturns(t) == At(t, "Running", "Returned") /\ UNCHANGED <<state, tokio, plugin>>

TaskUnwinds(t) == At(t, "Running", "Panicking") /\ UNCHANGED <<state, tokio, plugin>>

\* An aborted future is dropped at a point where it awaits.
TaskAborted(t) ==
    /\ t \in aborted
    /\ At(t, "Running", "Returned")
    /\ UNCHANGED <<state, tokio, plugin>>

\* record_panic under the mutex.
RecordPanic(t) ==
    /\ At(t, "Panicking", "Recorded")
    /\ terminal_failure' = IF terminal_failure = << >> THEN <<t>> ELSE terminal_failure
    /\ accepting' = FALSE
    /\ UNCHANGED <<next_id, tasks, drain_reported, tokio, plugin>>

PanicCloses(t) ==
    /\ At(t, "Recorded", "Cancelling")
    /\ closed' = TRUE
    /\ UNCHANGED <<state, tracked, cancelled, aborted, plugin>>

PanicCancels(t) ==
    /\ At(t, "Cancelling", "Returned")
    /\ cancelled' = TRUE
    /\ UNCHANGED <<state, closed, tracked, aborted, plugin>>

\* TaskRegistration::drop.
Unregister(t) ==
    /\ At(t, "Returned", "Released")
    /\ tasks' = tasks \ {t}
    /\ UNCHANGED <<accepting, next_id, terminal_failure, drain_reported, tokio, plugin>>

\* The tracker's token outlives the future it wraps.
ReleaseToken(t) ==
    /\ At(t, "Released", "Gone")
    /\ tracked' = tracked \ {t}
    /\ UNCHANGED <<state, closed, cancelled, aborted, plugin>>

-----------------------------------------------------------------------------
(* The hooks of TokioTaskPlugin, in the order the executor calls them *)

Moves(from, to) == hook = from /\ hook' = to

\* Seeded defect: admission stays open while tasks are drained.
Quiesce_StillAccepts ==
    /\ closed' = TRUE
    /\ cancelled' = TRUE
    /\ UNCHANGED accepting

\* TaskSupervisor::quiesce, all of it under the mutex.
Quiesce ==
    /\ accepting' = FALSE
    /\ closed' = TRUE
    /\ cancelled' = TRUE

NoSupervisor == UNCHANGED <<accepting, closed, cancelled>>

CallQuiesce ==
    /\ hook = "Idle" /\ stage = "Serving"
    /\ stage' = "Quiesced"
    /\ IF supervisor THEN Quiesce ELSE NoSupervisor
    /\ UNCHANGED <<next_id, tasks, terminal_failure, drain_reported, tracked, aborted, task,
                   supervisor, hook, pending, errors, outside, cut, restarts>>

CallStop ==
    /\ hook = "Idle" /\ stage = "Quiesced"
    /\ stage' = "Stopped"
    /\ hook' = IF supervisor THEN "Entered" ELSE "Idle"
    /\ pending' = {}
    /\ UNCHANGED <<state, tokio, task, supervisor, errors, outside, cut, restarts>>

\* dispose takes the supervisor out of the plugin.
Dispose(to) ==
    /\ stage' = to
    /\ supervisor' = FALSE
    /\ hook' = IF supervisor THEN "Entered" ELSE "Idle"
    /\ IF supervisor THEN Quiesce ELSE NoSupervisor
    /\ pending' = {}
    /\ UNCHANGED <<next_id, tasks, terminal_failure, drain_reported, tracked, aborted, task,
                   errors, outside, cut, restarts>>

CallDispose == hook = "Idle" /\ stage = "Stopped" /\ Dispose("Disposed")

\* Another plugin failed to initialize: dispose is the only hook that runs.
RollbackDispose == hook = "Idle" /\ stage = "Serving" /\ restarts = 0 /\ Dispose("RolledBack")

-----------------------------------------------------------------------------
(* drain_failure *)

AbortAll == aborted' = aborted \cup tasks

\* Handle::try_current failed and tasks are left: abort them, do not wait.
DrainOutside ==
    /\ Moves("Entered", "NoRuntime") /\ tracked # {}
    /\ AbortAll
    /\ outside' = TRUE
    /\ UNCHANGED <<state, closed, tracked, cancelled, task, supervisor, stage, pending, errors, cut, restarts>>

DrainEmpty ==
    /\ Moves("Entered", "Drained") /\ tracked = {}
    /\ UNCHANGED <<state, tokio, task, supervisor, stage, pending, errors, outside, cut, restarts>>

DrainWaits ==
    /\ Moves("Entered", "Waiting") /\ tracked # {}
    /\ UNCHANGED <<state, tokio, task, supervisor, stage, pending, errors, outside, cut, restarts>>

\* Seeded defect: a closed tracker counts as drained.
TrackerDone_Closed == closed

\* TaskTracker::wait: closed and no token left.
TrackerDone == closed /\ tracked = {}

WaitSucceeds ==
    /\ Moves("Waiting", "Drained") /\ TrackerDone
    /\ UNCHANGED <<state, tokio, task, supervisor, stage, pending, errors, outside, cut, restarts>>

\* timeout polls the tracker before its timer.
BudgetExpires ==
    /\ Moves("Waiting", "Expired") /\ ~TrackerDone
    /\ UNCHANGED <<state, tokio, task, supervisor, stage, pending, errors, outside, cut, restarts>>

SnapshotPending ==
    /\ Moves("Expired", "Aborting")
    /\ pending' = tasks
    /\ UNCHANGED <<state, tokio, task, supervisor, stage, errors, outside, cut, restarts>>

\* Seeded defect: nothing is aborted when the budget expires.
AbortPending_Forgotten ==
    /\ Moves("Aborting", "Joining")
    /\ UNCHANGED <<state, tokio, task, supervisor, stage, pending, errors, outside, cut, restarts>>

AbortPending ==
    /\ Moves("Aborting", "Joining")
    /\ AbortAll
    /\ UNCHANGED <<state, closed, tracked, cancelled, task, supervisor, stage, pending, errors, outside, cut, restarts>>

JoinAborted ==
    /\ Moves("Joining", "Drained") /\ TrackerDone
    /\ UNCHANGED <<state, tokio, task, supervisor, stage, pending, errors, outside, cut, restarts>>

\* claim_drain_report: whoever comes second returns Ok.
ClaimDrainReport ==
    /\ \/ hook = "Drained" /\ hook' = IF drain_reported THEN "Idle" ELSE "Claimed"
       \/ hook = "NoRuntime" /\ hook' = IF drain_reported THEN "Idle" ELSE "ClaimedNoRuntime"
    /\ drain_reported' = TRUE
    /\ UNCHANGED <<accepting, next_id, tasks, terminal_failure, tokio, task, supervisor,
                   stage, pending, errors, outside, cut, restarts>>

\* Seeded defect: a drain timeout hides the panic.
Outcome_TimeoutFirst ==
    IF hook = "ClaimedNoRuntime" THEN <<"no-runtime">>
    ELSE IF pending # {} THEN <<"drain-timeout">>
    ELSE IF terminal_failure # << >> THEN <<"panicked">> ELSE << >>

\* The error the hook returns: none, or one tag.
Outcome ==
    IF hook = "ClaimedNoRuntime" THEN <<"no-runtime">>
    ELSE IF terminal_failure # << >> THEN <<"panicked">>
    ELSE IF pending # {} THEN <<"drain-timeout">> ELSE << >>

HookReturns ==
    /\ hook \in {"Claimed", "ClaimedNoRuntime"}
    /\ hook' = "Idle"
    /\ errors' = errors \o Outcome
    /\ UNCHANGED <<state, tokio, task, supervisor, stage, pending, outside, cut, restarts>>

\* shutdown()'s future is dropped, in this plugin's await or in another's hook,
\* and shutdown() is called again.
RestartShutdown ==
    /\ hook \in {"Idle", "Waiting", "Joining"}
    /\ stage \in {"Quiesced", "Stopped", "Disposed"}
    /\ restarts < MaxRestarts
    /\ restarts' = restarts + 1
    /\ cut' = IF hook = "Idle" THEN cut ELSE cut \cup {stage}
    /\ stage' = "Serving"
    /\ hook' = "Idle"
    /\ UNCHANGED <<state, tokio, task, supervisor, pending, errors, outside>>

-----------------------------------------------------------------------------
TaskEnds(t) ==
    \/ TaskAborted(t) \/ RecordPanic(t) \/ PanicCloses(t) \/ PanicCancels(t)
    \/ Unregister(t) \/ ReleaseToken(t)

Drain ==
    \/ DrainOutside \/ DrainEmpty \/ DrainWaits \/ WaitSucceeds \/ BudgetExpires
    \/ SnapshotPending \/ AbortPending \/ JoinAborted \/ ClaimDrainReport \/ HookReturns

Next ==
    \/ Spawn \/ SpawnRefused
    \/ \E t \in TaskIds : TaskReturns(t) \/ TaskUnwinds(t) \/ TaskEnds(t)
    \/ CallQuiesce \/ CallStop \/ CallDispose \/ RollbackDispose
    \/ Drain \/ RestartShutdown

\* Workers run, the timer fires, and a task that was aborted reaches an await;
\* no task is assumed to end by itself.
Spec ==
    /\ Init /\ [][Next]_vars
    /\ \A t \in TaskIds : WF_vars(TaskEnds(t))
    /\ WF_vars(Drain)

-----------------------------------------------------------------------------
(* Properties *)

Live == {t \in TaskIds : task[t] \notin {"None", "Gone"}}

\* Every hook the plugin is due has returned.
Disposed == stage \in {"Disposed", "RolledBack"} /\ hook = "Idle"

\* At most max_tasks tasks can still run user code, no two under one identity,
\* and the tracker waits for every one of them: a task leaves the table before
\* it leaves the tracker, so no drain misses one that still counts against the
\* limit, and next_id stops at the end of its range (spawn, TaskRegistration).
LiveTasksBounded ==
    /\ Cardinality({t \in TaskIds : task[t] = "Running"}) <= MaxTasks
    /\ tasks \subseteq tracked /\ tracked = Live
    /\ next_id <= LastId /\ \A t \in TaskIds : t >= next_id => task[t] = "None"

\* When a drain on a Tokio runtime is over, nothing the supervisor admitted is
\* left and nothing can be admitted any more; so it is when the plugin has been
\* disposed, unless its dispose was itself dropped while it waited (drain).
DrainLeavesNothing ==
    \/ hook \in {"Drained", "Claimed"}
    \/ Disposed /\ ~outside /\ "Disposed" \notin cut
    => Live = {} /\ tasks = {} /\ ~Admits

\* The hooks report what happened, once: all of them together return at most
\* one error.  When the plugin has been disposed on a Tokio runtime that error
\* is the panic if there was one, whatever tasks exceeded the budget and however
\* often shutdown() was restarted before; and a forced abort is never silent,
\* unless a drain was cut short (record_panic, claim_drain_report, drain_failure).
FailuresReportedOnce ==
    /\ Len(errors) <= 1
    /\ Disposed /\ ~outside /\ "Disposed" \notin cut /\ terminal_failure # << >> =>
         errors = <<"panicked">>
    /\ Disposed /\ cut = {} /\ aborted # {} => Len(errors) = 1

\* stop and dispose return, also when no task ends by itself: the budget
\* expires and the aborts take effect.
HooksReturn == hook # "Idle" ~> hook = "Idle"
=============================================================================
