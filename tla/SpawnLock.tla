------------------------------ MODULE SpawnLock ------------------------------
(***************************************************************************)
(* TaskSupervisor::spawn of kernox-host-tokio, statement by statement: what *)
(* it does while it holds the state mutex, against the threads that want   *)
(* the mutex too.  TaskSupervisor takes spawn as one step; this module     *)
(* looks inside that step.                                                 *)
(*                                                                         *)
(* A spawned task may end on a worker before spawn has stored its abort    *)
(* handle; its TaskRegistration then waits for the mutex.  Handle::spawn   *)
(* is Tokio's: for a runtime that has been shut down, whose handle a       *)
(* blocking thread may still hold, it drops the future before it returns,  *)
(* on the calling thread, and the TaskRegistration with it.  A             *)
(* std::sync::Mutex is not reentrant.                                      *)
(***************************************************************************)
EXTENDS Naturals, FiniteSets

CONSTANTS
    Callers,       \* threads that spawn
    MaxTasks,      \* TokioTaskConfig::max_tasks
    LastId,        \* bound: task identities
    Runtimes       \* whether the caller's current runtime still runs: a set of Booleans

Aborter == "aborter"   \* the thread of the stop or dispose hook
TaskIds == 1..LastId

VARIABLES
    mutex,      \* who holds the state mutex: a thread, none or one
    next_id,
    tasks,      \* the task table: per registered task, whether its abort handle is stored
    task,       \* "None", "Running", "Ended" or "Gone"
    caller,     \* where each caller is in spawn
    id,         \* the identity each caller has allocated
    aborting,   \* where abort_all is
    aborted,    \* tasks whose abort handle was used
    inline      \* tasks that ended inside spawn_on, on the caller's thread

vars == <<mutex, next_id, tasks, task, caller, id, aborting, aborted, inline>>

Init ==
    /\ mutex = {} /\ next_id = 1
    /\ tasks = [t \in {} |-> t]
    /\ task = [t \in TaskIds |-> "None"]
    /\ caller = [c \in Callers |-> "Idle"] /\ id = [c \in Callers |-> 0]
    /\ aborting = "Idle" /\ aborted = {} /\ inline = {}

Moves(c, from, to) == caller[c] = from /\ caller' = [caller EXCEPT ![c] = to]
Remove(t) == [u \in DOMAIN tasks \ {t} |-> tasks[u]]

-----------------------------------------------------------------------------
(* spawn *)

CallSpawn(c) ==
    /\ Moves(c, "Idle", "Locking")
    /\ UNCHANGED <<mutex, next_id, tasks, task, id, aborting, aborted, inline>>

Lock(c) ==
    /\ Moves(c, "Locking", "Locked") /\ mutex = {}
    /\ mutex' = {c}
    /\ UNCHANGED <<next_id, tasks, task, id, aborting, aborted, inline>>

\* Capacity; Closed and NoRuntime leave by the same way.
Refuse(c) ==
    /\ Moves(c, "Locked", "Idle")
    /\ Cardinality(DOMAIN tasks) >= MaxTasks \/ next_id > LastId
    /\ mutex' = {}
    /\ UNCHANGED <<next_id, tasks, task, id, aborting, aborted, inline>>

\* An identity and a record without an abort handle.
Admit(c) ==
    /\ Moves(c, "Locked", "Admitted")
    /\ Cardinality(DOMAIN tasks) < MaxTasks /\ next_id <= LastId
    /\ id' = [id EXCEPT ![c] = next_id]
    /\ next_id' = next_id + 1
    /\ tasks' = [u \in DOMAIN tasks \cup {next_id} |-> u \in DOMAIN tasks /\ tasks[u]]
    /\ UNCHANGED <<mutex, task, aborting, aborted, inline>>

\* tracker.spawn_on hands the future to the caller's runtime, or drops it.
SpawnOn(c) ==
    /\ Moves(c, "Admitted", "Spawned")
    /\ \E runs \in Runtimes :
         /\ task' = [task EXCEPT ![id[c]] = IF runs THEN "Running" ELSE "Ended"]
         /\ inline' = IF runs THEN inline ELSE inline \cup {id[c]}
    /\ UNCHANGED <<mutex, next_id, tasks, id, aborting, aborted>>

\* spawn_on has returned, the drop it ran included: store the abort handle if
\* the record is still there, unlock and return.
StoreHandle(c) ==
    /\ Moves(c, "Spawned", "Idle")
    /\ id[c] \in inline => task[id[c]] = "Gone"
    /\ tasks' = [u \in DOMAIN tasks |-> tasks[u] \/ u = id[c]]
    /\ mutex' = mutex \ {c}
    /\ UNCHANGED <<next_id, task, id, aborting, aborted, inline>>

-----------------------------------------------------------------------------
(* The other threads *)

TaskEnds(t) ==
    /\ task[t] = "Running"
    /\ task' = [task EXCEPT ![t] = "Ended"]
    /\ UNCHANGED <<mutex, next_id, tasks, caller, id, aborting, aborted, inline>>

\* TaskRegistration::drop, on a worker thread or inside spawn_on.
Unregister(t) ==
    /\ task[t] = "Ended" /\ mutex = {}
    /\ tasks' = Remove(t)
    /\ task' = [task EXCEPT ![t] = "Gone"]
    /\ UNCHANGED <<mutex, next_id, caller, id, aborting, aborted, inline>>

CallAbortAll ==
    /\ aborting = "Idle"
    /\ aborting' = "Locking"
    /\ UNCHANGED <<mutex, next_id, tasks, task, caller, id, aborted, inline>>

\* abort_all: the handles are collected under the mutex.
AbortAll ==
    /\ aborting = "Locking" /\ mutex = {}
    /\ aborted' = aborted \cup {t \in DOMAIN tasks : tasks[t]}
    /\ aborting' = "Idle"
    /\ UNCHANGED <<mutex, next_id, tasks, task, caller, id, inline>>

-----------------------------------------------------------------------------
Progress(c) == Lock(c) \/ Refuse(c) \/ Admit(c) \/ SpawnOn(c) \/ StoreHandle(c)

Next ==
    \/ \E c \in Callers : CallSpawn(c) \/ Progress(c)
    \/ \E t \in TaskIds : TaskEnds(t) \/ Unregister(t)
    \/ CallAbortAll \/ AbortAll

\* A thread that can go on does, and one that waits for the mutex gets it if it
\* is free again and again.
Spec ==
    /\ Init /\ [][Next]_vars
    /\ \A c \in Callers : SF_vars(Progress(c))
    /\ \A t \in TaskIds : SF_vars(Unregister(t))

-----------------------------------------------------------------------------
(* Property *)

\* "Spawns and tracks one task on the current Tokio runtime", or "returns
\* SpawnError": a call of spawn returns.
SpawnReturns == \A c \in Callers : caller[c] # "Idle" ~> caller[c] = "Idle"
=============================================================================
