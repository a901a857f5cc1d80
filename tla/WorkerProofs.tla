---------------------------- MODULE WorkerProofs -----------------------------
(***************************************************************************)
(* Proofs about the Tokio host in its application, for every task limit,   *)
(* every range of task identities and any number of restarted shutdowns.   *)
(***************************************************************************)
EXTENDS WorkerApp, FiniteSetTheorems, TLAPS

Stages == {"Serving", "Quiesced", "Stopped", "Disposed", "RolledBack"}
AppStates == {"Resolved", "HostReady", "Initialized", "Running", "RollingBack",
              "ShuttingDown", "Failed", "Stopped", "Dropped"}

\* Tasks that have their entry in the supervisor's table.
Listed == {"Running", "Panicking", "Recorded", "Cancelling", "Returned"}

\* No task was spawned in an application that is not, and was not, Running.
Unused == {"Resolved", "HostReady", "Initialized", "RollingBack", "Failed"}

TypeInv ==
    /\ accepting \in BOOLEAN /\ drain_reported \in BOOLEAN /\ closed \in BOOLEAN
    /\ cancelled \in BOOLEAN /\ supervisor \in BOOLEAN /\ outside \in BOOLEAN
    /\ next_id \in 1..LastId
    /\ tasks \subseteq TaskIds /\ tracked \subseteq TaskIds
    /\ aborted \subseteq TaskIds /\ pending \subseteq TaskIds
    /\ task \in [TaskIds -> TaskStates]
    /\ stage \in Stages /\ hook \in HookStates /\ cut \subseteq Stages
    /\ app \in AppStates /\ heartbeat \subseteq TaskIds /\ ticks \in Nat
    /\ beat \in {"Waiting", "Checking", "Counting"}

\* Where a task is decides whether the table and the tracker know it.
TableInv ==
    /\ \A t \in TaskIds : /\ t >= next_id <=> task[t] = "None"
                          /\ t \in tasks <=> task[t] \in Listed
                          /\ t \in tracked <=> task[t] \notin {"None", "Gone"}
    /\ Cardinality(tasks) <= MaxTasks

\* The executor is where its stage and its hook say, and has no tasks before
\* the application runs.
AppInv ==
    /\ app \in {"Resolved", "HostReady", "Initialized", "Running"} =>
         stage = "Serving" /\ hook = "Idle" /\ (supervisor <=> app # "Resolved")
    /\ app \in Unused => tracked = {} /\ heartbeat = {} /\ ticks = 0
    /\ app = "RollingBack" => hook \in {"Idle", "Entered", "Drained", "Claimed"}
    /\ stage = "RolledBack" => app \in {"RollingBack", "Failed"}

\* dispose has been called, in this shutdown() or in one that was dropped.
Retired == ~supervisor /\ (stage # "Serving" \/ app \notin {"Resolved", "Failed"})

\* Admission is closed before anything is drained, and a drain that is over has
\* been reported or was cut short.
HookInv ==
    /\ hook # "Idle" => stage \in {"Stopped", "Disposed", "RolledBack"} /\ ~accepting
    /\ hook # "Idle" /\ stage = "Stopped" => supervisor
    /\ supervisor /\ stage \in {"Quiesced", "Stopped"} => ~accepting
    /\ stage \in {"Disposed", "RolledBack"} => ~supervisor
    /\ hook \in {"Drained", "Claimed"} => tracked = {}
    /\ hook \in {"NoRuntime", "ClaimedNoRuntime"} => outside
    /\ hook = "Aborting" => tasks \subseteq pending
    /\ Retired => ~accepting
    /\ Retired /\ hook = "Idle" /\ ~outside /\ "Disposed" \notin cut => drain_reported
    /\ stage = "Stopped" /\ hook = "Idle" /\ ~outside /\ cut = {} => drain_reported

\* What the first drain to claim the report made of it.
ReportInv ==
    /\ hook \in {"Claimed", "ClaimedNoRuntime"} => drain_reported
    /\ ~drain_reported \/ hook \in {"Claimed", "ClaimedNoRuntime"} => errors = << >>
    /\ drain_reported /\ hook \notin {"Claimed", "ClaimedNoRuntime"} =>
         \/ errors = <<"no-runtime">> /\ outside
         \/ /\ errors \in {<< >>, <<"panicked">>, <<"drain-timeout">>}
            /\ tracked = {} /\ ~accepting
            /\ terminal_failure # << >> => errors = <<"panicked">>

\* Tasks that were aborted are reported, or are about to be.
AbortInv ==
    cut = {} /\ aborted # {} =>
        \/ errors # << >>
        \/ hook = "NoRuntime" /\ ~drain_reported
        \/ hook = "ClaimedNoRuntime"
        \/ hook \in {"Joining", "Drained"} /\ ~drain_reported /\ pending # {}
        \/ hook = "Claimed" /\ pending # {}

\* The heartbeat counts only while its task runs.
BeatInv ==
    /\ \A t, u \in heartbeat : t = u
    /\ beat = "Counting" => \A t \in heartbeat : task[t] = "Running"

IInv == TypeInv /\ TableInv /\ AppInv /\ HookInv /\ ReportInv /\ AbortInv /\ BeatInv

-----------------------------------------------------------------------------
(* Tasks *)

\* The table is finite.
LEMMA TableFinite ==
    ASSUME TypeInv PROVE IsFiniteSet(tasks) /\ Cardinality(tasks) \in Nat
<1>1. IsFiniteSet(TaskIds)
  BY SupervisorAssumption, FS_Interval DEF TaskIds
<1>2. QED
  BY <1>1, FS_Subset, FS_CardinalityType DEF TypeInv

TaskStep(t) == TaskReturns(t) \/ TaskUnwinds(t) \/ TaskEnds(t)

\* What a step of a task may change: the table and the tracker only shrink,
\* admission only closes, and a panic is recorded only by a task that is tracked.
LEMMA TaskStepFacts ==
    ASSUME IInv, NEW t \in TaskIds, TaskStep(t)
    PROVE  /\ TableInv'
           /\ tasks' \subseteq tasks /\ tracked' \subseteq tracked
           /\ accepting' = accepting \/ accepting' = FALSE
           /\ terminal_failure' = terminal_failure \/ tracked # {}
           /\ closed' \in BOOLEAN /\ cancelled' \in BOOLEAN /\ task' \in [TaskIds -> TaskStates]
           /\ \A u \in TaskIds : task'[u] # task[u] => u = t
           /\ UNCHANGED <<next_id, drain_reported, aborted, plugin>>
<1>1. PICK from \in TaskStates \ {"None", "Gone"}, to \in TaskStates \ {"None", "Running"} :
        /\ At(t, from, to)
        /\ from \in Listed <=> from # "Released"
        /\ tracked' = IF from = "Released" THEN tracked \ {t} ELSE tracked
        /\ tasks' = IF from = "Returned" THEN tasks \ {t} ELSE tasks
        /\ to = "Gone" <=> from = "Released"
        /\ to \in {"Gone", "Released"} <=> from \in {"Returned", "Released"}
        /\ from = "Panicking" \/ UNCHANGED <<accepting, terminal_failure>>
  BY DEF TaskStep, TaskReturns, TaskUnwinds, TaskEnds, TaskAborted, RecordPanic, PanicCloses,
         PanicCancels, Unregister, ReleaseToken, At, state, tokio, TaskStates, Listed
<1>2. TypeInv /\ TableInv
  BY DEF IInv
<1>3. /\ \A u \in TaskIds : task'[u] = IF u = t THEN to ELSE task[u]
      /\ task[t] = from /\ task' \in [TaskIds -> TaskStates]
  BY <1>1, <1>2 DEF At, TypeInv
<1>4. UNCHANGED <<next_id, drain_reported, aborted, plugin>>
  BY DEF TaskStep, TaskReturns, TaskUnwinds, TaskEnds, TaskAborted, RecordPanic, PanicCloses,
         PanicCancels, Unregister, ReleaseToken, state, tokio
<1>5. /\ accepting' = accepting \/ accepting' = FALSE
      /\ closed' \in BOOLEAN /\ cancelled' \in BOOLEAN
  BY <1>2 DEF TaskStep, TaskReturns, TaskUnwinds, TaskEnds, TaskAborted, RecordPanic, PanicCloses,
         PanicCancels, Unregister, ReleaseToken, state, tokio, TypeInv
<1>6. tasks' \subseteq tasks /\ tracked' \subseteq tracked
  BY <1>1
<1>7. terminal_failure' = terminal_failure \/ tracked # {}
  BY <1>1, <1>2, <1>3 DEF TableInv
<1>8. ASSUME NEW u \in TaskIds
      PROVE  /\ u >= next_id' <=> task'[u] = "None"
             /\ u \in tasks' <=> task'[u] \in Listed
             /\ u \in tracked' <=> task'[u] \notin {"None", "Gone"}
  <2>1. CASE u = t
    BY <1>1, <1>2, <1>3, <1>4, <2>1 DEF TableInv, Listed, TaskStates
  <2>2. CASE u # t
    BY <1>1, <1>2, <1>3, <1>4, <2>2 DEF TableInv
  <2>3. QED
    BY <2>1, <2>2
<1>9. Cardinality(tasks') <= MaxTasks
  <2>1. IsFiniteSet(tasks) /\ Cardinality(tasks) \in Nat
    BY <1>2, TableFinite
  <2>2. Cardinality(tasks') <= Cardinality(tasks) /\ Cardinality(tasks') \in Nat
    BY <1>6, <2>1, FS_Subset, FS_CardinalityType
  <2>3. QED
    BY <1>2, <2>1, <2>2, SupervisorAssumption DEF TableInv
<1>10. QED
  BY <1>3, <1>4, <1>5, <1>6, <1>7, <1>8, <1>9 DEF TableInv

\* A task that ends preserves the invariant, whatever the executor is doing; the
\* heartbeat ends only where it does not count.
LEMMA TaskStepKeeps ==
    ASSUME IInv, NEW t \in TaskIds, TaskStep(t),
           t \in heartbeat /\ task[t] = "Running" => beat # "Counting",
           UNCHANGED workerVars
    PROVE  IInv'
<1>1. /\ TableInv'
      /\ tasks' \subseteq tasks /\ tracked' \subseteq tracked
      /\ accepting' = accepting \/ accepting' = FALSE
      /\ terminal_failure' = terminal_failure \/ tracked # {}
      /\ closed' \in BOOLEAN /\ cancelled' \in BOOLEAN /\ task' \in [TaskIds -> TaskStates]
      /\ \A u \in TaskIds : task'[u] # task[u] => u = t
      /\ UNCHANGED <<next_id, drain_reported, aborted, plugin>>
  BY TaskStepFacts
<1>2. /\ UNCHANGED <<next_id, drain_reported, aborted, supervisor, stage, hook, pending, errors,
                     outside, cut, app, heartbeat, beat, ticks>>
  BY <1>1 DEF plugin, workerVars
<1>3. TypeInv'
  BY <1>1, <1>2 DEF IInv, TypeInv
<1>4. AppInv'
  BY <1>1, <1>2 DEF IInv, AppInv
<1>5. HookInv'
  BY <1>1, <1>2 DEF IInv, HookInv, Retired
<1>6. ReportInv'
  BY <1>1, <1>2 DEF IInv, ReportInv
<1>7. AbortInv'
  BY <1>2 DEF IInv, AbortInv
<1>8. BeatInv'
  BY <1>1, <1>2 DEF IInv, BeatInv, TypeInv
<1>9. QED
  BY <1>1, <1>3, <1>4, <1>5, <1>6, <1>7, <1>8 DEF IInv

\* spawn enters a fresh task in the table and the tracker, within the limit.
LEMMA SpawnFacts ==
    ASSUME IInv, Spawn
    PROVE  /\ TableInv' /\ accepting /\ next_id \in TaskIds
           /\ next_id' \in 1..LastId /\ task' \in [TaskIds -> TaskStates]
           /\ tasks' = tasks \cup {next_id} /\ tracked' = tracked \cup {next_id}
           /\ \A u \in TaskIds : task'[u] = IF u = next_id THEN "Running" ELSE task[u]
           /\ UNCHANGED <<accepting, terminal_failure, drain_reported, closed, cancelled, aborted, plugin>>
<1>1. /\ accepting /\ Cardinality(tasks) < MaxTasks /\ next_id < LastId
      /\ next_id' = next_id + 1 /\ task' = [task EXCEPT ![next_id] = "Running"]
      /\ tasks' = tasks \cup {next_id} /\ tracked' = tracked \cup {next_id}
      /\ UNCHANGED <<accepting, terminal_failure, drain_reported, closed, cancelled, aborted, plugin>>
  BY DEF Spawn, Admits
<1>2. TypeInv /\ TableInv
  BY DEF IInv
<1>3. next_id \in TaskIds /\ next_id' \in 1..LastId
  BY <1>1, <1>2, SupervisorAssumption DEF TypeInv, TaskIds
<1>4. /\ \A u \in TaskIds : task'[u] = IF u = next_id THEN "Running" ELSE task[u]
      /\ task' \in [TaskIds -> TaskStates]
  BY <1>1, <1>2, <1>3 DEF TypeInv, TaskStates
<1>5. task[next_id] = "None"
  BY <1>2, <1>3 DEF TableInv, TaskIds
<1>6. ASSUME NEW u \in TaskIds
      PROVE  /\ u >= next_id' <=> task'[u] = "None"
             /\ u \in tasks' <=> task'[u] \in Listed
             /\ u \in tracked' <=> task'[u] \notin {"None", "Gone"}
  <2>1. CASE u = next_id
    <3>1. ~(u >= next_id')
      BY <1>1, <1>3, <2>1 DEF TaskIds
    <3>2. QED
      BY <1>1, <1>4, <2>1, <3>1 DEF Listed
  <2>2. CASE u # next_id
    <3>1. u >= next_id' <=> u >= next_id
      BY <1>1, <1>3, <2>2 DEF TaskIds
    <3>2. QED
      BY <1>1, <1>2, <1>4, <2>2, <3>1 DEF TableInv
  <2>3. QED
    BY <2>1, <2>2
<1>7. Cardinality(tasks') <= MaxTasks
  <2>1. IsFiniteSet(tasks) /\ Cardinality(tasks) \in Nat
    BY <1>2, TableFinite
  <2>2. next_id \notin tasks
    BY <1>2, <1>3, <1>5 DEF TableInv, Listed
  <2>3. Cardinality(tasks') = Cardinality(tasks) + 1
    BY <1>1, <2>1, <2>2, FS_AddElement
  <2>4. QED
    BY <1>1, <2>1, <2>3, SupervisorAssumption
<1>8. QED
  BY <1>1, <1>3, <1>4, <1>6, <1>7 DEF TableInv

\* While admission is open no hook runs, nothing was reported as drained and the
\* supervisor is in its plugin or was never there.
LEMMA AcceptingFacts ==
    ASSUME IInv, accepting
    PROVE  /\ hook = "Idle" /\ ~Retired
           /\ supervisor => stage \notin {"Quiesced", "Stopped"}
           /\ drain_reported => errors = <<"no-runtime">> /\ outside
BY DEF IInv, HookInv, ReportInv

\* The worker's start and any holder of the interface may spawn.
LEMMA SpawnKeeps ==
    ASSUME IInv, Spawn,
           \/ StartWorker
           \/ app \in {"Running", "ShuttingDown", "Stopped", "Dropped"} /\ UNCHANGED workerVars
    PROVE  IInv'
<1>1. /\ TableInv' /\ accepting /\ next_id \in TaskIds
      /\ next_id' \in 1..LastId /\ task' \in [TaskIds -> TaskStates]
      /\ tasks' = tasks \cup {next_id} /\ tracked' = tracked \cup {next_id}
      /\ \A u \in TaskIds : task'[u] = IF u = next_id THEN "Running" ELSE task[u]
  BY SpawnFacts
<1>2. UNCHANGED <<accepting, terminal_failure, drain_reported, closed, cancelled, aborted,
                  supervisor, stage, hook, pending, errors, outside, cut>>
  BY SpawnFacts DEF plugin
<1>3. /\ hook = "Idle" /\ ~Retired
      /\ supervisor => stage \notin {"Quiesced", "Stopped"}
      /\ drain_reported => errors = <<"no-runtime">> /\ outside
  BY <1>1, AcceptingFacts
<1>4. /\ app' \in AppStates \ Unused /\ UNCHANGED ticks
      /\ (app = "Initialized" /\ app' = "Running") \/ app' = app
      /\ \/ heartbeat' = {next_id} /\ beat' = "Waiting"
         \/ UNCHANGED <<heartbeat, beat>>
  BY DEF StartWorker, Goes, workerVars, AppStates, Unused
<1>5. TypeInv'
  BY <1>1, <1>2, <1>4 DEF IInv, TypeInv
<1>6. AppInv'
  BY <1>2, <1>4 DEF IInv, AppInv, Unused
<1>7. ~Retired'
  BY <1>2, <1>3, <1>4 DEF Retired
<1>8. HookInv'
  BY <1>2, <1>3, <1>7 DEF IInv, HookInv
<1>9. ReportInv'
  BY <1>2, <1>3 DEF IInv, ReportInv
<1>10. AbortInv'
  BY <1>2 DEF IInv, AbortInv
<1>11. BeatInv'
  BY <1>1, <1>4 DEF IInv, BeatInv, TypeInv
<1>12. QED
  BY <1>1, <1>5, <1>6, <1>8, <1>9, <1>10, <1>11 DEF IInv

-----------------------------------------------------------------------------
(* Hooks *)

\* A step of a hook leaves the tasks and the heartbeat alone.
LEMMA TasksAside ==
    ASSUME IInv, UNCHANGED <<next_id, tasks, tracked, task, heartbeat, beat>>
    PROVE  TableInv' /\ BeatInv'
<1>1. TableInv'
  BY DEF IInv, TableInv
<1>2. BeatInv'
  BY DEF IInv, BeatInv
<1>3. QED
  BY <1>1, <1>2

\* quiesce, stop up to its drain, and dispose up to its drain.
LEMMA HookKeeps ==
    ASSUME IInv, UNCHANGED <<heartbeat, beat, ticks>>,
           \/ Cleaning /\ (CallQuiesce \/ CallStop \/ CallDispose) /\ UNCHANGED app
           \/ app = "HostReady" /\ app' = "RollingBack" /\ RollbackDispose
    PROVE  IInv'
<1>1. /\ UNCHANGED <<next_id, tasks, tracked, task, terminal_failure, drain_reported, aborted,
                     errors, outside, cut>>
      /\ hook = "Idle" /\ pending' \in {pending, {}}
  BY DEF CallQuiesce, CallStop, CallDispose, RollbackDispose, Dispose, state, tokio
<1>2. \/ /\ stage = "Serving" /\ stage' = "Quiesced" /\ hook' = "Idle" /\ UNCHANGED supervisor
         /\ IF supervisor THEN Quiesce ELSE NoSupervisor
      \/ /\ stage = "Quiesced" /\ stage' = "Stopped" /\ UNCHANGED supervisor
         /\ hook' = IF supervisor THEN "Entered" ELSE "Idle"
         /\ NoSupervisor
      \/ /\ stage = "Stopped" /\ stage' = "Disposed" /\ supervisor' = FALSE
         /\ hook' = IF supervisor THEN "Entered" ELSE "Idle"
         /\ IF supervisor THEN Quiesce ELSE NoSupervisor
      \/ /\ app = "HostReady" /\ stage' = "RolledBack" /\ supervisor' = FALSE
         /\ hook' = IF supervisor THEN "Entered" ELSE "Idle"
         /\ IF supervisor THEN Quiesce ELSE NoSupervisor
  BY DEF CallQuiesce, CallStop, CallDispose, RollbackDispose, Dispose, NoSupervisor, state, tokio
<1>3. \/ app \in {"RollingBack", "ShuttingDown"} /\ app' = app /\ stage' # "RolledBack"
      \/ app = "HostReady" /\ app' = "RollingBack" /\ stage' = "RolledBack"
  BY DEF Cleaning, CallQuiesce, CallStop, CallDispose, RollbackDispose, Dispose
<1>4. TypeInv'
  <2>1. accepting' \in BOOLEAN /\ closed' \in BOOLEAN /\ cancelled' \in BOOLEAN /\ supervisor' \in BOOLEAN
    BY <1>2 DEF IInv, TypeInv, Quiesce, NoSupervisor
  <2>2. stage' \in Stages /\ hook' \in HookStates /\ app' \in AppStates
    BY <1>1, <1>2, <1>3 DEF HookStates, AppStates, Stages
  <2>3. QED
    BY <1>1, <2>1, <2>2 DEF IInv, TypeInv
<1>5. TableInv' /\ BeatInv'
  BY <1>1, TasksAside
<1>6. AppInv'
  BY <1>1, <1>2, <1>3 DEF IInv, AppInv, Unused
<1>7. HookInv'
  <2>1. \/ supervisor
        \/ Retired /\ ~accepting /\ hook' = "Idle" /\ app \in {"RollingBack", "ShuttingDown"}
    BY <1>2, <1>3 DEF IInv, AppInv, HookInv, Retired
  <2>2. ~accepting'
    BY <1>2, <2>1 DEF IInv, HookInv, Quiesce, NoSupervisor
  <2>3. CASE supervisor
    BY <1>1, <1>2, <1>3, <2>2, <2>3 DEF IInv, HookInv, Retired
  <2>4. CASE ~supervisor
    BY <1>1, <1>2, <1>3, <2>1, <2>2, <2>4 DEF IInv, HookInv, Retired
  <2>5. QED
    BY <2>3, <2>4
<1>8. ReportInv'
  BY <1>1, <1>2 DEF IInv, ReportInv, Quiesce, NoSupervisor
<1>9. AbortInv'
  BY <1>1 DEF IInv, AbortInv
<1>10. QED
  BY <1>4, <1>5, <1>6, <1>7, <1>8, <1>9 DEF IInv

\* One error, or none, is appended to an empty list.
LEMMA OutcomeFacts ==
    ASSUME errors = << >>
    PROVE  errors \o Outcome = IF hook = "ClaimedNoRuntime" THEN <<"no-runtime">>
                               ELSE IF terminal_failure # << >> THEN <<"panicked">>
                               ELSE IF pending # {} THEN <<"drain-timeout">> ELSE << >>
BY DEF Outcome

\* Drain steps: waiting, expiring, aborting, claiming and reporting.
LEMMA DrainKeeps ==
    ASSUME IInv, Cleaning, Drain, UNCHANGED workerVars
    PROVE  IInv'
<1>1. /\ UNCHANGED <<accepting, next_id, tasks, terminal_failure, tracked, closed, cancelled, task,
                     supervisor, stage, cut>>
      /\ UNCHANGED <<app, heartbeat, beat, ticks>>
  BY DEF Drain, DrainOutside, DrainEmpty, DrainWaits, WaitSucceeds, BudgetExpires, SnapshotPending,
         AbortPending, JoinAborted, ClaimDrainReport, HookReturns, state, tokio, workerVars
<1>2. TableInv' /\ BeatInv'
  BY <1>1, TasksAside
<1>3. hook # "Idle" /\ ~accepting
  BY DEF Drain, DrainOutside, DrainEmpty, DrainWaits, WaitSucceeds, BudgetExpires, SnapshotPending,
         AbortPending, JoinAborted, ClaimDrainReport, HookReturns, Moves, IInv, HookInv
<1>4. Retired' <=> Retired
  BY <1>1 DEF Retired
<1>5. CASE DrainOutside
  <2>1. /\ hook = "Entered" /\ hook' = "NoRuntime" /\ tracked # {} /\ outside' = TRUE
        /\ aborted' = aborted \cup tasks /\ UNCHANGED <<pending, errors, drain_reported>>
    BY <1>5 DEF DrainOutside, Moves, AbortAll, state
  <2>2. TypeInv'
    BY <1>1, <2>1 DEF IInv, TypeInv, HookStates
  <2>3. AppInv'
    BY <1>1, <2>1 DEF IInv, AppInv, Cleaning, Unused
  <2>4. HookInv'
    BY <1>1, <1>4, <2>1 DEF IInv, HookInv
  <2>5. ReportInv'
    BY <1>1, <2>1 DEF IInv, ReportInv
  <2>6. AbortInv'
    BY <1>1, <2>1 DEF IInv, AbortInv, ReportInv
  <2>7. QED
    BY <1>2, <2>2, <2>3, <2>4, <2>5, <2>6 DEF IInv
<1>6. CASE DrainEmpty \/ DrainWaits \/ WaitSucceeds \/ BudgetExpires \/ JoinAborted
  <2>1. /\ UNCHANGED <<aborted, outside, pending, errors, drain_reported>>
        /\ \/ hook \in {"Entered", "Waiting", "Joining"} /\ hook' = "Drained" /\ tracked = {}
           \/ hook = "Entered" /\ hook' = "Waiting" /\ tracked # {}
           \/ hook = "Waiting" /\ hook' = "Expired"
    BY <1>6 DEF DrainEmpty, DrainWaits, WaitSucceeds, BudgetExpires, JoinAborted, Moves, TrackerDone,
                state, tokio
  <2>2. TypeInv'
    BY <1>1, <2>1 DEF IInv, TypeInv, HookStates
  <2>3. AppInv'
    BY <1>1, <2>1 DEF IInv, AppInv, Unused
  <2>4. HookInv'
    BY <1>1, <1>4, <2>1 DEF IInv, HookInv
  <2>5. ReportInv'
    BY <1>1, <2>1 DEF IInv, ReportInv
  <2>6. AbortInv'
    BY <1>1, <2>1 DEF IInv, AbortInv
  <2>7. QED
    BY <1>2, <2>2, <2>3, <2>4, <2>5, <2>6 DEF IInv
<1>7. CASE SnapshotPending \/ AbortPending
  <2>1. /\ UNCHANGED <<outside, errors, drain_reported>>
        /\ \/ hook = "Expired" /\ hook' = "Aborting" /\ pending' = tasks /\ UNCHANGED aborted
           \/ hook = "Aborting" /\ hook' = "Joining" /\ aborted' = aborted \cup tasks /\ UNCHANGED pending
    BY <1>7 DEF SnapshotPending, AbortPending, AbortAll, Moves, state, tokio
  <2>2. TypeInv'
    BY <1>1, <2>1 DEF IInv, TypeInv, HookStates
  <2>3. AppInv'
    BY <1>1, <2>1 DEF IInv, AppInv, Unused
  <2>4. HookInv'
    BY <1>1, <1>4, <2>1 DEF IInv, HookInv
  <2>5. ReportInv'
    BY <1>1, <2>1 DEF IInv, ReportInv
  <2>6. tasks # {} => tracked # {}
    BY DEF IInv, TypeInv, TableInv, Listed
  <2>7. AbortInv'
    <3>1. CASE hook = "Aborting" /\ tasks # {}
      <4>1. pending # {} /\ tracked # {}
        BY <2>6, <3>1 DEF IInv, HookInv
      <4>2. errors # << >> \/ ~drain_reported
        BY <3>1, <4>1, SMTT(20) DEF IInv, ReportInv
      <4>3. QED
        BY <2>1, <3>1, <4>1, <4>2 DEF AbortInv
    <3>2. CASE hook = "Expired" \/ tasks = {}
      BY <1>1, <2>1, <3>2 DEF IInv, AbortInv
    <3>3. QED
      BY <2>1, <3>1, <3>2
  <2>8. QED
    BY <1>2, <2>2, <2>3, <2>4, <2>5, <2>7 DEF IInv
<1>8. CASE ClaimDrainReport
  <2>1. /\ UNCHANGED <<aborted, outside, pending, errors>> /\ drain_reported' = TRUE
        /\ \/ hook = "Drained" /\ hook' = IF drain_reported THEN "Idle" ELSE "Claimed"
           \/ hook = "NoRuntime" /\ hook' = IF drain_reported THEN "Idle" ELSE "ClaimedNoRuntime"
    BY <1>8 DEF ClaimDrainReport, tokio
  <2>2. TypeInv'
    BY <1>1, <2>1 DEF IInv, TypeInv, HookStates
  <2>3. AppInv'
    BY <1>1, <2>1 DEF IInv, AppInv, Unused, Cleaning
  <2>4. HookInv'
    BY <1>1, <1>3, <1>4, <2>1 DEF IInv, HookInv
  <2>5. ReportInv'
    BY <1>1, <2>1 DEF IInv, ReportInv
  <2>6. AbortInv'
    BY <1>1, <2>1 DEF IInv, AbortInv
  <2>7. QED
    BY <1>2, <2>2, <2>3, <2>4, <2>5, <2>6 DEF IInv
<1>9. CASE HookReturns
  <2>1. /\ UNCHANGED <<aborted, outside, pending, drain_reported>>
        /\ hook \in {"Claimed", "ClaimedNoRuntime"} /\ hook' = "Idle"
        /\ errors = << >> /\ errors' = errors \o Outcome /\ drain_reported
    BY <1>9 DEF HookReturns, state, tokio, IInv, ReportInv
  <2>2. errors' = IF hook = "ClaimedNoRuntime" THEN <<"no-runtime">>
                  ELSE IF terminal_failure # << >> THEN <<"panicked">>
                  ELSE IF pending # {} THEN <<"drain-timeout">> ELSE << >>
    BY <2>1, OutcomeFacts
  <2>3. TypeInv'
    BY <1>1, <2>1 DEF IInv, TypeInv, HookStates
  <2>4. AppInv'
    BY <1>1, <2>1 DEF IInv, AppInv, Unused, Cleaning
  <2>5. HookInv'
    BY <1>1, <1>3, <1>4, <2>1 DEF IInv, HookInv
  <2>6. ReportInv'
    BY <1>1, <1>3, <2>1, <2>2 DEF IInv, ReportInv, HookInv
  <2>7. AbortInv'
    <3>1. cut = {} /\ aborted # {} => hook = "ClaimedNoRuntime" \/ pending # {}
      BY <2>1 DEF IInv, AbortInv
    <3>2. cut = {} /\ aborted # {} => errors' # << >>
      BY <2>2, <3>1
    <3>3. QED
      BY <1>1, <2>1, <3>2 DEF AbortInv
  <2>8. QED
    BY <1>2, <2>3, <2>4, <2>5, <2>6, <2>7 DEF IInv
<1>10. QED
  BY <1>5, <1>6, <1>7, <1>8, <1>9 DEF Drain

-----------------------------------------------------------------------------
(* The application and its heartbeat *)

\* Steps of the executor and its callers that leave the supervisor alone.
LEMMA ExecutorKeeps ==
    ASSUME IInv, UNCHANGED <<heartbeat, beat, ticks>>,
           \/ InitializeHost \/ InitializeHostFails \/ InitializeWorker \/ StartWorkerFails
           \/ BeginShutdown \/ CleanupDone \/ AppOver
    PROVE  IInv'
<1>1. /\ UNCHANGED <<accepting, next_id, tasks, terminal_failure, drain_reported, closed, tracked,
                     cancelled, aborted, task, stage, hook, pending, errors, outside, cut>>
      /\ \/ app = "Resolved" /\ app' \in {"Running", "HostReady"} /\ supervisor' = TRUE
         \/ /\ UNCHANGED supervisor
            /\ \/ app = "Resolved" /\ app' = "Failed"
               \/ app = "HostReady" /\ app' = "Initialized"
               \/ app = "Initialized" /\ app' = "RollingBack"
               \/ app = "Running" /\ app' = "ShuttingDown"
               \/ app = "RollingBack" /\ app' = "Failed" /\ Disposed
               \/ app = "ShuttingDown" /\ app' = "Stopped" /\ Disposed
               \/ app' = app
  BY DEF InitializeHost, InitializeHostFails, InitializeWorker, StartWorkerFails, BeginShutdown,
         CleanupDone, AppOver, Goes, vars, state, tokio, plugin, workerVars
<1>2. TypeInv'
  <2>1. app' \in AppStates
    BY <1>1 DEF IInv, TypeInv, AppStates
  <2>2. supervisor' \in BOOLEAN
    BY <1>1 DEF IInv, TypeInv
  <2> QED  BY <1>1, <2>1, <2>2 DEF IInv, TypeInv
<1>3. TableInv' /\ BeatInv'
  BY <1>1, TasksAside
<1>4. AppInv'
  BY <1>1 DEF IInv, AppInv, Unused
<1>5. Retired' => Retired
  BY <1>1 DEF Retired, IInv, AppInv
<1>6. HookInv'
  BY <1>1, <1>5 DEF IInv, HookInv, AppInv
<1>7. ReportInv' /\ AbortInv'
  BY <1>1 DEF IInv, ReportInv, AbortInv
<1>8. QED
  BY <1>2, <1>3, <1>4, <1>6, <1>7 DEF IInv

\* A future that waits for a hook is dropped, and the application with it or not.
LEMMA CutKeeps ==
    ASSUME IInv, ShutdownAgain \/ DropApp PROVE IInv'
<1>1. /\ UNCHANGED <<accepting, next_id, tasks, terminal_failure, drain_reported, closed, tracked,
                     cancelled, aborted, task, supervisor, pending, errors, outside>>
      /\ UNCHANGED <<heartbeat, beat, ticks>>
      /\ hook' = "Idle" /\ cut' = IF hook = "Idle" THEN cut ELSE cut \cup {stage}
      /\ hook \in {"Idle", "Waiting", "Joining"}
  BY DEF ShutdownAgain, RestartShutdown, DropApp, state, tokio, workerVars, IInv, AppInv
<1>2. \/ app = "ShuttingDown" /\ app' = app /\ stage' = "Serving" /\ stage # "RolledBack"
      \/ app \in {"Running", "ShuttingDown"} /\ app' = "Dropped" /\ stage' = stage
         /\ (hook = "Idle" => app = "Running")
  BY <1>1 DEF ShutdownAgain, RestartShutdown, DropApp, Cleaning, workerVars, IInv, AppInv
<1>3. TypeInv'
  BY <1>1, <1>2 DEF IInv, TypeInv, AppStates, Stages, HookStates
<1>4. TableInv' /\ BeatInv'
  BY <1>1, TasksAside
<1>5. AppInv'
  BY <1>1, <1>2 DEF IInv, AppInv, Unused
<1>6. HookInv'
  <2>1. Retired' => Retired
    BY <1>1, <1>2 DEF Retired, IInv, AppInv
  <2>2. Retired' /\ "Disposed" \notin cut' => hook = "Idle" /\ "Disposed" \notin cut
    BY <1>1, <1>2, <2>1 DEF IInv, HookInv, AppInv, Retired
  <2>3. stage' = "Stopped" => cut' # {}
    BY <1>1, <1>2 DEF IInv, AppInv
  <2>4. QED
    BY <1>1, <1>2, <2>1, <2>2, <2>3 DEF IInv, HookInv
<1>7. ReportInv'
  BY <1>1 DEF IInv, ReportInv
<1>8. AbortInv'
  BY <1>1 DEF IInv, AbortInv
<1>9. QED
  BY <1>3, <1>4, <1>5, <1>6, <1>7, <1>8 DEF IInv

\* A turn of the heartbeat's loop.
LEMMA HeartbeatKeeps ==
    ASSUME IInv, NEW t \in TaskIds, Heartbeats(t) PROVE IInv'
<1>1. CASE CheckToken(t) /\ cancelled
  <2>1. TaskStep(t) /\ beat = "Checking" /\ UNCHANGED workerVars
    BY <1>1 DEF CheckToken, TaskStep, workerVars
  <2>2. QED
    BY <2>1, TaskStepKeeps
<1>2. CASE Wake(t) \/ Count(t) \/ (CheckToken(t) /\ ~cancelled)
  <2>1. /\ UNCHANGED <<accepting, next_id, tasks, terminal_failure, drain_reported, closed, tracked,
                       cancelled, aborted, task, supervisor, stage, hook, pending, errors, outside, cut>>
        /\ UNCHANGED <<app, heartbeat>> /\ t \in heartbeat
        /\ \/ beat' \in {"Waiting", "Checking"}
           \/ beat' = "Counting" /\ task[t] = "Running"
        /\ ticks' = ticks \/ ticks' = (ticks + 1) % TickRange
    BY <1>2 DEF Wake, Count, CheckToken, IsHeartbeat, vars, state, tokio, plugin
  <2>2. ticks' \in Nat
    BY <2>1, TickAssumption DEF IInv, TypeInv
  <2>3. TypeInv'
    BY <2>1, <2>2 DEF IInv, TypeInv
  <2>4. TableInv'
    BY <2>1 DEF IInv, TableInv
  <2>5. AppInv'
    BY <2>1 DEF IInv, AppInv
  <2>6. HookInv'
    BY <2>1 DEF IInv, HookInv, Retired
  <2>7. ReportInv' /\ AbortInv'
    BY <2>1 DEF IInv, ReportInv, AbortInv
  <2>8. BeatInv'
    BY <2>1 DEF IInv, BeatInv
  <2>9. QED
    BY <2>3, <2>4, <2>5, <2>6, <2>7, <2>8 DEF IInv
<1>3. QED
  BY <1>1, <1>2 DEF Heartbeats

\* An application that was only resolved satisfies the invariant.
LEMMA InitIInv == WorkerInit => IInv
<1> SUFFICES ASSUME WorkerInit PROVE IInv
  OBVIOUS
<1>1. TypeInv
  <2>1. /\ accepting \in BOOLEAN /\ drain_reported \in BOOLEAN /\ closed \in BOOLEAN
        /\ cancelled \in BOOLEAN /\ supervisor \in BOOLEAN /\ outside \in BOOLEAN
    BY DEF WorkerInit
  <2>2. next_id \in 1..LastId /\ ticks \in Nat
    BY SupervisorAssumption DEF WorkerInit
  <2>3. /\ task \in [TaskIds -> TaskStates] /\ stage \in Stages /\ hook \in HookStates
        /\ app \in AppStates /\ beat \in {"Waiting", "Checking", "Counting"}
    BY DEF WorkerInit, Stages, HookStates, AppStates, TaskStates
  <2>4. QED
    BY <2>1, <2>2, <2>3 DEF WorkerInit, TypeInv
<1>2. TableInv
  <2>1. Cardinality(tasks) <= MaxTasks
    BY FS_EmptySet, SupervisorAssumption DEF WorkerInit
  <2>2. QED
    BY <2>1, SupervisorAssumption DEF WorkerInit, TableInv, Listed, TaskIds
<1>3. AppInv
  BY DEF WorkerInit, AppInv, Unused
<1>4. HookInv
  BY DEF WorkerInit, HookInv, Retired
<1>5. ReportInv /\ AbortInv /\ BeatInv
  BY DEF WorkerInit, ReportInv, AbortInv, BeatInv
<1>6. QED
  BY <1>1, <1>2, <1>3, <1>4, <1>5 DEF IInv

\* Every step of the executor, its callers, the tasks and the spawning threads
\* preserves it.
LEMMA NextIInv == IInv /\ [WorkerNext]_<<vars, workerVars>> => IInv'
<1> SUFFICES ASSUME IInv, [WorkerNext]_<<vars, workerVars>> PROVE IInv'
  OBVIOUS
<1>1. CASE UNCHANGED <<vars, workerVars>>
  <2>1. UNCHANGED <<accepting, next_id, tasks, terminal_failure, drain_reported, closed, tracked,
                    cancelled, aborted, task, supervisor, stage, hook, pending, errors, outside, cut,
                    app, heartbeat, beat, ticks>>
    BY <1>1 DEF vars, state, tokio, plugin, workerVars
  <2>2. TypeInv' /\ TableInv' /\ AppInv' /\ HookInv' /\ ReportInv' /\ AbortInv' /\ BeatInv'
    BY <2>1 DEF IInv, TypeInv, TableInv, AppInv, HookInv, ReportInv, AbortInv, BeatInv, Retired
  <2>3. QED
    BY <2>2 DEF IInv
<1>2. CASE InitializeHost \/ InitializeHostFails \/ InitializeWorker \/ StartWorkerFails
           \/ BeginShutdown \/ CleanupDone \/ AppOver
  <2>1. UNCHANGED <<heartbeat, beat, ticks>>
    BY <1>2 DEF InitializeHost, InitializeHostFails, InitializeWorker, StartWorkerFails,
                BeginShutdown, CleanupDone, AppOver, workerVars
  <2>2. QED
    BY <1>2, <2>1, ExecutorKeeps
<1>3. CASE InitializeWorkerFails \/ HostHook
  <2>1. /\ UNCHANGED <<heartbeat, beat, ticks>>
        /\ \/ Cleaning /\ (CallQuiesce \/ CallStop \/ CallDispose) /\ UNCHANGED app
           \/ app = "HostReady" /\ app' = "RollingBack" /\ RollbackDispose
    BY <1>3 DEF InitializeWorkerFails, HostHook, Goes, workerVars
  <2>2. QED
    BY <2>1, HookKeeps
<1>4. CASE StartWorker
  <2>1. Spawn
    BY <1>4 DEF StartWorker
  <2>2. QED
    BY <1>4, <2>1, SpawnKeeps
<1>5. CASE SpawnPeer
  <2>1. CASE Spawn
    BY <1>5, <2>1, SpawnKeeps DEF SpawnPeer
  <2>2. CASE SpawnRefused
    BY <1>1, <1>5, <2>2 DEF SpawnPeer, SpawnRefused
  <2>3. QED
    BY <1>5, <2>1, <2>2 DEF SpawnPeer
<1>6. CASE HostDrain
  BY <1>6, DrainKeeps DEF HostDrain
<1>7. CASE ShutdownAgain \/ DropApp
  BY <1>7, CutKeeps
<1>8. ASSUME NEW t \in TaskIds, Heartbeats(t) PROVE IInv'
  BY <1>8, HeartbeatKeeps
<1>9. ASSUME NEW t \in TaskIds, PeerStep(t) \/ EndStep(t) PROVE IInv'
  <2>1. /\ TaskStep(t) /\ UNCHANGED workerVars
        /\ t \in heartbeat /\ task[t] = "Running" => beat # "Counting"
    BY <1>9 DEF PeerStep, EndStep, TaskStep, IsHeartbeat
  <2>2. QED
    BY <2>1, TaskStepKeeps
<1>10. QED
  BY <1>1, <1>2, <1>3, <1>4, <1>5, <1>6, <1>7, <1>8, <1>9 DEF WorkerNext, Executor

\* The inductive invariant holds in every reachable state.
THEOREM WorkerInvariance == WorkerSpec => []IInv
BY InitIInv, NextIInv, PTL DEF WorkerSpec

-----------------------------------------------------------------------------
(* Results *)

\* At most max_tasks tasks can run, under identities of their own, and the
\* tracker knows each of them (LiveTasksBounded).
THEOREM TasksAreBounded == WorkerSpec => []LiveTasksBounded
<1>1. IInv => LiveTasksBounded
  <2> SUFFICES ASSUME IInv PROVE LiveTasksBounded
    OBVIOUS
  <2> DEFINE R == {t \in TaskIds : task[t] = "Running"}
  <2>1. R \subseteq tasks
    BY DEF IInv, TableInv, Listed
  <2>2. IsFiniteSet(tasks) /\ Cardinality(tasks) \in Nat
    BY TableFinite DEF IInv
  <2>3. Cardinality(R) <= Cardinality(tasks) /\ Cardinality(R) \in Nat
    <3> HIDE DEF R
    <3> QED  BY <2>1, <2>2, FS_Subset, FS_CardinalityType
  <2>4. Cardinality(R) <= MaxTasks
    <3> HIDE DEF R
    <3> QED  BY <2>2, <2>3, SupervisorAssumption DEF IInv, TableInv
  <2>5. tasks \subseteq tracked /\ tracked = Live
    BY DEF IInv, TypeInv, TableInv, Live, Listed
  <2>6. next_id <= LastId /\ \A t \in TaskIds : t >= next_id => task[t] = "None"
    BY SupervisorAssumption DEF IInv, TypeInv, TableInv
  <2>7. QED
    BY <2>4, <2>5, <2>6 DEF LiveTasksBounded
<1>2. QED
  BY <1>1, WorkerInvariance, PTL

\* What the end of every hook means, on a Tokio runtime and not cut short: the
\* report was claimed, and nothing is left that could change it.
LEMMA DisposedFacts ==
    ASSUME IInv, Disposed, ~outside, "Disposed" \notin cut
    PROVE  /\ tracked = {} /\ ~accepting
           /\ terminal_failure # << >> => errors = <<"panicked">>
<1>1. Retired /\ hook = "Idle"
  BY DEF Disposed, Retired, IInv, HookInv
<1>2. drain_reported
  BY <1>1 DEF IInv, HookInv
<1>3. QED
  BY <1>1, <1>2 DEF IInv, ReportInv

\* Nothing that was admitted survives a drain, and nothing is admitted after it
\* (DrainLeavesNothing).
THEOREM DrainsLeaveNothing == WorkerSpec => []DrainLeavesNothing
<1>1. IInv => DrainLeavesNothing
  <2> SUFFICES ASSUME IInv, \/ hook \in {"Drained", "Claimed"}
                            \/ Disposed /\ ~outside /\ "Disposed" \notin cut
               PROVE  Live = {} /\ tasks = {} /\ ~Admits
    BY DEF DrainLeavesNothing
  <2>1. tracked = {} /\ ~accepting
    BY DisposedFacts DEF IInv, HookInv
  <2>2. tracked = Live /\ tasks \subseteq tracked
    BY DEF IInv, TypeInv, TableInv, Live, Listed
  <2>3. QED
    BY <2>1, <2>2 DEF Admits
<1>2. QED
  BY <1>1, WorkerInvariance, PTL

\* The hooks return one error at most, the panic when there was one, and one
\* whenever tasks were aborted (FailuresReportedOnce).
THEOREM FailuresAreReportedOnce == WorkerSpec => []FailuresReportedOnce
<1>1. IInv => FailuresReportedOnce
  <2> SUFFICES ASSUME IInv PROVE FailuresReportedOnce
    OBVIOUS
  <2>1. errors \in {<< >>, <<"no-runtime">>, <<"panicked">>, <<"drain-timeout">>}
    BY DEF IInv, ReportInv
  <2>2. errors # << >> => Len(errors) = 1
    <3>1. Len(<<"no-runtime">>) = 1 /\ Len(<<"panicked">>) = 1 /\ Len(<<"drain-timeout">>) = 1
      OBVIOUS
    <3>2. QED
      BY <2>1, <3>1
  <2>3. Len(<< >>) = 0
    OBVIOUS
  <2>4. Len(errors) <= 1
    BY <2>2, <2>3
  <2>5. Disposed /\ cut = {} /\ aborted # {} => errors # << >>
    BY DEF IInv, AbortInv, Disposed
  <2>6. Disposed /\ ~outside /\ "Disposed" \notin cut /\ terminal_failure # << >> =>
          errors = <<"panicked">>
    BY DisposedFacts
  <2>7. QED
    BY <2>2, <2>4, <2>5, <2>6 DEF FailuresReportedOnce
<1>2. QED
  BY <1>1, WorkerInvariance, PTL

\* No heartbeat is counted once the host's stop has returned, and none by an
\* application that failed to start (TicksEnd).
THEOREM TicksEndWithStop == WorkerSpec => TicksEnd
<1> DEFINE Ended == stage \in {"Stopped", "Disposed"} /\ hook = "Idle" /\ ~outside /\ cut = {}
<1>1. ASSUME IInv, [WorkerNext]_<<vars, workerVars>>, Ended PROVE UNCHANGED ticks
  <2>1. drain_reported /\ hook = "Idle" /\ ~outside
    BY <1>1 DEF IInv, HookInv, Retired
  <2>2. tracked = {}
    BY <1>1, <2>1 DEF IInv, ReportInv
  <2>3. \A t \in TaskIds : task[t] # "Running"
    BY <1>1, <2>2 DEF IInv, TableInv
  <2>4. \A t \in TaskIds : ~Count(t)
    BY <1>1, <2>3 DEF Count, IsHeartbeat, IInv, BeatInv
  <2>5. QED
    BY <1>1, <2>4
    DEF WorkerNext, Executor, InitializeHost, InitializeHostFails, InitializeWorker,
        InitializeWorkerFails, StartWorker, StartWorkerFails, HostHook, HostDrain, CleanupDone,
        BeginShutdown, ShutdownAgain, DropApp, SpawnPeer, AppOver, Heartbeats, Wake, CheckToken,
        PeerStep, EndStep, workerVars
<1>2. IInv /\ app = "Failed" => ticks = 0 /\ heartbeat = {}
  BY DEF IInv, AppInv, Unused
<1>3. IInv /\ [WorkerNext]_<<vars, workerVars>> =>
        [/\ stage \in {"Stopped", "Disposed"} /\ hook = "Idle" /\ ~outside /\ cut = {} => UNCHANGED ticks
         /\ app = "Failed" => ticks = 0 /\ heartbeat = {}]_<<vars, workerVars>>
  BY <1>1, <1>2
<1>4. QED
  BY <1>3, WorkerInvariance, PTL DEF WorkerSpec, TicksEnd
=============================================================================
