----------------------------- MODULE Lifecycle ------------------------------
(***************************************************************************)
(* The lifecycle executor of kernox-runtime (app.rs): ResolvedApp::start,  *)
(* its two rollbacks, and RunningApp::shutdown.                            *)
(*                                                                         *)
(* start() and shutdown() are async functions that await one plugin hook   *)
(* at a time, so a hook is two steps: the executor calls it, and it comes  *)
(* back with a result or by unwinding.  Between the two the caller may     *)
(* drop the future.  Dropping start()'s future drops the application;      *)
(* dropping shutdown()'s future leaves a RunningApp whose local failure    *)
(* list is gone, whose terminal report is unset, and on which shutdown()   *)
(* may be called again.                                                    *)
(*                                                                         *)
(* The Vec arguments `initialized`, `started`, `affected` and `rollback`   *)
(* of the code are prefixes of the startup order and are modelled by their *)
(* lengths.                                                                *)
(***************************************************************************)
EXTENDS ResolvedGraph, FiniteSets

CONSTANTS
    Graphs,       \* resolved graphs the application may be built from
    HookErrors,   \* error tags a plugin hook may fail with
    ValidTags,    \* those that are well-formed, see SafeTag
    MaxCancels    \* bound: how many shutdown() futures are dropped

VARIABLES
    graph,        \* the ResolvedGraph; constant after Init
    stage,        \* where the application is, see Stages
    phase,        \* the lifecycle phase whose loop is running
    at,           \* position in the startup order of the loop
    pending,      \* TRUE while the executor awaits the hook of order[at]
    reach,        \* length of the plugin list each cleanup phase walks
    primary,      \* the failure that began a rollback: << >> or <<record>>
    failures,     \* cleanup failures collected by the current call
    registry,     \* committed provisions of each plugin
    scope,        \* state of the application scope
    terminal,     \* RunningApp::terminal, an Option: << >> or <<report>>
    observations, \* what the ObservationSink was given, in order
    calls,        \* history: how often each hook of each plugin was called
    last,         \* history: the hook each plugin was called with last
    since,        \* history: Len(observations) when the current call began
    cancels       \* how many shutdown() futures were dropped

vars == <<graph, stage, phase, at, pending, reach, primary, failures, registry,
          scope, terminal, observations, calls, last, since, cancels>>

-----------------------------------------------------------------------------
StartupPhases == {"Initialize", "Start"}
CleanupPhases == {"Quiesce", "Stop", "Dispose"}
Phases == StartupPhases \cup CleanupPhases

Stages == {"Resolved", "Initializing", "Starting", "RollingBack", "Failed",
           "Running", "ShuttingDown", "Interrupted", "Stopped", "Dropped"}

CommitTags == {"Undeclared", "VersionMismatch", "Missing"}
InvalidTag == "plugin.invalid-error-tag"

\* safe_tag: an ill-formed error tag is replaced before it is reported.
SafeTag(tag) == IF tag \in ValidTags THEN tag ELSE InvalidTag

Tags == ValidTags \cup CommitTags \cup {InvalidTag}

FailureRecord == [phase : Phases, plugin : Plugins, tag : Tags]
Observation == [phase : Phases, plugin : Plugins, outcome : Tags \cup {"Succeeded"}]

ASSUME GraphsAssumption == \A g \in Graphs : IsResolvedGraph(g)
ASSUME CancelsAssumption == MaxCancels \in Nat
\* LifecycleOutcome is an enum: no error tag stands for success.
ASSUME TagsAssumption == "Succeeded" \notin ValidTags

N == Len(graph.order)
Current == graph.order[at]

-----------------------------------------------------------------------------
Init ==
    /\ graph \in Graphs
    /\ stage = "Resolved"
    /\ phase = "Initialize"
    /\ at = 1
    /\ pending = FALSE
    /\ reach = [f \in CleanupPhases |-> 0]
    /\ primary = << >>
    /\ failures = << >>
    /\ registry = [p \in Plugins |-> NoProvisions]
    /\ scope = "Open"
    /\ terminal = << >>
    /\ observations = << >>
    /\ calls = [p \in Plugins |-> [f \in Phases |-> 0]]
    /\ last = [p \in Plugins |-> "None"]
    /\ since = 0
    /\ cancels = 0

(***************************************************************************)
(* What every hook shares: the call, and the record of its outcome.        *)
(***************************************************************************)
CallHook ==
    /\ ~pending
    /\ pending' = TRUE
    /\ calls' = [calls EXCEPT ![Current][phase] = @ + 1]
    /\ last' = [last EXCEPT ![Current] = phase]

Record(tag) == [phase |-> phase, plugin |-> Current, tag |-> tag]

Observe(outcome) ==
    observations' = Append(observations,
                           [phase |-> phase, plugin |-> Current, outcome |-> outcome])

(***************************************************************************)
(* The plugin lists of the three cleanup walks.  The failing plugin is the *)
(* one at position `at`.                                                   *)
(***************************************************************************)
\* Seeded defect: the plugin whose initialize failed is not disposed.
RollbackInitializeReach_SkipsFailed == [f \in CleanupPhases |-> IF f = "Dispose" THEN at - 1 ELSE 0]

RollbackInitializeReach == [f \in CleanupPhases |-> IF f = "Dispose" THEN at ELSE 0]

\* Seeded defect: only the plugins whose start was reached are disposed.
RollbackStartReach_DisposesStarted == [f \in CleanupPhases |-> at]

RollbackStartReach == [f \in CleanupPhases |-> IF f = "Dispose" THEN N ELSE at]

\* Seeded defect: the shutdown loop misses the last plugin of the order.
ShutdownReach_MissesLast == [f \in CleanupPhases |-> IF N = 0 THEN 0 ELSE N - 1]

\* Seeded defect: the shutdown loop runs one past the end.
ShutdownReach_OnePast == [f \in CleanupPhases |-> N + 1]

ShutdownReach == [f \in CleanupPhases |-> N]

\* Seeded defect: admission stays open while cleanup runs.
BeginClose_Forgotten == scope

\* The application scope's begin_close: Closed stays Closed.
BeginClose == IF scope = "Closed" THEN "Closed" ELSE "Closing"

FinishClose == "Closed"

-----------------------------------------------------------------------------
(* ResolvedApp::start, initialize_all, initialize_one *)

CallStart ==
    /\ stage = "Resolved"
    /\ stage' = "Initializing"
    /\ UNCHANGED <<graph, phase, at, pending, reach, primary, failures, registry,
                   scope, terminal, observations, calls, last, since, cancels>>

CallInitialize ==
    /\ stage = "Initializing" /\ at <= N
    /\ CallHook
    /\ UNCHANGED <<graph, stage, phase, at, reach, primary, failures, registry,
                   scope, terminal, observations, since, cancels>>

\* The hook returned provisions and Registry::commit accepted them.
InitializeOk(staged) ==
    /\ stage = "Initializing" /\ pending
    /\ CommitErrors(graph.offers[Current], staged) = {}
    /\ registry' = [registry EXCEPT ![Current] = Insert(@, staged)]
    /\ Observe("Succeeded")
    /\ pending' = FALSE
    /\ at' = at + 1
    /\ UNCHANGED <<graph, stage, phase, reach, primary, failures, scope, terminal,
                   calls, last, since, cancels>>

\* rollback_initialize: observe, remember the primary failure, close
\* admission, and walk dispose over order[1..at].
RollbackInitialize(tag) ==
    /\ primary' = <<Record(tag)>>
    /\ Observe(tag)
    /\ scope' = BeginClose
    /\ reach' = RollbackInitializeReach
    /\ stage' = "RollingBack"
    /\ phase' = "Dispose"
    /\ at' = RollbackInitializeReach["Dispose"]
    /\ pending' = FALSE
    /\ since' = Len(observations) + 1
    /\ UNCHANGED <<graph, failures, registry, terminal, calls, last, cancels>>

\* The hook returned an error or unwound (run_plugin_hook maps the unwind to
\* the tag plugin.hook-panicked).
InitializeErr(tag) ==
    /\ stage = "Initializing" /\ pending
    /\ RollbackInitialize(SafeTag(tag))

\* The hook returned provisions that Registry::commit refused.
CommitRefused(staged) ==
    /\ stage = "Initializing" /\ pending
    /\ \E tag \in CommitErrors(graph.offers[Current], staged) : RollbackInitialize(tag)

InitializeAllDone ==
    /\ stage = "Initializing" /\ at > N
    /\ stage' = "Starting"
    /\ phase' = "Start"
    /\ at' = 1
    /\ UNCHANGED <<graph, pending, reach, primary, failures, registry, scope,
                   terminal, observations, calls, last, since, cancels>>

-----------------------------------------------------------------------------
(* start_all, start_one *)

CallStartHook ==
    /\ stage = "Starting" /\ at <= N
    /\ CallHook
    /\ UNCHANGED <<graph, stage, phase, at, reach, primary, failures, registry,
                   scope, terminal, observations, since, cancels>>

StartOk ==
    /\ stage = "Starting" /\ pending
    /\ Observe("Succeeded")
    /\ pending' = FALSE
    /\ at' = at + 1
    /\ UNCHANGED <<graph, stage, phase, reach, primary, failures, registry, scope,
                   terminal, calls, last, since, cancels>>

\* start_one's error path and rollback_start: quiesce and stop order[1..at],
\* then dispose every initialized plugin.
StartErr(tag) ==
    /\ stage = "Starting" /\ pending
    /\ primary' = <<Record(SafeTag(tag))>>
    /\ Observe(SafeTag(tag))
    /\ scope' = BeginClose
    /\ reach' = RollbackStartReach
    /\ stage' = "RollingBack"
    /\ phase' = "Quiesce"
    /\ at' = RollbackStartReach["Quiesce"]
    /\ pending' = FALSE
    /\ since' = Len(observations) + 1
    /\ UNCHANGED <<graph, failures, registry, terminal, calls, last, cancels>>

StartAllDone ==
    /\ stage = "Starting" /\ at > N
    /\ stage' = "Running"
    /\ UNCHANGED <<graph, phase, at, pending, reach, primary, failures, registry,
                   scope, terminal, observations, calls, last, since, cancels>>

-----------------------------------------------------------------------------
(* The cleanup walk: ResolvedApp::cleanup and the loops of shutdown. *)

Cleaning == stage \in {"RollingBack", "ShuttingDown"}

CallCleanup ==
    /\ Cleaning /\ at > 0
    /\ CallHook
    /\ UNCHANGED <<graph, stage, phase, at, reach, primary, failures, registry,
                   scope, terminal, observations, since, cancels>>

CleanupOk ==
    /\ Cleaning /\ pending
    /\ Observe("Succeeded")
    /\ pending' = FALSE
    /\ at' = at - 1
    /\ UNCHANGED <<graph, stage, phase, reach, primary, failures, registry, scope,
                   terminal, calls, last, since, cancels>>

\* Seeded defect: the first cleanup error ends its phase.
CleanupErr_StopsPhase(tag) ==
    /\ Cleaning /\ pending
    /\ failures' = Append(failures, Record(SafeTag(tag)))
    /\ Observe(SafeTag(tag))
    /\ pending' = FALSE
    /\ at' = 0
    /\ UNCHANGED <<graph, stage, phase, reach, primary, registry, scope, terminal,
                   calls, last, since, cancels>>

\* Seeded defect: only the latest cleanup failure is kept.
CleanupErr_KeepsLatest(tag) ==
    /\ Cleaning /\ pending
    /\ failures' = <<Record(SafeTag(tag))>>
    /\ Observe(SafeTag(tag))
    /\ pending' = FALSE
    /\ at' = at - 1
    /\ UNCHANGED <<graph, stage, phase, reach, primary, registry, scope, terminal,
                   calls, last, since, cancels>>

\* The failure is kept and the walk goes on.
CleanupErr(tag) ==
    /\ Cleaning /\ pending
    /\ failures' = Append(failures, Record(SafeTag(tag)))
    /\ Observe(SafeTag(tag))
    /\ pending' = FALSE
    /\ at' = at - 1
    /\ UNCHANGED <<graph, stage, phase, reach, primary, registry, scope, terminal,
                   calls, last, since, cancels>>

\* Seeded defect: plugins are disposed without having been stopped.
NextPhase_SkipsStop(f) == "Dispose"

NextPhase(f) == IF f = "Quiesce" THEN "Stop" ELSE "Dispose"

NextCleanupPhase ==
    /\ Cleaning /\ at = 0 /\ phase # "Dispose"
    /\ phase' = NextPhase(phase)
    /\ at' = reach[NextPhase(phase)]
    /\ UNCHANGED <<graph, stage, pending, reach, primary, failures, registry, scope,
                   terminal, observations, calls, last, since, cancels>>

\* Seeded defect: the rollback is over but its failure is never returned.
RollbackDone_NeverReturns ==
    /\ stage = "RollingBack" /\ at = 0 /\ phase = "Dispose"
    /\ scope' = FinishClose
    /\ UNCHANGED <<graph, stage, phase, at, pending, reach, primary, failures, registry,
                   terminal, observations, calls, last, since, cancels>>

RollbackDone ==
    /\ stage = "RollingBack" /\ at = 0 /\ phase = "Dispose"
    /\ scope' = FinishClose
    /\ stage' = "Failed"
    /\ UNCHANGED <<graph, phase, at, pending, reach, primary, failures, registry,
                   terminal, observations, calls, last, since, cancels>>

-----------------------------------------------------------------------------
(* RunningApp::shutdown *)

\* Seeded defect: the cached report is ignored.
CallShutdown_Uncached ==
    /\ stage \in {"Running", "Interrupted", "Stopped"}
    /\ scope' = BeginClose
    /\ reach' = ShutdownReach
    /\ stage' = "ShuttingDown"
    /\ phase' = "Quiesce"
    /\ at' = ShutdownReach["Quiesce"]
    /\ failures' = << >>
    /\ since' = Len(observations)
    /\ UNCHANGED <<graph, pending, primary, registry, terminal, observations,
                   calls, last, cancels>>

CallShutdown ==
    /\ stage \in {"Running", "Interrupted", "Stopped"}
    /\ terminal = << >>
    /\ scope' = BeginClose
    /\ reach' = ShutdownReach
    /\ stage' = "ShuttingDown"
    /\ phase' = "Quiesce"
    /\ at' = ShutdownReach["Quiesce"]
    /\ failures' = << >>
    /\ since' = Len(observations)
    /\ UNCHANGED <<graph, pending, primary, registry, terminal, observations,
                   calls, last, cancels>>

ShutdownDone ==
    /\ stage = "ShuttingDown" /\ at = 0 /\ phase = "Dispose"
    /\ scope' = FinishClose
    /\ terminal' = <<failures>>
    /\ stage' = "Stopped"
    /\ UNCHANGED <<graph, phase, at, pending, reach, primary, failures, registry,
                   observations, calls, last, since, cancels>>

\* shutdown() on a stopped application hands out the cached report.
CallShutdownAgain ==
    /\ stage = "Stopped" /\ terminal # << >>
    /\ UNCHANGED vars

-----------------------------------------------------------------------------
(* The caller drops a future or the application. *)

\* Only an awaited hook can be cut off; its observation is never emitted.
DropShutdownFuture ==
    /\ stage = "ShuttingDown" /\ pending
    /\ cancels < MaxCancels
    /\ cancels' = cancels + 1
    /\ stage' = "Interrupted"
    /\ pending' = FALSE
    /\ failures' = << >>
    /\ UNCHANGED <<graph, phase, at, reach, primary, registry, scope, terminal,
                   observations, calls, last, since>>

\* start() owns the ResolvedApp, so its future takes the plugins with it.
DropStartFuture ==
    /\ stage \in {"Initializing", "Starting", "RollingBack"} /\ pending
    /\ stage' = "Dropped"
    /\ pending' = FALSE
    /\ UNCHANGED <<graph, phase, at, reach, primary, failures, registry, scope,
                   terminal, observations, calls, last, since, cancels>>

DropApp ==
    /\ stage \in {"Resolved", "Running", "Interrupted"}
    /\ stage' = "Dropped"
    /\ UNCHANGED <<graph, phase, at, pending, reach, primary, failures, registry,
                   scope, terminal, observations, calls, last, since, cancels>>

\* Nothing is left to do once start() failed or the application is gone.
Ended == stage \in {"Failed", "Dropped"} /\ UNCHANGED vars

-----------------------------------------------------------------------------
HookReturns ==
    \/ \E staged \in ProvisionSet : InitializeOk(staged) \/ CommitRefused(staged)
    \/ \E tag \in HookErrors : InitializeErr(tag) \/ StartErr(tag) \/ CleanupErr(tag)
    \/ StartOk
    \/ CleanupOk

\* Everything start() and shutdown() do once they are called and polled.
Executor ==
    \/ CallInitialize \/ InitializeAllDone \/ CallStartHook \/ StartAllDone
    \/ CallCleanup \/ NextCleanupPhase \/ RollbackDone \/ ShutdownDone
    \/ HookReturns

Caller ==
    \/ CallStart \/ CallShutdown \/ CallShutdownAgain
    \/ DropShutdownFuture \/ DropStartFuture \/ DropApp

Next == Executor \/ Caller \/ Ended

\* A called future is polled and every hook eventually returns; the caller
\* owes nothing.
Spec == Init /\ [][Next]_vars /\ WF_vars(Executor)

-----------------------------------------------------------------------------
(* capability_from: what the holder of a RunningApp gets for a root export. *)

\* Seeded defect: only a stored report closes access.
CapabilityFrom_UntilReported(provider, capability, marker) ==
    IF terminal # << >> THEN "ApplicationUnavailable"
    ELSE Get(registry, provider, capability, marker)

CapabilityFrom(provider, capability, marker) ==
    IF terminal # << >> \/ scope # "Open" THEN "ApplicationUnavailable"
    ELSE Get(registry, provider, capability, marker)

-----------------------------------------------------------------------------
(* Properties *)

\* The executor's position.
PositionOK ==
    /\ stage \in Stages
    /\ phase \in Phases
    /\ at \in 0..(N + 1)
    /\ pending \in BOOLEAN
    /\ reach \in [CleanupPhases -> 0..N]

\* The application it works on.
AppOK ==
    /\ graph \in Graphs
    /\ registry \in [Plugins -> ProvisionSet]
    /\ scope \in {"Open", "Closing", "Closed"}
    /\ cancels \in 0..MaxCancels

\* What it reports.
ReportsOK ==
    /\ primary \in Seq(FailureRecord) /\ Len(primary) <= 1
    /\ failures \in Seq(FailureRecord)
    /\ terminal \in Seq(Seq(FailureRecord)) /\ Len(terminal) <= 1
    /\ observations \in Seq(Observation)
    /\ since \in 0..Len(observations)

HistoryOK ==
    /\ calls \in [Plugins -> [Phases -> Nat]]
    /\ last \in [Plugins -> Phases \cup {"None"}]

\* Every variable holds a value of its type; in particular the executor's loops
\* stay within the startup order.
TypeOK == PositionOK /\ AppOK /\ ReportsOK /\ HistoryOK

Members == {graph.order[i] : i \in 1..N}

\* While a plugin's initialize or start hook runs, each capability it is bound
\* to is published by its provider at the offered version, and that provider
\* has not been disposed (initialize_one, Registry::commit, Registry::get).
DependenciesAvailable ==
    (pending /\ phase \in StartupPhases) =>
        \A e \in graph.edges : e.consumer = Current =>
            /\ \A m \in Markers :
                Get(registry, e.provider, e.capability, m) # "MissingProvision"
            /\ registry[e.provider][e.capability].version
                  = graph.offers[e.provider][e.capability]
            /\ calls[e.provider]["Dispose"] = 0

\* A root export of a running application is there, and from the first cleanup
\* hook on, in every later state, a lookup is refused, also between a dropped
\* shutdown() and the next one (capability_from).
RootAccessBoundary ==
    \A p \in Members : \A c \in DOMAIN graph.offers[p] : \A m \in Markers :
        /\ stage = "Running" =>
             CapabilityFrom(p, c, m) \notin {"ApplicationUnavailable", "MissingProvision"}
        /\ (\E q \in Plugins, f \in CleanupPhases : calls[q][f] > 0) =>
             CapabilityFrom(p, c, m) = "ApplicationUnavailable"

\* When start() returns a failure, exactly what was begun has been undone:
\* each plugin whose initialize was called was disposed once, each whose start
\* was called was quiesced and stopped once, and no other hook ran
\* (rollback_initialize, rollback_start).
FailedStartIsUndone ==
    stage = "Failed" => \A p \in Plugins :
        /\ calls[p]["Initialize"] <= 1
        /\ calls[p]["Dispose"] = calls[p]["Initialize"]
        /\ calls[p]["Quiesce"] = calls[p]["Start"]
        /\ calls[p]["Stop"] = calls[p]["Start"]

\* When shutdown() completes, every hook of every plugin has run, startup hooks
\* once and cleanup hooks once more than there were dropped shutdown() futures
\* at most (shutdown).
ShutdownIsComplete ==
    stage = "Stopped" => \A p \in Members :
        /\ calls[p]["Initialize"] = 1 /\ calls[p]["Start"] = 1
        /\ \A f \in CleanupPhases : calls[p][f] \in 1..(1 + cancels)

\* A consumer's hook never runs ahead of its provider's on the way up, and a
\* provider's never ahead of its consumer's on the way down, counting only
\* hooks the consumer is due (startup_order walked forwards and backwards).
DependencyOrder ==
    \A e \in graph.edges :
        LET n(p, f) == calls[p][f]
        IN  /\ \A f \in StartupPhases : n(e.consumer, f) <= n(e.provider, f)
            /\ n(e.consumer, "Start") > 0 => \A f \in {"Quiesce", "Stop"} :
                 n(e.provider, f) <= n(e.consumer, f)
            /\ n(e.consumer, "Initialize") > 0 =>
                 n(e.provider, "Dispose") <= n(e.consumer, "Dispose")

\* Phases do not overlap: no start before every initialize was called, no stop
\* before every started plugin was quiesced, no dispose before every started
\* plugin was stopped, in each attempt (start, rollback_start, shutdown).
PhaseBarriers ==
    \A p, q \in Members :
        /\ calls[p]["Start"] <= calls[q]["Initialize"]
        /\ calls[q]["Start"] > 0 =>
             /\ calls[p]["Stop"] <= calls[q]["Quiesce"]
             /\ calls[p]["Dispose"] <= calls[q]["Stop"]

Failed(o) == o.outcome # "Succeeded"
AsRecord(o) == [phase |-> o.phase, plugin |-> o.plugin, tag |-> o.outcome]

FailedSince(obs, from) == {i \in (from + 1)..Len(obs) : Failed(obs[i])}
FailedUpTo(obs, from, i) == {j \in FailedSince(obs, from) : j <= i}

\* A list of failures reports what was observed since `from`: its k-th record is
\* that of the k-th failed observation.
Reports(list, obs, from) ==
    /\ Len(list) = Cardinality(FailedSince(obs, from))
    /\ \A i \in FailedSince(obs, from) :
         list[Cardinality(FailedUpTo(obs, from, i))] = AsRecord(obs[i])

\* What the caller is told is what was observed: a LifecycleFailure carries the
\* primary and every cleanup failure in the order they happened, and a report
\* carries every failure of the shutdown() call that completed
\* (LifecycleFailure, ShutdownReport, emit_observation).
FailuresAccounted ==
    /\ stage = "Failed" => Reports(primary \o failures, observations, 0)
    /\ stage = "Stopped" => Len(terminal) = 1 /\ Reports(terminal[1], observations, since)

\* A hook sees the scope the contract promises: Open while starting up,
\* Closing during cleanup; Closed only once the last hook has come back.
HooksSeeScope ==
    /\ pending /\ phase \in StartupPhases => scope = "Open"
    /\ pending /\ phase \in CleanupPhases => scope = "Closing"
    /\ scope = "Closed" => stage \in {"Failed", "Stopped"}

\* Once shutdown() has stored its report, no later call runs a hook or changes
\* the report (RunningApp::terminal).
ReportIsFinal ==
    [][terminal # << >> => UNCHANGED <<terminal, calls, registry, observations>>]_vars

\* What ShutdownReport::is_clean says: an empty report means that every cleanup
\* hook completed successfully.
CleanMeansAllSucceeded ==
    (stage = "Stopped" /\ terminal = <<<< >>>>) =>
        \A i \in 1..Len(observations) :
            observations[i].phase \in CleanupPhases => ~Failed(observations[i])

\* A start() or shutdown() whose future is kept returns, failing hooks or not:
\* the application runs or start() has failed after its rollback, and a report is
\* there or the future was dropped.
CallsReturn ==
    /\ stage = "Initializing" ~> stage \in {"Running", "Failed", "Dropped"}
    /\ stage = "ShuttingDown" ~> stage \in {"Stopped", "Interrupted"}
=============================================================================
