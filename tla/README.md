# Kernox: verification project

TLA+ models of the Kernox capability kernel: the resolver that turns plugin
descriptors into a startup order, the lifecycle executor that walks it, the two
hosts that run work in the resulting application, and the tools around them: the
`cargo kernox` command, the conformance oracle of the test kit, the benchmark
gate and the release of the crates. TLC checks the models on
small instances; TLAPS proves the central results for instances of any size.

Paths below are relative to the repository. `PROJECT.json` lists, for every
definition, the source lines it stands for, and for every property a mutation of
the modelled code that breaks it (operators named `<Definition>_<Defect>`, kept
next to the definition they alter and used by no specification).

## 1. The system

A Kernox application is built once, run once and shut down once.

1. **Descriptors** (`kernox-core/src/descriptor.rs`). A plugin declares the
   capabilities it provides (a version each), those it requires (a version range
   and a cardinality each) and the plugins it conflicts with.
2. **Resolver** (`kernox-core/src/graph.rs`). `resolve` validates limits,
   identities, conflicts and bindings, selects providers for each requirement,
   and sorts the plugins (`topological_order`, with `find_cycle` to explain a
   failure). The result is an immutable `ResolvedGraph`; `GraphReport` is its
   exported form, `accept` the gate for one that was decoded.
3. **Application builder** (`kernox-runtime/src/app.rs`, `host.rs`).
   `AppBuilder::resolve` resolves the graph, negotiates host requirements and
   collects the plugin instances.
4. **Lifecycle executor** (`kernox-runtime/src/app.rs`, `capability.rs`,
   `scope.rs`, `observation.rs`). `start` runs initialize for each plugin in
   startup order, committing what it publishes to the registry, then start for
   each; a failure rolls back. `shutdown` runs quiesce, stop and dispose, each
   over all plugins in reverse order, goes on after failures and stores a
   terminal report.
5. **Serverless host** (`kernox-host-serverless/src/lib.rs`). Concurrent
   invocations against a capacity, each in a child scope of the application's.
6. **Tokio task host** (`kernox-host-tokio/src/lib.rs`). A plugin that supervises
   spawned tasks and drains them within a budget in its own cleanup hooks;
   `examples/worker-app` is an application of that plugin and a heartbeat.
7. **Command line** (`cargo-kernox/src/main.rs`). Reads a bounded composition,
   resolves it and prints a summary, the report or a DOT graph;
   `check --verified` adds `verify_graph_attribution` (`attribution.rs`).
8. **Test kit** (`kernox-testkit/src`). `verify_application` judges one run of an
   application; probe plugins fail where a plan says so; a recorder keeps what
   the executor observed.
9. **Repository tools** (`xtask/src`, `.github/workflows/release.yml`). The
   benchmark recorder and the budget gate share files only; `release-check` and
   the publish job upload the crates one by one and read each back.

| Component | State | Operations | Hard behaviour | Correct when |
|---|---|---|---|---|
| resolver | descriptor and binding maps, requirement vector, edge set | `resolve` | passes with early returns, limits at the boundary, declaration order, binary search in a vector that must be sorted the way it compares | succeeds exactly for resolvable compositions, graph and diagnostics are what the descriptors say, refusals name a fault |
| startup order | indegrees, ready set, search stack | `topological_order`, `find_cycle` | parallel edges, unsigned subtraction, search started off the cycle | order topological, complete and determined by the graph; reported cycles are cycles |
| graph report | none | `report`, `accept` | decoded input that agrees in length only | accepts its own reports, refuses inconsistent ones |
| provision registry | committed provisions | `provide`, `commit`, `require`, `optional`, `all` | rests on the resolver's selection, the startup order and complete commits at once | a hook gets exactly the handles its descriptor and the bindings entitle it to |
| application builder | supplied host properties, instances by identity | `AppBuilder::resolve` | graph fits and host does not | nothing unresolvable reaches initialization |
| lifecycle executor | registry, scope, collected failures, terminal report | `start`, `shutdown`, `capability_from` | a hook fails, unwinds or is dropped half way; shutdown called again | dependency order both ways, complete undo, no failure lost, order of phases |
| scope tree | states, children registry, next id | `child`, `begin_close`, `finish_close` | concurrent child creation and pruning | registry holds the live scopes, close reaches all |
| serverless host | `accepting`, `active` | `begin_invocation`, drop, `shutdown` | check and increment racing; leaked invocations; order of field drops | live scopes within the maximum, no capacity lost |
| Tokio task host | task table, tracker, token, first panic, report flag | `spawn`, task end, `quiesce`, `stop`, `dispose` | spawn racing close, budget racing completion, panic during drain, dropped hook | bounded tasks, nothing survives a drain, one report, hooks return |
| worker example | tick counter, the heartbeat's position | hooks, heartbeat | check and count in two steps, shutdown dropped, a peer panics | no tick after the drain; the heartbeat leaves once cancelled |
| command line, attribution | none | `check`, `graph` | input at the bound, repeated packages | exit code and output say what the composition is |
| conformance oracle | plan, recorder | `verify_application` | failures in several hooks | the verdict follows from plan and sources |
| benchmark gate | files and their times | record, gate | recordings stopped, repeated, left behind; coarse clock; even median | a verdict rests on files of one recording, enough runs of it, at least half of them on its side |
| release | registry, job position | `release-check`, publish job | job killed and run again, misreported uploads, late readback | dependency order at every moment; success means every crate served with these bytes |

Interactions: the builder calls the resolver; the executor reads the
`ResolvedGraph`, calls plugin hooks one at a time and awaits them; the serverless
host owns a `RunningApp` and shares its scope tree between threads; the Tokio
plugin is called by the executor's hooks while its tasks run on worker threads.
The command line and the test kit are callers of resolver and executor, and share
the attribution check.

## 2. Modules

| Module | Models | State and actions |
|---|---|---|
| `TopologicalOrder` | `topological_order`, `find_cycle` | one action per loop iteration: `PopReady`, `StartSearch`, `TryNeighbour`, `Backtrack`. Identities are naturals, their order is `PluginId`'s |
| `Resolver` (extends `TopologicalOrder`) | `resolve` and everything it calls | `phase` says which part of the function runs; `Declare`, `ValidateBinding`, `SelectProviders`, `Link` are loop iterations; `AllSelected` sorts the requirements, computes diagnostics and hands the edges to `TopologicalOrder`, whose actions finish the call |
| `ResolutionContract` | - | the declarative meaning of resolving, over sets, and the resolver's properties |
| `ResolverPermuted` | two calls of `resolve` | the second with the descriptors in another order |
| `AppBuilder` (extends `ResolutionContract`) | `AppBuilder::resolve` | `Supply`, `Negotiate`, `NextPlugin` are iterations of `validate_host_requirements` |
| `GraphReport`, `ReportIntake` | `validate_report`, `report`, `accept` | operators; one-step machine over small decoded reports |
| `Attribution` | `verify_graph_attribution` | operators over the plugins' sources, used by the next module and by `Conformance` |
| `CargoKernox` (extends `ResolutionContract`) | `cargo-kernox/src/main.rs` | one action per way out of `read_bounded`, `load_and_resolve` and `run`; `CliResolves` is `Resolver`'s next-state relation |
| `ResolverCallers` (extends the previous one and `CapabilityAccess`) | the two programs that resolve a composition | a behaviour is a run of one of them: an application up to the end of its initialization, or the command |
| `Registry` | provision registry | operators: what a commit refuses, what a lookup returns |
| `CapabilityAccess` (extends `AppBuilder`) | `InitializationContext`, composed with builder, `Registry` and the initialization loop | `Access` is one call of `require`, `optional` or `all` by the running hook; `Commit`, `HookFails` end it |
| `ResolvedGraph` | what the runtime may assume of a graph | `IsResolvedGraph`: assumed by `Lifecycle`, delivered by `Resolver` (a part of `GraphIsExpected`) |
| `Lifecycle` | executor | a hook is two steps, call and return, so that the caller can drop the future between them (`DropStartFuture`, `DropShutdownFuture`). `Vec` arguments that are prefixes of the order are lengths (`reach`). Hook bodies succeed, fail with any tag, or unwind |
| `LifecycleContract` | the state machine of `docs/specs/20260815T185400Z-runtime-contract.md` | knows dependencies, no order |
| `LifecycleRefinement` | - | the mapping from `Lifecycle` to `LifecycleContract`, with fairness |
| `Conformance` (extends `Lifecycle`) | `verify_application`, `ProbePlugin`, `LifecycleRecorder` | `Lifecycle`'s actions, with hooks returning what the plan says; the harness calls `start` and `shutdown`. `MCConformance` puts this caller beside the application's owner |
| `Scope` | scope tree | one action per atomic store or mutex section |
| `ServerlessHost` (extends `Scope`) | host and its threads | `begin_invocation` in its atomic steps, the two field drops of `Invocation`, `shutdown` |
| `AdmissionContract`, `AdmissionRefinement` | the host contract of the same document | which scopes live and whether the host is open; the mapping from `ServerlessHost` |
| `TaskSupervisor` | Tokio plugin | worker threads (`TaskReturns`, `TaskUnwinds`, `Unregister`, `ReleaseToken`) against hooks (`Quiesce`, `DrainWaits`, `BudgetExpires`, `AbortPending`, ...) |
| `SpawnLock` | `spawn`, `TaskRegistration::drop`, `abort_all` | the inside of `TaskSupervisor`'s `Spawn`: who holds the state mutex at each statement |
| `WorkerApp` (extends `TaskSupervisor`) | applications of the Tokio plugin: alone, and in `examples/worker-app` | the executor's walk over the plugins, the heartbeat's loop in three steps, peers spawned through the published interface |
| `BenchBudget` | `xtask/src/bench_budget.rs` | the recorder's process, the files with their times, `Gate` with any arguments |
| `Release` | `release_check` and the publish step of `release.yml` | one action per outcome of each command of the job; the registry accepts and serves in steps of its own |
| `LifecycleProofs` | - | theorems about `Lifecycle`; what its callers may rely on, the documented state machine and the test kit's verdict included |
| `TopologicalOrderProofs`, `ResolverProofs`, `ResolverCallersProofs` | - | theorems about the sort, about `resolve`, and about builder, initialization and command line, each resting on the one before |
| `ServerlessHostProofs`, `WorkerProofs`, `BenchBudgetProofs`, `ReleaseProofs` | - | theorems about these components; that the host implements the admission contract |

`TaskTracker`, `AbortHandle`, the Tokio workers, `VersionReq::matches`, `cargo
package` and the registry belong to others; they are modelled from how this code
uses them and marked external. `slice::binary_search_by`, which
`ResolvedGraph::requirement` calls, is taken at what it promises (`Lookup`): it
finds an entry of a vector that is sorted around it and may miss any other. `SpawnLock` takes one fact from Tokio: a task
spawned on a runtime that has been shut down is dropped before `spawn` returns.

## 3. Runs

| Run | Instance | Shows |
|---|---|---|
| `lifecycle` | up to 3 plugins, all dependency relations, all failures, one dropped `shutdown()` for up to 2 plugins; probe applications of 2 or 3 plugins with up to 2 planned failures and all attributions over 3 packages | dependencies are published before use, a failed start is undone exactly, hooks see the right scope state; order, phase barriers, completeness, failure accounting and the root access boundary, also across an interrupted and repeated shutdown; the stored report is final; `start()` and `shutdown()` return (`CallsReturn`); the executor implements the documented lifecycle until a `shutdown()` is dropped (`ImplementsContract`); the oracle's verdict is the one plan and sources determine (`OracleIsRight`) |
| `shutdown_repeated` | 2 plugins, interrupted | **violation**, finding 1 |
| `shutdown_clean` | 2 plugins, interrupted | **violation**, finding 2 |
| `startup_order` | every graph of 4 plugins; of 3 with two parallel capabilities | topological, complete, determined by the graph; cycles real |
| `report_intake` | reports over 2 plugins | **violation**, finding 3 |
| `resolver` | about 15,200 compositions: four families of up to 4 plugins through `cargo kernox check`, one with all attributions over 2 packages through every command and inputs around the size bound, two through the application builder (2 plugins with up to 2 host requirements and properties; 3 plugins with 2 marker types, some cyclic) | exact success, expected graph and diagnostics, bounded work; a refusal is about a fault the composition has and carries the subjects that have it (`RefusalNamesFault`); exit code, summary, report and DOT graph are right (`AnswerIsRight`); an application resolves exactly when graph and host fit, each instance placed (`AppResolvesExactly`); hooks obtain exactly what is due to them (`AccessIsExact`) |
| `resolver_permuted` | 3 descriptors in all orders | **violation**, finding 4 |
| `worker_app` | the Tokio plugin alone and with the heartbeat; limit 2, 4 identities, one restarted shutdown, on and off a runtime, counter modulo 3 | bounded tasks, nothing survives a drain, one report with the panic first, hooks return; no tick after a completed stop; the heartbeat leaves after cancellation or a panic |
| `spawn_shut_down` | 2 callers, limit 2, 4 identities, runtime running or shut down | **violation**, finding 5 |
| `serverless_host` | 3 threads, capacity 2, 4 scopes, one leak | implements the admission contract; capacity and registry exact, shutdown closes all |
| `bench_budget` | 2 directories, up to 3 runs of which 2 are required, 2 recordings, one clock tie | a verdict rests on enough runs of one recording (which may have been stopped after them), at least half of them on its side |
| `release` | 3 crates, every dependency relation, 2 attempts, 3 jobs | dependency order at every moment, success means served |

Why the bounds are enough. Executor loops treat positions alike: three plugins
give a failing plugin one before and one after it, and all of chain, fork, join
and none as relations; an interruption adds no relation between plugins but
a second walk, for which two are enough. Four plugins are the least with a cycle and a plugin on
each side of it. The resolver's families reach each of the nineteen error tags
and success, with limits just met and just exceeded; its passes look at one
descriptor, binding or requirement at a time, and three plugins with two
candidates exercise every arm of the selection (three candidates tell the compatible
ones of an ambiguous requirement from all that offer it). Three threads against capacity
two give a refusal while another thread is half way through admission. A task
limit of two with three usable identities (the fourth is the end of the range)
lets a slot be reused, and one restart meets
every await of the hooks. Two or three runs against a minimum of two give an even
and an odd median, a later recording with fewer runs than the one before, and one
clock tie puts two writes at one time wherever it does harm. Two attempts give a
retry loop a first and a last pass; three jobs let a second one find part of the
release and a third one all of it. Three plugins are the least that
`verify_graph_attribution` accepts. The bounds themselves are the constants of the `.cfg`
files; `MaxCancels`, `MaxRestarts`, `MaxScopes`, `MaxLeaks`,
`MaxRecordings`, `MaxJobs` and `LastId` cap histories that the code does not
bound (`LastId` stands for `u64::MAX`, `TickRange` for 2^64).

Fairness. `TopologicalOrder`: weak fairness of the loop, which is sequential
code. `Lifecycle` (and `MCConformance`, for either caller): weak fairness of the
executor's steps and of hook returns,
that is, the future is polled and hooks come back; no fairness of calls or of
drops. `TaskSupervisor`: weak fairness of each task's way out *once it has begun
to end or was aborted*, of the budget timer and of the drain; a task that ignores
cancellation need never end by itself, and `HooksReturn` is about that case.
`WorkerApp`: the same for tasks and hooks, and weak fairness of the heartbeat,
which the runtime's timer wakes; peers need never end, and shutdown need not be
called. `SpawnLock`: strong fairness of each caller's steps and of each
registration's drop, that is, a thread that waits for the mutex gets it if it is
free again and again; even so a call does not return (finding 5). All other
modules state safety only. Deadlock is checked except where the system may stop
for good: no more recordings or jobs to begin.

## 4. What is proved

A theorem holds for every value of the constants that satisfies the named
assumptions; the bounds of the runs are arbitrary naturals in it.

**Sort** (`TopologicalOrderProofs`), for all finite graphs, from `IdsAssumption`
(finitely many ordered identities) and `InputsAssumption` (edges between the given
nodes).

- `SortTypeCorrect`: types are kept; no indegree is decremented below zero.
- `OrderIsTopological`: no plugin twice and each after all its providers.
- `VerdictRight`: `Ok` exactly when no set of plugins waits for itself, and then
  all are ordered.
- `OrderIsDeterministic`: each plugin appended is the least that can come next.
- `CycleReal`: what `find_cycle` reports is a cycle, and it never ends without one.

`SInv` says that `indegree[n]` is the number of `n`'s providers that are not
ordered, that `ready` are the unordered plugins for which it is zero, and that
plugins that wait for each other are never ordered. The first part is what makes
the rest inductive: without it nothing ties the counter to the order. For the
search, `SearchInv` says that the stack is a path without repetition of exactly the
plugins marked `Visiting` (`PathOK`), that a `Done` plugin provides to `Done`
plugins only, and that no `Done` plugins wait for each other (`DoneOK`). A search
that ran out of plugins would have marked all of them, deadlocked ones included, so
it finds a cycle first.

**Resolver** (`ResolverProofs`), for every composition, also from
`LinksAssumption`, `MaximaAssumption` and `SpecsAssumption` (a composition is made
of descriptors as their builders allow them).

- `WorkIsBounded`, `ResolutionIsExact`: the run's properties `WorkBounded` and
  `ResolvesExactly`.
- `RefusalsNameFaults`: `RefusalNamesFault`. `IsFault` has an alternative for each of
  the nineteen errors, stated over the composition alone, which says when the error
  is due and which limit, plugins, capability, binding, providers or path it must
  carry; an error with another tag, or with the subjects of another fault,
  satisfies none of them. `NamedFault` carries the fault found in a step over to
  the answer, and `BoundRefusal` and `UnboundRefusal` find it for the selection.
- `ResolverDelivers`: every graph returned orders the declared plugins, has the
  expected edges and satisfies `IsResolvedGraph`. This is `GraphsAssumption`, which
  the proofs about the executor start from; together they cover a composition from
  its descriptors to the end of its shutdown.
- `GraphsAreExpected`: the whole of `GraphIsExpected`, with the requirements that
  a lookup finds and the diagnostics.

`RInv` follows the phases: the maps hold what the composition says up to the
position of the loop (`Declared`, `Bound`), a check that was passed still holds in
every later phase (`DeclaredInv`), the edges are exactly those of the requirements
that were resolved and of the providers of the current one already linked
(`SelectInv`), and while the sort runs `SInv` and `SearchInv` hold of it
(`OrderInv`). That the sort gets a graph with edges between its nodes is proved
here, so `InputsAssumption` is not used for it. The reference `Resolvable` is stated over
sets; the lemmas from `KnownFacts` to `CheckedFacts` connect it with the maps.
`GraphInv` adds what the vector of requirements holds in each phase: the
requirements resolved so far, each with its providers, in the order the binary
search compares and before all that are still to come (`Listed`); once every one is
resolved, the edges and the diagnostics are the expected ones (`Settled`).

**Callers of the resolver** (`ResolverCallersProofs`), also from `HostsAssumption`
(host properties and requirements are vectors), `FilesAssumption` (a file has a
size) and `SourcesAssumption` (a descriptor names one source or none).

- `ApplicationResolvesExactly`: `AppResolvesExactly`. The invariant is `RInv`, what
  `ResolverDelivers` states, and how far the negotiation has come (`SuppliedUpTo`,
  `Meets`).
- `AccessesAreExact`: `AccessIsExact`. `InitializationInv` says that the plugins
  before the current one have published what they offer; `LastCallInv` that what
  the hook's last call returned is what it would return now. A provider is one of
  those plugins because the order is topological, and is found because the lookup
  is right: the result needs all three of resolver, sort and commit.
- `AnswersAreRight`: `AnswerIsRight`. `CliInv` ties each way out of the command to
  the composition. The report's list of plugins is the ascending one, so that
  `ValidateReport` takes a printed report back; the attribution check reports the
  first fault, and that there is a first one is the well-foundedness of `<`.

**Executor** (`LifecycleProofs`), for every set of
resolved graphs (`GraphsAssumption`), any number of interrupted shutdowns
(`CancelsAssumption`) and any error tags but the one that stands for success
(`TagsAssumption`).

- `TypeCorrect`, `DependencyOrderHolds`, `PhaseBarriersHold`, `FailedStartUndone`,
  `ShutdownComplete`, `DependenciesAvailableHolds`, `HooksSeeScopeHolds`,
  `RootAccessBoundaryHolds`, `FailuresAccountedHolds`, and the action property
  `ReportFinal`.
- `StepsAreContracted`: until a `shutdown()` is dropped, each step is a step of
  `LifecycleContract` or a stutter. This is the safety part of
  `ImplementsContract`; its fairness stays with TLC.

`IInv` adds to the properties themselves: which prefix of the order each phase has
reached in each stage (`WalkInv`), the scope's state by stage (`ScopeInv`), when a
report exists (`ReportInv`), whose provisions are committed (`RegistryInv`), and
how often each hook has run in terms of the position of the loop (`CountInv`).
`CountInv` is the heart: order and completeness are consequences of it and of the
order being a prefix walk. Root access needs that no cleanup hook runs under an
open scope (`OpenInv`), failure accounting that the lists of the current call are
what it observed (`FailureInv`), the simulation that the last hook of a plugin is a
function of the position (`LastInv`).

**Test kit** (`LifecycleProofs`), for every set of resolved graphs, every
failure plan and every attribution (`AttributionsAssumption`: ordered identities,
one source or none each). `OracleJudgesRight`: `OracleIsRight`. The executor is the
same, but each hook does what the plan says, so the invariant is another:
`ConformanceInv` says which plugins have passed (`Passed`), where the recorder has
each hook (`Seen`: phase by phase, `N` observations each) and that the failures
collected so far are exactly the planned ones among the hooks already run
(`Met(f) = Blamed(f)`, counted in `ShuttingInv`). The count is what excludes a
failure that is reported twice.

**Serverless host** (`ServerlessHostProofs`), for every finite set of threads, every
maximum, any number of scopes and leaks (`HostAssumption`, `ScopesAssumption`):
`CapacityIsAccounted`, `RegistryIsExact`, `ShutdownClosesAll`, and
`HostImplementsAdmission`, the whole of `ImplementsAdmission`. The invariant gives
every scope in use one owner, the thread that numbered it or, once leaked, nobody
(`OwnerInv`), puts the scope where its owner is (`ProgressInv`), and says what
shutdown excludes (`AppInv`). Ownership is what makes the count inductive: a unit
of capacity is given back by the thread that took it.

**Tokio host and worker** (`WorkerProofs`), for every task limit, range of
identities and number of restarts (`SupervisorAssumption`, `TickAssumption`):
`TasksAreBounded`, `DrainsLeaveNothing`, `FailuresAreReportedOnce` and the action
property `TicksEndWithStop`. What the second and third say of a disposed plugin
excepts a dispose outside a Tokio runtime and one that was cut short. Where a task is decides whether table and tracker know
it (`TableInv`); admission is closed before a drain waits (`HookInv`); the report
is what the first drain to claim it made of it, and an abort is reported or about to
be (`ReportInv`, `AbortInv`).

**Benchmark gate** (`BenchBudgetProofs`), for any number of runs, recordings and
clock ties, any budget and any measured points (`BenchAssumption`; that the points
differ by whole percents, `WholePercents`, only makes `Delta` exact and is not used).
`VerdictsAreEarned`: `VerdictIsEarned`; the recording may have been stopped once
it had enough runs, and at least half of the runs judged are on the side of the
verdict. A recording writes its slots in one order
from the first on, so where files of two recordings lie side by side the later
ones come first and are no older (`LayerInv`); a gate that finds every slot
strictly younger than the one before has therefore found one recording
(`OneRecording`). For the
second half, `Sorted` gives each position the value of its rank, and `MedianFacts`
counts the values on either side of it.

**Release** (`ReleaseProofs`), for every release order that names each crate once
(`OrderAssumption`), any workspace, and any number of jobs and attempts:
`CratesArePublishedInOrder` and `SuccessMeansServed`. Of what `release-check` looks at,
the first states the order of the crates and the version they share with the tag.
The crates before the job's
position are served with the bytes it packaged (`ProgressInv`), and nothing is
uploaded from a workspace that failed `release-check` (`CheckedInv`).

Every invariant and every action property of a passing run is stated by one of
these theorems. No data is recursed over in them: where an argument needs a least or
a greatest element it takes it from the well-foundedness of `<` on the naturals
(`LeastNumber`, `LeastExists`, `LeastIdentity`), and sorted sequences are given by
rank (`Sorted`) or by the order of their members (`Ascending`) instead of by a
recursive sort.

Only model-checked: liveness (`CallsReturn`, `SortReturns`, `HooksReturn`,
`HeartbeatLeaves`, and the fairness of `ImplementsContract`, whose steps are
`StepsAreContracted`), because the provers do not handle fairness and `ENABLED`. The
five violations of section 5 are counterexamples and have no theorem.

## 5. Findings

1. **Repeated shutdown** (`app.rs:483`). A `shutdown()` whose future is dropped
   leaves `terminal` unset; the next call quiesces plugins that were already
   stopped or disposed. The comment at `app.rs:476` and the runtime contract
   (line 56, and "performs no second effect" below it) exclude it.
2. **Clean report after a failure** (`app.rs:485`). Failures collected before the
   drop are lost and the final report may call itself clean.
3. **Repeated startup entry** (`graph.rs:567`). `accept` compares lengths and
   membership, so a startup order `[1, 1]` over plugins `{1, 2}` passes, although
   `graph.rs:172` says repetition is refused.
4. **Refusal depends on declaration order** (`graph.rs:359`). With two faults in
   the descriptors the error tag depends on which is declared first; the ADR says
   resolution and diagnostics do not depend on insertion order. Successful
   results do not (`GraphIsExpected`).
5. **Spawn on a runtime that was shut down** (`kernox-host-tokio/src/lib.rs:501`).
   `spawn` holds the state mutex across `tracker.spawn_on`. A blocking thread may
   hold the handle of a runtime that has been shut down; Tokio then drops the
   future inside that call, the `TaskRegistration` in it locks the same
   non-reentrant mutex, and `spawn` neither spawns nor returns a `SpawnError`.

The recorder's `--criterion-dir` (`bench_budget.rs:460`) selects the directory
that is cleared and announced, while `cargo bench` writes where Criterion finds
its home; `BenchBudget` keeps the two apart (`Under`), and the gate then refuses
for want of files rather than read another directory's (`VerdictIsEarned`).

`release_check` passes over a path dependency on a workspace package outside
`RELEASE_ORDER`. That is not a finding: such a package is not publishable, and
`cargo package` refuses the crate before anything is uploaded.

## 6. Not modelled

- Identifier, task-name and source syntax (character classes): no state, and no
  interaction but acceptance. The descriptor builders' refusals of a repeated
  declaration appear as what descriptors guarantee (`IsDescriptor`).
- Error wording, the versions and configured numbers an error repeats (its subjects
  are modelled), JSON and DOT text, observation durations, confidence intervals
  of the benchmark report (printed, never deciding).
- The rest of `xtask`: `verify` is a list of external commands; the checks of
  runner profiles and dependency boundaries compare one document or one command's
  output with a list; the secret scanner's installation is a download and a
  checksum. None of them keeps state or interacts with another.
- The release workflow before its publish step (build, attestation,
  authentication: one step of `BeginJob`) and its registration of publishers.
- The facade crate (re-exports), `order-app` and `checkout-app` (sequential calls
  through ports), fixtures, benches and fuzz targets.
- A dropped `start()` future is an action of `Lifecycle`, and no property is
  stated of it: the code leaves cleanup to the plugins' own `Drop`.

## 7. Plan

Built so far, in this order: `Lifecycle` with `Registry`, the contract and its
refinement; `TopologicalOrder`; `GraphReport`; `TaskSupervisor`; `Scope` and
`ServerlessHost`; `Resolver` and `AppBuilder`; proofs of the first two; then
`CapabilityAccess`, `Attribution` with `CargoKernox` and `Conformance`, the
composition of the two callers in `ResolverCallers`, the
admission contract, `SpawnLock` and `WorkerApp`, `BenchBudget` and `Release`.

Then the proofs, component by component, as section 4 lists them.

What could follow: in `SpawnLock`, that on a running runtime whoever gets the mutex
finds the abort handle of every registered task (its holder is the only thread
between `Locked` and `Spawned`); in `ResolverPermuted`, that two calls that succeed
return the same graph, which `GraphsAreExpected` and `OrderIsDeterministic` give for
each call by itself.
