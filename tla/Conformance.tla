----------------------------- MODULE Conformance ----------------------------
(***************************************************************************)
(* kernox-testkit: verify_application (conformance.rs) runs a resolved     *)
(* application once and judges it.  The plugins are ProbePlugins, each     *)
(* with a FailurePlan that says which of its hooks fail and how; the       *)
(* application's sink is a LifecycleRecorder.                              *)
(*                                                                         *)
(* The executor is Lifecycle, action for action; the harness decides when  *)
(* start() and shutdown() are called.                                      *)
(***************************************************************************)
EXTENDS Lifecycle, Attribution

CONSTANTS
    FailurePlans,   \* per plugin and phase, the injected tag: none or one
    Attributions    \* per plugin, its source: see Attribution

\* Identities are ordered, and a descriptor names one source or none.
ASSUME AttributionsAssumption ==
    /\ Plugins \subseteq Nat
    /\ \A f \in Attributions : \A p \in Plugins :
         f[p] = << >> \/ (f[p] = <<f[p][1]>> /\ f[p][1].repository \in BOOLEAN)

VARIABLES
    plan,           \* the FailurePlan of each plugin
    source,         \* the source of each plugin of the graph
    oracle          \* "None", "Running" or the result of verify_application;
                    \* "Unused" when the owner drives the application itself

oracleVars == <<plan, source, oracle>>

ConformanceInit ==
    /\ Init
    /\ plan \in FailurePlans
    /\ \E f \in Attributions : source = [p \in Members |-> f[p]]
    /\ oracle = [tag |-> "None"]

\* verify_graph_attribution, then start().
VerifyApplication ==
    /\ oracle.tag = "None"
    /\ LET attribution == VerifyGraphAttribution(source) IN
         IF attribution.tag = "Ok"
         THEN oracle' = [tag |-> "Running", packages |-> attribution.packages] /\ CallStart
         ELSE oracle' = [tag |-> attribution.tag] /\ UNCHANGED vars
    /\ UNCHANGED <<plan, source>>

-----------------------------------------------------------------------------
(* ProbePlugin: a hook returns what the plan says; nothing is ever provided *)

Injected == plan[Current][phase]

ProbeHookReturns ==
    /\ pending
    /\ IF Injected = << >>
       THEN \/ InitializeOk(NoProvisions) \/ CommitRefused(NoProvisions)
            \/ StartOk \/ CleanupOk
       ELSE \/ InitializeErr(Injected[1]) \/ StartErr(Injected[1]) \/ CleanupErr(Injected[1])

ExecutorStep ==
    /\ oracle.tag = "Running"
    /\ \/ CallInitialize \/ InitializeAllDone \/ CallStartHook \/ StartAllDone
       \/ CallCleanup \/ NextCleanupPhase \/ RollbackDone \/ ShutdownDone
       \/ ProbeHookReturns
    /\ UNCHANGED oracleVars

\* start() returned a RunningApp.
ThenShutdown ==
    /\ oracle.tag = "Running" /\ stage = "Running"
    /\ CallShutdown
    /\ UNCHANGED oracleVars

StartFailed ==
    /\ oracle.tag = "Running" /\ stage = "Failed"
    /\ oracle' = [tag |-> "conformance.lifecycle-failed", primary |-> primary[1],
                  failures |-> failures]
    /\ UNCHANGED <<vars, plan, source>>

\* Seeded defect: only a failed start counts.
IsClean_Always(report) == TRUE

\* ShutdownReport::is_clean.
IsClean(report) == report = << >>

ShutdownReturned ==
    /\ oracle.tag = "Running" /\ stage = "Stopped"
    /\ oracle' = IF IsClean(terminal[1])
                 THEN [tag |-> "Ok", plugin_count |-> Cardinality(Members),
                       source_packages |-> oracle.packages,
                       startup |-> graph.order,
                       teardown |-> [i \in 1..N |-> graph.order[N + 1 - i]]]
                 ELSE [tag |-> "conformance.shutdown-failed", failures |-> terminal[1]]
    /\ UNCHANGED <<vars, plan, source>>

Judged == oracle.tag \notin {"Unused", "None", "Running"}

ConformanceDone == Judged /\ UNCHANGED <<vars, oracleVars>>

ConformanceNext ==
    \/ VerifyApplication \/ ExecutorStep \/ ThenShutdown \/ StartFailed \/ ShutdownReturned
    \/ ConformanceDone

ConformanceSpec == ConformanceInit /\ [][ConformanceNext]_<<vars, oracleVars>>

-----------------------------------------------------------------------------
(* Properties *)

\* LifecycleRecorder::snapshot: the observations without their durations.
Snapshot == observations

PhaseOrder == <<"Initialize", "Start", "Quiesce", "Stop", "Dispose">>

Planned(f) == {p \in Members : plan[p][f] # << >>}

\* A ProbePlugin that offers something fails at its commit.
StartsFail == Planned("Initialize") \cup Planned("Start")
              \cup {p \in Members : DOMAIN graph.offers[p] # {}}

\* The verdict follows from the application and the plan alone: attribution is
\* judged before any hook runs; a planned start-up failure, or an offer a probe
\* cannot keep, is a lifecycle failure; after a start that succeeds each planned
\* cleanup failure is counted once; and success means that the recorder saw the
\* five phases one after the other, each hook of every plugin once and none
\* failing, initialize and start in the reported startup order and the others in
\* the reported teardown order (verify_application, ProbePlugin,
\* LifecycleRecorder, ResolvedApp::start, RunningApp::shutdown).
OracleIsRight ==
    Judged =>
      CASE ~Attributed(source) ->
             /\ oracle.tag = VerifyGraphAttribution(source).tag
             /\ oracle.tag # "Ok" /\ Snapshot = << >>
        [] Attributed(source) /\ StartsFail # {} ->
             /\ oracle.tag = "conformance.lifecycle-failed"
             /\ oracle.primary.plugin \in StartsFail
             /\ \A i \in 1..Len(oracle.failures) :
                  oracle.failures[i].plugin \in Planned(oracle.failures[i].phase)
        [] Attributed(source) /\ StartsFail = {} /\ \E f \in CleanupPhases : Planned(f) # {} ->
             /\ oracle.tag = "conformance.shutdown-failed"
             /\ \A f \in CleanupPhases : Planned(f) =
                  {oracle.failures[i].plugin :
                     i \in {j \in 1..Len(oracle.failures) : oracle.failures[j].phase = f}}
             /\ Len(oracle.failures) = Cardinality(Planned("Quiesce"))
                  + Cardinality(Planned("Stop")) + Cardinality(Planned("Dispose"))
        [] OTHER ->
             /\ oracle.tag = "Ok"
             /\ Cardinality(oracle.source_packages) = oracle.plugin_count
             /\ Len(Snapshot) = 5 * N
             /\ \A k \in 1..5, i \in 1..N :
                  Snapshot[(k - 1) * N + i] =
                    [phase |-> PhaseOrder[k],
                     plugin |-> (IF k <= 2 THEN oracle.startup ELSE oracle.teardown)[i],
                     outcome |-> "Succeeded"]
=============================================================================
