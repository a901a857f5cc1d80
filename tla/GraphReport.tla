---------------------------- MODULE GraphReport -----------------------------
(***************************************************************************)
(* The versioned inspection report of a resolved graph (graph.rs): what    *)
(* GraphReport::accept requires of a report that was decoded, and what     *)
(* ResolvedGraph::report produces.  A report is a record of its schema     *)
(* version, its plugins, startup and teardown orders as sequences, and the *)
(* sets of its requirements, edges and diagnostics.                        *)
(***************************************************************************)
EXTENDS Naturals, SequencesExt

Schema == 1   \* GRAPH_REPORT_SCHEMA_VERSION

Names(order) == {order[i] : i \in 1..Len(order)}

\* teardown has startup's length and is equal to its reverse, element by element.
TeardownAgrees(report) ==
    /\ Len(report.teardown) = Len(report.startup)
    /\ \A i \in 1..Len(report.teardown) :
         report.teardown[i] = report.startup[Len(report.startup) + 1 - i]

\* startup_order has as many entries as there are plugins, and only plugins.
StartupAgrees(report) ==
    /\ Len(report.startup) = Cardinality(Names(report.plugins))
    /\ Names(report.startup) \subseteq Names(report.plugins)

\* report_relation_plugins; a diagnostic is <<kind, plugin, capability>>.
RelationPlugins(report) ==
    (UNION {{r.key[1]} \cup r.providers : r \in report.requirements})
    \cup (UNION {{e.provider, e.consumer} : e \in report.edges})
    \cup {d[2] : d \in report.diagnostics}

\* validate_report: "Ok" or the tag of the first error.
ValidateReport(report) ==
    LET plugins == Names(report.plugins)
    IN  IF report.schema # Schema THEN "UnsupportedReportSchemaVersion"
        ELSE IF Cardinality(plugins) # Len(report.plugins) THEN "DuplicateReportPlugin"
        ELSE IF ~StartupAgrees(report)
             THEN IF Names(report.startup) = plugins
                  THEN "InconsistentReportLifecycle" ELSE "UnknownReportPlugin"
        ELSE IF ~TeardownAgrees(report) THEN "InconsistentReportLifecycle"
        ELSE IF ~(RelationPlugins(report) \subseteq plugins) THEN "UnknownReportPlugin"
        ELSE "Ok"

\* The identities in ascending order, as a BTreeMap is iterated: an identity's
\* place is the number of smaller ones.
Ascending(S) ==
    [i \in 1..Cardinality(S) |-> CHOOSE x \in S : Cardinality({y \in S : y < x}) = i - 1]

\* ResolvedGraph::report.
Report(plugins, requirements, edges, diagnostics, order) ==
    [schema |-> Schema,
     plugins |-> Ascending(plugins),
     requirements |-> requirements,
     edges |-> edges,
     diagnostics |-> diagnostics,
     startup |-> order,
     teardown |-> Reverse(order)]
=============================================================================
