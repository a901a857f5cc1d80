---------------------------- MODULE ReportIntake ----------------------------
(* A consumer of graph reports: whatever was decoded is passed to           *)
(* GraphReport::accept, as the Deserialize implementation does.             *)
EXTENDS GraphReport

CONSTANTS
    Ids,       \* plugin identities
    MaxLen     \* bound: length of the sequences of a decoded report

VARIABLES
    report,   \* the decoded report
    answer    \* "None", then the result of accept

intakeVars == <<report, answer>>

Lists == BoundedSeq(Ids, MaxLen)

IntakeInit ==
    /\ report \in [schema : {Schema, Schema + 1}, plugins : Lists, startup : Lists,
                   teardown : Lists, requirements : {{}}, diagnostics : {{}},
                   edges : {{[provider |-> x, consumer |-> y]} : x, y \in Ids}]
    /\ answer = "None"

Accept ==
    /\ answer = "None"
    /\ answer' = ValidateReport(report)
    /\ UNCHANGED report

IntakeSpec == IntakeInit /\ [][Accept]_intakeVars

\* What accept's documentation rules out: an accepted report repeats a plugin
\* identity, in its plugin list or in the lifecycle order it carries.
AcceptedReportsRepeatNothing ==
    answer = "Ok" => IsInjective(report.plugins) /\ IsInjective(report.startup)
=============================================================================
