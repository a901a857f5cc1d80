---------------------------- MODULE CargoKernox -----------------------------
(***************************************************************************)
(* cargo kernox (main.rs): read a composition, resolve it and print a      *)
(* summary, the graph report or the graph as DOT.                          *)
(*                                                                         *)
(* The resolver is Resolver, step by step; the descriptors of a            *)
(* composition also carry their `source`.  The input is its size, whether  *)
(* it can be read and whether it decodes; what is printed is kept as data. *)
(***************************************************************************)
EXTENDS ResolutionContract, Attribution

CONSTANTS
    MAX_SPEC_BYTES,
    Files            \* the inputs: [size, readable, decodes]

ASSUME BytesAssumption == MAX_SPEC_BYTES \in Nat
ASSUME FilesAssumption == \A f \in Files : f.size \in Nat

\* A descriptor names one source or none.
ASSUME SourcesAssumption ==
    \A s \in Specs : \A i \in 1..Len(s.plugins) :
        LET origin == s.plugins[i].source
        IN  origin = << >> \/ (origin = <<origin[1]>> /\ origin[1].repository \in BOOLEAN)

Inspection == INSTANCE GraphReport

VARIABLES
    command,   \* "check", "verified", "json" or "dot"
    file,      \* the input named on the command line
    cli,       \* "reading", "resolving" or "exited"
    exit,      \* the exit code
    output     \* what was printed

cliVars == <<command, file, cli, exit, output>>

Commands == {"check", "verified", "json", "dot"}

CliInit ==
    /\ Init
    /\ command \in Commands /\ file \in Files
    /\ cli = "reading" /\ exit = 0 /\ output = [tag |-> "None"]

Exit(code, printed) ==
    /\ cli' = "exited" /\ exit' = code /\ output' = printed
    /\ UNCHANGED <<command, file>>

\* main: the tag on standard error and exit code 2.
Fail(tag) == Exit(2, [tag |-> tag])

\* take(MAX_SPEC_BYTES + 1).
Taken == IF file.size <= MAX_SPEC_BYTES THEN file.size ELSE MAX_SPEC_BYTES + 1

TooLarge == Taken > MAX_SPEC_BYTES

ReadFails ==
    /\ cli = "reading" /\ ~file.readable
    /\ Fail("cli.read-failed")
    /\ UNCHANGED allVars

InputTooLarge ==
    /\ cli = "reading" /\ file.readable /\ TooLarge
    /\ Fail("cli.input-too-large")
    /\ UNCHANGED allVars

InvalidJson ==
    /\ cli = "reading" /\ file.readable /\ ~TooLarge /\ ~file.decodes
    /\ Fail("cli.invalid-json")
    /\ UNCHANGED allVars

Decode ==
    /\ cli = "reading" /\ file.readable /\ ~TooLarge /\ file.decodes
    /\ cli' = "resolving"
    /\ UNCHANGED <<command, file, exit, output, allVars>>

CliResolves == cli = "resolving" /\ ResolveNext /\ UNCHANGED cliVars

Rejected ==
    /\ cli = "resolving" /\ phase = "returned" /\ outcome.tag # "Ok"
    /\ Fail(outcome.tag)
    /\ UNCHANGED allVars

-----------------------------------------------------------------------------
(* What run prints of a resolved graph *)

report == Inspection!Report(Known, Entries, edges, diagnostics, order)
source == [p \in Known |-> plugins[p].source]

Resolves(c) == cli = "resolving" /\ Succeeded /\ command = c /\ UNCHANGED allVars

Check ==
    /\ Resolves("check")
    /\ Exit(0, [tag |-> "valid", plugins |-> Len(report.plugins),
                edges |-> Cardinality(report.edges),
                diagnostics |-> Cardinality(report.diagnostics)])

CheckVerified ==
    /\ Resolves("verified")
    /\ LET attribution == VerifyGraphAttribution(source) IN
         IF attribution.tag # "Ok" THEN Fail(attribution.tag)
         ELSE Exit(0, [tag |-> "verified", plugins |-> Cardinality(Known),
                       packages |-> Cardinality(attribution.packages),
                       edges |-> Cardinality(report.edges)])

PrintJson == Resolves("json") /\ Exit(0, [tag |-> "json", report |-> report])

\* render_dot: a node per plugin and an arrow per edge.
PrintDot ==
    /\ Resolves("dot")
    /\ Exit(0, [tag |-> "dot", nodes |-> Inspection!Names(report.plugins),
                arrows |-> {<<e.provider, e.consumer, e.capability>> : e \in report.edges}])

CliDone == cli = "exited" /\ UNCHANGED <<cliVars, allVars>>

CliNext ==
    \/ ReadFails \/ InputTooLarge \/ InvalidJson \/ Decode
    \/ CliResolves \/ Rejected
    \/ Check \/ CheckVerified \/ PrintJson \/ PrintDot \/ CliDone

CliSpec == CliInit /\ [][CliNext]_<<cliVars, allVars>>

-----------------------------------------------------------------------------
(* Properties *)

Usable == file.readable /\ file.size <= MAX_SPEC_BYTES /\ file.decodes
Sources == [p \in Names(Descriptors) |-> Named(Descriptors, p).source]

Missed(ds, bs) == {key \in Needs(ds) : Chosen(ds, bs, key) = {}}
Offered(ds) == UNION {{<<d.id, c>> : c \in DOMAIN d.provides} : d \in ds}
Selected(ds, bs) == {<<e.provider, e.capability>> : e \in ExpectedEdges(ds, bs)}

\* What the descriptors and bindings say of what is printed.
Describes(ds, bs, printed) ==
    LET expected == ExpectedEdges(ds, bs) IN
    CASE printed.tag = "valid" ->
           /\ printed.plugins = Cardinality(Names(ds))
           /\ printed.edges = Cardinality(expected)
           /\ printed.diagnostics = Cardinality(Missed(ds, bs))
                                    + Cardinality(Offered(ds) \ Selected(ds, bs))
      [] printed.tag = "verified" ->
           /\ printed.plugins = Cardinality(Names(ds))
           /\ printed.packages = printed.plugins
           /\ printed.edges = Cardinality(expected)
      [] printed.tag = "json" ->
           /\ Inspection!ValidateReport(printed.report) = "Ok"
           /\ printed.report.edges = expected
           /\ \A e \in expected : \E i, j \in DOMAIN printed.report.startup :
                /\ i < j
                /\ printed.report.startup[i] = e.provider
                /\ printed.report.startup[j] = e.consumer
      [] printed.tag = "dot" ->
           /\ printed.nodes = Names(ds)
           /\ printed.arrows = {<<e.provider, e.consumer, e.capability>> : e \in expected}

ReadFaults == {"cli.read-failed", "cli.input-too-large", "cli.invalid-json"}

\* The command says what the composition is: exit code 0 exactly when the input
\* is within the bound, decodes and resolves, and, asked for a verified
\* application, when at least three plugins each name a package and a repository
\* and no package is named twice.  The summary counts, the JSON report and the
\* DOT graph are those the descriptors and bindings describe, a printed report
\* is one GraphReport::accept takes back, and its startup order has every
\* provider before its consumers (run, load_and_resolve, read_bounded,
\* render_dot, verify_graph_attribution, ResolvedGraph::report).
AnswerIsRight ==
    cli = "exited" =>
        /\ exit = 0 <=> Usable /\ Resolvable /\ (command = "verified" => Attributed(Sources))
        /\ exit = 0 => Describes(Descriptors, Bindings, output)
        /\ exit # 0 /\ Usable => output.tag \notin ReadFaults
=============================================================================
