--------------------------- MODULE MCConformance ----------------------------
(* The lifecycle executor under both of its callers: the application's owner, *)
(* over the graphs of MCLifecycle, and the test kit's oracle, over probe      *)
(* applications of two or three plugins in a given order, one of which may    *)
(* offer a capability, with up to two injected failures and every attribution *)
(* over three packages and a source without a repository.                     *)
(* Bound: only applications of up to two plugins see a shutdown() future      *)
(* dropped.                                                                   *)
EXTENDS MCLifecycle, Conformance

ProbeOffers == {[p \in MCPlugins |-> NoProvisions],
                [p \in MCPlugins |-> IF p = 2 THEN [c \in {1} |-> "v1"] ELSE NoProvisions]}

ProbeGraphs ==
    {[order |-> order, offers |-> offers, edges |-> {}] :
        order \in {<<1, 2>>, <<2, 3, 1>>}, offers \in ProbeOffers}

AllGraphs == MCGraphs \cup ProbeGraphs

Faulty(S) == [p \in MCPlugins |-> [f \in Phases |-> IF <<p, f>> \in S THEN <<"io">> ELSE << >>]]
MCFailurePlans == {Faulty({a, b}) : a, b \in MCPlugins \X Phases} \cup {Faulty({})}

MCAttributions ==
    [MCPlugins -> {<< >>, <<[package |-> "a", repository |-> FALSE]>>}
                  \cup {<<[package |-> k, repository |-> TRUE]>> : k \in {"a", "b", "c"}}]

-----------------------------------------------------------------------------
\* No oracle: the owner drives its application as Lifecycle says.
Owned == oracle.tag = "Unused"

OwnedInit ==
    /\ Init /\ graph \in MCGraphs
    /\ plan = Faulty({})
    /\ source = [p \in Members |-> << >>]
    /\ oracle = [tag |-> "Unused"]

OwnedStep(Action) == Owned /\ Action /\ UNCHANGED oracleVars

MCInit == OwnedInit \/ (ConformanceInit /\ graph \in ProbeGraphs)

MCNext ==
    /\ OwnedStep(Next) \/ ConformanceNext
    /\ N > 2 => cancels' = 0

\* A called future is polled and every hook eventually returns; neither caller
\* owes anything.
MCSpec ==
    /\ MCInit /\ [][MCNext]_<<vars, oracleVars>>
    /\ WF_<<vars, oracleVars>>(OwnedStep(Executor) \/ ExecutorStep)
=============================================================================
