-------------------------- MODULE TopologicalOrder --------------------------
(***************************************************************************)
(* topological_order and find_cycle of kernox-core (graph.rs): Kahn's      *)
(* algorithm over the resolved edges, popping the smallest ready identity, *)
(* and the iterative depth-first search that explains a failure.           *)
(*                                                                         *)
(* Plugin identities are naturals; their order is the order of PluginId,   *)
(* which BTreeSet and BTreeMap iterate in.  One step is one iteration of a *)
(* while loop.                                                             *)
(***************************************************************************)
EXTENDS Naturals, Sequences, FiniteSets

CONSTANTS
    Ids,      \* plugin identities, in the order of PluginId
    Links,    \* capability identities, the labels of edges
    Inputs    \* graphs to sort: records [nodes, edges]

Edge == [provider : Ids, consumer : Ids, capability : Links]

ASSUME IdsAssumption == Ids \subseteq Nat /\ IsFiniteSet(Ids)
ASSUME InputsAssumption ==
    \A g \in Inputs :
        /\ g.nodes \subseteq Ids
        /\ g.edges \subseteq Edge
        /\ \A e \in g.edges : e.provider \in g.nodes /\ e.consumer \in g.nodes

VARIABLES
    nodes,      \* the plugins to order; constant once sorting begins
    edges,      \* the ResolvedEdges between them; constant too
    indegree,   \* providers of each plugin that are not ordered yet
    ready,      \* the BTreeSet of plugins without such providers
    order,      \* the startup order built so far
    visited,    \* find_cycle: "None", "Visiting" or "Done" per plugin
    stack,      \* find_cycle: the path, each plugin with its untried neighbours
    cycle,      \* find_cycle: the cycle it reports
    verdict     \* "sorting", "searching", "Ok" or "DependencyCycle"

sortVars == <<nodes, edges, indegree, ready, order, visited, stack, cycle, verdict>>

IsLeast(x, S) == x \in S /\ \A y \in S : x <= y

-----------------------------------------------------------------------------
(* topological_order *)

\* adjacency: a provider's consumers, once however many capabilities link them.
Consumers(es, p) == {c \in Ids : \E e \in es : e.provider = p /\ e.consumer = c}
Providers(es, c) == {p \in Ids : \E e \in es : e.provider = p /\ e.consumer = c}

\* Seeded defect: every edge counts, also a second one between the same plugins.
Indegrees_PerEdge(ns, es) == [c \in ns |-> Cardinality({e \in es : e.consumer = c})]

Indegrees(ns, es) == [c \in ns |-> Cardinality(Providers(es, c))]

Roots(degrees) == {n \in DOMAIN degrees : degrees[n] = 0}

SortInit ==
    /\ \E g \in Inputs : nodes = g.nodes /\ edges = g.edges
    /\ indegree = Indegrees(nodes, edges)
    /\ ready = Roots(indegree)
    /\ order = << >>
    /\ visited = [n \in nodes |-> "None"]
    /\ stack = << >>
    /\ cycle = << >>
    /\ verdict = "sorting"

\* Seeded defect: a plugin is ready as soon as one of its providers is ordered.
PopReady_Early ==
    /\ verdict = "sorting"
    /\ \E next \in Ids :
        /\ IsLeast(next, ready)
        /\ order' = Append(order, next)
        /\ indegree' = [n \in nodes |->
             IF n \in Consumers(edges, next) THEN indegree[n] - 1 ELSE indegree[n]]
        /\ ready' = (ready \ {next})
             \cup {n \in Consumers(edges, next) : n \notin ready /\ \A i \in 1..Len(order) : order[i] # n}
    /\ UNCHANGED <<nodes, edges, visited, stack, cycle, verdict>>

\* Seeded defect: the plugin that became ready last goes first.
PopReady_Greatest ==
    /\ verdict = "sorting"
    /\ \E next \in ready :
        /\ \A n \in ready : n <= next
        /\ order' = Append(order, next)
        /\ indegree' = [n \in nodes |->
             IF n \in Consumers(edges, next) THEN indegree[n] - 1 ELSE indegree[n]]
        /\ ready' = (ready \ {next}) \cup {n \in Consumers(edges, next) : indegree[n] = 1}
    /\ UNCHANGED <<nodes, edges, visited, stack, cycle, verdict>>

\* Seeded defect: the plugin that was ordered stays ready.
PopReady_Keeps ==
    /\ verdict = "sorting"
    /\ \E next \in Ids :
        /\ IsLeast(next, ready)
        /\ order' = Append(order, next)
        /\ indegree' = [n \in nodes |->
             IF n \in Consumers(edges, next) THEN indegree[n] - 1 ELSE indegree[n]]
        /\ ready' = ready \cup {n \in Consumers(edges, next) : indegree[n] = 1}
    /\ UNCHANGED <<nodes, edges, visited, stack, cycle, verdict>>

\* One iteration of `while let Some(next) = ready.pop_first()`.
PopReady ==
    /\ verdict = "sorting"
    /\ \E next \in Ids :
        /\ IsLeast(next, ready)
        /\ order' = Append(order, next)
        /\ indegree' = [n \in nodes |->
             IF n \in Consumers(edges, next) THEN indegree[n] - 1 ELSE indegree[n]]
        /\ ready' = (ready \ {next}) \cup {n \in Consumers(edges, next) : indegree[n] = 1}
    /\ UNCHANGED <<nodes, edges, visited, stack, cycle, verdict>>

Sorted ==
    /\ verdict = "sorting" /\ ready = {}
    /\ Len(order) = Cardinality(nodes)
    /\ verdict' = "Ok"
    /\ UNCHANGED <<nodes, edges, indegree, ready, order, visited, stack, cycle>>

Unsorted ==
    /\ verdict = "sorting" /\ ready = {}
    /\ Len(order) # Cardinality(nodes)
    /\ verdict' = "searching"
    /\ UNCHANGED <<nodes, edges, indegree, ready, order, visited, stack, cycle>>

-----------------------------------------------------------------------------
(* find_cycle *)

Remaining == {n \in nodes : indegree[n] > 0}
Neighbours(n) == Consumers(edges, n) \cap Remaining
Unvisited == {n \in Remaining : visited[n] = "None"}

Top == stack[Len(stack)]
Pushed(s, n) == Append(s, [plugin |-> n, todo |-> Neighbours(n)])

\* The next start of the outer for loop.
StartSearch ==
    /\ verdict = "searching" /\ stack = << >>
    /\ \E start \in Ids :
        /\ IsLeast(start, Unvisited)
        /\ stack' = Pushed(stack, start)
        /\ visited' = [visited EXCEPT ![start] = "Visiting"]
    /\ UNCHANGED <<nodes, edges, indegree, ready, order, cycle, verdict>>

\* Seeded defect: a plugin whose neighbours were all tried counts as unvisited.
Backtrack_Forgets ==
    /\ verdict = "searching" /\ stack # << >> /\ Top.todo = {}
    /\ visited' = [visited EXCEPT ![Top.plugin] = "None"]
    /\ stack' = SubSeq(stack, 1, Len(stack) - 1)
    /\ UNCHANGED <<nodes, edges, indegree, ready, order, cycle, verdict>>

\* Every neighbour of the top was tried.
Backtrack ==
    /\ verdict = "searching" /\ stack # << >> /\ Top.todo = {}
    /\ visited' = [visited EXCEPT ![Top.plugin] = "Done"]
    /\ stack' = SubSeq(stack, 1, Len(stack) - 1)
    /\ UNCHANGED <<nodes, edges, indegree, ready, order, cycle, verdict>>

OnPath(next) == {i \in 1..Len(stack) : stack[i].plugin = next}

\* Seeded defect: the reported path always begins where the search did.
PathFrom_Start(position) == [i \in 1..Len(stack) |-> stack[i].plugin]

\* path[position..] of the neighbour's position on the path.
PathFrom(position) ==
    [i \in 1..(Len(stack) - position + 1) |-> stack[position + i - 1].plugin]

\* The next neighbour of the top: report a cycle, skip it, or descend.
TryNeighbour ==
    /\ verdict = "searching" /\ stack # << >>
    /\ \E next \in Ids :
        LET advanced == [stack EXCEPT ![Len(stack)].todo = @ \ {next}]
        IN  /\ IsLeast(next, Top.todo)
            /\ \/ /\ visited[next] = "Visiting"
                  /\ IF OnPath(next) = {}
                     THEN stack' = advanced /\ UNCHANGED <<cycle, verdict>>
                     ELSE /\ \E position \in OnPath(next) :
                               cycle' = Append(PathFrom(position), next)
                          /\ verdict' = "DependencyCycle"
                          /\ UNCHANGED stack
                  /\ UNCHANGED visited
               \/ /\ visited[next] = "Done"
                  /\ stack' = advanced
                  /\ UNCHANGED <<visited, cycle, verdict>>
               \/ /\ visited[next] = "None"
                  /\ stack' = Pushed(advanced, next)
                  /\ visited' = [visited EXCEPT ![next] = "Visiting"]
                  /\ UNCHANGED <<cycle, verdict>>
    /\ UNCHANGED <<nodes, edges, indegree, ready, order>>

-----------------------------------------------------------------------------
\* The code after the outer loop of find_cycle, which reports the smallest
\* remaining plugin alone, has no action: CycleIsReal shows it is dead code.

\* The result has been returned.
Returned == verdict \in {"Ok", "DependencyCycle"} /\ UNCHANGED sortVars

SortNext == PopReady \/ Sorted \/ Unsorted \/ StartSearch \/ Backtrack \/ TryNeighbour

SortSpec == SortInit /\ [][SortNext \/ Returned]_sortVars /\ WF_sortVars(SortNext)

-----------------------------------------------------------------------------
(* Properties *)

Ordered == {order[i] : i \in 1..Len(order)}

\* Every variable stays within its type; indegree never goes below zero, so
\* the subtraction of topological_order cannot underflow.
SortTypeOK ==
    /\ nodes \subseteq Ids /\ edges \subseteq Edge
    /\ indegree \in [nodes -> Nat]
    /\ ready \subseteq nodes
    /\ order \in Seq(nodes)
    /\ visited \in [nodes -> {"None", "Visiting", "Done"}]
    /\ stack \in Seq([plugin : nodes, todo : SUBSET nodes])
    /\ cycle \in Seq(nodes)
    /\ verdict \in {"sorting", "searching", "Ok", "DependencyCycle"}

\* The startup order, complete or not, names no plugin twice and every
\* provider of a plugin it names stands before that plugin: what lets
\* initialize_all walk it forwards and every cleanup walk it backwards.
OrderRespectsEdges ==
    /\ \A i, j \in 1..Len(order) : order[i] = order[j] => i = j
    /\ \A i \in 1..Len(order) : \A p \in Providers(edges, order[i]) :
         \E j \in 1..(i - 1) : order[j] = p

\* Plugins none of which can start first: each one needs another of them.
Deadlocked(S) == S # {} /\ \A n \in S : Providers(edges, n) \cap S # {}

\* topological_order returns an order exactly when one exists, and then the
\* order names every plugin; a graph is refused only when some of its plugins
\* wait for each other.
VerdictIsRight ==
    /\ verdict = "Ok" =>
         Ordered = nodes /\ \A S \in SUBSET nodes : ~Deadlocked(S)
    /\ verdict \in {"searching", "DependencyCycle"} =>
         \E S \in SUBSET nodes : Deadlocked(S)

\* The path find_cycle reports is a cycle of the graph: it ends where it
\* began, repeats nothing else, and each plugin provides to the next.  The
\* search never runs out of plugins before it finds one.
CycleIsReal ==
    /\ verdict = "DependencyCycle" =>
         /\ Len(cycle) >= 2 /\ cycle[1] = cycle[Len(cycle)]
         /\ \A i, j \in 1..(Len(cycle) - 1) : cycle[i] = cycle[j] => i = j
         /\ \A i \in 1..(Len(cycle) - 1) : cycle[i] \in Providers(edges, cycle[i + 1])
    /\ verdict = "searching" /\ stack = << >> => Unvisited # {}

\* The order is a function of the graph: each plugin appended is the smallest
\* of those not ordered whose providers all are.
SmallestFirst ==
    [][order' # order =>
         IsLeast(order'[Len(order')],
                 {n \in nodes \ Ordered : Providers(edges, n) \subseteq Ordered})]_sortVars

\* Both loops end, whatever the graph.
SortReturns == <>(verdict \in {"Ok", "DependencyCycle"})
=============================================================================
