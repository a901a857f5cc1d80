----------------------- MODULE TopologicalOrderProofs -----------------------
(***************************************************************************)
(* topological_order is right for every finite graph: what it returns is a *)
(* topological order of all plugins, built smallest first, and it refuses  *)
(* exactly the graphs that have no such order; the cycle that find_cycle   *)
(* reports for one of these is a cycle of the graph.                       *)
(*                                                                         *)
(* The invariant ties the two data structures of the loop to the graph:    *)
(* indegree counts the providers that are not ordered, and ready holds the *)
(* plugins that have none.  A set of plugins that wait for each other can  *)
(* never lose a member to the order, which gives the verdict both ways.    *)
(* For the search, the stack is a path of visited plugins, and whoever is  *)
(* done provides to plugins that are done, none of which wait for others.  *)
(***************************************************************************)
EXTENDS TopologicalOrder, TLAPS, FiniteSetTheorems, SequenceTheorems

WaitingFor(n) == Providers(edges, n) \ Ordered

\* The input, which no step changes.
InputInv ==
    /\ nodes \subseteq Ids
    /\ edges \subseteq Edge
    /\ \A e \in edges : e.provider \in nodes /\ e.consumer \in nodes

\* The loop's data structures against the graph.
KahnInv ==
    /\ order \in Seq(nodes)
    /\ indegree = [n \in nodes |-> Cardinality(WaitingFor(n))]
    /\ ready = {n \in nodes \ Ordered : Providers(edges, n) \subseteq Ordered}

\* The order's length counts its plugins, for the comparison with nodes.len().
CountInv == IsFiniteSet(Ordered) /\ Cardinality(Ordered) = Len(order)

VerdictInv ==
    /\ verdict \in {"sorting", "searching", "Ok", "DependencyCycle"}
    /\ verdict # "sorting" => ready = {}
    /\ verdict = "Ok" => Len(order) = Cardinality(nodes)
    /\ verdict \in {"searching", "DependencyCycle"} => Len(order) # Cardinality(nodes)

\* Plugins that wait for each other are never ordered.
DeadlockInv == \A S \in SUBSET nodes : Deadlocked(S) => S \cap Ordered = {}

SInv == InputInv /\ KahnInv /\ CountInv /\ VerdictInv /\ OrderRespectsEdges /\ DeadlockInv

-----------------------------------------------------------------------------
\* The plugins of an order after one more is appended.
LEMMA OrderedAppend ==
    ASSUME NEW S, NEW s \in Seq(S), NEW x \in S
    PROVE  /\ Append(s, x) \in Seq(S)
           /\ Len(Append(s, x)) = Len(s) + 1
           /\ \A i \in 1..Len(s) : Append(s, x)[i] = s[i]
           /\ Append(s, x)[Len(s) + 1] = x
           /\ {Append(s, x)[i] : i \in 1..Len(Append(s, x))} = {s[i] : i \in 1..Len(s)} \cup {x}
<1> DEFINE t == Append(s, x)
<1>1. /\ t \in Seq(S) /\ Len(t) = Len(s) + 1
      /\ \A i \in 1..Len(s) : t[i] = s[i]
      /\ t[Len(s) + 1] = x
  OBVIOUS
<1>2. Len(s) \in Nat
  OBVIOUS
<1>3. 1..(Len(s) + 1) = (1..Len(s)) \cup {Len(s) + 1}
  BY <1>2
<1> HIDE DEF t
<1>4. {t[i] : i \in 1..Len(t)} = {s[i] : i \in 1..Len(s)} \cup {x}
  BY <1>1, <1>3
<1> QED  BY <1>1, <1>4 DEF t

\* The plugins of a graph, and the providers of each, are finite sets.
LEMMA FiniteInput ==
    ASSUME InputInv
    PROVE  /\ IsFiniteSet(nodes)
           /\ \A n : Providers(edges, n) \subseteq nodes /\ IsFiniteSet(Providers(edges, n))
           /\ \A n : IsFiniteSet(WaitingFor(n)) /\ Cardinality(WaitingFor(n)) \in Nat
<1>1. IsFiniteSet(nodes)
  BY IdsAssumption, FS_Subset DEF InputInv
<1>2. \A n : Providers(edges, n) \subseteq nodes
  BY DEF InputInv, Providers
<1>3. \A n : IsFiniteSet(Providers(edges, n))
  BY <1>1, <1>2, FS_Subset
<1>4. \A n : IsFiniteSet(WaitingFor(n))
  BY <1>3, FS_Subset DEF WaitingFor
<1> QED  BY <1>1, <1>2, <1>3, <1>4, FS_CardinalityType

\* What topological_order computes before its loop, from the graph.
SortStart ==
    /\ InputInv
    /\ indegree = Indegrees(nodes, edges) /\ ready = Roots(indegree)
    /\ order = << >> /\ verdict = "sorting"

\* The first indegrees and the first ready set agree with the graph.
LEMMA StartSInv == SortStart => SInv
<1> SUFFICES ASSUME SortStart PROVE SInv
  OBVIOUS
<1>1. InputInv
  BY DEF SortStart
<1>2. Ordered = {} /\ order = << >> /\ Len(order) = 0
  BY DEF SortStart, Ordered
<1>3. \A n : WaitingFor(n) = Providers(edges, n)
  BY <1>2 DEF WaitingFor
<1>4. indegree = [n \in nodes |-> Cardinality(WaitingFor(n))]
  BY <1>3 DEF SortStart, Indegrees
<1>5. \A n \in nodes : indegree[n] = 0 <=> Providers(edges, n) = {}
  BY <1>1, <1>3, <1>4, FiniteInput, FS_EmptySet
<1>6. ready = {n \in nodes : indegree[n] = 0}
  BY <1>4 DEF SortStart, Roots
<1>7. KahnInv
  <2>1. order \in Seq(nodes)
    BY <1>2
  <2> QED  BY <2>1, <1>2, <1>4, <1>5, <1>6 DEF KahnInv
<1>8. CountInv
  BY <1>2, FS_EmptySet DEF CountInv
<1>9. VerdictInv /\ OrderRespectsEdges /\ DeadlockInv
  BY <1>2 DEF VerdictInv, OrderRespectsEdges, DeadlockInv, SortStart
<1> QED  BY <1>1, <1>7, <1>8, <1>9 DEF SInv

\* Each input is a graph.
LEMMA InitSInv == SortInit => SInv
<1>1. SortInit => InputInv
  BY InputsAssumption DEF SortInit, InputInv
<1>2. SortInit => SortStart
  BY <1>1 DEF SortInit, SortStart
<1> QED  BY <1>2, StartSInv

\* One iteration of Kahn's loop keeps all of it.
LEMMA PopSInv == SInv /\ PopReady => SInv'
<1> SUFFICES ASSUME SInv, PopReady PROVE SInv'
  OBVIOUS
<1> USE DEF SInv
<1>1. PICK next \in Ids :
        /\ IsLeast(next, ready)
        /\ order' = Append(order, next)
        /\ indegree' = [n \in nodes |->
             IF n \in Consumers(edges, next) THEN indegree[n] - 1 ELSE indegree[n]]
        /\ ready' = (ready \ {next}) \cup {n \in Consumers(edges, next) : indegree[n] = 1}
  BY DEF PopReady
<1>2. nodes' = nodes /\ edges' = edges /\ verdict' = verdict /\ verdict = "sorting"
  BY DEF PopReady
<1>3. next \in nodes \ Ordered /\ Providers(edges, next) \subseteq Ordered
  BY <1>1 DEF IsLeast, KahnInv
<1>4. /\ order' \in Seq(nodes) /\ Len(order') = Len(order) + 1
      /\ \A i \in 1..Len(order) : order'[i] = order[i]
      /\ order'[Len(order) + 1] = next
      /\ Ordered' = Ordered \cup {next}
  BY <1>1, <1>3, OrderedAppend DEF KahnInv, Ordered
<1>5. InputInv'
  BY <1>2 DEF InputInv
<1>6. \A n \in nodes : n \in Consumers(edges, next) <=> next \in Providers(edges, n)
  BY <1>1 DEF Consumers, Providers, InputInv
<1>7. \A n : WaitingFor(n)' = WaitingFor(n) \ {next}
  BY <1>2, <1>4 DEF WaitingFor, Providers
<1>8. \A n \in Consumers(edges, next) : n \in nodes \ Ordered /\ n # next
  <2> SUFFICES ASSUME NEW n \in Consumers(edges, next) PROVE n \in nodes \ Ordered /\ n # next
    OBVIOUS
  <2>1. n \in nodes /\ next \in Providers(edges, n)
    BY <1>1 DEF Consumers, Providers, InputInv
  <2>2. n \notin Ordered
    <3> SUFFICES ASSUME NEW i \in 1..Len(order), order[i] = n PROVE FALSE
      BY DEF Ordered
    <3>1. PICK j \in 1..(i - 1) : order[j] = next
      BY <2>1 DEF OrderRespectsEdges
    <3>2. j \in 1..Len(order)
      BY DEF KahnInv
    <3> QED  BY <3>1, <3>2, <1>3 DEF Ordered
  <2> QED  BY <2>1, <2>2, <1>3
<1>9. KahnInv'
  <2>1. indegree' = [n \in nodes |-> Cardinality(WaitingFor(n)')]
    <3> SUFFICES ASSUME NEW n \in nodes PROVE indegree'[n] = Cardinality(WaitingFor(n)')
      BY <1>1
    <3>1. IsFiniteSet(WaitingFor(n)) /\ indegree[n] = Cardinality(WaitingFor(n))
      BY FiniteInput DEF KahnInv
    <3>2. Cardinality(WaitingFor(n) \ {next})
            = IF next \in WaitingFor(n) THEN Cardinality(WaitingFor(n)) - 1
              ELSE Cardinality(WaitingFor(n))
      BY <3>1, FS_RemoveElement
    <3>3. next \in WaitingFor(n) <=> n \in Consumers(edges, next)
      BY <1>3, <1>6 DEF WaitingFor
    <3> QED  BY <1>1, <1>7, <3>1, <3>2, <3>3
  <2>2. \A n \in Consumers(edges, next) : indegree[n] = 1 <=> Providers(edges, n) \subseteq Ordered'
    <3> SUFFICES ASSUME NEW n \in Consumers(edges, next)
                 PROVE  indegree[n] = 1 <=> Providers(edges, n) \subseteq Ordered'
      OBVIOUS
    <3>1. n \in nodes /\ next \in WaitingFor(n)
      BY <1>3, <1>6, <1>8 DEF WaitingFor
    <3>2. IsFiniteSet(WaitingFor(n)) /\ indegree[n] = Cardinality(WaitingFor(n))
      BY <3>1, FiniteInput DEF KahnInv
    <3>3. indegree[n] = 1 <=> WaitingFor(n) = {next}
      BY <3>1, <3>2, FS_Singleton
    <3> QED  BY <3>1, <3>3, <1>4 DEF WaitingFor
  <2>3. \A n \in nodes : n \notin Consumers(edges, next) =>
          (Providers(edges, n) \subseteq Ordered' <=> Providers(edges, n) \subseteq Ordered)
    BY <1>4, <1>6
  <2>4. ready' = {n \in nodes \ Ordered' : Providers(edges, n) \subseteq Ordered'}
    <3>1. \A n \in ready \ {next} : n \in nodes \ Ordered' /\ Providers(edges, n) \subseteq Ordered'
      BY <1>4 DEF KahnInv
    <3>2. \A n \in Consumers(edges, next) : n \in nodes \ Ordered'
      BY <1>4, <1>8
    <3>3. \A n \in nodes \ Ordered' : n # next /\ n \notin Ordered
      BY <1>4
    <3> QED  BY <1>1, <2>2, <2>3, <3>1, <3>2, <3>3 DEF KahnInv
  <2> QED  BY <1>2, <1>4, <2>1, <2>4 DEF KahnInv, Providers
<1>10. CountInv'
  <2>1. IsFiniteSet(Ordered) /\ Cardinality(Ordered) = Len(order) /\ next \notin Ordered
    BY <1>3 DEF CountInv
  <2> QED  BY <2>1, <1>4, FS_AddElement DEF CountInv
<1>11. VerdictInv'
  BY <1>2 DEF VerdictInv
<1>12. OrderRespectsEdges'
  <2>1. Len(order) \in Nat
    BY DEF KahnInv
  <2>2. 1..Len(order') = (1..Len(order)) \cup {Len(order) + 1}
    BY <1>4, <2>1
  <2>3. \A i \in 1..Len(order) : order'[i] \in Ordered /\ i # Len(order) + 1
    BY <1>4, <2>1 DEF Ordered
  <2>4. \A i, j \in 1..Len(order') : order'[i] = order'[j] => i = j
    <3> SUFFICES ASSUME NEW i \in 1..Len(order'), NEW j \in 1..Len(order'), order'[i] = order'[j]
                 PROVE  i = j
      OBVIOUS
    <3>1. CASE i \in 1..Len(order) /\ j \in 1..Len(order)
      BY <3>1, <1>4 DEF OrderRespectsEdges
    <3>2. CASE i = Len(order) + 1 \/ j = Len(order) + 1
      BY <3>2, <1>3, <1>4, <2>2, <2>3
    <3> QED  BY <3>1, <3>2, <2>2
  <2>5. ASSUME NEW i \in 1..Len(order'), NEW p \in Providers(edges, order'[i])
        PROVE  \E j \in 1..(i - 1) : order'[j] = p
    <3>1. CASE i \in 1..Len(order)
      <4>1. PICK j \in 1..(i - 1) : order[j] = p
        BY <3>1, <2>5, <1>4 DEF OrderRespectsEdges
      <4>2. j \in 1..Len(order)
        BY <3>1, <2>1
      <4> QED  BY <4>1, <4>2, <1>4
    <3>2. CASE i = Len(order) + 1
      <4>1. p \in Ordered
        BY <3>2, <2>5, <1>3, <1>4
      <4>2. PICK j \in 1..Len(order) : order[j] = p
        BY <4>1 DEF Ordered
      <4>3. j \in 1..(i - 1)
        BY <3>2, <2>1
      <4> QED  BY <4>2, <4>3, <1>4
    <3> QED  BY <3>1, <3>2, <2>2
  <2> QED  BY <1>2, <2>4, <2>5 DEF OrderRespectsEdges, Providers
<1>13. DeadlockInv'
  <2>1. ASSUME NEW S \in SUBSET nodes, Deadlocked(S) PROVE S \cap Ordered' = {}
    <3>1. S \cap Ordered = {}
      BY <2>1 DEF DeadlockInv
    <3>2. next \notin S
      BY <2>1, <3>1, <1>3 DEF Deadlocked
    <3> QED  BY <3>1, <3>2, <1>4
  <2>2. \A S : Deadlocked(S)' <=> Deadlocked(S)
    BY <1>2 DEF Deadlocked, Providers
  <2> QED  BY <1>2, <2>1, <2>2 DEF DeadlockInv
<1> QED  BY <1>5, <1>9, <1>10, <1>11, <1>12, <1>13

\* The other steps leave the loop's data structures alone.
LEMMA NextSInv == SInv /\ [SortNext \/ Returned]_sortVars => SInv'
<1> SUFFICES ASSUME SInv, [SortNext \/ Returned]_sortVars PROVE SInv'
  OBVIOUS
<1>1. CASE PopReady
  BY <1>1, PopSInv
<1>2. ASSUME UNCHANGED <<nodes, edges, indegree, ready, order>>, VerdictInv' PROVE SInv'
  <2>1. Ordered' = Ordered
    BY <1>2 DEF Ordered
  <2>2. \A n : Providers(edges, n)' = Providers(edges, n) /\ WaitingFor(n)' = WaitingFor(n)
    BY <1>2, <2>1 DEF Providers, WaitingFor
  <2>3. \A S : Deadlocked(S)' <=> Deadlocked(S)
    BY <2>2 DEF Deadlocked
  <2>4. InputInv' /\ KahnInv' /\ CountInv'
    BY <1>2, <2>1, <2>2 DEF SInv, InputInv, KahnInv, CountInv
  <2>5. OrderRespectsEdges'
    BY <1>2, <2>2 DEF SInv, OrderRespectsEdges
  <2>6. DeadlockInv'
    BY <1>2, <2>1, <2>3 DEF SInv, DeadlockInv
  <2> QED  BY <1>2, <2>4, <2>5, <2>6 DEF SInv
<1>3. CASE Sorted \/ Unsorted
  BY <1>2, <1>3 DEF Sorted, Unsorted, SInv, VerdictInv
<1>4. CASE StartSearch \/ Backtrack
  BY <1>2, <1>4 DEF StartSearch, Backtrack, SInv, VerdictInv
<1>5. CASE TryNeighbour
  BY <1>2, <1>5 DEF TryNeighbour, SInv, VerdictInv
<1>6. CASE Returned \/ UNCHANGED sortVars
  BY <1>2, <1>6 DEF Returned, sortVars, SInv, VerdictInv
<1> QED  BY <1>1, <1>3, <1>4, <1>5, <1>6 DEF SortNext

\* The invariant of topological_order holds in every state.
THEOREM SortInvariance == SortSpec => []SInv
<1>1. SortInit => SInv
  BY InitSInv
<1>2. SInv /\ [SortNext \/ Returned]_sortVars => SInv'
  BY NextSInv
<1> QED  BY <1>1, <1>2, PTL DEF SortSpec

\* In every graph, whatever topological_order has put in its order stands
\* behind all of its providers, and once.
THEOREM OrderIsTopological == SortSpec => []OrderRespectsEdges
<1>1. SInv => OrderRespectsEdges
  BY DEF SInv
<1> QED  BY <1>1, SortInvariance, PTL

\* The order's length tells whether every plugin is in it.
LEMMA CountTells ==
    ASSUME SInv
    PROVE  Ordered \subseteq nodes /\ (Len(order) = Cardinality(nodes) <=> Ordered = nodes)
<1>1. Ordered \subseteq nodes
  BY DEF SInv, KahnInv, Ordered
<1>2. IsFiniteSet(nodes) /\ IsFiniteSet(Ordered)
  BY FiniteInput DEF SInv, CountInv
<1> QED  BY <1>1, <1>2, FS_Subset DEF SInv, CountInv

\* When Kahn's loop gives up, the plugins that are left wait for each other.
LEMMA StuckDeadlocked ==
    ASSUME SInv, verdict \in {"searching", "DependencyCycle"}
    PROVE  Deadlocked(nodes \ Ordered)
<1>1. nodes \ Ordered # {}
  BY CountTells DEF SInv, VerdictInv
<1>2. ready = {}
  BY DEF SInv, VerdictInv
<1>3. \A n \in nodes \ Ordered : Providers(edges, n) \cap (nodes \ Ordered) # {}
  BY <1>2, FiniteInput DEF SInv, KahnInv
<1> QED  BY <1>1, <1>3 DEF Deadlocked

\* The comparison of lengths after the loop gives the right verdict.
LEMMA RightVerdict == SInv => VerdictIsRight
<1> SUFFICES ASSUME SInv PROVE VerdictIsRight
  OBVIOUS
<1>1. ASSUME verdict = "Ok" PROVE Ordered = nodes /\ \A S \in SUBSET nodes : ~Deadlocked(S)
  <2>1. Ordered = nodes
    BY <1>1, CountTells DEF SInv, VerdictInv
  <2> QED  BY <2>1 DEF SInv, DeadlockInv, Deadlocked
<1>2. ASSUME verdict \in {"searching", "DependencyCycle"}
      PROVE  \E S \in SUBSET nodes : Deadlocked(S)
  BY <1>2, StuckDeadlocked
<1> QED  BY <1>1, <1>2 DEF VerdictIsRight

\* topological_order returns Ok exactly for the graphs in which no plugins wait
\* for each other, and then it has ordered every plugin.
THEOREM VerdictRight == SortSpec => []VerdictIsRight
  BY RightVerdict, SortInvariance, PTL

\* The order is determined by the graph: every plugin appended is the smallest
\* that could be.
THEOREM OrderIsDeterministic == SortSpec => SmallestFirst
<1>1. ASSUME SInv, [SortNext \/ Returned]_sortVars
      PROVE  [order' # order =>
                IsLeast(order'[Len(order')],
                        {n \in nodes \ Ordered : Providers(edges, n) \subseteq Ordered})]_sortVars
  <2>1. CASE PopReady
    <3>1. PICK next \in Ids : IsLeast(next, ready) /\ order' = Append(order, next)
      BY <2>1 DEF PopReady
    <3>2. next \in nodes /\ order \in Seq(nodes)
      BY <1>1, <3>1 DEF SInv, KahnInv, IsLeast
    <3>3. order'[Len(order')] = next
      BY <3>1, <3>2, OrderedAppend
    <3> QED  BY <1>1, <3>1, <3>3 DEF SInv, KahnInv
  <2>2. CASE Sorted \/ Unsorted \/ StartSearch \/ Backtrack \/ Returned \/ UNCHANGED sortVars
    BY <2>2 DEF Sorted, Unsorted, StartSearch, Backtrack, Returned, sortVars
  <2>3. CASE TryNeighbour
    BY <2>3 DEF TryNeighbour
  <2> QED  BY <1>1, <2>1, <2>2, <2>3 DEF SortNext
<1> QED  BY <1>1, SortInvariance, PTL DEF SortSpec, SmallestFirst

-----------------------------------------------------------------------------
\* The types of find_cycle's variables.
SearchType ==
    /\ visited \in [nodes -> {"None", "Visiting", "Done"}]
    /\ stack \in Seq([plugin : nodes, todo : SUBSET nodes])
    /\ cycle \in Seq(nodes)

\* Pushing a plugin keeps the stack's type.
LEMMA PushedType ==
    ASSUME NEW s \in Seq([plugin : nodes, todo : SUBSET nodes]), NEW n \in nodes
    PROVE  Pushed(s, n) \in Seq([plugin : nodes, todo : SUBSET nodes])
<1>1. [plugin |-> n, todo |-> Neighbours(n)] \in [plugin : nodes, todo : SUBSET nodes]
  BY DEF Neighbours, Remaining
<1> QED  BY <1>1 DEF Pushed

\* Each step of the search keeps the types.
LEMMA NextSearchType == SInv /\ SearchType /\ [SortNext \/ Returned]_sortVars => SearchType'
<1> SUFFICES ASSUME SInv, SearchType, [SortNext \/ Returned]_sortVars PROVE SearchType'
  OBVIOUS
<1> DEFINE Frame == [plugin : nodes, todo : SUBSET nodes]
<1>1. CASE PopReady \/ Sorted \/ Unsorted \/ Returned \/ UNCHANGED sortVars
  BY <1>1 DEF PopReady, Sorted, Unsorted, Returned, sortVars, SearchType
<1>2. CASE StartSearch
  <2>1. PICK start \in Ids : /\ IsLeast(start, Unvisited)
                             /\ stack' = Pushed(stack, start)
                             /\ visited' = [visited EXCEPT ![start] = "Visiting"]
    BY <1>2 DEF StartSearch
  <2>2. start \in nodes
    BY <2>1 DEF IsLeast, Unvisited, Remaining
  <2>3. stack' \in Seq(Frame)
    BY <2>1, <2>2, PushedType DEF SearchType
  <2> QED  BY <1>2, <2>1, <2>3 DEF SearchType, StartSearch
<1>3. CASE Backtrack
  <2>1. stack \in Seq(Frame) /\ stack # << >>
    BY <1>3 DEF Backtrack, SearchType
  <2>2. SubSeq(stack, 1, Len(stack) - 1) \in Seq(Frame)
    <3> HIDE DEF Frame
    <3>1. Len(stack) \in Nat \ {0}
      BY <2>1
    <3> QED  BY <2>1, <3>1, SubSeqProperties
  <2> QED  BY <1>3, <2>2 DEF SearchType, Backtrack
<1>4. CASE TryNeighbour
  <2>1. stack \in Seq(Frame) /\ stack # << >> /\ Len(stack) \in 1..Len(stack)
    BY <1>4 DEF TryNeighbour, SearchType
  <2>2. PICK next \in Ids :
          LET advanced == [stack EXCEPT ![Len(stack)].todo = @ \ {next}]
          IN  /\ IsLeast(next, Top.todo)
              /\ \/ /\ \E position \in OnPath(next) :
                         cycle' = Append(PathFrom(position), next)
                    /\ UNCHANGED <<stack, visited>>
                 \/ stack' = advanced /\ UNCHANGED <<visited, cycle>>
                 \/ /\ stack' = Pushed(advanced, next)
                    /\ visited' = [visited EXCEPT ![next] = "Visiting"]
                    /\ UNCHANGED cycle
    BY <1>4 DEF TryNeighbour
  <2> DEFINE advanced == [stack EXCEPT ![Len(stack)].todo = @ \ {next}]
  <2>3. \A i \in 1..Len(stack) :
          stack[i] \in Frame /\ stack[i].plugin \in nodes /\ stack[i].todo \subseteq nodes
    <3>1. \A i \in 1..Len(stack) : stack[i] \in Frame
      <4> HIDE DEF Frame
      <4> QED  BY <2>1
    <3> QED  BY <3>1
  <2>4. next \in nodes
    BY <2>1, <2>2, <2>3 DEF IsLeast, Top
  <2>5. advanced \in Seq(Frame)
    <3>1. [stack[Len(stack)] EXCEPT !.todo = @ \ {next}] \in Frame
      BY <2>1, <2>3
    <3>2. advanced = [stack EXCEPT ![Len(stack)] = [stack[Len(stack)] EXCEPT !.todo = @ \ {next}]]
      BY <2>1
    <3> HIDE DEF Frame, advanced
    <3> QED  BY <2>1, <3>1, <3>2, ExceptSeq
  <2>6. nodes' = nodes
    BY <1>4 DEF TryNeighbour
  <2> HIDE DEF advanced
  <2>7. ASSUME NEW position \in OnPath(next) PROVE Append(PathFrom(position), next) \in Seq(nodes)
    <3>1. position \in 1..Len(stack) /\ Len(stack) \in Nat
      BY <2>1 DEF OnPath
    <3>2. \A i \in 1..(Len(stack) - position + 1) : position + i - 1 \in 1..Len(stack)
      BY <3>1
    <3>3. \A i \in 1..(Len(stack) - position + 1) : stack[position + i - 1].plugin \in nodes
      BY <2>3, <3>2
    <3>4. PathFrom(position) \in Seq(nodes)
      BY <3>1, <3>3 DEF PathFrom
    <3> QED  BY <3>4, <2>4
  <2>8. Pushed(advanced, next) \in Seq(Frame)
    BY <2>4, <2>5, PushedType
  <2> QED  BY <2>2, <2>4, <2>5, <2>6, <2>7, <2>8 DEF SearchType, advanced
<1> QED  BY <1>1, <1>2, <1>3, <1>4 DEF SortNext

\* topological_order and find_cycle keep every variable within its type; no
\* indegree is decremented below zero.
THEOREM SortTypeCorrect == SortSpec => []SortTypeOK
<1>1. SortInit => SearchType
  BY DEF SortInit, SearchType
<1>2. SInv /\ SearchType /\ [SortNext \/ Returned]_sortVars => SearchType'
  BY NextSearchType
<1>3. SInv /\ SearchType => SortTypeOK
  <2> SUFFICES ASSUME SInv, SearchType PROVE SortTypeOK
    OBVIOUS
  <2>1. indegree \in [nodes -> Nat]
    BY FiniteInput DEF SInv, KahnInv
  <2>2. nodes \subseteq Ids /\ edges \subseteq Edge /\ ready \subseteq nodes /\ order \in Seq(nodes)
    BY DEF SInv, InputInv, KahnInv
  <2> QED  BY <2>1, <2>2 DEF SortTypeOK, SearchType, SInv, VerdictInv
<1> QED  BY <1>1, <1>2, <1>3, SortInvariance, PTL DEF SortSpec

-----------------------------------------------------------------------------
(* find_cycle *)

\* The path of the search, a sequence s of frames, when vis is what was visited:
\* it names no plugin twice;
Simple(s) == \A i, j \in 1..Len(s) : s[i].plugin = s[j].plugin => i = j
\* it holds the plugins that are being visited;
Exact(s, vis) == \A n \in nodes : vis[n] = "Visiting" <=> \E i \in 1..Len(s) : s[i].plugin = n
\* it runs through plugins that remain, each with neighbours of its own to try;
Within(s) == \A i \in 1..Len(s) :
    s[i].plugin \in Remaining /\ s[i].todo \subseteq Neighbours(s[i].plugin)
\* a neighbour that was tried is Done, or is the next plugin of the path;
Tried(s, vis) == \A i \in 1..Len(s) : \A m \in Neighbours(s[i].plugin) :
    m \in s[i].todo \/ vis[m] = "Done" \/ (i < Len(s) /\ m = s[i + 1].plugin)
\* and each plugin provides to the next.
Linked(s) == \A i \in 1..Len(s) : i < Len(s) => s[i + 1].plugin \in Neighbours(s[i].plugin)

PathOK(s, vis) == Simple(s) /\ Exact(s, vis) /\ Within(s) /\ Tried(s, vis) /\ Linked(s)

\* What a plugin that is Done provides to is Done, and no plugins that are Done
\* wait for each other.
DoneOK(vis) ==
    /\ \A n \in nodes : vis[n] = "Done" => \A m \in Neighbours(n) : vis[m] = "Done"
    /\ \A S \in SUBSET {n \in nodes : vis[n] = "Done"} : ~Deadlocked(S)

\* A path that ends where it began and has an edge from each plugin to the next.
IsCycle(c) ==
    /\ Len(c) >= 2 /\ c[1] = c[Len(c)]
    /\ \A i, j \in 1..(Len(c) - 1) : c[i] = c[j] => i = j
    /\ \A i \in 1..(Len(c) - 1) : c[i] \in Providers(edges, c[i + 1])

SearchInv ==
    /\ SearchType
    /\ verdict = "sorting" => stack = << >> /\ \A n \in nodes : visited[n] = "None"
    /\ PathOK(stack, visited) /\ DoneOK(visited)
    /\ verdict = "DependencyCycle" => IsCycle(cycle)

Frames == [plugin : nodes, todo : SUBSET nodes]

\* The stack once its top has tried a neighbour.
Advanced(next) == [stack EXCEPT ![Len(stack)].todo = @ \ {next}]

\* Neighbours are plugins that remain and have an edge from this one.
LEMMA NeighbourFacts ==
    ASSUME SInv, NEW n \in nodes
    PROVE  /\ Neighbours(n) \subseteq Remaining /\ Remaining \subseteq nodes /\ nodes \subseteq Ids
           /\ \A m \in Neighbours(n) : n \in Providers(edges, m)
           /\ \A m \in Remaining : n \in Providers(edges, m) => m \in Neighbours(n)
<1>1. nodes \subseteq Ids /\ Remaining \subseteq nodes
  BY DEF SInv, InputInv, Remaining
<1> QED  BY <1>1 DEF Neighbours, Consumers, Providers

\* The stack's frames and its top.
LEMMA StackFacts ==
    ASSUME SearchType
    PROVE  /\ Len(stack) \in Nat /\ stack \in Seq(Frames)
           /\ \A i \in 1..Len(stack) :
                stack[i] \in Frames /\ stack[i].plugin \in nodes /\ stack[i].todo \subseteq nodes
           /\ stack # << >> => Len(stack) \in 1..Len(stack)
<1>1. stack \in Seq(Frames)
  BY DEF SearchType, Frames
<1>2. Len(stack) \in Nat /\ \A i \in 1..Len(stack) : stack[i] \in Frames
  <2> HIDE DEF Frames
  <2> QED  BY <1>1
<1>3. stack # << >> => Len(stack) \in 1..Len(stack)
  BY <1>1
<1> QED  BY <1>1, <1>2, <1>3 DEF Frames

\* Trying a neighbour changes what the top has left to try, and nothing else.
LEMMA AdvancedFacts ==
    ASSUME SearchType, stack # << >>, NEW next
    PROVE  /\ Len(Advanced(next)) = Len(stack) /\ Advanced(next) \in Seq(Frames)
           /\ \A i \in 1..Len(stack) : Advanced(next)[i].plugin = stack[i].plugin
           /\ \A i \in 1..Len(stack) : i # Len(stack) => Advanced(next)[i].todo = stack[i].todo
           /\ Advanced(next)[Len(stack)].todo = stack[Len(stack)].todo \ {next}
<1> DEFINE top == stack[Len(stack)]
           new == [top EXCEPT !.todo = @ \ {next}]
           advanced == Advanced(next)
<1>1. /\ stack \in Seq(Frames) /\ Len(stack) \in 1..Len(stack) /\ top \in Frames
      /\ \A i \in 1..Len(stack) : stack[i].plugin \in nodes /\ stack[i].todo \subseteq nodes
  BY StackFacts
<1>2. new \in Frames /\ new.plugin = top.plugin /\ new.todo = top.todo \ {next}
  BY <1>1 DEF Frames
<1>3. advanced = [stack EXCEPT ![Len(stack)] = new]
  BY DEF Advanced
<1>4. advanced \in Seq(Frames) /\ Len(advanced) = Len(stack)
      /\ \A i \in 1..Len(stack) : advanced[i] = IF i = Len(stack) THEN new ELSE stack[i]
  <2> HIDE DEF new, advanced, Frames
  <2> QED  BY <1>1, <1>2, <1>3, ExceptSeq
<1> HIDE DEF advanced, new
<1>5. advanced[Len(stack)] = new /\ \A i \in 1..Len(stack) : i # Len(stack) => advanced[i] = stack[i]
  BY <1>1, <1>4
<1>6. \A i \in 1..Len(stack) : advanced[i].plugin = stack[i].plugin
  BY <1>2, <1>5
<1> QED  BY <1>2, <1>4, <1>5, <1>6 DEF advanced

\* Descending to a neighbour, or starting a search, puts a new plugin on top.
LEMMA PushedFacts ==
    ASSUME NEW s \in Seq(Frames), NEW n \in nodes
    PROVE  /\ Len(Pushed(s, n)) = Len(s) + 1
           /\ \A i \in 1..Len(s) : Pushed(s, n)[i] = s[i]
           /\ Pushed(s, n)[Len(s) + 1].plugin = n
           /\ Pushed(s, n)[Len(s) + 1].todo = Neighbours(n)
<1>1. [plugin |-> n, todo |-> Neighbours(n)] \in Frames
  BY DEF Neighbours, Remaining, Frames
<1> QED  BY <1>1, OrderedAppend DEF Pushed

-----------------------------------------------------------------------------
\* Visiting a plugin that was not visited leaves what is Done alone.
LEMMA VisitKeepsDone ==
    ASSUME SInv, SearchInv, NEW n \in nodes, visited[n] = "None",
           NEW vis, \A m \in nodes : vis[m] = IF m = n THEN "Visiting" ELSE visited[m]
    PROVE  DoneOK(vis)
<1>1. \A m \in nodes : vis[m] = "Done" <=> visited[m] = "Done"
  OBVIOUS
<1>2. {m \in nodes : vis[m] = "Done"} = {m \in nodes : visited[m] = "Done"}
  BY <1>1
<1>3. \A m \in nodes : Neighbours(m) \subseteq nodes
  BY NeighbourFacts
<1> QED  BY <1>1, <1>2, <1>3 DEF SearchInv, DoneOK

\* A search starts at an unvisited plugin, on an empty path.
LEMMA StartPath ==
    ASSUME SInv, SearchInv, NEW n \in Unvisited, stack = << >>
    PROVE  /\ PathOK(Pushed(stack, n), [visited EXCEPT ![n] = "Visiting"])
           /\ DoneOK([visited EXCEPT ![n] = "Visiting"])
<1> DEFINE s == Pushed(stack, n)
           vis == [visited EXCEPT ![n] = "Visiting"]
<1>1. n \in Remaining /\ n \in nodes /\ visited[n] = "None" /\ SearchType
  BY DEF Unvisited, Remaining, SearchInv
<1>2. Len(stack) = 0
  OBVIOUS
<1>3. Len(s) = 1 /\ s[1].plugin = n /\ s[1].todo = Neighbours(n)
  <2>1. stack \in Seq(Frames)
    BY <1>1, StackFacts
  <2>2. /\ Len(Pushed(stack, n)) = Len(stack) + 1
        /\ Pushed(stack, n)[Len(stack) + 1].plugin = n
        /\ Pushed(stack, n)[Len(stack) + 1].todo = Neighbours(n)
    BY <1>1, <2>1, PushedFacts
  <2> QED  BY <1>2, <2>2
<1>4. \A m \in nodes : vis[m] = IF m = n THEN "Visiting" ELSE visited[m]
  BY <1>1 DEF SearchType
<1>5. \A m \in nodes : visited[m] # "Visiting"
  BY <1>2 DEF SearchInv, PathOK, Exact
<1> HIDE DEF s, vis
<1>6. \A i \in 1..Len(s) : i = 1
  BY <1>3
<1>7. Simple(s) /\ Exact(s, vis)
  BY <1>3, <1>4, <1>5, <1>6, 1 \in 1..1 DEF Simple, Exact
<1>8. Within(s) /\ Tried(s, vis) /\ Linked(s)
  BY <1>1, <1>3, <1>6 DEF Within, Tried, Linked
<1>9. DoneOK(vis)
  BY <1>1, <1>4, VisitKeepsDone
<1> QED  BY <1>7, <1>8, <1>9 DEF s, vis, PathOK

\* A neighbour that is Done is passed over.
LEMMA SkipPath ==
    ASSUME SInv, SearchInv, stack # << >>, NEW next \in Top.todo, visited[next] = "Done"
    PROVE  PathOK(Advanced(next), visited)
<1> DEFINE s == Advanced(next)
           L == Len(stack)
<1>1. Len(s) = L /\ L \in 1..L /\ L \in Nat
  BY AdvancedFacts, StackFacts DEF SearchInv
<1>2. \A i \in 1..L : s[i].plugin = stack[i].plugin
  BY AdvancedFacts DEF SearchInv
<1>3. \A i \in 1..L : IF i = L THEN s[i].todo = stack[i].todo \ {next} ELSE s[i].todo = stack[i].todo
  BY AdvancedFacts DEF SearchInv
<1>4. PathOK(stack, visited)
  BY DEF SearchInv
<1> HIDE DEF s
<1>5. Simple(s)
  BY <1>1, <1>2, <1>4 DEF PathOK, Simple
<1>6. Exact(s, visited)
  BY <1>1, <1>2, <1>4 DEF PathOK, Exact
<1>7. Within(s)
  BY <1>1, <1>2, <1>3, <1>4 DEF PathOK, Within
<1>8. \A i \in 1..L : i < L => i + 1 \in 1..L
  BY <1>1
<1>9. Tried(s, visited)
  <2> SUFFICES ASSUME NEW i \in 1..L, NEW m \in Neighbours(stack[i].plugin)
               PROVE  m \in s[i].todo \/ visited[m] = "Done" \/ (i < L /\ m = s[i + 1].plugin)
    BY <1>1, <1>2 DEF Tried
  <2>1. m \in stack[i].todo \/ visited[m] = "Done" \/ (i < L /\ m = stack[i + 1].plugin)
    BY <1>4 DEF PathOK, Tried
  <2> QED  BY <1>2, <1>3, <1>8, <2>1
<1>10. Linked(s)
  BY <1>1, <1>2, <1>4, <1>8 DEF PathOK, Linked
<1>11. PathOK(s, visited)
  BY <1>5, <1>6, <1>7, <1>9, <1>10 DEF PathOK
<1> QED  BY <1>11 DEF s

\* An unvisited neighbour is put on the path.
LEMMA DescendPath ==
    ASSUME SInv, SearchInv, stack # << >>, NEW next \in Top.todo, visited[next] = "None"
    PROVE  /\ PathOK(Pushed(Advanced(next), next), [visited EXCEPT ![next] = "Visiting"])
           /\ DoneOK([visited EXCEPT ![next] = "Visiting"])
<1> DEFINE a == Advanced(next)
           s == Pushed(a, next)
           vis == [visited EXCEPT ![next] = "Visiting"]
           L == Len(stack)
<1>1. Len(a) = L /\ L \in 1..L /\ L \in Nat /\ a \in Seq(Frames)
  BY AdvancedFacts, StackFacts DEF SearchInv
<1>2. PathOK(stack, visited) /\ DoneOK(visited) /\ SearchType
  BY DEF SearchInv
<1>3. next \in Neighbours(stack[L].plugin) /\ stack[L].plugin \in nodes
  BY <1>1, <1>2, StackFacts DEF PathOK, Within, Top
<1>4. next \in nodes /\ next \in Remaining
  BY <1>3, NeighbourFacts
<1>5. /\ Len(s) = L + 1 /\ s[L + 1].plugin = next /\ s[L + 1].todo = Neighbours(next)
      /\ \A i \in 1..L : s[i] = a[i]
  <2> HIDE DEF a, L
  <2> QED  BY <1>1, <1>4, PushedFacts
<1>6. \A i \in 1..L : s[i].plugin = stack[i].plugin
  BY <1>2, <1>5, AdvancedFacts
<1>7. \A i \in 1..L : IF i = L THEN s[i].todo = stack[i].todo \ {next} ELSE s[i].todo = stack[i].todo
  BY <1>1, <1>2, <1>5, AdvancedFacts
<1>8. \A m \in nodes : vis[m] = IF m = next THEN "Visiting" ELSE visited[m]
  BY <1>2, <1>4 DEF SearchType
<1>9. \A i \in 1..(L + 1) : i \in 1..L \/ i = L + 1
  BY <1>1
<1>10. L + 1 \in 1..(L + 1) /\ L + 1 \notin 1..L /\ \A i \in 1..L : i \in 1..(L + 1)
  BY <1>1
<1> HIDE DEF s, a, vis
<1>11. \A i \in 1..L : stack[i].plugin # next /\ stack[i].plugin \in nodes
  BY <1>2, <1>4, StackFacts DEF PathOK, Exact
<1>12. Simple(s)
  <2>1. \A i, j \in 1..L : stack[i].plugin = stack[j].plugin => i = j
    BY <1>2 DEF PathOK, Simple
  <2> SUFFICES ASSUME NEW i \in 1..(L + 1), NEW j \in 1..(L + 1), s[i].plugin = s[j].plugin PROVE i = j
    BY <1>5 DEF Simple
  <2> QED  BY <1>5, <1>6, <1>9, <1>11, <2>1
<1>13. Exact(s, vis)
  <2> SUFFICES ASSUME NEW n \in nodes
               PROVE  vis[n] = "Visiting" <=> \E i \in 1..(L + 1) : s[i].plugin = n
    BY <1>5 DEF Exact
  <2>1. visited[n] = "Visiting" <=> \E i \in 1..L : stack[i].plugin = n
    BY <1>2 DEF PathOK, Exact
  <2>2. (\E i \in 1..(L + 1) : s[i].plugin = n) <=> (n = next \/ \E i \in 1..L : stack[i].plugin = n)
    BY <1>5, <1>6, <1>9, <1>10
  <2> QED  BY <1>8, <2>1, <2>2
<1>14. Within(s)
  <2> SUFFICES ASSUME NEW i \in 1..(L + 1)
               PROVE  s[i].plugin \in Remaining /\ s[i].todo \subseteq Neighbours(s[i].plugin)
    BY <1>5 DEF Within
  <2>1. CASE i = L + 1
    BY <1>4, <1>5, <2>1
  <2>2. CASE i \in 1..L
    BY <1>2, <1>6, <1>7, <2>2 DEF PathOK, Within
  <2> QED  BY <1>9, <2>1, <2>2
<1>15. Tried(s, vis)
  <2> SUFFICES ASSUME NEW i \in 1..(L + 1), NEW m \in Neighbours(s[i].plugin)
               PROVE  m \in s[i].todo \/ vis[m] = "Done" \/ (i < L + 1 /\ m = s[i + 1].plugin)
    BY <1>5 DEF Tried
  <2>1. CASE i = L + 1
    BY <1>5, <2>1
  <2>2. CASE i \in 1..L
    <3>1. m \in Neighbours(stack[i].plugin) /\ m \in nodes
      BY <1>6, <1>11, <2>2, NeighbourFacts
    <3>2. m \in stack[i].todo \/ visited[m] = "Done" \/ (i < L /\ m = stack[i + 1].plugin)
      BY <1>2, <2>2, <3>1 DEF PathOK, Tried
    <3>3. visited[m] = "Done" => vis[m] = "Done"
      BY <1>8, <3>1
    <3>4. CASE i = L
      <4>1. m \in stack[i].todo \/ visited[m] = "Done"
        BY <1>1, <3>2, <3>4
      <4>2. i < L + 1 /\ s[i + 1].plugin = next
        BY <1>1, <1>5, <3>4
      <4> QED  BY <1>7, <2>2, <3>3, <3>4, <4>1, <4>2
    <3>5. CASE i # L
      <4>1. i < L + 1 /\ i + 1 \in 1..L
        BY <1>1, <2>2, <3>5
      <4> QED  BY <1>6, <1>7, <2>2, <3>2, <3>3, <3>5, <4>1
    <3> QED  BY <3>4, <3>5
  <2> QED  BY <1>9, <2>1, <2>2
<1>16. Linked(s)
  <2> SUFFICES ASSUME NEW i \in 1..(L + 1), i < L + 1 PROVE s[i + 1].plugin \in Neighbours(s[i].plugin)
    BY <1>5 DEF Linked
  <2>1. i \in 1..L
    BY <1>1
  <2>2. CASE i = L
    BY <1>3, <1>5, <1>6, <2>1, <2>2
  <2>3. CASE i # L
    <3>1. i < L /\ i + 1 \in 1..L
      BY <1>1, <2>1, <2>3
    <3>2. stack[i + 1].plugin \in Neighbours(stack[i].plugin)
      BY <1>2, <2>1, <3>1 DEF PathOK, Linked
    <3> QED  BY <1>6, <2>1, <3>1, <3>2
  <2> QED  BY <2>2, <2>3
<1>17. DoneOK(vis)
  BY <1>4, <1>8, VisitKeepsDone
<1>18. PathOK(s, vis)
  BY <1>12, <1>13, <1>14, <1>15, <1>16 DEF PathOK
<1> QED  BY <1>17, <1>18 DEF s, a, vis

\* A plugin whose neighbours were all tried is Done and leaves the path.
LEMMA BacktrackPath ==
    ASSUME SInv, SearchInv, stack # << >>, Top.todo = {}
    PROVE  /\ PathOK(SubSeq(stack, 1, Len(stack) - 1), [visited EXCEPT ![Top.plugin] = "Done"])
           /\ DoneOK([visited EXCEPT ![Top.plugin] = "Done"])
<1> DEFINE L == Len(stack)
           t == Top.plugin
           s == SubSeq(stack, 1, L - 1)
           vis == [visited EXCEPT ![t] = "Done"]
<1>1. PathOK(stack, visited) /\ DoneOK(visited) /\ SearchType
  BY DEF SearchInv
<1>2. L \in 1..L /\ L \in Nat /\ stack \in Seq(Frames)
  BY <1>1, StackFacts
<1>3. t = stack[L].plugin /\ stack[L].todo = {}
  BY DEF Top
<1>4. t \in nodes /\ t \in Remaining /\ visited[t] = "Visiting"
  BY <1>1, <1>2, <1>3, StackFacts DEF PathOK, Within, Exact
<1>5. Len(s) = L - 1 /\ \A i \in 1..(L - 1) : s[i] = stack[i]
  <2>1. L - 1 \in Int /\ \A i \in 1..(L - 1) : stack[i] \in Frames
    BY <1>1, <1>2, StackFacts
  <2>2. /\ Len(s) = IF 1 <= L - 1 THEN L - 1 - 1 + 1 ELSE 0
        /\ \A i \in 1..(L - 1 - 1 + 1) : s[i] = stack[1 + i - 1]
    <3> HIDE DEF Frames, L
    <3> QED  BY <2>1, SubSeqProperties DEF s
  <2>3. L - 1 - 1 + 1 = L - 1 /\ \A i \in 1..(L - 1) : 1 + i - 1 = i
    BY <1>2
  <2> QED  BY <1>2, <2>2, <2>3
<1>6. \A m \in nodes : vis[m] = IF m = t THEN "Done" ELSE visited[m]
  BY <1>1, <1>4 DEF SearchType
<1>7. \A i \in 1..(L - 1) : i \in 1..L /\ i # L /\ i + 1 \in 1..L /\ i < L
  BY <1>2
<1>8. \A i \in 1..L : i = L \/ i \in 1..(L - 1)
  BY <1>2
<1> HIDE DEF s, vis, t
<1>9. \A m \in Neighbours(t) : visited[m] = "Done" /\ m \in nodes /\ m # t
  <2> SUFFICES ASSUME NEW m \in Neighbours(t) PROVE visited[m] = "Done" /\ m \in nodes /\ m # t
    OBVIOUS
  <2>1. m \in stack[L].todo \/ visited[m] = "Done" \/ L < L
    BY <1>1, <1>2, <1>3 DEF PathOK, Tried
  <2> QED  BY <1>2, <1>3, <1>4, <2>1, NeighbourFacts
<1>10. Simple(s)
  BY <1>1, <1>5, <1>7 DEF PathOK, Simple
<1>11. Exact(s, vis)
  <2> SUFFICES ASSUME NEW n \in nodes
               PROVE  vis[n] = "Visiting" <=> \E i \in 1..(L - 1) : stack[i].plugin = n
    BY <1>5 DEF Exact
  <2>1. visited[n] = "Visiting" <=> \E i \in 1..L : stack[i].plugin = n
    BY <1>1 DEF PathOK, Exact
  <2>2. \A i \in 1..(L - 1) : stack[i].plugin # t
    BY <1>1, <1>2, <1>3, <1>7 DEF PathOK, Simple
  <2>3. CASE n = t
    BY <1>6, <2>2, <2>3
  <2>4. CASE n # t
    BY <1>3, <1>6, <1>7, <1>8, <2>1, <2>4
  <2> QED  BY <2>3, <2>4
<1>12. Within(s)
  BY <1>1, <1>5, <1>7 DEF PathOK, Within
<1>13. Tried(s, vis)
  <2> SUFFICES ASSUME NEW i \in 1..(L - 1), NEW m \in Neighbours(stack[i].plugin)
               PROVE  m \in stack[i].todo \/ vis[m] = "Done" \/ (i < L - 1 /\ m = s[i + 1].plugin)
    BY <1>5 DEF Tried
  <2>1. m \in stack[i].todo \/ visited[m] = "Done" \/ m = stack[i + 1].plugin
    BY <1>1, <1>7 DEF PathOK, Tried
  <2>2. m \in nodes
    BY <1>1, <1>7, StackFacts, NeighbourFacts
  <2>3. visited[m] = "Done" \/ m = t => vis[m] = "Done"
    BY <1>6, <2>2
  <2>4. CASE i = L - 1
    <3>1. i + 1 = L
      BY <1>2, <2>4
    <3> QED  BY <1>3, <2>1, <2>3, <3>1
  <2>5. CASE i # L - 1
    <3>1. i < L - 1 /\ i + 1 \in 1..(L - 1)
      BY <1>2, <2>5
    <3> QED  BY <1>5, <2>1, <2>3, <3>1
  <2> QED  BY <2>4, <2>5
<1>14. Linked(s)
  <2> SUFFICES ASSUME NEW i \in 1..(L - 1), i < L - 1 PROVE s[i + 1].plugin \in Neighbours(s[i].plugin)
    BY <1>5 DEF Linked
  <2>1. i + 1 \in 1..(L - 1)
    BY <1>2
  <2>2. stack[i + 1].plugin \in Neighbours(stack[i].plugin)
    BY <1>1, <1>7 DEF PathOK, Linked
  <2> QED  BY <1>5, <2>1, <2>2
<1>15. \A n \in nodes : vis[n] = "Done" => \A m \in Neighbours(n) : vis[m] = "Done"
  <2> SUFFICES ASSUME NEW n \in nodes, vis[n] = "Done", NEW m \in Neighbours(n) PROVE vis[m] = "Done"
    OBVIOUS
  <2>1. m \in nodes
    BY NeighbourFacts
  <2>2. visited[m] = "Done"
    BY <1>1, <1>6, <1>9 DEF DoneOK
  <2> QED  BY <1>6, <2>1, <2>2
<1>16. ASSUME NEW S \in SUBSET {n \in nodes : vis[n] = "Done"}, Deadlocked(S) PROVE FALSE
  <2>1. \A n \in S : n \in nodes /\ (n = t \/ visited[n] = "Done")
    BY <1>6
  <2>2. CASE t \notin S
    <3>1. S \in SUBSET {n \in nodes : visited[n] = "Done"}
      BY <2>1, <2>2
    <3> QED  BY <1>1, <1>16, <3>1 DEF DoneOK
  <2>3. CASE t \in S
    <3>1. PICK p \in S : p \in Providers(edges, t)
      BY <1>16, <2>3 DEF Deadlocked
    <3>2. p \in nodes /\ t \in Neighbours(p)
      BY <1>4, <2>1, <3>1, NeighbourFacts
    <3>3. visited[t] = "Done"
      BY <1>1, <1>9, <2>1, <3>2 DEF DoneOK
    <3> QED  BY <1>4, <3>3
  <2> QED  BY <2>2, <2>3
<1>17. PathOK(s, vis)
  BY <1>10, <1>11, <1>12, <1>13, <1>14 DEF PathOK
<1>18. DoneOK(vis)
  BY <1>15, <1>16 DEF DoneOK
<1> QED  BY <1>17, <1>18 DEF s, vis, t

\* A neighbour on the path closes a cycle.
LEMMA ReportedCycle ==
    ASSUME SInv, SearchInv, stack # << >>, NEW next \in Top.todo, NEW position \in OnPath(next)
    PROVE  IsCycle(Append(PathFrom(position), next))
<1> DEFINE L == Len(stack)
           k == L - position + 1
           path == PathFrom(position)
           c == Append(path, next)
<1>1. PathOK(stack, visited) /\ SearchType
  BY DEF SearchInv
<1>2. L \in 1..L /\ L \in Nat /\ \A i \in 1..L : stack[i].plugin \in nodes
  BY <1>1, StackFacts
<1>3. position \in 1..L /\ stack[position].plugin = next
  BY DEF OnPath
<1>4. next \in Neighbours(stack[L].plugin) /\ next \in nodes
  BY <1>1, <1>2, <1>3 DEF PathOK, Within, Top
<1>5. k \in Nat /\ k >= 1 /\ \A i \in 1..k : position + i - 1 \in 1..L
  BY <1>2, <1>3
<1>6. path = [i \in 1..k |-> stack[position + i - 1].plugin]
  BY DEF PathFrom
<1>7. path \in Seq(nodes) /\ Len(path) = k /\ \A i \in 1..k : path[i] = stack[position + i - 1].plugin
  <2>1. \A i \in 1..k : stack[position + i - 1].plugin \in nodes
    BY <1>2, <1>5
  <2> HIDE DEF path, k
  <2> QED  BY <1>5, <1>6, <2>1
<1>8. Len(c) = k + 1 /\ c[k + 1] = next /\ \A i \in 1..k : c[i] = stack[position + i - 1].plugin
  <2> HIDE DEF path, k
  <2>1. Len(c) = Len(path) + 1 /\ c[Len(path) + 1] = next /\ \A i \in 1..Len(path) : c[i] = path[i]
    BY <1>4, <1>7, OrderedAppend
  <2> QED  BY <1>7, <2>1
<1> HIDE DEF c
<1>9. Len(c) >= 2 /\ c[1] = c[Len(c)]
  <2>1. 1 \in 1..k /\ position + 1 - 1 = position
    BY <1>3, <1>5
  <2> QED  BY <1>3, <1>5, <1>8, <2>1
<1>10. ASSUME NEW i \in 1..k, NEW j \in 1..k, c[i] = c[j] PROVE i = j
  <2>1. /\ position + i - 1 \in 1..L /\ position + j - 1 \in 1..L
        /\ stack[position + i - 1].plugin = stack[position + j - 1].plugin
    BY <1>5, <1>8, <1>10
  <2>2. position + i - 1 = position + j - 1
    BY <1>1, <2>1 DEF PathOK, Simple
  <2> QED  BY <1>3, <2>2
<1>11. ASSUME NEW i \in 1..k PROVE c[i] \in Providers(edges, c[i + 1])
  <2>1. CASE i = k
    <3>1. c[i] = stack[L].plugin /\ c[i + 1] = next
      <4>1. position + k - 1 = L
        BY <1>2, <1>3
      <4> QED  BY <1>8, <2>1, <4>1
    <3> QED  BY <1>2, <1>4, <3>1, NeighbourFacts
  <2>2. CASE i # k
    <3>1. i + 1 \in 1..k /\ position + (i + 1) - 1 = (position + i - 1) + 1 /\ position + i - 1 < L
      BY <1>2, <1>3, <1>5, <2>2
    <3>2. c[i + 1] \in Neighbours(c[i])
      BY <1>1, <1>5, <1>8, <3>1 DEF PathOK, Linked
    <3>3. c[i] \in nodes
      BY <1>2, <1>5, <1>8
    <3> QED  BY <3>2, <3>3, NeighbourFacts
  <2> QED  BY <2>1, <2>2
<1>12. Len(c) - 1 = k
  BY <1>5, <1>8
<1> HIDE DEF k
<1>13. IsCycle(c)
  BY <1>9, <1>10, <1>11, <1>12 DEF IsCycle
<1> QED  BY <1>13 DEF c

-----------------------------------------------------------------------------
\* Nothing is visited before the search begins.
SearchStart ==
    /\ visited = [n \in nodes |-> "None"]
    /\ stack = << >> /\ cycle = << >> /\ verdict = "sorting"

\* There is no path yet and nothing is Done.
LEMMA StartSearchInv == SearchStart => SearchInv
<1> SUFFICES ASSUME SearchStart PROVE SearchInv
  OBVIOUS
<1>1. SearchType /\ verdict = "sorting" /\ stack = << >> /\ \A n \in nodes : visited[n] = "None"
  BY DEF SearchStart, SearchType
<1>2. 1..Len(stack) = {}
  BY <1>1
<1>3. PathOK(stack, visited)
  BY <1>1, <1>2 DEF PathOK, Simple, Exact, Within, Tried, Linked
<1>4. DoneOK(visited)
  BY <1>1 DEF DoneOK, Deadlocked
<1> QED  BY <1>1, <1>3, <1>4 DEF SearchInv

\* Each iteration of the search keeps its path and what is Done.
LEMMA NextSearchInv == SInv /\ SearchInv /\ [SortNext \/ Returned]_sortVars => SearchInv'
<1> SUFFICES ASSUME SInv, SearchInv, [SortNext \/ Returned]_sortVars PROVE SearchInv'
  OBVIOUS
<1>1. SearchType'
  BY NextSearchType DEF SearchInv
<1>2. CASE PopReady
  <2>1. nodes' = nodes /\ stack' = << >> /\ verdict' = "sorting" /\ \A n \in nodes : visited'[n] = "None"
    BY <1>2 DEF PopReady, SearchInv
  <2>2. (1..Len(stack))' = {}
    BY <2>1
  <2>3. PathOK(stack, visited)'
    BY <2>1, <2>2 DEF PathOK, Simple, Exact, Within, Tried, Linked
  <2>4. {n \in nodes : visited[n] = "Done"}' = {}
    BY <2>1
  <2>5. DoneOK(visited)'
    BY <2>1, <2>4 DEF DoneOK, Deadlocked
  <2> QED  BY <1>1, <2>1, <2>3, <2>5 DEF SearchInv
<1>3. ASSUME UNCHANGED <<nodes, edges, indegree>>, verdict' # "sorting",
             PathOK(stack', visited'), DoneOK(visited'), verdict' = "DependencyCycle" => IsCycle(cycle')
      PROVE  SearchInv'
  <2>1. Remaining' = Remaining /\ \A n : Neighbours(n)' = Neighbours(n)
    BY <1>3 DEF Remaining, Neighbours, Consumers
  <2>2. \A n : Providers(edges, n)' = Providers(edges, n)
    BY <1>3 DEF Providers
  <2>3. Simple(stack)' /\ Exact(stack, visited)'
    BY <1>3 DEF PathOK, Simple, Exact
  <2>4. Within(stack)' /\ Tried(stack, visited)' /\ Linked(stack)'
    BY <1>3, <2>1 DEF PathOK, Within, Tried, Linked
  <2>5. \A S : Deadlocked(S)' <=> Deadlocked(S)
    BY <2>2 DEF Deadlocked
  <2>6. DoneOK(visited)'
    BY <1>3, <2>1, <2>5 DEF DoneOK
  <2>7. (verdict = "DependencyCycle" => IsCycle(cycle))'
    BY <1>3, <2>2 DEF IsCycle
  <2> QED  BY <1>1, <1>3, <2>3, <2>4, <2>6, <2>7 DEF SearchInv, PathOK
<1>4. CASE Sorted \/ Unsorted
  BY <1>3, <1>4 DEF Sorted, Unsorted, SearchInv
<1>5. CASE Returned \/ UNCHANGED sortVars
  <2>1. UNCHANGED sortVars
    BY <1>5 DEF Returned
  <2>2. CASE verdict # "sorting"
    BY <1>3, <2>1, <2>2 DEF sortVars, SearchInv
  <2>3. CASE verdict = "sorting"
    <3>1. nodes' = nodes /\ stack' = << >> /\ verdict' = "sorting" /\ \A n \in nodes : visited'[n] = "None"
      BY <2>1, <2>3 DEF sortVars, SearchInv
    <3>2. (1..Len(stack))' = {} /\ {n \in nodes : visited[n] = "Done"}' = {}
      BY <3>1
    <3>3. PathOK(stack, visited)'
      BY <3>1, <3>2 DEF PathOK, Simple, Exact, Within, Tried, Linked
    <3>4. DoneOK(visited)'
      BY <3>1, <3>2 DEF DoneOK, Deadlocked
    <3> QED  BY <1>1, <3>1, <3>3, <3>4 DEF SearchInv
  <2> QED  BY <2>2, <2>3
<1>6. CASE StartSearch
  <2>1. PICK start \in Unvisited : /\ stack' = Pushed(stack, start)
                                   /\ visited' = [visited EXCEPT ![start] = "Visiting"]
    BY <1>6 DEF StartSearch, IsLeast
  <2>2. stack = << >> /\ verdict' = "searching" /\ UNCHANGED <<nodes, edges, indegree>>
    BY <1>6 DEF StartSearch
  <2>3. PathOK(stack', visited') /\ DoneOK(visited')
    BY <2>1, <2>2, StartPath
  <2> QED  BY <1>3, <2>2, <2>3
<1>7. CASE Backtrack
  <2>1. /\ stack # << >> /\ Top.todo = {}
        /\ visited' = [visited EXCEPT ![Top.plugin] = "Done"]
        /\ stack' = SubSeq(stack, 1, Len(stack) - 1)
        /\ verdict' = "searching" /\ UNCHANGED <<nodes, edges, indegree>>
    BY <1>7 DEF Backtrack
  <2>2. PathOK(stack', visited') /\ DoneOK(visited')
    BY <2>1, BacktrackPath
  <2> QED  BY <1>3, <2>1, <2>2
<1>8. CASE TryNeighbour
  <2>1. stack # << >> /\ verdict = "searching" /\ UNCHANGED <<nodes, edges, indegree>>
    BY <1>8 DEF TryNeighbour
  <2>2. PICK next \in Top.todo :
          \/ /\ visited[next] = "Visiting" /\ OnPath(next) = {}
             /\ UNCHANGED <<visited, cycle, verdict>>
          \/ /\ \E position \in OnPath(next) : cycle' = Append(PathFrom(position), next)
             /\ verdict' = "DependencyCycle" /\ UNCHANGED <<stack, visited>>
          \/ /\ visited[next] = "Done" /\ stack' = Advanced(next)
             /\ UNCHANGED <<visited, cycle, verdict>>
          \/ /\ visited[next] = "None" /\ stack' = Pushed(Advanced(next), next)
             /\ visited' = [visited EXCEPT ![next] = "Visiting"]
             /\ UNCHANGED <<cycle, verdict>>
    BY <1>8 DEF TryNeighbour, IsLeast, Advanced
  <2>3. next \in nodes
    BY <2>1, <2>2, StackFacts DEF Top, SearchInv
  <2>4. CASE visited[next] = "Visiting" /\ OnPath(next) = {}
    BY <2>3, <2>4 DEF SearchInv, PathOK, Exact, OnPath
  <2>5. CASE /\ \E position \in OnPath(next) : cycle' = Append(PathFrom(position), next)
             /\ verdict' = "DependencyCycle" /\ UNCHANGED <<stack, visited>>
    <3>1. IsCycle(cycle')
      BY <2>1, <2>2, <2>5, ReportedCycle
    <3>2. PathOK(stack', visited') /\ DoneOK(visited')
      BY <2>5 DEF SearchInv
    <3> QED  BY <1>3, <2>1, <2>5, <3>1, <3>2
  <2>6. CASE visited[next] = "Done" /\ stack' = Advanced(next) /\ UNCHANGED <<visited, cycle, verdict>>
    <3>1. PathOK(stack', visited') /\ DoneOK(visited')
      BY <2>1, <2>2, <2>6, SkipPath DEF SearchInv
    <3> QED  BY <1>3, <2>1, <2>6, <3>1
  <2>7. CASE /\ visited[next] = "None" /\ stack' = Pushed(Advanced(next), next)
             /\ visited' = [visited EXCEPT ![next] = "Visiting"]
             /\ UNCHANGED <<cycle, verdict>>
    <3>1. PathOK(stack', visited') /\ DoneOK(visited')
      BY <2>1, <2>2, <2>7, DescendPath
    <3> QED  BY <1>3, <2>1, <2>7, <3>1
  <2> QED  BY <2>2, <2>4, <2>5, <2>6, <2>7
<1> QED  BY <1>2, <1>4, <1>5, <1>6, <1>7, <1>8 DEF SortNext

\* What the search has reported is a cycle, and it cannot run out of plugins.
LEMMA RealCycle == SInv /\ SearchInv => CycleIsReal
<1> SUFFICES ASSUME SInv, SearchInv PROVE CycleIsReal
  OBVIOUS
<1>1. ASSUME verdict = "searching", stack = << >>, Unvisited = {} PROVE FALSE
  <2>1. Deadlocked(nodes \ Ordered)
    BY <1>1, StuckDeadlocked
  <2>2. ASSUME NEW n \in nodes \ Ordered PROVE visited[n] = "Done"
    <3>1. WaitingFor(n) # {}
      BY <2>1, <2>2 DEF Deadlocked, WaitingFor
    <3>2. indegree[n] = Cardinality(WaitingFor(n)) /\ IsFiniteSet(WaitingFor(n))
      BY FiniteInput DEF SInv, KahnInv
    <3>3. indegree[n] > 0
      BY <3>1, <3>2, FS_EmptySet, FS_CardinalityType
    <3>4. visited[n] # "None"
      BY <1>1, <3>3 DEF Unvisited, Remaining
    <3>5. visited[n] # "Visiting"
      BY <1>1 DEF SearchInv, PathOK, Exact
    <3> QED  BY <3>4, <3>5 DEF SearchInv, SearchType
  <2> QED  BY <2>1, <2>2 DEF SearchInv, DoneOK
<1> QED  BY <1>1 DEF CycleIsReal, SearchInv, IsCycle

\* In every graph that topological_order refuses, find_cycle reports a cycle of
\* that graph, and never runs out of plugins to search before: the code after
\* its outer loop is dead.
THEOREM CycleReal == SortSpec => []CycleIsReal
<1>1. SortInit => SearchInv
  BY StartSearchInv DEF SortInit, SearchStart
<1>2. SInv /\ SearchInv /\ [SortNext \/ Returned]_sortVars => SearchInv'
  BY NextSearchInv
<1> QED  BY <1>1, <1>2, RealCycle, SortInvariance, PTL DEF SortSpec
=============================================================================
