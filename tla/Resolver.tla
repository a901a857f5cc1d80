------------------------------ MODULE Resolver ------------------------------
(***************************************************************************)
(* resolve() of kernox-core (graph.rs): from a composition of descriptors, *)
(* bindings and limits to a resolved graph or the first error.             *)
(*                                                                         *)
(* resolve() is sequential: one step is one iteration of a loop, or one    *)
(* validation pass that builds nothing.  The last phase is topological_    *)
(* order, whose variables and actions are those of TopologicalOrder.       *)
(*                                                                         *)
(* A BTreeMap is a function, iterated in the order of its keys; a vector   *)
(* of providers in identity order is the set of them.  A VersionReq is the *)
(* set of versions it matches.                                             *)
(***************************************************************************)
EXTENDS TopologicalOrder

CONSTANTS
    SemVers,      \* capability versions
    Maxima,       \* the ABSOLUTE_MAX_ ceilings, a record of limits
    Specs         \* the compositions to resolve

CompositionSchema == 1

LimitNames == {"plugins", "capabilities", "edges"}

Cardinalities == {"ExactlyOne", "ZeroOrOne", "ZeroOrMore", "OneOrMore"}
IsBindable(cardinality) == cardinality \in {"ExactlyOne", "ZeroOrOne"}
PermitsZero(cardinality) == cardinality \in {"ZeroOrOne", "ZeroOrMore"}

Requirement == [accepts : SUBSET SemVers, cardinality : Cardinalities]

\* provide, require and conflict_with refuse duplicates and self-conflicts.
IsDescriptor(d) ==
    /\ d.id \in Ids
    /\ DOMAIN d.provides \subseteq Links /\ d.provides \in [DOMAIN d.provides -> SemVers]
    /\ DOMAIN d.requires \subseteq Links
    /\ \A c \in DOMAIN d.requires : d.requires[c] \in Requirement
    /\ d.conflicts \subseteq Ids \ {d.id}

IsComposition(s) ==
    /\ s.schema \in Nat
    /\ s.limits \in [LimitNames -> Nat]
    /\ Len(s.plugins) \in Nat /\ DOMAIN s.plugins = 1..Len(s.plugins)
    /\ \A i \in DOMAIN s.plugins : IsDescriptor(s.plugins[i])
    /\ s.bindings \in Seq([consumer : Ids, capability : Links, provider : Ids])

ASSUME LinksAssumption == Links \subseteq Nat /\ IsFiniteSet(Links)
ASSUME MaximaAssumption == Maxima \in [LimitNames -> Nat]
ASSUME SpecsAssumption == \A s \in Specs : IsComposition(s)

VARIABLES
    spec,           \* the CompositionSpec; constant
    phase,          \* the part of resolve() that runs
    at,             \* position in spec.plugins or spec.bindings
    plugins,        \* the map of descriptors by identity
    bindings,       \* the map of providers by <<consumer, capability>>
    todo,           \* requirements, by <<consumer, capability>>, still to resolve
    unlinked,       \* providers selected for the current one, not yet edges
    requirements,   \* the resolved requirements, in order
    used,           \* the bindings that selected a provider
    diagnostics,    \* the GraphDiagnostics
    outcome         \* the error tag and the subjects it names, or "Ok"

declared == <<spec, plugins, bindings>>
linked == <<todo, unlinked, requirements, used, diagnostics>>
resolveVars == <<spec, phase, at, plugins, bindings, todo, unlinked, requirements,
                 used, diagnostics, outcome>>
allVars == <<resolveVars, sortVars>>

Empty == [x \in {} |-> x]
Put(map, key, value) ==
    [k \in DOMAIN map \cup {key} |-> IF k = key THEN value ELSE map[k]]

\* The order of pairs of identities.
Before(a, b) == a[1] < b[1] \/ (a[1] = b[1] /\ a[2] < b[2])
IsFirst(a, S) == a \in S /\ \A b \in S : a = b \/ Before(a, b)

Init ==
    /\ spec \in Specs
    /\ phase = "input" /\ at = 1
    /\ plugins = Empty /\ bindings = Empty
    /\ todo = {} /\ unlinked = {} /\ requirements = << >> /\ used = {}
    /\ diagnostics = {}
    /\ outcome = [tag |-> "Pending", about |-> << >>]
    /\ nodes = {} /\ edges = {} /\ indegree = Empty /\ ready = {} /\ order = << >>
    /\ visited = Empty /\ stack = << >> /\ cycle = << >> /\ verdict = "sorting"

Return(tag, about) ==
    /\ phase' = "returned"
    /\ outcome' = [tag |-> tag, about |-> about]
    /\ UNCHANGED at

Goto(next) == phase' = next /\ at' = 1 /\ UNCHANGED outcome
Advance == at' = at + 1 /\ UNCHANGED <<phase, outcome>>

-----------------------------------------------------------------------------
(* Limits, descriptors, conflicts and bindings *)

InputFault ==
    IF spec.schema # CompositionSchema THEN "UnsupportedSchemaVersion"
    ELSE IF \E l \in LimitNames : spec.limits[l] > Maxima[l] THEN "ConfiguredLimitExceeded"
    ELSE IF Len(spec.plugins) > spec.limits["plugins"] THEN "PluginLimitExceeded"
    ELSE "None"

\* The limit validate_configured_limits names: the first it finds exceeded.
ExceededLimit ==
    IF spec.limits["plugins"] > Maxima["plugins"] THEN "plugins"
    ELSE IF spec.limits["capabilities"] > Maxima["capabilities"] THEN "capabilities"
    ELSE "edges"

ValidateInput ==
    /\ phase = "input"
    /\ CASE InputFault = "None" -> Goto("declare")
         [] InputFault = "ConfiguredLimitExceeded" -> Return(InputFault, <<ExceededLimit>>)
         [] OTHER -> Return(InputFault, << >>)
    /\ UNCHANGED <<declared, linked, sortVars>>

DeclarationCount(d) == Cardinality(DOMAIN d.provides) + Cardinality(DOMAIN d.requires)

DescriptorFault(d) ==
    IF DeclarationCount(d) > spec.limits["capabilities"] THEN "CapabilityLimitExceeded"
    ELSE IF d.id \in DOMAIN plugins THEN "DuplicatePlugin"
    ELSE "None"

\* One iteration over spec.plugins.
Declare ==
    /\ phase = "declare" /\ at <= Len(spec.plugins)
    /\ LET d == spec.plugins[at]
       IN  IF DescriptorFault(d) = "None"
           THEN plugins' = Put(plugins, d.id, d) /\ Advance
           ELSE Return(DescriptorFault(d), <<d.id>>) /\ UNCHANGED plugins
    /\ UNCHANGED <<spec, bindings, linked, sortVars>>

AllDeclared ==
    /\ phase = "declare" /\ at > Len(spec.plugins)
    /\ Goto("conflicts")
    /\ UNCHANGED <<declared, linked, sortVars>>

Known == DOMAIN plugins

Conflicts ==
    {pq \in Known \X Known : pq[2] \in plugins[pq[1]].conflicts}

\* validate_conflicts: the first conflict, its plugins in identity order.
ValidateConflicts ==
    /\ phase = "conflicts"
    /\ IF Conflicts = {} THEN Goto("self")
       ELSE \E pq \in Conflicts :
              /\ IsFirst(pq, Conflicts)
              /\ Return("PluginConflict", IF pq[1] < pq[2] THEN pq ELSE <<pq[2], pq[1]>>)
    /\ UNCHANGED <<declared, linked, sortVars>>

SelfDependencies ==
    {pc \in Known \X Links :
        pc[2] \in DOMAIN plugins[pc[1]].requires \cap DOMAIN plugins[pc[1]].provides}

ValidateNoSelfDependencies ==
    /\ phase = "self"
    /\ IF SelfDependencies = {} THEN Goto("bindings")
       ELSE \E pc \in SelfDependencies :
              IsFirst(pc, SelfDependencies) /\ Return("SelfDependency", pc)
    /\ UNCHANGED <<declared, linked, sortVars>>

Key(binding) == <<binding.consumer, binding.capability>>

BindingFault(b) ==
    IF b.consumer \notin Known THEN "UnknownBindingConsumer"
    ELSE IF b.provider \notin Known THEN "UnknownBindingProvider"
    ELSE IF Key(b) \in DOMAIN bindings THEN "DuplicateBinding"
    ELSE "None"

\* Seeded defect: the error about an unknown provider carries the consumer.
BindingSubject_Consumer(b) ==
    IF BindingFault(b) = "DuplicateBinding" THEN Key(b) ELSE <<b.consumer>>

\* The subjects a refused binding's error carries.
BindingSubject(b) ==
    CASE BindingFault(b) = "UnknownBindingConsumer" -> <<b.consumer>>
      [] BindingFault(b) = "UnknownBindingProvider" -> <<b.provider>>
      [] OTHER -> Key(b)

\* One iteration of validated_bindings.
ValidateBinding ==
    /\ phase = "bindings" /\ at <= Len(spec.bindings)
    /\ LET b == spec.bindings[at]
       IN  IF BindingFault(b) = "None"
           THEN bindings' = Put(bindings, Key(b), b.provider) /\ Advance
           ELSE Return(BindingFault(b), BindingSubject(b)) /\ UNCHANGED bindings
    /\ UNCHANGED <<spec, plugins, linked, sortVars>>

Required == {pc \in Known \X Links : pc[2] \in DOMAIN plugins[pc[1]].requires}

AllBound ==
    /\ phase = "bindings" /\ at > Len(spec.bindings)
    /\ todo' = Required
    /\ Goto("select")
    /\ UNCHANGED <<declared, unlinked, requirements, used, diagnostics, sortVars>>

-----------------------------------------------------------------------------
(* Selection of providers: one requirement after the other *)

RequirementOf(key) == plugins[key[1]].requires[key[2]]
Offers(p, capability) == capability \in DOMAIN plugins[p].provides
Matches(p, key) == plugins[p].provides[key[2]] \in RequirementOf(key).accepts

Candidates(key) == {p \in Known : Offers(p, key[2])}
Compatible(key) == {p \in Candidates(key) : Matches(p, key)}

BoundFault(key) ==
    IF ~IsBindable(RequirementOf(key).cardinality) THEN "BindingForMultiple"
    ELSE IF ~Offers(bindings[key], key[2]) THEN "BoundProviderDoesNotOffer"
    ELSE IF ~Matches(bindings[key], key) THEN "IncompatibleBinding"
    ELSE "None"

UnboundFault(key) ==
    LET cardinality == RequirementOf(key).cardinality
    IN  IF Compatible(key) = {} /\ ~PermitsZero(cardinality)
        THEN IF Candidates(key) = {} THEN "MissingProvider" ELSE "IncompatibleProvider"
        ELSE IF IsBindable(cardinality) /\ Cardinality(Compatible(key)) > 1
        THEN "AmbiguousProvider"
        ELSE "None"

\* Seeded defect: several providers of an optional capability are all taken.
SelectionFault_OptionalTakesAll(key) ==
    IF key \in DOMAIN bindings THEN BoundFault(key)
    ELSE IF RequirementOf(key).cardinality = "ZeroOrOne" THEN "None"
    ELSE UnboundFault(key)

\* The error of select_providers.
SelectionFault(key) ==
    IF key \in DOMAIN bindings THEN BoundFault(key) ELSE UnboundFault(key)

\* The subjects its error carries: the requirement, and the provider that is
\* bound, all that offer the capability or all that are compatible.
SelectionSubject(key) ==
    CASE SelectionFault(key) \in {"BoundProviderDoesNotOffer", "IncompatibleBinding"} ->
           <<key[1], key[2], bindings[key]>>
      [] SelectionFault(key) = "IncompatibleProvider" -> <<key[1], key[2], Candidates(key)>>
      [] SelectionFault(key) = "AmbiguousProvider" -> <<key[1], key[2], Compatible(key)>>
      [] OTHER -> key

\* The providers select_providers returns.
Selection(key) == IF key \in DOMAIN bindings THEN {bindings[key]} ELSE Compatible(key)

SelectProviders ==
    /\ phase = "select"
    /\ \E key \in todo :
        /\ IsFirst(key, todo)
        /\ IF SelectionFault(key) = "None"
           THEN /\ Goto("link")
                /\ unlinked' = Selection(key)
                /\ used' = used \cup ({key} \cap DOMAIN bindings)
           ELSE Return(SelectionFault(key), SelectionSubject(key)) /\ UNCHANGED <<unlinked, used>>
    /\ UNCHANGED <<declared, todo, requirements, diagnostics, sortVars>>

\* Seeded defect: the limit is looked at once a requirement has all its edges.
TooManyEdges_Late(count) == count > spec.limits["edges"] /\ Cardinality(unlinked) = 1

TooManyEdges(count) == count > spec.limits["edges"]

\* One iteration over the selected providers: an edge, then the limit.
Link ==
    /\ phase = "link"
    /\ \E key \in todo, p \in unlinked :
        /\ IsFirst(key, todo) /\ IsLeast(p, unlinked)
        /\ edges' = edges \cup {[provider |-> p, consumer |-> key[1], capability |-> key[2]]}
        /\ IF TooManyEdges(Cardinality(edges'))
           THEN Return("EdgeLimitExceeded", <<Cardinality(edges')>>) /\ UNCHANGED unlinked
           ELSE unlinked' = unlinked \ {p} /\ UNCHANGED <<phase, at, outcome>>
    /\ UNCHANGED <<declared, todo, requirements, used, diagnostics,
                   nodes, indegree, ready, order, visited, stack, cycle, verdict>>

Resolved ==
    /\ phase = "link" /\ unlinked = {}
    /\ \E key \in todo :
        /\ IsFirst(key, todo)
        /\ requirements' = Append(requirements,
             [key |-> key, cardinality |-> RequirementOf(key).cardinality,
              providers |-> Selection(key)])
        /\ todo' = todo \ {key}
    /\ Goto("select")
    /\ UNCHANGED <<declared, unlinked, used, diagnostics, sortVars>>

-----------------------------------------------------------------------------
(* The rest of resolve() *)

Unused == DOMAIN bindings \ used

UnusedBinding ==
    /\ phase = "select" /\ todo = {}
    /\ \E key \in Unused : IsFirst(key, Unused) /\ Return("UnusedBinding", key)
    /\ UNCHANGED <<declared, linked, sortVars>>

Entries == {requirements[i] : i \in 1..Len(requirements)}

\* Seeded defect: requirements are sorted by capability, then by consumer.
Precedes_CapabilityFirst(r, s) ==
    Before(<<r.key[2], r.key[1]>>, <<s.key[2], s.key[1]>>)

\* The comparison of sort_unstable_by.
Precedes(r, s) == Before(r.key, s.key)

\* Keys differ, so an entry's place is the number of entries before it.
SortedRequirements ==
    [i \in 1..Len(requirements) |->
        CHOOSE r \in Entries : Cardinality({s \in Entries : Precedes(s, r)}) = i - 1]

GraphDiagnostics ==
    {<<"OptionalProviderMissing", r.key[1], r.key[2]>> :
        r \in {s \in Entries : s.providers = {} /\ PermitsZero(s.cardinality)}}
    \cup
    {<<"UnselectedOffer", pc[1], pc[2]>> :
        pc \in {qc \in Known \X Links :
                  /\ Offers(qc[1], qc[2])
                  /\ ~\E e \in edges : e.provider = qc[1] /\ e.capability = qc[2]}}

\* Sort the requirements, find the diagnostics and call topological_order.
AllSelected ==
    /\ phase = "select" /\ todo = {} /\ Unused = {}
    /\ requirements' = SortedRequirements
    /\ diagnostics' = GraphDiagnostics
    /\ nodes' = Known
    /\ indegree' = Indegrees(Known, edges)
    /\ ready' = Roots(indegree')
    /\ visited' = [p \in Known |-> "None"]
    /\ Goto("sort")
    /\ UNCHANGED <<declared, todo, unlinked, used, edges, order, stack, cycle, verdict>>

TopologicalOrderStep == phase = "sort" /\ SortNext /\ UNCHANGED resolveVars

ResolveOk ==
    /\ phase = "sort" /\ verdict = "Ok"
    /\ Return("Ok", << >>)
    /\ UNCHANGED <<declared, linked, sortVars>>

CycleFound ==
    /\ phase = "sort" /\ verdict = "DependencyCycle"
    /\ Return("DependencyCycle", cycle)
    /\ UNCHANGED <<declared, linked, sortVars>>

ResolveNext ==
    \/ ValidateInput \/ Declare \/ AllDeclared
    \/ ValidateConflicts \/ ValidateNoSelfDependencies
    \/ ValidateBinding \/ AllBound
    \/ SelectProviders \/ Link \/ Resolved \/ UnusedBinding \/ AllSelected
    \/ TopologicalOrderStep \/ ResolveOk \/ CycleFound

\* resolve() has returned.
Done == phase = "returned" /\ UNCHANGED allVars

Spec == Init /\ [][ResolveNext \/ Done]_allVars

\* ResolvedGraph::requirement, as the position of the entry with this key, or
\* zero.  binary_search_by promises to find an entry only in a vector that is
\* sorted the way it compares: smaller keys before it and larger ones after it.
\* In any other vector it may miss the entry, and here it does.
Lookup(key) ==
    LET found == {i \in 1..Len(requirements) :
                    /\ requirements[i].key = key
                    /\ \A j \in 1..Len(requirements) :
                         /\ j < i => Before(requirements[j].key, key)
                         /\ i < j => Before(key, requirements[j].key)}
    IN  IF found = {} THEN 0 ELSE CHOOSE i \in found : TRUE
=============================================================================
