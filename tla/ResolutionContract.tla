------------------------ MODULE ResolutionContract --------------------------
(***************************************************************************)
(* What resolving a composition means, stated over the set of descriptors  *)
(* and the set of bindings, and the properties that resolve() computes it. *)
(* Nothing here depends on the order of declaration, so a graph that       *)
(* matches it does not either.                                             *)
(***************************************************************************)
EXTENDS Resolver

\* IsResolvedGraph, for the graphs of this module.
Runtime == INSTANCE ResolvedGraph
             WITH Plugins <- Ids, Caps <- Links, Versions <- SemVers, Markers <- {}

-----------------------------------------------------------------------------
(* The reference: ds is a set of descriptors, bs a set of bindings *)

Descriptors == {spec.plugins[i] : i \in 1..Len(spec.plugins)}
Bindings == {spec.bindings[i] : i \in 1..Len(spec.bindings)}

Names(ds) == {d.id : d \in ds}
Named(ds, p) == CHOOSE d \in ds : d.id = p

Needs(ds) == UNION {{<<d.id, c>> : c \in DOMAIN d.requires} : d \in ds}
Need(ds, key) == Named(ds, key[1]).requires[key[2]]
Satisfies(d, capability, need) ==
    capability \in DOMAIN d.provides /\ d.provides[capability] \in need.accepts

\* The providers a requirement gets: the bound one, or all that satisfy it.
Chosen(ds, bs, key) ==
    LET bound == {b \in bs : Key(b) = key}
    IN  IF bound # {} THEN {b.provider : b \in bound}
        ELSE {d.id : d \in {e \in ds : Satisfies(e, key[2], Need(ds, key))}}

ExpectedEdges(ds, bs) ==
    UNION {{[provider |-> p, consumer |-> key[1], capability |-> key[2]] :
               p \in Chosen(ds, bs, key)} : key \in Needs(ds)}

Permitted(cardinality) ==
    CASE cardinality = "ExactlyOne" -> {1}
      [] cardinality = "ZeroOrOne"  -> {0, 1}
      [] cardinality = "OneOrMore"  -> Nat \ {0}
      [] cardinality = "ZeroOrMore" -> Nat

Coherent(ds) ==
    /\ \A d, e \in ds : e.id \notin d.conflicts
    /\ \A d \in ds : DOMAIN d.provides \cap DOMAIN d.requires = {}

BindingsFit(ds, bs) ==
    \A b \in bs :
        /\ Key(b) \in Needs(ds)
        /\ Need(ds, Key(b)).cardinality \in {"ExactlyOne", "ZeroOrOne"}
        /\ \E d \in ds : d.id = b.provider /\ Satisfies(d, b.capability, Need(ds, Key(b)))

Satisfiable(ds, bs) ==
    /\ BindingsFit(ds, bs)
    /\ \A key \in Needs(ds) :
         Cardinality(Chosen(ds, bs, key)) \in Permitted(Need(ds, key).cardinality)

\* Some plugins of S can start before the others.
Acyclic(es, ns) ==
    \A S \in (SUBSET ns) \ {{}} :
        \E n \in S : \A e \in es : e.consumer = n => e.provider \notin S

WithinLimits ==
    /\ spec.schema = CompositionSchema
    /\ \A l \in LimitNames : spec.limits[l] <= Maxima[l]
    /\ Len(spec.plugins) <= spec.limits["plugins"]
    /\ \A d \in Descriptors : DeclarationCount(d) <= spec.limits["capabilities"]

NoRepetition ==
    /\ Cardinality(Names(Descriptors)) = Len(spec.plugins)
    /\ Cardinality({Key(b) : b \in Bindings}) = Len(spec.bindings)

Resolvable ==
    /\ WithinLimits /\ NoRepetition
    /\ Coherent(Descriptors)
    /\ Satisfiable(Descriptors, Bindings)
    /\ Cardinality(ExpectedEdges(Descriptors, Bindings)) <= spec.limits["edges"]
    /\ Acyclic(ExpectedEdges(Descriptors, Bindings), Names(Descriptors))

-----------------------------------------------------------------------------
(* Properties *)

Succeeded == phase = "returned" /\ outcome.tag = "Ok"

\* resolve() succeeds for exactly the compositions that are resolvable: no
\* valid composition is refused because of a neighbouring check, a limit that
\* is just met or the order of declaration, and no invalid one gets through.
ResolvesExactly == phase = "returned" => (outcome.tag = "Ok" <=> Resolvable)

\* A limit that is exceeded: by itself, or by the number it bounds.  The edge
\* that is one too many is noticed at once.
IsLimitFault(tag, about) ==
    \/ tag = "UnsupportedSchemaVersion" /\ spec.schema # CompositionSchema
    \/ tag = "ConfiguredLimitExceeded"
       /\ about[1] \in LimitNames /\ spec.limits[about[1]] > Maxima[about[1]]
    \/ tag = "PluginLimitExceeded" /\ Len(spec.plugins) > spec.limits["plugins"]
    \/ tag = "CapabilityLimitExceeded"
       /\ \E d \in Descriptors :
            d.id = about[1] /\ DeclarationCount(d) > spec.limits["capabilities"]
    \/ tag = "EdgeLimitExceeded"
       /\ about[1] = spec.limits["edges"] + 1
       /\ about[1] <= Cardinality(ExpectedEdges(Descriptors, Bindings))

\* A plugin that is declared twice, or that does not go with another or itself.
IsPluginFault(tag, about) ==
    \/ tag = "DuplicatePlugin"
       /\ \E i, j \in 1..Len(spec.plugins) :
            i # j /\ spec.plugins[i].id = about[1] /\ spec.plugins[j].id = about[1]
    \/ tag = "PluginConflict"
       /\ about[1] < about[2]
       /\ \E d, e \in Descriptors :
            {d.id, e.id} = {about[1], about[2]} /\ e.id \in d.conflicts
    \/ tag = "SelfDependency"
       /\ \E d \in Descriptors :
            d.id = about[1] /\ about[2] \in DOMAIN d.provides \cap DOMAIN d.requires

\* A binding of the needed capability to d, a plugin of the composition.
IsBoundTo(b, d, about) ==
    /\ about = <<b.consumer, b.capability, b.provider>>
    /\ Key(b) \in Needs(Descriptors)
    /\ d.id = b.provider

\* A binding that is repeated, or that does not fit the plugins.
IsBindingFault(tag, about) ==
    \/ tag = "UnknownBindingConsumer"
       /\ about[1] \in {b.consumer : b \in Bindings} \ Names(Descriptors)
    \/ tag = "UnknownBindingProvider"
       /\ about[1] \in {b.provider : b \in Bindings} \ Names(Descriptors)
    \/ tag = "DuplicateBinding"
       /\ \E i, j \in 1..Len(spec.bindings) :
            i # j /\ Key(spec.bindings[i]) = about /\ Key(spec.bindings[j]) = about
    \/ tag = "UnusedBinding"
       /\ about \in {Key(b) : b \in Bindings} \ Needs(Descriptors)
    \/ tag = "BindingForMultiple"
       /\ about \in {Key(b) : b \in Bindings} \cap Needs(Descriptors)
       /\ Need(Descriptors, about).cardinality \in {"OneOrMore", "ZeroOrMore"}
    \/ tag = "BoundProviderDoesNotOffer"
       /\ \E b \in Bindings, d \in Descriptors :
            IsBoundTo(b, d, about) /\ b.capability \notin DOMAIN d.provides
    \/ tag = "IncompatibleBinding"
       /\ \E b \in Bindings, d \in Descriptors :
            /\ IsBoundTo(b, d, about) /\ b.capability \in DOMAIN d.provides
            /\ d.provides[b.capability] \notin Need(Descriptors, Key(b)).accepts

\* A need that gets fewer or more providers than its cardinality permits.
IsProviderFault(tag, about) ==
    LET key == <<about[1], about[2]>>
        chosen == Chosen(Descriptors, Bindings, key)
        offering == {d.id : d \in {e \in Descriptors : about[2] \in DOMAIN e.provides}}
    IN
    /\ tag \in {"MissingProvider", "IncompatibleProvider", "AmbiguousProvider"}
    /\ key \in Needs(Descriptors)
    /\ Cardinality(chosen) \notin Permitted(Need(Descriptors, key).cardinality)
    /\ \/ tag = "MissingProvider" /\ chosen = {} /\ offering = {}
       \/ tag = "IncompatibleProvider" /\ chosen = {} /\ offering # {} /\ about[3] = offering
       \/ tag = "AmbiguousProvider" /\ chosen # {} /\ about[3] = chosen

\* Plugins that wait for each other: a path that ends where it began, repeats
\* nothing else, and in which each plugin provides to the next.
IsCycleFault(tag, about) ==
    /\ tag = "DependencyCycle"
    /\ Len(about) >= 2 /\ about[1] = about[Len(about)]
    /\ \A i, j \in 1..(Len(about) - 1) : about[i] = about[j] => i = j
    /\ \A i \in 1..(Len(about) - 1) :
         \E e \in ExpectedEdges(Descriptors, Bindings) :
            e.provider = about[i] /\ e.consumer = about[i + 1]

IsFault(tag, about) ==
    \/ IsLimitFault(tag, about) \/ IsPluginFault(tag, about) \/ IsBindingFault(tag, about)
    \/ IsProviderFault(tag, about) \/ IsCycleFault(tag, about)

\* Every error of resolve() is about a fault of its own kind that the
\* composition has, and the plugins, capabilities, providers, limit or path it
\* carries are those that have the fault, so that the author who repairs what
\* it names makes progress (ResolveError, "subject identities").
RefusalNamesFault ==
    phase = "returned" /\ outcome.tag # "Ok" => IsFault(outcome.tag, outcome.about)

\* Work is bounded by the configured limits whatever the input: no more
\* descriptors are stored than max_plugins, and at most one edge more than
\* max_edges, the one whose insertion is noticed.  Nothing is looked up that is
\* not there: every provider a binding names is a key of plugins, so that the
\* indexing plugins[provider] of select_providers cannot panic, and
\* topological_order gets edges between different plugins of the composition.
WorkBounded ==
    /\ Cardinality(Known) <= spec.limits["plugins"]
    /\ Cardinality(edges) <= spec.limits["edges"] + 1
    /\ phase # "returned" => Cardinality(edges) <= spec.limits["edges"]
    /\ \A key \in DOMAIN bindings : key[1] \in Known /\ bindings[key] \in Known
    /\ todo \subseteq Known \X Links /\ unlinked \subseteq Known
    /\ \A e \in edges : {e.provider, e.consumer} \subseteq Known /\ e.provider # e.consumer

\* The descriptors when plugin p no longer offers the capability.
Without(ds, p, capability) ==
    {IF d.id = p
     THEN [id |-> p, requires |-> d.requires, conflicts |-> d.conflicts,
           provides |-> [c \in DOMAIN d.provides \ {capability} |-> d.provides[c]]]
     ELSE d : d \in ds}

\* An unselected offer can be withdrawn and the same graph still resolves, any
\* other offer is some plugin's dependency; an optional requirement is reported
\* missing exactly when it got no provider.
DiagnosticsAreExact ==
    /\ \A d \in Descriptors : \A c \in DOMAIN d.provides :
         IF <<"UnselectedOffer", d.id, c>> \in diagnostics
         THEN LET ds == Without(Descriptors, d.id, c)
              IN  Satisfiable(ds, Bindings) /\ ExpectedEdges(ds, Bindings) = edges
         ELSE \E key \in Needs(Descriptors) :
                key[2] = c /\ d.id \in Chosen(Descriptors, Bindings, key)
    /\ \A key \in Needs(Descriptors) :
         <<"OptionalProviderMissing", key[1], key[2]>> \in diagnostics
           <=> Chosen(Descriptors, Bindings, key) = {}

\* What the lifecycle executor relies on: an order without repetition in which
\* each provider precedes its consumers and offers what they use.
FitsLifecycle ==
    Runtime!IsResolvedGraph(
        [order |-> order,
         offers |-> [p \in Ids |-> IF p \in Known THEN plugins[p].provides ELSE Empty],
         edges |-> edges])

\* The graph is the one the descriptors and bindings describe: each plugin is
\* ordered once, a binding selects its provider alone, any other requirement
\* every compatible provider, and each selected provider has its edge.  The
\* binary search of ResolvedGraph::requirement finds each of these requirements
\* and nothing else, so the vector is sorted the way the search compares; the
\* diagnostics say what is so; and the executor gets what it relies on.
GraphIsExpected ==
    Succeeded =>
        /\ Ordered = Names(Descriptors)
        /\ edges = ExpectedEdges(Descriptors, Bindings)
        /\ \A key \in Ids \X Links :
             IF key \in Needs(Descriptors)
             THEN /\ Lookup(key) # 0
                  /\ requirements[Lookup(key)].key = key
                  /\ requirements[Lookup(key)].providers = Chosen(Descriptors, Bindings, key)
             ELSE Lookup(key) = 0
        /\ DiagnosticsAreExact
        /\ FitsLifecycle
=============================================================================
