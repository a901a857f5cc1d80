--------------------------- MODULE ResolverProofs ---------------------------
(***************************************************************************)
(* resolve() computes what ResolutionContract says, for every composition  *)
(* and every ceiling: it does bounded work, refuses exactly what is not    *)
(* resolvable, and names a fault the composition has.                      *)
(*                                                                         *)
(* The invariant follows the phases of resolve(): what the loops have put  *)
(* in their maps is what the composition says up to the position they have *)
(* reached, and what a phase has checked still holds in the later ones.    *)
(***************************************************************************)
EXTENDS ResolutionContract, TopologicalOrderProofs

Phases == {"input", "declare", "conflicts", "self", "bindings", "select", "link", "sort", "returned"}

\* plugins holds the first k descriptors, which are within the limits and have
\* identities of their own.
Declared(k) ==
    /\ Known = {spec.plugins[i].id : i \in 1..k}
    /\ \A i \in 1..k : plugins[spec.plugins[i].id] = spec.plugins[i]
    /\ \A i, j \in 1..k : spec.plugins[i].id = spec.plugins[j].id => i = j
    /\ \A i \in 1..k : DeclarationCount(spec.plugins[i]) <= spec.limits["capabilities"]

\* bindings holds the first k bindings, between known plugins and of
\* different requirements.
Bound(k) ==
    /\ DOMAIN bindings = {Key(spec.bindings[i]) : i \in 1..k}
    /\ \A i \in 1..k : bindings[Key(spec.bindings[i])] = spec.bindings[i].provider
    /\ \A i, j \in 1..k : Key(spec.bindings[i]) = Key(spec.bindings[j]) => i = j
    /\ \A i \in 1..k : spec.bindings[i].consumer \in Known /\ spec.bindings[i].provider \in Known

PhaseInv == spec \in Specs /\ phase \in Phases /\ at \in Nat \ {0}

DeclaredInv ==
    /\ phase \notin {"input", "returned"} => InputFault = "None"
    /\ phase = "input" => Known = {}
    /\ phase = "declare" => at - 1 \in 0..Len(spec.plugins) /\ Declared(at - 1)
    /\ phase \notin {"input", "declare", "returned"} => Declared(Len(spec.plugins))
    /\ phase \notin {"input", "declare", "conflicts", "returned"} => Conflicts = {}
    /\ phase \notin {"input", "declare", "conflicts", "self", "returned"} => SelfDependencies = {}

BoundInv ==
    /\ phase \in {"input", "declare", "conflicts", "self"} => DOMAIN bindings = {}
    /\ phase = "bindings" => at - 1 \in 0..Len(spec.bindings) /\ Bound(at - 1)
    /\ phase \in {"select", "link", "sort"} => Bound(Len(spec.bindings))

\* The requirements that are not to be resolved any more have their edges, the
\* one being resolved those that are not unlinked.
HasEdge(key, p) ==
    /\ key \in Required /\ p \in Selection(key)
    /\ key \notin todo \/ (phase = "link" /\ IsFirst(key, todo) /\ p \notin unlinked)

SelectInv ==
    phase \in {"select", "link", "sort"} =>
        /\ todo \subseteq Required
        /\ \A key \in Required \ todo : SelectionFault(key) = "None"
        /\ \A key \in todo : phase = "link" /\ IsFirst(key, todo) =>
             SelectionFault(key) = "None" /\ unlinked \subseteq Selection(key)
        /\ phase # "link" => unlinked = {}
        /\ phase = "link" => todo # {}
        /\ \A e \in Edge : e \in edges <=> HasEdge(<<e.consumer, e.capability>>, e.provider)
        /\ \A key \in DOMAIN bindings : key \in used <=>
             key \in Required /\ (key \notin todo \/ (phase = "link" /\ IsFirst(key, todo)))
        /\ Cardinality(edges) <= spec.limits["edges"]

EdgesInv ==
    /\ edges \subseteq Edge
    /\ phase \in {"input", "declare", "conflicts", "self", "bindings"} =>
         edges = {} /\ todo = {} /\ unlinked = {} /\ used = {}

OrderInv ==
    /\ phase \notin {"sort", "returned"} =>
         order = << >> /\ stack = << >> /\ cycle = << >> /\ verdict = "sorting"
    /\ phase = "sort" => nodes = Known /\ todo = {} /\ Unused = {} /\ SInv /\ SearchInv

AnswerInv == ResolvesExactly /\ RefusalNamesFault

RInv ==
    /\ PhaseInv /\ DeclaredInv /\ BoundInv /\ EdgesInv /\ SelectInv /\ OrderInv
    /\ WorkBounded /\ AnswerInv

-----------------------------------------------------------------------------
(* Compositions *)

\* What a composition is made of.
LEMMA CompositionFacts ==
    ASSUME spec \in Specs
    PROVE  /\ Len(spec.plugins) \in Nat /\ Len(spec.bindings) \in Nat
           /\ \A l \in LimitNames : spec.limits[l] \in Nat /\ Maxima[l] \in Nat
           /\ \A i \in 1..Len(spec.plugins) : IsDescriptor(spec.plugins[i])
           /\ \A i \in 1..Len(spec.bindings) :
                /\ spec.bindings[i].consumer \in Ids
                /\ spec.bindings[i].capability \in Links
                /\ spec.bindings[i].provider \in Ids
<1>1. IsComposition(spec)
  BY SpecsAssumption
<1> DEFINE B == [consumer : Ids, capability : Links, provider : Ids]
<1>2. spec.bindings \in Seq(B)
  BY <1>1 DEF IsComposition
<1>3. Len(spec.bindings) \in Nat /\ \A i \in 1..Len(spec.bindings) : spec.bindings[i] \in B
  <2> HIDE DEF B
  <2> QED  BY <1>2
<1>4. \A i \in 1..Len(spec.plugins) : IsDescriptor(spec.plugins[i])
  BY <1>1 DEF IsComposition
<1>5. \A l \in LimitNames : spec.limits[l] \in Nat /\ Maxima[l] \in Nat
  BY <1>1, MaximaAssumption DEF IsComposition
<1>6. Len(spec.plugins) \in Nat
  BY <1>1 DEF IsComposition
<1> QED  BY <1>3, <1>4, <1>5, <1>6

\* A sequence of n things has n different ones exactly when none is repeated.
LEMMA CountDistinct ==
    ASSUME NEW n \in Nat, NEW f, DOMAIN f = 1..n, f = [i \in 1..n |-> f[i]]
    PROVE  LET T == {f[i] : i \in 1..n}
           IN  /\ IsFiniteSet(T) /\ Cardinality(T) \in Nat /\ Cardinality(T) <= n
               /\ Cardinality(T) = n <=> \A i, j \in 1..n : f[i] = f[j] => i = j
<1> DEFINE T == {f[i] : i \in 1..n}
<1>1. f \in [1..n -> T]
  OBVIOUS
<1>2. f \in Surjection(1..n, T)
  BY <1>1 DEF Surjection
<1>3. IsFiniteSet(1..n) /\ Cardinality(1..n) = n
  BY FS_Interval
<1>4. /\ IsFiniteSet(T) /\ Cardinality(T) <= Cardinality(1..n)
      /\ Cardinality(T) = Cardinality(1..n) <=> f \in Injection(1..n, T)
  <2> HIDE DEF T
  <2> QED  BY <1>2, <1>3, FS_Surjection
<1>5. f \in Injection(1..n, T) <=> \A i, j \in 1..n : f[i] = f[j] => i = j
  BY <1>1 DEF Injection, IsInjective
<1>6. Cardinality(T) \in Nat
  BY <1>4, FS_CardinalityType
<1> QED  BY <1>3, <1>4, <1>5, <1>6

\* There are finitely many edges between finitely many plugins.
LEMMA EdgeFinite == IsFiniteSet(Edge)
<1> DEFINE P == Ids \X (Ids \X Links)
           f == [x \in P |-> [provider |-> x[1], consumer |-> x[2][1], capability |-> x[2][2]]]
<1>1. IsFiniteSet(P)
  <2>1. IsFiniteSet(Ids \X Links)
    BY IdsAssumption, LinksAssumption, FS_Product
  <2> QED  BY <2>1, IdsAssumption, FS_Product
<1>2. f \in Surjection(P, Edge)
  <2>1. f \in [P -> Edge]
    BY DEF Edge
  <2>2. ASSUME NEW e \in Edge PROVE \E x \in P : f[x] = e
    <3>1. <<e.provider, <<e.consumer, e.capability>>>> \in P
      BY DEF Edge
    <3>2. f[<<e.provider, <<e.consumer, e.capability>>>>] = e
      BY <3>1 DEF Edge
    <3> QED  BY <3>1, <3>2
  <2> HIDE DEF f, P
  <2> QED  BY <2>1, <2>2 DEF Surjection
<1> HIDE DEF f, P
<1> QED  BY <1>1, <1>2, FS_Surjection

\* The identities of a composition's plugins are counted by Len when distinct.
LEMMA NamesCounted ==
    ASSUME spec \in Specs
    PROVE  /\ IsFiniteSet(Names(Descriptors)) /\ Cardinality(Names(Descriptors)) <= Len(spec.plugins)
           /\ Cardinality(Names(Descriptors)) = Len(spec.plugins)
                <=> \A i, j \in 1..Len(spec.plugins) : spec.plugins[i].id = spec.plugins[j].id => i = j
<1> DEFINE n == Len(spec.plugins)
           f == [i \in 1..n |-> spec.plugins[i].id]
<1>1. n \in Nat
  BY CompositionFacts
<1>2. Names(Descriptors) = {f[i] : i \in 1..n}
  BY DEF Names, Descriptors
<1>3. DOMAIN f = 1..n /\ f = [i \in 1..n |-> f[i]] /\ \A i \in 1..n : f[i] = spec.plugins[i].id
  OBVIOUS
<1> HIDE DEF f
<1>4. LET T == {f[i] : i \in 1..n}
      IN  /\ IsFiniteSet(T) /\ Cardinality(T) \in Nat /\ Cardinality(T) <= n
          /\ Cardinality(T) = n <=> \A i, j \in 1..n : f[i] = f[j] => i = j
  <2> HIDE DEF n
  <2> QED  BY <1>1, <1>3, CountDistinct
<1>5. (\A i, j \in 1..n : f[i] = f[j] => i = j)
        <=> \A i, j \in 1..n : spec.plugins[i].id = spec.plugins[j].id => i = j
  BY <1>3
<1> QED  BY <1>2, <1>4, <1>5

\* The same for the requirements its bindings name.
LEMMA KeysCounted ==
    ASSUME spec \in Specs
    PROVE  Cardinality({Key(b) : b \in Bindings}) = Len(spec.bindings)
             <=> \A i, j \in 1..Len(spec.bindings) : Key(spec.bindings[i]) = Key(spec.bindings[j]) => i = j
<1> DEFINE n == Len(spec.bindings)
           f == [i \in 1..n |-> Key(spec.bindings[i])]
<1>1. n \in Nat
  BY CompositionFacts
<1>2. {Key(b) : b \in Bindings} = {f[i] : i \in 1..n}
  BY DEF Bindings
<1>3. DOMAIN f = 1..n /\ f = [i \in 1..n |-> f[i]] /\ \A i \in 1..n : f[i] = Key(spec.bindings[i])
  OBVIOUS
<1> HIDE DEF f
<1>4. LET T == {f[i] : i \in 1..n}
      IN  Cardinality(T) = n <=> \A i, j \in 1..n : f[i] = f[j] => i = j
  <2> HIDE DEF n
  <2> QED  BY <1>1, <1>3, CountDistinct
<1>5. (\A i, j \in 1..n : f[i] = f[j] => i = j)
        <=> \A i, j \in 1..n : Key(spec.bindings[i]) = Key(spec.bindings[j]) => i = j
  BY <1>3
<1> QED  BY <1>2, <1>4, <1>5

-----------------------------------------------------------------------------
(* The maps of resolve() against the composition *)

\* Once every descriptor is declared, plugins is the set of descriptors.
LEMMA KnownFacts ==
    ASSUME spec \in Specs, Declared(Len(spec.plugins))
    PROVE  /\ Known = Names(Descriptors)
           /\ \A d \in Descriptors : d.id \in Known /\ plugins[d.id] = d
           /\ \A p \in Known : plugins[p] \in Descriptors /\ plugins[p].id = p
           /\ \A p \in Known : IsDescriptor(plugins[p]) /\ Named(Descriptors, p) = plugins[p]
           /\ Known \subseteq Ids
<1>1. Known = Names(Descriptors)
  BY DEF Declared, Names, Descriptors
<1>2. \A d \in Descriptors : d.id \in Known /\ plugins[d.id] = d
  BY DEF Declared, Descriptors
<1>3. \A p \in Known : plugins[p] \in Descriptors /\ plugins[p].id = p
  BY DEF Declared, Descriptors
<1>4. \A d \in Descriptors : IsDescriptor(d)
  BY CompositionFacts DEF Descriptors
<1>5. ASSUME NEW p \in Known PROVE Named(Descriptors, p) = plugins[p]
  <2>1. \A d \in Descriptors : d.id = p <=> d = plugins[p]
    BY <1>2, <1>3
  <2> QED  BY <1>3, <2>1 DEF Named
<1>6. Known \subseteq Ids
  BY <1>3, <1>4 DEF IsDescriptor
<1> QED  BY <1>1, <1>2, <1>3, <1>4, <1>5, <1>6

\* What a plugin requires, by key.
LEMMA RequiredFacts ==
    ASSUME spec \in Specs, Declared(Len(spec.plugins))
    PROVE  /\ Required = Needs(Descriptors)
           /\ \A key \in Required :
                /\ key[1] \in Known /\ key[2] \in Links /\ key = <<key[1], key[2]>>
                /\ Need(Descriptors, key) = RequirementOf(key)
                /\ RequirementOf(key) \in Requirement
           /\ \A p \in Known, c \in Links : <<p, c>> \in Required <=> c \in DOMAIN plugins[p].requires
<1>1. \A p \in Known : plugins[p] \in Descriptors /\ plugins[p].id = p /\ IsDescriptor(plugins[p])
  BY KnownFacts
<1>2. \A d \in Descriptors : d.id \in Known /\ plugins[d.id] = d
  BY KnownFacts
<1>3. ASSUME NEW key \in Required
      PROVE  /\ key[1] \in Known /\ key[2] \in Links /\ key = <<key[1], key[2]>>
             /\ key[2] \in DOMAIN plugins[key[1]].requires
  BY DEF Required
<1>4. Required \subseteq Needs(Descriptors)
  <2> SUFFICES ASSUME NEW key \in Required PROVE key \in Needs(Descriptors)
    OBVIOUS
  <2>1. key \in {<<plugins[key[1]].id, c>> : c \in DOMAIN plugins[key[1]].requires}
    BY <1>1, <1>3
  <2> QED  BY <1>1, <1>3, <2>1 DEF Needs
<1>5. Needs(Descriptors) \subseteq Required
  <2> SUFFICES ASSUME NEW key \in Needs(Descriptors) PROVE key \in Required
    OBVIOUS
  <2>1. PICK d \in Descriptors : \E c \in DOMAIN d.requires : key = <<d.id, c>>
    BY DEF Needs
  <2>2. PICK c \in DOMAIN d.requires : key = <<d.id, c>>
    BY <2>1
  <2>3. c \in Links
    BY <1>1, <1>2 DEF IsDescriptor
  <2> QED  BY <1>2, <2>2, <2>3 DEF Required
<1>6. ASSUME NEW key \in Required
      PROVE  Need(Descriptors, key) = RequirementOf(key) /\ RequirementOf(key) \in Requirement
  <2>1. Named(Descriptors, key[1]) = plugins[key[1]]
    BY <1>3, KnownFacts
  <2> QED  BY <1>1, <1>3, <2>1 DEF Need, RequirementOf, IsDescriptor
<1>7. \A p \in Known, c \in Links : <<p, c>> \in Required <=> c \in DOMAIN plugins[p].requires
  BY DEF Required
<1> QED  BY <1>3, <1>4, <1>5, <1>6, <1>7

\* Once every binding is validated, bindings is the set of bindings.
LEMMA BoundFacts ==
    ASSUME Bound(Len(spec.bindings))
    PROVE  /\ \A b \in Bindings : /\ Key(b) \in DOMAIN bindings /\ bindings[Key(b)] = b.provider
                                  /\ b.consumer \in Known /\ b.provider \in Known
           /\ \A key \in DOMAIN bindings : \E b \in Bindings : Key(b) = key
           /\ DOMAIN bindings = {Key(b) : b \in Bindings}
  BY DEF Bound, Bindings

\* select_providers chooses what the reference does.
LEMMA SelectionIsChosen ==
    ASSUME spec \in Specs, Declared(Len(spec.plugins)), Bound(Len(spec.bindings)), NEW key \in Required
    PROVE  /\ Selection(key) = Chosen(Descriptors, Bindings, key)
           /\ key \notin DOMAIN bindings => Chosen(Descriptors, Bindings, key) = Compatible(key)
           /\ Selection(key) \subseteq Known
           /\ \A p \in Known : Satisfies(plugins[p], key[2], Need(Descriptors, key))
                                 <=> Offers(p, key[2]) /\ Matches(p, key)
<1>1. Need(Descriptors, key) = RequirementOf(key)
  BY RequiredFacts
<1>2. \A p \in Known : Satisfies(plugins[p], key[2], Need(Descriptors, key))
                         <=> Offers(p, key[2]) /\ Matches(p, key)
  BY <1>1 DEF Satisfies, Offers, Matches
<1>3. {d.id : d \in {e \in Descriptors : Satisfies(e, key[2], Need(Descriptors, key))}} = Compatible(key)
  <2>1. Compatible(key) = {p \in Known : Satisfies(plugins[p], key[2], Need(Descriptors, key))}
    BY <1>2 DEF Compatible, Candidates
  <2>2. \A d \in Descriptors : d.id \in Known /\ plugins[d.id] = d
    BY KnownFacts
  <2>3. \A p \in Known : plugins[p] \in Descriptors /\ plugins[p].id = p
    BY KnownFacts
  <2> HIDE DEF Known
  <2> QED  BY <2>1, <2>2, <2>3
<1> DEFINE bound == {b \in Bindings : Key(b) = key}
<1>4. CASE key \in DOMAIN bindings
  <2>1. bound # {} /\ \A b \in bound : b.provider = bindings[key] /\ b.provider \in Known
    BY <1>4, BoundFacts
  <2>2. {b.provider : b \in bound} = {bindings[key]}
    BY <2>1
  <2> QED  BY <1>2, <1>4, <2>1, <2>2 DEF Selection, Chosen
<1>5. CASE key \notin DOMAIN bindings
  <2>1. bound = {}
    BY <1>5, BoundFacts
  <2> QED  BY <1>2, <1>3, <1>5, <2>1 DEF Selection, Chosen, Compatible, Candidates
<1> QED  BY <1>4, <1>5

\* The edges of the reference, one by one.
LEMMA ExpectedEdgeFacts ==
    ASSUME spec \in Specs, Declared(Len(spec.plugins)), Bound(Len(spec.bindings))
    PROVE  /\ ExpectedEdges(Descriptors, Bindings) \subseteq Edge
           /\ \A e \in Edge : e \in ExpectedEdges(Descriptors, Bindings)
                <=> <<e.consumer, e.capability>> \in Required /\ e.provider \in Selection(<<e.consumer, e.capability>>)
<1> DEFINE Of(key) == {[provider |-> p, consumer |-> key[1], capability |-> key[2]] :
                         p \in Chosen(Descriptors, Bindings, key)}
<1>1. \A key \in Required : /\ Selection(key) = Chosen(Descriptors, Bindings, key)
                            /\ Selection(key) \subseteq Known
  BY SelectionIsChosen
<1>2. ExpectedEdges(Descriptors, Bindings) = UNION {Of(key) : key \in Required}
  BY RequiredFacts DEF ExpectedEdges
<1>3. \A key \in Required : key[1] \in Ids /\ key[2] \in Links /\ key = <<key[1], key[2]>>
  BY RequiredFacts, KnownFacts
<1>4. Known \subseteq Ids
  BY KnownFacts
<1>5. ASSUME NEW e \in ExpectedEdges(Descriptors, Bindings)
      PROVE  /\ e \in Edge /\ <<e.consumer, e.capability>> \in Required
             /\ e.provider \in Selection(<<e.consumer, e.capability>>)
  <2>1. PICK key \in Required : e \in Of(key)
    BY <1>2
  <2>2. PICK p \in Selection(key) : e = [provider |-> p, consumer |-> key[1], capability |-> key[2]]
    BY <1>1, <2>1
  <2>3. p \in Ids
    BY <1>1, <1>4, <2>2
  <2>4. e.consumer = key[1] /\ e.capability = key[2] /\ e.provider = p
    BY <2>2
  <2> QED  BY <1>3, <2>2, <2>3, <2>4 DEF Edge
<1>6. ASSUME NEW e \in Edge, <<e.consumer, e.capability>> \in Required,
             e.provider \in Selection(<<e.consumer, e.capability>>)
      PROVE  e \in ExpectedEdges(Descriptors, Bindings)
  <2> DEFINE key == <<e.consumer, e.capability>>
  <2>1. e = [provider |-> e.provider, consumer |-> key[1], capability |-> key[2]]
    BY DEF Edge
  <2>2. e.provider \in Chosen(Descriptors, Bindings, key) /\ key \in Required
    BY <1>1, <1>6
  <2>3. e \in Of(key)
    BY <2>1, <2>2
  <2> HIDE DEF key, Of
  <2> QED  BY <1>2, <2>2, <2>3
<1> QED  BY <1>5, <1>6

\* A binding and the requirement it is for, as BindingsFit wants them.
Fits(b) ==
    /\ Need(Descriptors, Key(b)).cardinality \in {"ExactlyOne", "ZeroOrOne"}
    /\ \E d \in Descriptors :
         d.id = b.provider /\ Satisfies(d, b.capability, Need(Descriptors, Key(b)))

\* The numbers of providers that a cardinality permits.
LEMMA PermittedFacts ==
    ASSUME NEW c \in Cardinalities, NEW n \in Nat
    PROVE  n \in Permitted(c) <=> (n = 0 => PermitsZero(c)) /\ (n > 1 => ~IsBindable(c))
<1>1. CASE c = "ExactlyOne"
  BY <1>1 DEF Permitted, PermitsZero, IsBindable
<1>2. CASE c = "ZeroOrOne"
  BY <1>2 DEF Permitted, PermitsZero, IsBindable
<1>3. CASE c = "OneOrMore"
  BY <1>3 DEF Permitted, PermitsZero, IsBindable
<1>4. CASE c = "ZeroOrMore"
  BY <1>4 DEF Permitted, PermitsZero, IsBindable
<1> QED  BY <1>1, <1>2, <1>3, <1>4 DEF Cardinalities

\* A bound requirement is faultless exactly when its binding fits.
LEMMA BoundFits ==
    ASSUME spec \in Specs, Declared(Len(spec.plugins)), Bound(Len(spec.bindings)),
           NEW b \in Bindings, Key(b) \in Required
    PROVE  /\ SelectionFault(Key(b)) = "None" <=> Fits(b)
           /\ Cardinality(Chosen(Descriptors, Bindings, Key(b))) = 1
<1> DEFINE key == Key(b)
<1>1. key \in DOMAIN bindings /\ bindings[key] = b.provider /\ b.provider \in Known
  BY BoundFacts
<1>2. key[2] = b.capability
  BY DEF Key
<1>3. Need(Descriptors, key) = RequirementOf(key)
  BY RequiredFacts
<1>4. \A p \in Known : Satisfies(plugins[p], key[2], Need(Descriptors, key))
                         <=> Offers(p, key[2]) /\ Matches(p, key)
  BY SelectionIsChosen
<1>5. (\E d \in Descriptors : d.id = b.provider /\ Satisfies(d, b.capability, Need(Descriptors, key)))
        <=> Offers(b.provider, key[2]) /\ Matches(b.provider, key)
  <2>1. \A d \in Descriptors : d.id = b.provider <=> d = plugins[b.provider]
    BY <1>1, KnownFacts
  <2>2. plugins[b.provider] \in Descriptors
    BY <1>1, KnownFacts
  <2> QED  BY <1>1, <1>2, <1>4, <2>1, <2>2
<1>6. SelectionFault(key) = "None" <=> Fits(b)
  <2>1. SelectionFault(key) = BoundFault(key)
    BY <1>1 DEF SelectionFault
  <2>2. BoundFault(key) = "None" <=>
          IsBindable(RequirementOf(key).cardinality) /\ Offers(b.provider, key[2]) /\ Matches(b.provider, key)
    <3> HIDE DEF key
    <3> QED  BY <1>1 DEF BoundFault
  <2>3. Fits(b) <=> IsBindable(RequirementOf(key).cardinality)
                      /\ Offers(b.provider, key[2]) /\ Matches(b.provider, key)
    BY <1>3, <1>5 DEF Fits, IsBindable
  <2> QED  BY <2>1, <2>2, <2>3
<1>7. Chosen(Descriptors, Bindings, key) = {bindings[key]}
  BY <1>1, SelectionIsChosen DEF Selection
<1>8. Cardinality(Chosen(Descriptors, Bindings, key)) = 1
  BY <1>7, FS_Singleton
<1> QED  BY <1>6, <1>8

\* An unbound requirement is faultless exactly when it gets as many providers
\* as its cardinality permits.
LEMMA UnboundFits ==
    ASSUME spec \in Specs, Declared(Len(spec.plugins)), Bound(Len(spec.bindings)),
           NEW key \in Required, key \notin DOMAIN bindings
    PROVE  /\ SelectionFault(key) = "None" <=>
                Cardinality(Chosen(Descriptors, Bindings, key)) \in Permitted(Need(Descriptors, key).cardinality)
           /\ IsFiniteSet(Compatible(key)) /\ Cardinality(Compatible(key)) \in Nat
           /\ Cardinality(Compatible(key)) = 0 <=> Compatible(key) = {}
<1>1. Chosen(Descriptors, Bindings, key) = Compatible(key) /\ Need(Descriptors, key) = RequirementOf(key)
  BY SelectionIsChosen, RequiredFacts
<1> DEFINE N == Cardinality(Compatible(key))
           c == RequirementOf(key).cardinality
<1>2. IsFiniteSet(Compatible(key))
  <2>1. Compatible(key) \subseteq Ids
    BY KnownFacts DEF Compatible, Candidates
  <2> QED  BY <2>1, IdsAssumption, FS_Subset
<1>3. N \in Nat /\ (N = 0 <=> Compatible(key) = {})
  BY <1>2, FS_EmptySet, FS_CardinalityType
<1>4. c \in Cardinalities
  BY RequiredFacts DEF Requirement
<1>5. N \in Permitted(c) <=> (N = 0 => PermitsZero(c)) /\ (N > 1 => ~IsBindable(c))
  BY <1>3, <1>4, PermittedFacts
<1>6. SelectionFault(key) = "None" <=> (N = 0 => PermitsZero(c)) /\ (N > 1 => ~IsBindable(c))
  <2>1. SelectionFault(key) = UnboundFault(key)
    BY DEF SelectionFault
  <2>2. UnboundFault(key) = IF Compatible(key) = {} /\ ~PermitsZero(c)
                            THEN IF Candidates(key) = {} THEN "MissingProvider" ELSE "IncompatibleProvider"
                            ELSE IF IsBindable(c) /\ N > 1 THEN "AmbiguousProvider" ELSE "None"
    BY DEF UnboundFault
  <2> HIDE DEF N, c
  <2> QED  BY <1>3, <2>1, <2>2
<1> QED  BY <1>1, <1>2, <1>3, <1>5, <1>6

\* select_providers finds no fault, and no binding is left over, exactly when
\* the composition is satisfiable.
LEMMA SatisfiableFacts ==
    ASSUME spec \in Specs, Declared(Len(spec.plugins)), Bound(Len(spec.bindings))
    PROVE  Satisfiable(Descriptors, Bindings) <=>
             /\ DOMAIN bindings \subseteq Required
             /\ \A key \in Required : SelectionFault(key) = "None"
<1>1. BindingsFit(Descriptors, Bindings) <=> \A b \in Bindings : Key(b) \in Required /\ Fits(b)
  BY RequiredFacts DEF BindingsFit, Fits
<1>2. DOMAIN bindings \subseteq Required <=> \A b \in Bindings : Key(b) \in Required
  BY BoundFacts
<1>3. Required = Needs(Descriptors)
  BY RequiredFacts
<1>4. ASSUME BindingsFit(Descriptors, Bindings), NEW key \in Required,
             Cardinality(Chosen(Descriptors, Bindings, key)) \in Permitted(Need(Descriptors, key).cardinality)
      PROVE  SelectionFault(key) = "None"
  <2>1. CASE key \in DOMAIN bindings
    <3>1. PICK b \in Bindings : Key(b) = key
      BY <2>1, BoundFacts
    <3> QED  BY <1>1, <1>4, <3>1, BoundFits
  <2>2. CASE key \notin DOMAIN bindings
    BY <1>4, <2>2, UnboundFits
  <2> QED  BY <2>1, <2>2
<1>5. ASSUME DOMAIN bindings \subseteq Required, \A key \in Required : SelectionFault(key) = "None",
             NEW b \in Bindings
      PROVE  Key(b) \in Required /\ Fits(b)
  BY <1>2, <1>5, BoundFits
<1>6. ASSUME \A key \in Required : SelectionFault(key) = "None", NEW key \in Required
      PROVE  Cardinality(Chosen(Descriptors, Bindings, key)) \in Permitted(Need(Descriptors, key).cardinality)
  <2>1. CASE key \in DOMAIN bindings
    <3>1. PICK b \in Bindings : Key(b) = key
      BY <2>1, BoundFacts
    <3>2. Fits(b) /\ Cardinality(Chosen(Descriptors, Bindings, key)) = 1
      BY <1>6, <3>1, BoundFits
    <3>3. Need(Descriptors, key).cardinality \in {"ExactlyOne", "ZeroOrOne"}
      BY <3>1, <3>2 DEF Fits
    <3>4. 1 \in Permitted(Need(Descriptors, key).cardinality)
      BY <3>3, PermittedFacts DEF Cardinalities, IsBindable, PermitsZero
    <3> QED  BY <3>2, <3>4
  <2>2. CASE key \notin DOMAIN bindings
    BY <1>6, <2>2, UnboundFits
  <2> QED  BY <2>1, <2>2
<1>7. ASSUME Satisfiable(Descriptors, Bindings)
      PROVE  DOMAIN bindings \subseteq Required /\ \A key \in Required : SelectionFault(key) = "None"
  BY <1>1, <1>2, <1>3, <1>4, <1>7 DEF Satisfiable
<1>8. ASSUME DOMAIN bindings \subseteq Required, \A key \in Required : SelectionFault(key) = "None"
      PROVE  Satisfiable(Descriptors, Bindings)
  BY <1>1, <1>3, <1>5, <1>6, <1>8 DEF Satisfiable
<1> QED  BY <1>7, <1>8

\* What the passes before the selection have checked.
LEMMA CheckedFacts ==
    ASSUME spec \in Specs, InputFault = "None", Declared(Len(spec.plugins))
    PROVE  /\ WithinLimits /\ Cardinality(Names(Descriptors)) = Len(spec.plugins)
           /\ Coherent(Descriptors) <=> Conflicts = {} /\ SelfDependencies = {}
           /\ Bound(Len(spec.bindings)) => NoRepetition
<1>1. WithinLimits
  <2>1. /\ spec.schema = CompositionSchema /\ Len(spec.plugins) <= spec.limits["plugins"]
        /\ \A l \in LimitNames : ~(spec.limits[l] > Maxima[l])
    BY CompositionFacts DEF InputFault, LimitNames
  <2>2. \A l \in LimitNames : spec.limits[l] <= Maxima[l]
    BY <2>1, CompositionFacts
  <2>3. \A d \in Descriptors : DeclarationCount(d) <= spec.limits["capabilities"]
    BY DEF Declared, Descriptors
  <2> QED  BY <2>1, <2>2, <2>3 DEF WithinLimits
<1>2. Cardinality(Names(Descriptors)) = Len(spec.plugins)
  BY NamesCounted DEF Declared
<1>3. \A d \in Descriptors : d.id \in Known /\ plugins[d.id] = d
  BY KnownFacts
<1>4. \A p \in Known : plugins[p] \in Descriptors /\ plugins[p].id = p /\ IsDescriptor(plugins[p])
  BY KnownFacts
<1>5. (\A d, e \in Descriptors : e.id \notin d.conflicts) <=> Conflicts = {}
  <2>1. \A p, q \in Known : q \in plugins[p].conflicts => <<p, q>> \in Conflicts
    BY DEF Conflicts
  <2>2. \A pq \in Conflicts : pq[1] \in Known /\ pq[2] \in Known /\ pq[2] \in plugins[pq[1]].conflicts
    BY DEF Conflicts
  <2>3. ASSUME NEW d \in Descriptors, NEW e \in Descriptors, e.id \in d.conflicts PROVE Conflicts # {}
    BY <1>3, <2>1, <2>3
  <2>4. ASSUME NEW pq \in Conflicts PROVE \E d, e \in Descriptors : e.id \in d.conflicts
    BY <1>4, <2>2
  <2> QED  BY <2>3, <2>4
<1>6. (\A d \in Descriptors : DOMAIN d.provides \cap DOMAIN d.requires = {}) <=> SelfDependencies = {}
  <2>1. \A p \in Known, c \in Links :
          c \in DOMAIN plugins[p].requires \cap DOMAIN plugins[p].provides => <<p, c>> \in SelfDependencies
    BY DEF SelfDependencies
  <2>2. \A pc \in SelfDependencies :
          pc[1] \in Known /\ pc[2] \in DOMAIN plugins[pc[1]].requires \cap DOMAIN plugins[pc[1]].provides
    BY DEF SelfDependencies
  <2>3. \A p \in Known : DOMAIN plugins[p].provides \subseteq Links
    BY <1>4 DEF IsDescriptor
  <2> HIDE DEF Known
  <2> QED  BY <1>3, <1>4, <2>1, <2>2, <2>3
<1>7. Bound(Len(spec.bindings)) => NoRepetition
  BY <1>2, KeysCounted DEF Bound, NoRepetition
<1> QED  BY <1>1, <1>2, <1>5, <1>6, <1>7 DEF Coherent

-----------------------------------------------------------------------------
(* What the steps leave alone *)

\* The reference reads the composition only.
LEMMA SameComposition ==
    ASSUME spec' = spec
    PROVE  /\ Descriptors' = Descriptors /\ Bindings' = Bindings
           /\ Resolvable' <=> Resolvable
<1>1. Descriptors' = Descriptors /\ Bindings' = Bindings
  BY DEF Descriptors, Bindings
<1> QED  BY <1>1 DEF Resolvable, WithinLimits, NoRepetition

\* What was checked of the maps holds while they stay as they are.
LEMMA SameMaps ==
    ASSUME UNCHANGED declared
    PROVE  /\ Known' = Known /\ InputFault' = InputFault
           /\ Declared(Len(spec.plugins))' <=> Declared(Len(spec.plugins))
           /\ Conflicts' = Conflicts /\ SelfDependencies' = SelfDependencies
           /\ Bound(Len(spec.bindings))' <=> Bound(Len(spec.bindings))
           /\ Required' = Required
<1>1. Known' = Known
  BY DEF declared, Known
<1>2. InputFault' = InputFault
  BY DEF declared, InputFault
<1>3. Declared(Len(spec.plugins))' <=> Declared(Len(spec.plugins))
  BY <1>1 DEF declared, Declared
<1>4. Conflicts' = Conflicts /\ SelfDependencies' = SelfDependencies
  BY <1>1 DEF declared, Conflicts, SelfDependencies
<1>5. Bound(Len(spec.bindings))' <=> Bound(Len(spec.bindings))
  BY <1>1 DEF declared, Bound
<1>6. Required' = Required
  BY <1>1 DEF declared, Required
<1> QED  BY <1>1, <1>2, <1>3, <1>4, <1>5, <1>6

\* select_providers reads the maps only.
LEMMA SameSelection ==
    ASSUME UNCHANGED declared
    PROVE  \A key : SelectionFault(key)' = SelectionFault(key) /\ Selection(key)' = Selection(key)
<1>1. \A key : Candidates(key)' = Candidates(key) /\ Compatible(key)' = Compatible(key)
  BY DEF declared, Known, Candidates, Compatible, Offers, Matches, RequirementOf
<1>2. \A key : BoundFault(key)' = BoundFault(key)
  BY DEF declared, BoundFault, Offers, Matches, RequirementOf
<1>3. \A key : UnboundFault(key)' = UnboundFault(key)
  BY <1>1 DEF declared, UnboundFault, RequirementOf
<1> QED  BY <1>1, <1>2, <1>3 DEF declared, SelectionFault, Selection

\* Edges are finitely many.
LEMMA EdgesFinite ==
    ASSUME edges \subseteq Edge
    PROVE  IsFiniteSet(edges) /\ Cardinality(edges) \in Nat
  BY EdgeFinite, FS_Subset, FS_CardinalityType

\* The plugins declared so far are within the limit.
LEMMA KnownBounded ==
    ASSUME spec \in Specs, InputFault = "None", NEW k \in 0..Len(spec.plugins)
    PROVE  Cardinality({spec.plugins[i].id : i \in 1..k}) <= spec.limits["plugins"]
<1>1. Len(spec.plugins) \in Nat /\ spec.limits["plugins"] \in Nat
  BY CompositionFacts DEF LimitNames
<1>2. Len(spec.plugins) <= spec.limits["plugins"]
  BY <1>1 DEF InputFault
<1> DEFINE K == {spec.plugins[i].id : i \in 1..k}
<1>3. K \subseteq Names(Descriptors)
  BY <1>1 DEF Names, Descriptors
<1>4. IsFiniteSet(Names(Descriptors)) /\ Cardinality(Names(Descriptors)) <= Len(spec.plugins)
  BY NamesCounted
<1>5. IsFiniteSet(K) /\ Cardinality(K) <= Cardinality(Names(Descriptors))
  <2> HIDE DEF K
  <2> QED  BY <1>3, <1>4, FS_Subset
<1>6. Cardinality(K) \in Nat /\ Cardinality(Names(Descriptors)) \in Nat
  BY <1>4, <1>5, FS_CardinalityType
<1> QED  BY <1>1, <1>2, <1>4, <1>5, <1>6

\* A step that returns and leaves the maps and the edges alone.
LEMMA ReturnStep ==
    ASSUME RInv, UNCHANGED <<declared, todo, unlinked, edges, at>>, phase' = "returned", AnswerInv'
    PROVE  RInv'
<1>1. PhaseInv'
  BY DEF RInv, PhaseInv, Phases, declared
<1>2. DeclaredInv' /\ BoundInv' /\ SelectInv' /\ OrderInv'
  BY DEF DeclaredInv, BoundInv, SelectInv, OrderInv
<1>3. EdgesInv'
  BY DEF RInv, EdgesInv
<1>4. WorkBounded'
  BY SameMaps DEF RInv, WorkBounded, declared
<1> QED  BY <1>1, <1>2, <1>3, <1>4 DEF RInv

\* A fault the composition has is named by an error that carries it.
LEMMA NamedFault ==
    ASSUME UNCHANGED spec, NEW tag, NEW about, IsFault(tag, about),
           outcome'.tag = tag, outcome'.about = about
    PROVE  RefusalNamesFault'
<1>1. /\ spec' = spec /\ Descriptors' = Descriptors /\ Bindings' = Bindings
      /\ outcome'.tag = tag /\ outcome'.about = about
  BY SameComposition
<1>2. ASSUME IsLimitFault(tag, about) PROVE IsLimitFault(outcome.tag, outcome.about)'
  BY <1>1, <1>2 DEF IsLimitFault
<1>3. ASSUME IsPluginFault(tag, about) PROVE IsPluginFault(outcome.tag, outcome.about)'
  BY <1>1, <1>3 DEF IsPluginFault
<1>4. ASSUME IsBindingFault(tag, about) PROVE IsBindingFault(outcome.tag, outcome.about)'
  BY <1>1, <1>4 DEF IsBindingFault, IsBoundTo, Key
<1>5. ASSUME IsProviderFault(tag, about) PROVE IsProviderFault(outcome.tag, outcome.about)'
  BY <1>1, <1>5 DEF IsProviderFault
<1>6. ASSUME IsCycleFault(tag, about) PROVE IsCycleFault(outcome.tag, outcome.about)'
  BY <1>1, <1>6 DEF IsCycleFault
<1>7. IsFault(outcome.tag, outcome.about)'
  BY <1>2, <1>3, <1>4, <1>5, <1>6 DEF IsFault
<1> QED  BY <1>7 DEF RefusalNamesFault

\* A step that refuses a composition because of a fault it has.
LEMMA RefusalStep ==
    ASSUME RInv, UNCHANGED <<declared, todo, unlinked, edges, at>>, NEW tag, NEW about,
           Return(tag, about), ~Resolvable, tag # "Ok", IsFault(tag, about)
    PROVE  RInv'
<1>1. phase' = "returned" /\ outcome'.tag = tag /\ outcome'.about = about /\ spec' = spec
  BY DEF Return, declared
<1>2. ResolvesExactly'
  BY <1>1, SameComposition DEF ResolvesExactly
<1>3. RefusalNamesFault'
  BY <1>1, NamedFault
<1> QED  BY <1>1, <1>2, <1>3, ReturnStep DEF AnswerInv

-----------------------------------------------------------------------------
(* The passes before the selection *)

\* resolve() begins with empty maps.
LEMMA InitRInv == Init => RInv
<1> SUFFICES ASSUME Init PROVE RInv
  OBVIOUS
<1>1. Known = {} /\ DOMAIN bindings = {}
  BY DEF Init, Known, Empty
<1>2. PhaseInv /\ AnswerInv
  BY DEF Init, PhaseInv, Phases, AnswerInv, ResolvesExactly, RefusalNamesFault
<1>3. DeclaredInv /\ BoundInv
  BY <1>1 DEF Init, DeclaredInv, BoundInv
<1>4. SelectInv /\ EdgesInv /\ OrderInv
  BY DEF Init, SelectInv, EdgesInv, OrderInv
<1>5. WorkBounded
  <2>1. Cardinality(Known) = 0 /\ Cardinality(edges) = 0 /\ edges = {} /\ todo = {} /\ unlinked = {}
    BY <1>1, FS_EmptySet DEF Init
  <2>2. spec.limits["plugins"] \in Nat /\ spec.limits["edges"] \in Nat
    BY CompositionFacts DEF Init, LimitNames
  <2> QED  BY <1>1, <2>1, <2>2 DEF WorkBounded
<1> QED  BY <1>2, <1>3, <1>4, <1>5 DEF RInv

\* A step to the next phase that leaves the maps and the edges alone keeps the
\* work within its bounds.
LEMMA GotoWork ==
    ASSUME RInv, UNCHANGED <<declared, unlinked, edges>>, phase # "returned",
           todo' \subseteq Known \X Links
    PROVE  WorkBounded'
  BY SameMaps DEF RInv, WorkBounded, declared

\* The checks of the schema version and the limits.
LEMMA ValidateInputStep == RInv /\ ValidateInput => RInv'
<1> SUFFICES ASSUME RInv, ValidateInput PROVE RInv'
  OBVIOUS
<1>1. /\ phase = "input" /\ spec \in Specs
      /\ UNCHANGED <<declared, linked, sortVars>>
      /\ UNCHANGED <<declared, todo, unlinked, edges>> /\ UNCHANGED <<used, order, stack, cycle, verdict>>
  BY DEF ValidateInput, linked, sortVars, RInv, PhaseInv
<1>2. CASE InputFault = "None"
  <2>1. phase' = "declare" /\ at' = 1 /\ spec' = spec /\ plugins' = plugins /\ bindings' = bindings
    BY <1>1, <1>2 DEF ValidateInput, Goto, declared
  <2>2. Known' = {} /\ InputFault' = "None" /\ DOMAIN bindings' = {}
    BY <1>1, <1>2, <2>1, SameMaps DEF RInv, DeclaredInv, BoundInv
  <2>3. Len(spec.plugins) \in Nat
    BY <1>1, CompositionFacts
  <2>4. Declared(at - 1)'
    BY <2>1, <2>2 DEF Declared
  <2>5. PhaseInv'
    BY <1>1, <2>1 DEF PhaseInv, Phases
  <2>6. DeclaredInv' /\ BoundInv'
    BY <2>1, <2>2, <2>3, <2>4 DEF DeclaredInv, BoundInv
  <2>7. SelectInv' /\ EdgesInv' /\ OrderInv' /\ AnswerInv'
    BY <1>1, <2>1 DEF SelectInv, EdgesInv, OrderInv, AnswerInv, ResolvesExactly, RefusalNamesFault, RInv
  <2>8. WorkBounded'
    BY <1>1, GotoWork DEF RInv, WorkBounded
  <2> QED  BY <2>5, <2>6, <2>7, <2>8 DEF RInv
<1>3. CASE InputFault # "None"
  <2>1. PICK about : /\ Return(InputFault, about) /\ at' = at
                     /\ InputFault = "ConfiguredLimitExceeded" => about[1] = ExceededLimit
    BY <1>3 DEF ValidateInput, Return
  <2>2. /\ Len(spec.plugins) \in Nat /\ spec.limits["plugins"] \in Nat
        /\ \A l \in LimitNames : spec.limits[l] \in Nat /\ Maxima[l] \in Nat
    BY <1>1, CompositionFacts DEF LimitNames
  <2>3. ~Resolvable
    BY <1>3, <2>2 DEF InputFault, WithinLimits, Resolvable
  <2>4. InputFault = "ConfiguredLimitExceeded" =>
          ExceededLimit \in LimitNames /\ spec.limits[ExceededLimit] > Maxima[ExceededLimit]
    BY DEF InputFault, ExceededLimit, LimitNames
  <2>5. IsLimitFault(InputFault, about)
    BY <1>3, <2>1, <2>4 DEF InputFault, IsLimitFault
  <2>6. InputFault # "Ok"
    BY DEF InputFault
  <2> HIDE DEF InputFault
  <2> QED  BY <1>1, <2>1, <2>3, <2>5, <2>6, RefusalStep DEF IsFault
<1> QED  BY <1>2, <1>3

\* A descriptor without a fault enters the map.
LEMMA DeclareAccepted ==
    ASSUME RInv, Declare, DescriptorFault(spec.plugins[at]) = "None"
    PROVE  RInv'
<1> DEFINE d == spec.plugins[at]
           n == Len(spec.plugins)
<1>1. /\ phase = "declare" /\ at <= n /\ spec \in Specs /\ at \in Nat \ {0} /\ n \in Nat
      /\ UNCHANGED <<todo, unlinked, edges, used, order, stack, cycle, verdict>>
      /\ spec' = spec /\ bindings' = bindings /\ phase' = "declare" /\ at' = at + 1
      /\ plugins' = Put(plugins, d.id, d)
  BY CompositionFacts DEF Declare, Advance, linked, sortVars, RInv, PhaseInv
<1>2. InputFault = "None" /\ Declared(at - 1) /\ at - 1 \in 0..n /\ DOMAIN bindings = {}
      /\ edges = {} /\ todo = {} /\ unlinked = {} /\ used = {}
  BY <1>1 DEF RInv, DeclaredInv, BoundInv, EdgesInv
<1>3. d.id \notin Known /\ DeclarationCount(d) <= spec.limits["capabilities"]
  <2>1. ~(DeclarationCount(d) > spec.limits["capabilities"]) /\ d.id \notin Known
    BY DEF DescriptorFault, Known
  <2>2. spec.limits["capabilities"] \in Nat
    BY <1>1, CompositionFacts DEF LimitNames
  <2>3. DeclarationCount(d) \in Nat
    <3>1. DOMAIN d.provides \subseteq Links /\ DOMAIN d.requires \subseteq Links
      BY <1>1, CompositionFacts DEF IsDescriptor
    <3>2. IsFiniteSet(DOMAIN d.provides) /\ IsFiniteSet(DOMAIN d.requires)
      BY <3>1, LinksAssumption, FS_Subset
    <3> QED  BY <3>2, FS_CardinalityType DEF DeclarationCount
  <2> QED  BY <2>1, <2>2, <2>3
<1>4. Known' = Known \cup {d.id} /\ plugins'[d.id] = d /\ \A p \in Known : plugins'[p] = plugins[p]
  BY <1>1, <1>3 DEF Known, Put
<1>5. 1..at = 1..(at - 1) \cup {at} /\ at \notin 1..(at - 1) /\ (at - 1) + 1 = at
  BY <1>1
<1>6. Declared(at - 1)'
  <2>1. Known' = {spec.plugins[i].id : i \in 1..at}
    BY <1>2, <1>4, <1>5 DEF Declared
  <2>2. \A i \in 1..at : plugins'[spec.plugins[i].id] = spec.plugins[i]
    BY <1>2, <1>4, <1>5 DEF Declared
  <2>3. \A i, j \in 1..at : spec.plugins[i].id = spec.plugins[j].id => i = j
    <3>1. \A i, j \in 1..(at - 1) : spec.plugins[i].id = spec.plugins[j].id => i = j
      BY <1>2 DEF Declared
    <3>2. \A i \in 1..(at - 1) : spec.plugins[i].id # d.id
      BY <1>2, <1>3 DEF Declared
    <3> QED  BY <1>5, <3>1, <3>2
  <2>4. \A i \in 1..at : DeclarationCount(spec.plugins[i]) <= spec.limits["capabilities"]
    BY <1>2, <1>3, <1>5 DEF Declared
  <2>5. at' - 1 = at
    BY <1>1
  <2> QED  BY <1>1, <2>1, <2>2, <2>3, <2>4, <2>5 DEF Declared
<1>7. PhaseInv'
  BY <1>1 DEF PhaseInv, Phases
<1>8. DeclaredInv' /\ BoundInv'
  <2>1. InputFault' = "None"
    BY <1>1, <1>2 DEF InputFault
  <2>2. (at - 1 \in 0..Len(spec.plugins))'
    BY <1>1
  <2> QED  BY <1>1, <1>2, <1>6, <2>1, <2>2 DEF DeclaredInv, BoundInv
<1>9. SelectInv' /\ EdgesInv' /\ OrderInv' /\ AnswerInv'
  BY <1>1, <1>2 DEF SelectInv, EdgesInv, OrderInv, AnswerInv, ResolvesExactly, RefusalNamesFault, RInv
<1>10. WorkBounded'
  <2>1. Known' = {spec.plugins[i].id : i \in 1..at}
    BY <1>2, <1>4, <1>5 DEF Declared
  <2>2. Cardinality({spec.plugins[i].id : i \in 1..at}) <= spec.limits["plugins"]
    BY <1>1, <1>2, KnownBounded, at \in 0..n
  <2>3. Cardinality(edges) <= spec.limits["edges"] + 1 /\ Cardinality(edges) <= spec.limits["edges"]
    BY <1>1 DEF RInv, WorkBounded
  <2> QED  BY <1>1, <1>2, <2>1, <2>2, <2>3 DEF WorkBounded
<1> QED  BY <1>7, <1>8, <1>9, <1>10 DEF RInv

\* A descriptor that is too large or repeats an identity is refused by name.
LEMMA DeclareRefused ==
    ASSUME RInv, Declare, DescriptorFault(spec.plugins[at]) # "None"
    PROVE  RInv'
<1> DEFINE d == spec.plugins[at]
           n == Len(spec.plugins)
<1>1. /\ phase = "declare" /\ at <= n /\ spec \in Specs /\ at \in Nat \ {0} /\ n \in Nat
      /\ UNCHANGED <<declared, todo, unlinked, edges, at>> /\ Return(DescriptorFault(d), <<d.id>>)
  BY CompositionFacts DEF Declare, Return, linked, sortVars, declared, RInv, PhaseInv
<1>2. Declared(at - 1) /\ at - 1 \in 0..n
  BY <1>1 DEF RInv, DeclaredInv
<1>3. d \in Descriptors /\ at \in 1..n
  BY <1>1 DEF Descriptors
<1>4. <<d.id>>[1] = d.id
  OBVIOUS
<1>5. CASE DeclarationCount(d) > spec.limits["capabilities"]
  <2>1. DescriptorFault(d) = "CapabilityLimitExceeded"
    BY <1>5 DEF DescriptorFault
  <2>2. ~WithinLimits
    <3>1. spec.limits["capabilities"] \in Nat /\ DeclarationCount(d) \in Nat
      <4>1. DOMAIN d.provides \subseteq Links /\ DOMAIN d.requires \subseteq Links
        BY <1>1, <1>3, CompositionFacts DEF IsDescriptor
      <4>2. IsFiniteSet(DOMAIN d.provides) /\ IsFiniteSet(DOMAIN d.requires)
        BY <4>1, LinksAssumption, FS_Subset
      <4>3. DeclarationCount(d) \in Nat
        BY <4>2, FS_CardinalityType DEF DeclarationCount
      <4> QED  BY <1>1, <4>3, CompositionFacts DEF LimitNames
    <3>2. ~(DeclarationCount(d) <= spec.limits["capabilities"])
      BY <1>5, <3>1
    <3> QED  BY <1>3, <3>2 DEF WithinLimits
  <2>3. IsLimitFault("CapabilityLimitExceeded", <<d.id>>)
    <3> HIDE DEF d
    <3> QED  BY <1>3, <1>4, <1>5 DEF IsLimitFault
  <2> QED  BY <1>1, <2>1, <2>2, <2>3, RefusalStep DEF Resolvable, IsFault
<1>6. CASE ~(DeclarationCount(d) > spec.limits["capabilities"])
  <2>1. DescriptorFault(d) = "DuplicatePlugin" /\ d.id \in Known
    BY <1>6 DEF DescriptorFault, Known
  <2>2. PICK i \in 1..(at - 1) : spec.plugins[i].id = d.id
    BY <1>2, <2>1 DEF Declared
  <2>3. i \in 1..n /\ i # at
    BY <1>1, <2>2
  <2>4. ~NoRepetition
    BY <1>1, <1>3, <2>2, <2>3, NamesCounted DEF NoRepetition
  <2>5. IsPluginFault("DuplicatePlugin", <<d.id>>)
    BY <1>3, <1>4, <2>2, <2>3 DEF IsPluginFault
  <2> QED  BY <1>1, <2>1, <2>4, <2>5, RefusalStep DEF Resolvable, IsFault
<1> QED  BY <1>5, <1>6

\* A step from one validation pass to the next, before any edge is made.
LEMMA PassStep ==
    ASSUME RInv, phase \in {"declare", "conflicts", "self"}, UNCHANGED <<declared, linked, sortVars>>,
           phase' \in {"conflicts", "self", "bindings"}, at' = 1, Declared(Len(spec.plugins)),
           phase' # "conflicts" => Conflicts = {}, phase' = "bindings" => SelfDependencies = {}
    PROVE  RInv'
<1>1. /\ UNCHANGED <<declared, todo, unlinked, edges>> /\ UNCHANGED <<used, order, stack, cycle, verdict>>
      /\ spec' = spec /\ bindings' = bindings
  BY DEF linked, sortVars, declared
<1>2. /\ spec \in Specs /\ InputFault = "None" /\ DOMAIN bindings = {}
      /\ edges = {} /\ todo = {} /\ unlinked = {} /\ used = {}
  BY DEF RInv, PhaseInv, DeclaredInv, BoundInv, EdgesInv
<1>3. PhaseInv'
  BY <1>1, <1>2 DEF PhaseInv, Phases
<1>4. /\ InputFault' = "None" /\ Declared(Len(spec.plugins))'
      /\ Conflicts' = Conflicts /\ SelfDependencies' = SelfDependencies
  BY <1>1, <1>2, SameMaps
<1>5. DeclaredInv'
  BY <1>4 DEF DeclaredInv
<1>6. BoundInv'
  <2>1. Len(spec.bindings) \in Nat
    BY <1>2, CompositionFacts
  <2>2. Bound(at - 1)'
    BY <1>1, <1>2 DEF Bound
  <2> QED  BY <1>1, <1>2, <2>1, <2>2 DEF BoundInv
<1>7. SelectInv' /\ EdgesInv' /\ OrderInv' /\ AnswerInv'
  BY <1>1, <1>2 DEF SelectInv, EdgesInv, OrderInv, AnswerInv, ResolvesExactly, RefusalNamesFault, RInv
<1>8. WorkBounded'
  BY <1>1, <1>2, GotoWork
<1> QED  BY <1>3, <1>5, <1>6, <1>7, <1>8 DEF RInv

\* The declaration loop ends with every descriptor in the map.
LEMMA AllDeclaredStep == RInv /\ AllDeclared => RInv'
<1> SUFFICES ASSUME RInv, AllDeclared PROVE RInv'
  OBVIOUS
<1>1. /\ phase = "declare" /\ at > Len(spec.plugins) /\ spec \in Specs /\ at \in Nat
      /\ at - 1 \in 0..Len(spec.plugins) /\ Declared(at - 1)
      /\ phase' = "conflicts" /\ at' = 1 /\ UNCHANGED <<declared, linked, sortVars>>
  BY DEF AllDeclared, Goto, RInv, PhaseInv, DeclaredInv
<1>2. at - 1 = Len(spec.plugins)
  BY <1>1, CompositionFacts
<1> QED  BY <1>1, <1>2, PassStep

\* validate_conflicts goes on when nothing conflicts, and refuses a conflict.
LEMMA ValidateConflictsStep == RInv /\ ValidateConflicts => RInv'
<1> SUFFICES ASSUME RInv, ValidateConflicts PROVE RInv'
  OBVIOUS
<1>1. /\ phase = "conflicts" /\ UNCHANGED <<declared, linked, sortVars>>
      /\ UNCHANGED <<declared, todo, unlinked, edges>> /\ spec' = spec
      /\ spec \in Specs /\ InputFault = "None" /\ Declared(Len(spec.plugins))
  BY DEF ValidateConflicts, linked, sortVars, declared, RInv, PhaseInv, DeclaredInv
<1>2. CASE Conflicts = {}
  BY <1>1, <1>2, PassStep DEF ValidateConflicts, Goto
<1>3. CASE Conflicts # {}
  <2>1. PICK pq \in Conflicts : Return("PluginConflict", IF pq[1] < pq[2] THEN pq ELSE <<pq[2], pq[1]>>)
    BY <1>3 DEF ValidateConflicts
  <2> DEFINE about == IF pq[1] < pq[2] THEN pq ELSE <<pq[2], pq[1]>>
  <2>2. at' = at /\ Return("PluginConflict", about)
    BY <2>1 DEF Return
  <2>3. /\ pq[1] \in Known /\ pq[2] \in Known /\ pq[2] \in plugins[pq[1]].conflicts
        /\ plugins[pq[1]] \in Descriptors /\ plugins[pq[1]].id = pq[1]
        /\ plugins[pq[2]] \in Descriptors /\ plugins[pq[2]].id = pq[2]
    BY <1>1, <2>1, KnownFacts DEF Conflicts
  <2>4. pq[1] \in Nat /\ pq[2] \in Nat /\ pq[1] # pq[2]
    <3>1. IsDescriptor(plugins[pq[1]]) /\ Known \subseteq Ids
      BY <1>1, <2>3, KnownFacts
    <3> QED  BY <2>3, <3>1, IdsAssumption DEF IsDescriptor
  <2>5. about[1] < about[2] /\ {about[1], about[2]} = {pq[1], pq[2]}
    BY <2>4
  <2>6. ~Resolvable
    BY <1>1, <1>3, CheckedFacts DEF Resolvable
  <2> HIDE DEF about
  <2>7. \E d, e \in Descriptors : {d.id, e.id} = {about[1], about[2]} /\ e.id \in d.conflicts
    <3>1. {plugins[pq[1]].id, plugins[pq[2]].id} = {about[1], about[2]}
      BY <2>3, <2>5
    <3>2. plugins[pq[2]].id \in plugins[pq[1]].conflicts
      BY <2>3
    <3> QED  BY <2>3, <3>1, <3>2
  <2>8. IsPluginFault("PluginConflict", about)
    BY <2>5, <2>7 DEF IsPluginFault
  <2> QED  BY <1>1, <2>2, <2>6, <2>8, RefusalStep DEF IsFault
<1> QED  BY <1>2, <1>3

\* validate_no_self_dependencies likewise.
LEMMA ValidateSelfStep == RInv /\ ValidateNoSelfDependencies => RInv'
<1> SUFFICES ASSUME RInv, ValidateNoSelfDependencies PROVE RInv'
  OBVIOUS
<1>1. /\ phase = "self" /\ UNCHANGED <<declared, linked, sortVars>>
      /\ UNCHANGED <<declared, todo, unlinked, edges>> /\ spec' = spec
      /\ spec \in Specs /\ InputFault = "None" /\ Declared(Len(spec.plugins)) /\ Conflicts = {}
  BY DEF ValidateNoSelfDependencies, linked, sortVars, declared, RInv, PhaseInv, DeclaredInv
<1>2. CASE SelfDependencies = {}
  BY <1>1, <1>2, PassStep DEF ValidateNoSelfDependencies, Goto
<1>3. CASE SelfDependencies # {}
  <2>1. PICK pc \in SelfDependencies : Return("SelfDependency", pc)
    BY <1>3 DEF ValidateNoSelfDependencies
  <2>2. ~Resolvable
    BY <1>1, <1>3, CheckedFacts DEF Resolvable
  <2>3. at' = at
    BY <2>1 DEF Return
  <2>4. /\ plugins[pc[1]] \in Descriptors /\ plugins[pc[1]].id = pc[1]
        /\ pc[2] \in DOMAIN plugins[pc[1]].provides \cap DOMAIN plugins[pc[1]].requires
    BY <1>1, <2>1, KnownFacts DEF SelfDependencies
  <2>5. IsPluginFault("SelfDependency", pc)
    BY <2>4 DEF IsPluginFault
  <2> QED  BY <1>1, <2>1, <2>2, <2>3, <2>5, RefusalStep DEF IsFault
<1> QED  BY <1>2, <1>3

\* A binding without a fault enters the map.
LEMMA BindingAccepted ==
    ASSUME RInv, ValidateBinding, BindingFault(spec.bindings[at]) = "None"
    PROVE  RInv'
<1> DEFINE b == spec.bindings[at]
           m == Len(spec.bindings)
<1>1. /\ phase = "bindings" /\ at <= m /\ spec \in Specs /\ at \in Nat \ {0} /\ m \in Nat
      /\ UNCHANGED <<todo, unlinked, edges, used, order, stack, cycle, verdict>>
      /\ spec' = spec /\ plugins' = plugins /\ phase' = "bindings" /\ at' = at + 1
      /\ bindings' = Put(bindings, Key(b), b.provider)
  BY CompositionFacts DEF ValidateBinding, Advance, linked, sortVars, RInv, PhaseInv
<1>2. /\ InputFault = "None" /\ Declared(Len(spec.plugins)) /\ Conflicts = {} /\ SelfDependencies = {}
      /\ Bound(at - 1) /\ at - 1 \in 0..m
      /\ edges = {} /\ todo = {} /\ unlinked = {} /\ used = {}
  BY <1>1 DEF RInv, DeclaredInv, BoundInv, EdgesInv
<1>3. b.consumer \in Known /\ b.provider \in Known /\ Key(b) \notin DOMAIN bindings
  BY DEF BindingFault
<1>4. /\ DOMAIN bindings' = DOMAIN bindings \cup {Key(b)} /\ bindings'[Key(b)] = b.provider
      /\ \A key \in DOMAIN bindings : bindings'[key] = bindings[key]
  BY <1>1, <1>3 DEF Put
<1>5. 1..at = 1..(at - 1) \cup {at} /\ at \notin 1..(at - 1) /\ at' - 1 = at
  BY <1>1
<1>6. Known' = Known /\ InputFault' = "None" /\ Conflicts' = {} /\ SelfDependencies' = {}
  BY <1>1, <1>2 DEF Known, InputFault, Conflicts, SelfDependencies
<1>7. Declared(Len(spec.plugins))'
  BY <1>1, <1>2, <1>6 DEF Declared
<1>8. Bound(at - 1)'
  <2>1. DOMAIN bindings' = {Key(spec.bindings[i]) : i \in 1..at}
    BY <1>2, <1>4, <1>5 DEF Bound
  <2>2. \A i \in 1..at : bindings'[Key(spec.bindings[i])] = spec.bindings[i].provider
    BY <1>2, <1>4, <1>5 DEF Bound
  <2>3. \A i, j \in 1..at : Key(spec.bindings[i]) = Key(spec.bindings[j]) => i = j
    BY <1>2, <1>3, <1>5 DEF Bound
  <2>4. \A i \in 1..at : spec.bindings[i].consumer \in Known /\ spec.bindings[i].provider \in Known
    BY <1>2, <1>3, <1>5 DEF Bound
  <2>5. spec' = spec /\ at' - 1 = at /\ Known' = Known
    BY <1>1, <1>5, <1>6
  <2>6. /\ DOMAIN bindings' = {Key(spec'.bindings[i]) : i \in 1..(at' - 1)}
        /\ \A i \in 1..(at' - 1) : bindings'[Key(spec'.bindings[i])] = spec'.bindings[i].provider
    BY <2>1, <2>2, <2>5
  <2>7. /\ \A i, j \in 1..(at' - 1) : Key(spec'.bindings[i]) = Key(spec'.bindings[j]) => i = j
        /\ \A i \in 1..(at' - 1) :
             spec'.bindings[i].consumer \in Known' /\ spec'.bindings[i].provider \in Known'
    BY <2>3, <2>4, <2>5
  <2> QED  BY <2>6, <2>7 DEF Bound, Key
<1>9. PhaseInv'
  BY <1>1 DEF PhaseInv, Phases
<1>10. DeclaredInv' /\ BoundInv'
  BY <1>1, <1>5, <1>6, <1>7, <1>8 DEF DeclaredInv, BoundInv
<1>11. SelectInv' /\ EdgesInv' /\ OrderInv' /\ AnswerInv'
  BY <1>1, <1>2 DEF SelectInv, EdgesInv, OrderInv, AnswerInv, ResolvesExactly, RefusalNamesFault, RInv
<1>12. WorkBounded'
  <2>1. \A key \in DOMAIN bindings' : key[1] \in Known /\ bindings'[key] \in Known
    <3>1. Key(b)[1] = b.consumer
      BY DEF Key
    <3>2. \A key \in DOMAIN bindings : key[1] \in Known /\ bindings[key] \in Known
      BY DEF RInv, WorkBounded
    <3> QED  BY <1>3, <1>4, <3>1, <3>2
  <2>2. /\ Cardinality(Known) <= spec.limits["plugins"]
        /\ Cardinality(edges) <= spec.limits["edges"] + 1 /\ Cardinality(edges) <= spec.limits["edges"]
    BY <1>1 DEF RInv, WorkBounded
  <2> QED  BY <1>1, <1>2, <1>6, <2>1, <2>2 DEF WorkBounded
<1> QED  BY <1>9, <1>10, <1>11, <1>12 DEF RInv

\* A binding of unknown plugins, or a second one of a requirement, is refused.
LEMMA BindingRefused ==
    ASSUME RInv, ValidateBinding, BindingFault(spec.bindings[at]) # "None"
    PROVE  RInv'
<1> DEFINE b == spec.bindings[at]
           m == Len(spec.bindings)
<1>1. /\ phase = "bindings" /\ at <= m /\ spec \in Specs /\ at \in Nat \ {0} /\ m \in Nat
      /\ UNCHANGED <<declared, todo, unlinked, edges, at>> /\ Return(BindingFault(b), BindingSubject(b))
  BY CompositionFacts DEF ValidateBinding, Return, linked, sortVars, declared, RInv, PhaseInv
<1>2. /\ InputFault = "None" /\ Declared(Len(spec.plugins)) /\ Bound(at - 1) /\ at - 1 \in 0..m
  BY <1>1 DEF RInv, DeclaredInv, BoundInv
<1>3. b \in Bindings /\ at \in 1..m
  BY <1>1 DEF Bindings
<1>4. CASE BindingFault(b) = "UnknownBindingConsumer"
  <2>1. b.consumer \notin Known /\ BindingSubject(b) = <<b.consumer>>
    <3>1. b.consumer \notin Known
      BY <1>4 DEF BindingFault
    <3>2. BindingSubject(b) = <<b.consumer>>
      BY <1>4 DEF BindingSubject
    <3> QED  BY <3>1, <3>2
  <2>2. Key(b)[1] = b.consumer
    BY DEF Key
  <2>3. Key(b) \notin Needs(Descriptors)
    BY <1>1, <1>2, <2>1, <2>2, RequiredFacts
  <2>4. ~Resolvable
    BY <1>3, <2>3 DEF Resolvable, Satisfiable, BindingsFit
  <2>5. IsBindingFault("UnknownBindingConsumer", <<b.consumer>>)
    <3>1. b.consumer \in {c.consumer : c \in Bindings} \ Names(Descriptors)
      BY <1>1, <1>2, <1>3, <2>1, KnownFacts
    <3> QED  BY <3>1 DEF IsBindingFault
  <2> HIDE DEF b
  <2> QED  BY <1>1, <1>4, <2>1, <2>4, <2>5, RefusalStep DEF IsFault
<1>5. CASE BindingFault(b) = "UnknownBindingProvider"
  <2>1. b.provider \notin Known /\ BindingSubject(b) = <<b.provider>>
    <3>1. b.provider \notin Known
      BY <1>5 DEF BindingFault
    <3>2. BindingSubject(b) = <<b.provider>>
      BY <1>5 DEF BindingSubject
    <3> QED  BY <3>1, <3>2
  <2>2. ~\E d \in Descriptors : d.id = b.provider
    BY <1>1, <1>2, <2>1, KnownFacts
  <2>3. ~Resolvable
    BY <1>3, <2>2 DEF Resolvable, Satisfiable, BindingsFit
  <2>4. IsBindingFault("UnknownBindingProvider", <<b.provider>>)
    <3>1. b.provider \in {c.provider : c \in Bindings} \ Names(Descriptors)
      BY <1>1, <1>2, <1>3, <2>1, KnownFacts
    <3> QED  BY <3>1 DEF IsBindingFault
  <2> HIDE DEF b
  <2> QED  BY <1>1, <1>5, <2>1, <2>3, <2>4, RefusalStep DEF IsFault
<1>6. CASE BindingFault(b) = "DuplicateBinding"
  <2>1. Key(b) \in DOMAIN bindings /\ BindingSubject(b) = Key(b)
    <3>1. Key(b) \in DOMAIN bindings
      BY <1>6 DEF BindingFault
    <3>2. BindingSubject(b) = Key(b)
      BY <1>6 DEF BindingSubject
    <3> QED  BY <3>1, <3>2
  <2>2. PICK i \in 1..(at - 1) : Key(spec.bindings[i]) = Key(b)
    BY <1>2, <2>1 DEF Bound
  <2>3. i \in 1..m /\ i # at
    BY <1>1, <2>2
  <2>4. ~Resolvable
    BY <1>1, <1>3, <2>2, <2>3, KeysCounted DEF NoRepetition, Resolvable
  <2>5. IsBindingFault("DuplicateBinding", Key(b))
    BY <1>3, <2>2, <2>3 DEF IsBindingFault
  <2> HIDE DEF b
  <2> QED  BY <1>1, <1>6, <2>1, <2>4, <2>5, RefusalStep DEF IsFault
<1> QED  BY <1>4, <1>5, <1>6 DEF BindingFault

\* The selection begins with every requirement.
LEMMA AllBoundStep == RInv /\ AllBound => RInv'
<1> SUFFICES ASSUME RInv, AllBound PROVE RInv'
  OBVIOUS
<1>1. /\ phase = "bindings" /\ at > Len(spec.bindings) /\ spec \in Specs /\ at \in Nat
      /\ at - 1 \in 0..Len(spec.bindings) /\ Bound(at - 1)
      /\ phase' = "select" /\ at' = 1 /\ todo' = Required
      /\ UNCHANGED <<declared, unlinked, edges>> /\ UNCHANGED <<used, order, stack, cycle, verdict>>
      /\ spec' = spec /\ bindings' = bindings
  BY DEF AllBound, Goto, RInv, PhaseInv, BoundInv, sortVars, declared
<1>2. /\ InputFault = "None" /\ Declared(Len(spec.plugins)) /\ Conflicts = {} /\ SelfDependencies = {}
      /\ edges = {} /\ unlinked = {} /\ used = {}
  BY <1>1 DEF RInv, DeclaredInv, EdgesInv
<1>3. at - 1 = Len(spec.bindings)
  BY <1>1, CompositionFacts
<1>4. /\ Known' = Known /\ InputFault' = "None" /\ Declared(Len(spec.plugins))'
      /\ Conflicts' = {} /\ SelfDependencies' = {} /\ Bound(Len(spec.bindings))' /\ Required' = Required
  BY <1>1, <1>2, <1>3, SameMaps
<1>5. PhaseInv' /\ DeclaredInv' /\ BoundInv'
  BY <1>1, <1>4 DEF PhaseInv, Phases, DeclaredInv, BoundInv
<1>6. SelectInv'
  <2>1. Cardinality(edges') <= spec'.limits["edges"]
    BY <1>1 DEF RInv, WorkBounded
  <2>2. \A key, p : ~HasEdge(key, p)'
    BY <1>1, <1>4 DEF HasEdge
  <2> QED  BY <1>1, <1>2, <1>4, <2>1, <2>2 DEF SelectInv
<1>7. EdgesInv' /\ OrderInv' /\ AnswerInv'
  BY <1>1, <1>2 DEF EdgesInv, OrderInv, AnswerInv, ResolvesExactly, RefusalNamesFault, RInv
<1>8. WorkBounded'
  BY <1>1, GotoWork DEF Required
<1> QED  BY <1>5, <1>6, <1>7, <1>8 DEF RInv

-----------------------------------------------------------------------------
(* The selection of providers *)

\* A set of keys has one first key.
LEMMA OneFirst ==
    ASSUME NEW S, S \subseteq Ids \X Links, NEW a, NEW b, IsFirst(a, S), IsFirst(b, S)
    PROVE  a = b
<1>1. a \in Ids \X Links /\ b \in Ids \X Links
  BY DEF IsFirst
<1>2. a[1] \in Nat /\ a[2] \in Nat /\ b[1] \in Nat /\ b[2] \in Nat
  BY <1>1, IdsAssumption, LinksAssumption
<1> QED  BY <1>2 DEF IsFirst, Before

\* What holds while providers are selected and linked.
LEMMA SelectFacts ==
    ASSUME RInv, phase \in {"select", "link", "sort"}
    PROVE  /\ spec \in Specs /\ InputFault = "None"
           /\ Declared(Len(spec.plugins)) /\ Bound(Len(spec.bindings))
           /\ Conflicts = {} /\ SelfDependencies = {}
           /\ todo \subseteq Required /\ todo \subseteq Ids \X Links /\ edges \subseteq Edge
<1>1. /\ spec \in Specs /\ InputFault = "None"
      /\ Declared(Len(spec.plugins)) /\ Bound(Len(spec.bindings))
      /\ Conflicts = {} /\ SelfDependencies = {} /\ todo \subseteq Required /\ edges \subseteq Edge
  BY DEF RInv, PhaseInv, DeclaredInv, BoundInv, SelectInv, EdgesInv
<1>2. Required \subseteq Ids \X Links
  BY <1>1, KnownFacts DEF Required
<1> QED  BY <1>1, <1>2

\* The maps and the order in a step that stays between selection and sorting.
LEMMA SelectStep ==
    ASSUME RInv, phase \in {"select", "link"}, phase' \in {"select", "link"}, at' \in Nat \ {0},
           UNCHANGED declared, UNCHANGED <<order, stack, cycle, verdict>>,
           SelectInv', edges' \subseteq Edge, WorkBounded'
    PROVE  RInv'
<1>1. /\ InputFault' = "None" /\ Declared(Len(spec.plugins))' /\ Bound(Len(spec.bindings))'
      /\ Conflicts' = {} /\ SelfDependencies' = {} /\ spec' = spec /\ spec \in Specs
  BY SelectFacts, SameMaps DEF declared
<1>2. PhaseInv' /\ DeclaredInv' /\ BoundInv' /\ EdgesInv'
  BY <1>1 DEF PhaseInv, Phases, DeclaredInv, BoundInv, EdgesInv
<1>3. OrderInv' /\ AnswerInv'
  BY DEF OrderInv, AnswerInv, ResolvesExactly, RefusalNamesFault, RInv
<1> QED  BY <1>2, <1>3 DEF RInv

\* The first requirement has no fault: its providers are to be linked.
LEMMA SelectAccepted ==
    ASSUME RInv, phase = "select", NEW key \in todo, IsFirst(key, todo), SelectionFault(key) = "None",
           Goto("link"), unlinked' = Selection(key), used' = used \cup ({key} \cap DOMAIN bindings),
           UNCHANGED <<declared, todo, requirements, diagnostics, sortVars>>
    PROVE  RInv'
<1>1. /\ phase' = "link" /\ at' = 1 /\ UNCHANGED declared /\ UNCHANGED <<todo, edges>>
      /\ UNCHANGED <<order, stack, cycle, verdict>> /\ spec' = spec /\ bindings' = bindings
  BY DEF Goto, sortVars, declared
<1>2. Known' = Known /\ Required' = Required /\ \A k : SelectionFault(k)' = SelectionFault(k) /\ Selection(k)' = Selection(k)
  BY <1>1, SameMaps, SameSelection
<1>3. \A k : IsFirst(k, todo) <=> k = key
  BY SelectFacts, OneFirst
<1>4. key \in Required
  BY SelectFacts
<1>5. \A k, p : HasEdge(k, p)' <=> HasEdge(k, p)
  BY <1>1, <1>2, <1>3 DEF HasEdge
<1>6. \A k \in DOMAIN bindings : k \in used' <=>
        k \in Required /\ (k \notin todo \/ IsFirst(k, todo))
  <2>1. \A k \in DOMAIN bindings : k \in used <=> k \in Required /\ k \notin todo
    BY DEF RInv, SelectInv
  <2> QED  BY <1>3, <1>4, <2>1
<1>7. SelectInv'
  <2>1. \A e \in Edge : e \in edges <=> HasEdge(<<e.consumer, e.capability>>, e.provider)
    BY DEF RInv, SelectInv
  <2>2. \A e \in Edge : e \in edges' <=> HasEdge(<<e.consumer, e.capability>>, e.provider)'
    BY <1>1, <1>5, <2>1
  <2>3. /\ todo' \subseteq Required' /\ \A k \in Required' \ todo' : SelectionFault(k)' = "None"
        /\ todo' # {} /\ Cardinality(edges') <= spec'.limits["edges"]
    BY <1>1, <1>2 DEF RInv, SelectInv
  <2>4. \A k \in todo' : IsFirst(k, todo') => SelectionFault(k)' = "None" /\ unlinked' \subseteq Selection(k)'
    BY <1>1, <1>2, <1>3
  <2>5. \A k \in DOMAIN bindings' : k \in used' <=> k \in Required' /\ (k \notin todo' \/ IsFirst(k, todo'))
    BY <1>1, <1>2, <1>6
  <2> QED  BY <1>1, <2>2, <2>3, <2>4, <2>5 DEF SelectInv
<1>8. WorkBounded'
  <2>1. Selection(key) \subseteq Known
    BY <1>4, SelectFacts, SelectionIsChosen
  <2> QED  BY <1>1, <1>2, <2>1 DEF RInv, WorkBounded
<1>9. edges' \subseteq Edge
  BY <1>1, SelectFacts
<1> QED  BY <1>1, <1>7, <1>8, <1>9, SelectStep

\* What is wrong with a bound requirement is wrong with its binding.
LEMMA BoundRefusal ==
    ASSUME spec \in Specs, Declared(Len(spec.plugins)), Bound(Len(spec.bindings)),
           NEW key \in Required, key \in DOMAIN bindings, SelectionFault(key) # "None"
    PROVE  SelectionFault(key) # "Ok" /\ IsBindingFault(SelectionFault(key), SelectionSubject(key))
<1>1. PICK b \in Bindings : Key(b) = key
  BY BoundFacts
<1>2. /\ key[1] = b.consumer /\ key[2] = b.capability /\ bindings[key] = b.provider
      /\ b.provider \in Known
  BY <1>1, BoundFacts DEF Key
<1> DEFINE d == plugins[b.provider]
           need == RequirementOf(key)
<1>3. d \in Descriptors /\ d.id = b.provider
  BY <1>2, KnownFacts
<1>4. /\ key \in Needs(Descriptors) /\ key \in {Key(c) : c \in Bindings}
      /\ Need(Descriptors, key) = need /\ need.cardinality \in Cardinalities
  BY <1>1, RequiredFacts DEF Requirement
<1>5. SelectionFault(key) = BoundFault(key)
  BY DEF SelectionFault
<1>6. CASE ~IsBindable(need.cardinality)
  <2>1. SelectionFault(key) = "BindingForMultiple" /\ SelectionSubject(key) = key
    BY <1>5, <1>6 DEF BoundFault, SelectionSubject
  <2>2. Need(Descriptors, key).cardinality \in {"OneOrMore", "ZeroOrMore"}
    BY <1>4, <1>6 DEF IsBindable, Cardinalities
  <2>3. IsBindingFault("BindingForMultiple", key)
    BY <1>4, <2>2 DEF IsBindingFault
  <2> QED  BY <2>1, <2>3
<1>7. CASE IsBindable(need.cardinality) /\ ~Offers(b.provider, key[2])
  <2>1. SelectionFault(key) = "BoundProviderDoesNotOffer"
    BY <1>2, <1>5, <1>7 DEF BoundFault
  <2>2. SelectionSubject(key) = <<b.consumer, b.capability, b.provider>>
    BY <1>2, <2>1 DEF SelectionSubject
  <2>3. IsBoundTo(b, d, <<b.consumer, b.capability, b.provider>>)
    BY <1>1, <1>3, <1>4 DEF IsBoundTo
  <2>4. b.capability \notin DOMAIN d.provides
    BY <1>2, <1>7 DEF Offers
  <2>5. IsBindingFault("BoundProviderDoesNotOffer", <<b.consumer, b.capability, b.provider>>)
    <3> HIDE DEF d
    <3> QED  BY <1>3, <2>3, <2>4 DEF IsBindingFault
  <2> QED  BY <2>1, <2>2, <2>5
<1>8. CASE IsBindable(need.cardinality) /\ Offers(b.provider, key[2])
  <2>1. SelectionFault(key) = "IncompatibleBinding" /\ ~Matches(b.provider, key)
    BY <1>2, <1>5, <1>8 DEF BoundFault
  <2>2. SelectionSubject(key) = <<b.consumer, b.capability, b.provider>>
    BY <1>2, <2>1 DEF SelectionSubject
  <2>3. IsBoundTo(b, d, <<b.consumer, b.capability, b.provider>>)
    BY <1>1, <1>3, <1>4 DEF IsBoundTo
  <2>4. /\ b.capability \in DOMAIN d.provides
        /\ d.provides[b.capability] \notin Need(Descriptors, Key(b)).accepts
    BY <1>1, <1>2, <1>4, <1>8, <2>1 DEF Offers, Matches
  <2>5. IsBindingFault("IncompatibleBinding", <<b.consumer, b.capability, b.provider>>)
    <3> HIDE DEF d
    <3> QED  BY <1>3, <2>3, <2>4 DEF IsBindingFault
  <2> QED  BY <2>1, <2>2, <2>5
<1> QED  BY <1>6, <1>7, <1>8

\* What is wrong with any other requirement is wrong with its providers.
LEMMA UnboundRefusal ==
    ASSUME spec \in Specs, Declared(Len(spec.plugins)), Bound(Len(spec.bindings)),
           NEW key \in Required, key \notin DOMAIN bindings, SelectionFault(key) # "None"
    PROVE  SelectionFault(key) # "Ok" /\ IsProviderFault(SelectionFault(key), SelectionSubject(key))
<1> DEFINE about == SelectionSubject(key)
           fault == SelectionFault(key)
           offering == {d.id : d \in {e \in Descriptors : key[2] \in DOMAIN e.provides}}
<1>1. Chosen(Descriptors, Bindings, key) = Compatible(key)
  BY SelectionIsChosen
<1>2. Candidates(key) = offering
  <2>1. \A d \in Descriptors : d.id \in Known /\ plugins[d.id] = d
    BY KnownFacts
  <2>2. \A p \in Known : plugins[p] \in Descriptors /\ plugins[p].id = p
    BY KnownFacts
  <2> QED  BY <2>1, <2>2 DEF Candidates, Offers
<1>3. Cardinality(Compatible(key)) \in Nat /\ (Cardinality(Compatible(key)) = 0 <=> Compatible(key) = {})
  BY UnboundFits
<1>4. fault = UnboundFault(key)
  BY DEF SelectionFault
<1>5. \/ fault = "MissingProvider" /\ Compatible(key) = {} /\ Candidates(key) = {}
      \/ fault = "IncompatibleProvider" /\ Compatible(key) = {} /\ Candidates(key) # {}
      \/ fault = "AmbiguousProvider" /\ Cardinality(Compatible(key)) > 1
  BY <1>4 DEF UnboundFault
<1>6. key \in Needs(Descriptors) /\ key = <<key[1], key[2]>>
  BY RequiredFacts
<1>7. Cardinality(Chosen(Descriptors, Bindings, key)) \notin Permitted(Need(Descriptors, key).cardinality)
  BY UnboundFits
<1>8. /\ <<about[1], about[2]>> = key /\ about[2] = key[2]
      /\ fault = "IncompatibleProvider" => about[3] = Candidates(key)
      /\ fault = "AmbiguousProvider" => about[3] = Compatible(key)
  BY <1>5, <1>6 DEF SelectionSubject
<1>9. fault = "AmbiguousProvider" => Compatible(key) # {}
  BY <1>3, <1>5
<1> HIDE DEF about, fault
<1>10. {d.id : d \in {e \in Descriptors : about[2] \in DOMAIN e.provides}} = offering
  BY <1>8
<1> HIDE DEF offering
<1>11. fault # "Ok" /\ IsProviderFault(fault, about)
  BY <1>1, <1>2, <1>5, <1>6, <1>7, <1>8, <1>9, <1>10 DEF IsProviderFault
<1> QED  BY <1>11 DEF about, fault

\* The first requirement has a fault, which the refusal names.
LEMMA SelectRefused ==
    ASSUME RInv, phase = "select", NEW key \in todo, SelectionFault(key) # "None",
           Return(SelectionFault(key), SelectionSubject(key)), UNCHANGED <<declared, todo, unlinked, edges>>
    PROVE  RInv'
<1>1. /\ spec \in Specs /\ Declared(Len(spec.plugins)) /\ Bound(Len(spec.bindings)) /\ key \in Required
  BY SelectFacts
<1>2. at' = at
  BY DEF Return
<1>3. ~Resolvable
  BY <1>1, SatisfiableFacts DEF Resolvable
<1>4. SelectionFault(key) # "Ok" /\ IsFault(SelectionFault(key), SelectionSubject(key))
  BY <1>1, BoundRefusal, UnboundRefusal DEF IsFault
<1> QED  BY <1>2, <1>3, <1>4, RefusalStep

\* One iteration of the loop over requirements.
LEMMA SelectProvidersStep == RInv /\ SelectProviders => RInv'
<1> SUFFICES ASSUME RInv, SelectProviders PROVE RInv'
  OBVIOUS
<1>1. PICK key \in todo :
        /\ IsFirst(key, todo)
        /\ IF SelectionFault(key) = "None"
           THEN /\ Goto("link") /\ unlinked' = Selection(key)
                /\ used' = used \cup ({key} \cap DOMAIN bindings)
           ELSE Return(SelectionFault(key), SelectionSubject(key)) /\ UNCHANGED <<unlinked, used>>
  BY DEF SelectProviders
<1>2. /\ phase = "select" /\ UNCHANGED <<declared, todo, requirements, diagnostics, sortVars>>
      /\ UNCHANGED <<declared, todo, edges>>
  BY DEF SelectProviders, sortVars
<1>3. CASE SelectionFault(key) = "None"
  BY <1>1, <1>2, <1>3, SelectAccepted
<1>4. CASE SelectionFault(key) # "None"
  BY <1>1, <1>2, <1>4, SelectRefused
<1> QED  BY <1>3, <1>4

\* A binding that no requirement used is refused.
LEMMA UnusedBindingStep == RInv /\ UnusedBinding => RInv'
<1> SUFFICES ASSUME RInv, UnusedBinding PROVE RInv'
  OBVIOUS
<1>1. PICK key \in Unused : Return("UnusedBinding", key)
  BY DEF UnusedBinding
<1>2. phase = "select" /\ todo = {} /\ UNCHANGED <<declared, todo, unlinked, edges>> /\ at' = at
  BY <1>1 DEF UnusedBinding, Return, linked, sortVars, declared
<1>3. /\ spec \in Specs /\ Declared(Len(spec.plugins)) /\ Bound(Len(spec.bindings))
  BY <1>2, SelectFacts
<1>4. key \in DOMAIN bindings /\ key \notin Required
  BY <1>1, <1>2 DEF Unused, RInv, SelectInv
<1>5. ~Resolvable
  BY <1>3, <1>4, SatisfiableFacts DEF Resolvable
<1>6. key \in {Key(b) : b \in Bindings} /\ key \notin Needs(Descriptors)
  BY <1>3, <1>4, BoundFacts, RequiredFacts
<1>7. IsBindingFault("UnusedBinding", key)
  BY <1>6 DEF IsBindingFault
<1> QED  BY <1>1, <1>2, <1>5, <1>7, RefusalStep DEF IsFault

\* The edge that a selected provider gets.
EdgeOf(key, p) == [provider |-> p, consumer |-> key[1], capability |-> key[2]]

\* It runs between different plugins of the composition and is expected.
LEMMA NewEdgeFacts ==
    ASSUME RInv, phase = "link", NEW key \in todo, IsFirst(key, todo), NEW p \in unlinked
    PROVE  /\ key \in Required /\ p \in Selection(key) /\ p \in Known /\ key[1] \in Known /\ p # key[1]
           /\ EdgeOf(key, p) \in Edge /\ EdgeOf(key, p).provider = p
           /\ EdgeOf(key, p).consumer = key[1] /\ EdgeOf(key, p).capability = key[2]
           /\ <<key[1], key[2]>> = key
<1>1. /\ spec \in Specs /\ Declared(Len(spec.plugins)) /\ Bound(Len(spec.bindings))
      /\ SelfDependencies = {} /\ key \in Required
  BY SelectFacts
<1>2. SelectionFault(key) = "None" /\ p \in Selection(key)
  BY DEF RInv, SelectInv
<1>3. p \in Known /\ key[1] \in Known /\ key[2] \in Links /\ <<key[1], key[2]>> = key
  BY <1>1, <1>2, SelectionIsChosen, RequiredFacts
<1>4. Offers(p, key[2])
  <2>1. CASE key \in DOMAIN bindings
    <3>1. p = bindings[key] /\ BoundFault(key) = "None"
      BY <1>2, <2>1 DEF Selection, SelectionFault
    <3> QED  BY <3>1 DEF BoundFault
  <2>2. CASE key \notin DOMAIN bindings
    BY <1>2, <2>2 DEF Selection, Compatible, Candidates
  <2> QED  BY <2>1, <2>2
<1>5. p # key[1]
  <2>1. key[2] \in DOMAIN plugins[key[1]].requires
    BY <1>1 DEF Required
  <2>2. <<key[1], key[2]>> \notin SelfDependencies
    BY <1>1
  <2> QED  BY <1>3, <1>4, <2>1, <2>2 DEF SelfDependencies, Offers
<1>6. p \in Ids /\ key[1] \in Ids
  BY <1>1, <1>3, KnownFacts
<1> QED  BY <1>1, <1>2, <1>3, <1>5, <1>6 DEF EdgeOf, Edge

\* One iteration of the loop over the selected providers.
LEMMA LinkStep == RInv /\ Link => RInv'
<1> SUFFICES ASSUME RInv, Link PROVE RInv'
  OBVIOUS
<1>1. PICK key \in todo, p \in unlinked :
        /\ IsFirst(key, todo)
        /\ edges' = edges \cup {EdgeOf(key, p)}
        /\ IF TooManyEdges(Cardinality(edges'))
           THEN Return("EdgeLimitExceeded", <<Cardinality(edges')>>) /\ UNCHANGED unlinked
           ELSE unlinked' = unlinked \ {p} /\ UNCHANGED <<phase, at, outcome>>
  BY DEF Link, EdgeOf
<1>2. /\ phase = "link" /\ UNCHANGED declared /\ UNCHANGED <<todo, used>>
      /\ UNCHANGED <<order, stack, cycle, verdict>> /\ spec' = spec /\ bindings' = bindings
  BY DEF Link, declared
<1>3. /\ key \in Required /\ p \in Selection(key) /\ p \in Known /\ key[1] \in Known /\ p # key[1]
      /\ EdgeOf(key, p) \in Edge /\ EdgeOf(key, p).provider = p
      /\ EdgeOf(key, p).consumer = key[1] /\ EdgeOf(key, p).capability = key[2]
      /\ <<key[1], key[2]>> = key
  BY <1>1, <1>2, NewEdgeFacts
<1>4. /\ spec \in Specs /\ InputFault = "None" /\ Declared(Len(spec.plugins)) /\ Bound(Len(spec.bindings))
      /\ edges \subseteq Edge /\ Conflicts = {} /\ SelfDependencies = {}
  BY <1>2, SelectFacts
<1>5. edges' \subseteq Edge
  BY <1>1, <1>3, <1>4
<1>6. spec.limits["edges"] \in Nat
  BY <1>4, CompositionFacts DEF LimitNames
<1>7. /\ IsFiniteSet(edges') /\ Cardinality(edges') \in Nat
      /\ Cardinality(edges') <= spec.limits["edges"] + 1
  <2>1. IsFiniteSet(edges) /\ Cardinality(edges) \in Nat /\ Cardinality(edges) <= spec.limits["edges"]
    BY <1>2, <1>4, EdgesFinite DEF RInv, SelectInv
  <2>2. /\ IsFiniteSet(edges')
        /\ Cardinality(edges') = IF EdgeOf(key, p) \in edges THEN Cardinality(edges) ELSE Cardinality(edges) + 1
    BY <1>1, <2>1, FS_AddElement
  <2> QED  BY <1>6, <2>1, <2>2
<1>8. \A e \in Edge : e \in edges <=> HasEdge(<<e.consumer, e.capability>>, e.provider)
  BY <1>2 DEF RInv, SelectInv
<1>9. Known' = Known /\ Required' = Required
  BY <1>2, SameMaps
<1>10. /\ Cardinality(Known') <= spec'.limits["plugins"]
       /\ \A k \in DOMAIN bindings' : k[1] \in Known' /\ bindings'[k] \in Known'
       /\ todo' \subseteq Known' \X Links
       /\ \A e \in edges' : {e.provider, e.consumer} \subseteq Known' /\ e.provider # e.consumer
  <2>1. /\ Cardinality(Known) <= spec.limits["plugins"]
        /\ \A k \in DOMAIN bindings : k[1] \in Known /\ bindings[k] \in Known
        /\ todo \subseteq Known \X Links
        /\ \A e \in edges : {e.provider, e.consumer} \subseteq Known /\ e.provider # e.consumer
    BY DEF RInv, WorkBounded
  <2>2. \A e \in edges' : {e.provider, e.consumer} \subseteq Known' /\ e.provider # e.consumer
    BY <1>1, <1>3, <1>9, <2>1
  <2> QED  BY <1>2, <1>9, <2>1, <2>2
<1>11. unlinked' \subseteq Known'
  BY <1>1, <1>9 DEF RInv, WorkBounded
<1>12. CASE TooManyEdges(Cardinality(edges'))
  <2>1. /\ phase' = "returned" /\ at' = at
        /\ outcome'.tag = "EdgeLimitExceeded" /\ outcome'.about = <<Cardinality(edges')>>
    BY <1>1, <1>12 DEF Return
  <2>2. edges' \subseteq ExpectedEdges(Descriptors, Bindings)
    <3> SUFFICES ASSUME NEW e \in edges' PROVE e \in ExpectedEdges(Descriptors, Bindings)
      OBVIOUS
    <3>1. <<e.consumer, e.capability>> \in Required /\ e.provider \in Selection(<<e.consumer, e.capability>>)
      BY <1>1, <1>3, <1>4, <1>8 DEF HasEdge
    <3> QED  BY <1>4, <1>5, <3>1, ExpectedEdgeFacts
  <2>3. /\ ~(Cardinality(ExpectedEdges(Descriptors, Bindings)) <= spec.limits["edges"])
        /\ Cardinality(edges') <= Cardinality(ExpectedEdges(Descriptors, Bindings))
        /\ Cardinality(edges') = spec.limits["edges"] + 1
    <3> DEFINE E == ExpectedEdges(Descriptors, Bindings)
    <3>1. IsFiniteSet(E) /\ Cardinality(E) \in Nat
      BY <1>4, ExpectedEdgeFacts, EdgeFinite, FS_Subset, FS_CardinalityType
    <3>2. Cardinality(edges') <= Cardinality(E)
      <4> HIDE DEF E
      <4> QED  BY <2>2, <3>1, FS_Subset DEF E
    <3>3. Cardinality(edges') > spec.limits["edges"]
      BY <1>12 DEF TooManyEdges
    <3> HIDE DEF E
    <3> QED  BY <1>6, <1>7, <3>1, <3>2, <3>3 DEF E
  <2>4. ResolvesExactly' /\ RefusalNamesFault'
    <3>1. ~Resolvable'
      BY <1>2, <2>3, SameComposition DEF Resolvable
    <3>2. IsLimitFault("EdgeLimitExceeded", <<Cardinality(edges')>>)
      BY <2>3 DEF IsLimitFault
    <3>3. RefusalNamesFault'
      BY <1>2, <2>1, <3>2, NamedFault DEF IsFault
    <3> QED  BY <2>1, <3>1, <3>3 DEF ResolvesExactly
  <2>5. WorkBounded'
    BY <1>2, <1>7, <1>10, <1>11, <2>1 DEF WorkBounded
  <2>6. PhaseInv' /\ EdgesInv'
    BY <1>2, <1>4, <1>5, <2>1 DEF PhaseInv, Phases, EdgesInv, RInv
  <2>7. DeclaredInv' /\ BoundInv' /\ SelectInv' /\ OrderInv'
    BY <2>1 DEF DeclaredInv, BoundInv, SelectInv, OrderInv
  <2> QED  BY <2>4, <2>5, <2>6, <2>7 DEF RInv, AnswerInv
<1>13. CASE ~TooManyEdges(Cardinality(edges'))
  <2>1. phase' = "link" /\ at' = at /\ at \in Nat \ {0} /\ unlinked' = unlinked \ {p}
    BY <1>1, <1>2, <1>13 DEF RInv, PhaseInv
  <2>2. Cardinality(edges') <= spec'.limits["edges"]
    BY <1>2, <1>6, <1>7, <1>13 DEF TooManyEdges
  <2>3. WorkBounded'
    BY <1>2, <1>7, <1>10, <1>11, <2>2 DEF WorkBounded
  <2>4. \A k : SelectionFault(k)' = SelectionFault(k) /\ Selection(k)' = Selection(k)
    BY <1>2, SameSelection
  <2>5. \A k : IsFirst(k, todo) <=> k = key
    BY <1>1, <1>2, SelectFacts, OneFirst
  <2>6. ASSUME NEW e \in Edge
        PROVE  e \in edges' <=> HasEdge(<<e.consumer, e.capability>>, e.provider)'
    <3> DEFINE k == <<e.consumer, e.capability>>
               q == e.provider
    <3>1. e = EdgeOf(key, p) <=> k = key /\ q = p
      <4>1. e = [provider |-> e.provider, consumer |-> e.consumer, capability |-> e.capability]
        BY DEF Edge
      <4>2. k = key /\ q = p => e = EdgeOf(key, p)
        BY <4>1 DEF EdgeOf
      <4> QED  BY <1>3, <4>2
    <3>2. HasEdge(k, q)' <=>
            k \in Required /\ q \in Selection(k) /\ (k \notin todo \/ (k = key /\ q \notin unlinked \ {p}))
      BY <1>2, <1>9, <2>1, <2>4, <2>5 DEF HasEdge
    <3>3. HasEdge(k, q) <=>
            k \in Required /\ q \in Selection(k) /\ (k \notin todo \/ (k = key /\ q \notin unlinked))
      BY <1>2, <2>5 DEF HasEdge
    <3>4. e \in edges <=> HasEdge(k, q)
      BY <1>8
    <3> HIDE DEF k, q
    <3>5. e \in edges' <=> HasEdge(k, q)'
      BY <1>1, <1>3, <3>1, <3>2, <3>3, <3>4
    <3> QED  BY <3>5 DEF k, q
  <2>7. SelectInv'
    <3>1. /\ todo' \subseteq Required' /\ \A k \in Required' \ todo' : SelectionFault(k)' = "None"
          /\ todo' # {}
      BY <1>2, <1>9, <2>4 DEF RInv, SelectInv
    <3>2. \A k \in todo' : IsFirst(k, todo') => SelectionFault(k)' = "None" /\ unlinked' \subseteq Selection(k)'
      BY <1>2, <2>1, <2>4 DEF RInv, SelectInv
    <3>3. \A k \in DOMAIN bindings' : k \in used' <=> k \in Required' /\ (k \notin todo' \/ IsFirst(k, todo'))
      BY <1>2, <1>9 DEF RInv, SelectInv
    <3> QED  BY <2>1, <2>2, <2>6, <3>1, <3>2, <3>3 DEF SelectInv
  <2> QED  BY <1>2, <1>5, <2>1, <2>3, <2>7, SelectStep
<1> QED  BY <1>12, <1>13

\* A requirement whose providers are all linked is resolved.
LEMMA ResolvedStep == RInv /\ Resolved => RInv'
<1> SUFFICES ASSUME RInv, Resolved PROVE RInv'
  OBVIOUS
<1>1. PICK key \in todo : IsFirst(key, todo) /\ todo' = todo \ {key}
  BY DEF Resolved
<1>2. /\ phase = "link" /\ unlinked = {} /\ phase' = "select" /\ at' = 1
      /\ UNCHANGED <<declared, unlinked, edges>> /\ UNCHANGED declared /\ UNCHANGED <<used, order, stack, cycle, verdict>>
      /\ spec' = spec /\ bindings' = bindings /\ unlinked' = unlinked /\ edges' = edges
  BY DEF Resolved, Goto, sortVars, declared
<1>3. /\ Known' = Known /\ Required' = Required
      /\ \A k : SelectionFault(k)' = SelectionFault(k) /\ Selection(k)' = Selection(k)
  BY <1>2, SameMaps, SameSelection
<1>4. \A k : IsFirst(k, todo) <=> k = key
  BY <1>1, <1>2, SelectFacts, OneFirst
<1>5. key \in Required /\ SelectionFault(key) = "None"
  BY <1>1, <1>2 DEF RInv, SelectInv
<1>6. \A k, p : HasEdge(k, p)' <=> HasEdge(k, p)
  BY <1>1, <1>2, <1>3, <1>4, <1>5 DEF HasEdge
<1>7. SelectInv'
  <2>1. /\ todo \subseteq Required /\ \A k \in Required \ todo : SelectionFault(k) = "None"
        /\ Cardinality(edges) <= spec.limits["edges"]
        /\ \A e \in Edge : e \in edges <=> HasEdge(<<e.consumer, e.capability>>, e.provider)
        /\ \A k \in DOMAIN bindings : k \in used <=> k \in Required /\ (k \notin todo \/ IsFirst(k, todo))
    BY <1>2 DEF RInv, SelectInv
  <2>2. todo' \subseteq Required' /\ \A k \in Required' \ todo' : SelectionFault(k)' = "None"
    BY <1>1, <1>3, <1>5, <2>1
  <2>3. \A e \in Edge : e \in edges' <=> HasEdge(<<e.consumer, e.capability>>, e.provider)'
    BY <1>2, <1>6, <2>1
  <2>4. \A k \in DOMAIN bindings' : k \in used' <=> k \in Required' /\ k \notin todo'
    BY <1>1, <1>2, <1>3, <1>4, <2>1
  <2>5. Cardinality(edges') <= spec'.limits["edges"]
    BY <1>2, <2>1
  <2> QED  BY <1>2, <2>2, <2>3, <2>4, <2>5 DEF SelectInv
<1>8. WorkBounded'
  <2>1. todo' \subseteq Known \X Links
    BY <1>1 DEF RInv, WorkBounded
  <2> QED  BY <1>2, <2>1, GotoWork
<1>9. edges' \subseteq Edge
  BY <1>2, SelectFacts
<1> QED  BY <1>2, <1>7, <1>8, <1>9, SelectStep

-----------------------------------------------------------------------------
(* The startup order *)

\* What resolve() hands to topological_order is a graph to sort.
LEMMA StartOrder == SortStart' /\ SearchStart' => SInv' /\ SearchInv'
<1>1. SortStart => SInv
  BY StartSInv
<1>2. SearchStart => SearchInv
  BY StartSearchInv
<1> QED  BY <1>1, <1>2, PTL

\* Every requirement is resolved and every binding used.
LEMMA AllSelectedStep == RInv /\ AllSelected => RInv'
<1> SUFFICES ASSUME RInv, AllSelected PROVE RInv'
  OBVIOUS
<1>1. /\ phase = "select" /\ todo = {} /\ Unused = {} /\ phase' = "sort" /\ at' = 1
      /\ UNCHANGED declared /\ UNCHANGED <<todo, unlinked, used, edges>> /\ UNCHANGED <<order, stack, cycle, verdict>>
      /\ spec' = spec /\ bindings' = bindings /\ todo' = todo /\ edges' = edges
      /\ nodes' = Known /\ indegree' = Indegrees(Known, edges) /\ ready' = Roots(indegree')
      /\ visited' = [p \in Known |-> "None"]
  BY DEF AllSelected, Goto, declared
<1>2. /\ spec \in Specs /\ InputFault = "None" /\ Declared(Len(spec.plugins)) /\ Bound(Len(spec.bindings))
      /\ edges \subseteq Edge /\ Conflicts = {} /\ SelfDependencies = {}
  BY <1>1, SelectFacts
<1>3. /\ Known' = Known /\ Required' = Required /\ InputFault' = "None" /\ Declared(Len(spec.plugins))'
      /\ Conflicts' = {} /\ SelfDependencies' = {} /\ Bound(Len(spec.bindings))'
      /\ \A k : SelectionFault(k)' = SelectionFault(k) /\ Selection(k)' = Selection(k)
  BY <1>1, <1>2, SameMaps, SameSelection
<1>4. order' = << >> /\ stack' = << >> /\ cycle' = << >> /\ verdict' = "sorting"
  BY <1>1 DEF RInv, OrderInv
<1>5. InputInv'
  <2>1. Known \subseteq Ids
    BY <1>2, KnownFacts
  <2>2. \A e \in edges : e.provider \in Known /\ e.consumer \in Known
    BY DEF RInv, WorkBounded
  <2> QED  BY <1>1, <1>2, <2>1, <2>2 DEF InputInv
<1>6. SortStart' /\ SearchStart'
  BY <1>1, <1>4, <1>5 DEF SortStart, SearchStart
<1>7. SInv' /\ SearchInv'
  BY <1>6, StartOrder
<1>8. OrderInv'
  BY <1>1, <1>3, <1>7 DEF OrderInv, Unused
<1>9. PhaseInv' /\ DeclaredInv' /\ BoundInv' /\ EdgesInv' /\ AnswerInv'
  BY <1>1, <1>2, <1>3 DEF PhaseInv, Phases, DeclaredInv, BoundInv, EdgesInv, AnswerInv, ResolvesExactly,
    RefusalNamesFault
<1>10. SelectInv'
  <2>1. \A k, p : HasEdge(k, p)' <=> HasEdge(k, p)
    BY <1>1, <1>3 DEF HasEdge
  <2>2. \A e \in Edge : e \in edges' <=> HasEdge(<<e.consumer, e.capability>>, e.provider)'
    BY <1>1, <2>1 DEF RInv, SelectInv
  <2> QED  BY <1>1, <1>3, <2>2 DEF RInv, SelectInv
<1>11. WorkBounded'
  <2>1. todo' \subseteq Known \X Links
    BY <1>1
  <2> QED  BY <1>1, <2>1, GotoWork
<1> QED  BY <1>8, <1>9, <1>10, <1>11 DEF RInv

\* topological_order leaves the rest of resolve() alone.
LEMMA OrderStep == RInv /\ TopologicalOrderStep => RInv'
<1> SUFFICES ASSUME RInv, TopologicalOrderStep PROVE RInv'
  OBVIOUS
<1>1. /\ phase = "sort" /\ SortNext /\ UNCHANGED resolveVars /\ UNCHANGED declared
      /\ UNCHANGED <<phase, at, spec, bindings, todo, unlinked, used>>
  BY DEF TopologicalOrderStep, resolveVars, declared
<1>2. UNCHANGED <<nodes, edges>>
  BY <1>1 DEF SortNext, PopReady, Sorted, Unsorted, StartSearch, Backtrack, TryNeighbour
<1>3. SInv /\ SearchInv /\ nodes = Known /\ todo = {} /\ Unused = {}
  BY <1>1 DEF RInv, OrderInv
<1>4. SInv' /\ SearchInv'
  BY <1>1, <1>3, NextSInv, NextSearchInv
<1>5. /\ spec \in Specs /\ InputFault = "None" /\ Declared(Len(spec.plugins)) /\ Bound(Len(spec.bindings))
      /\ edges \subseteq Edge /\ Conflicts = {} /\ SelfDependencies = {}
  BY <1>1, SelectFacts
<1>6. /\ Known' = Known /\ Required' = Required /\ InputFault' = "None" /\ Declared(Len(spec.plugins))'
      /\ Conflicts' = {} /\ SelfDependencies' = {} /\ Bound(Len(spec.bindings))'
      /\ \A k : SelectionFault(k)' = SelectionFault(k) /\ Selection(k)' = Selection(k)
  BY <1>1, <1>5, SameMaps, SameSelection
<1>7. OrderInv'
  BY <1>1, <1>2, <1>3, <1>4, <1>6 DEF OrderInv, Unused
<1>8. PhaseInv' /\ DeclaredInv' /\ BoundInv' /\ EdgesInv' /\ AnswerInv'
  BY <1>1, <1>2, <1>5, <1>6 DEF RInv, PhaseInv, Phases, DeclaredInv, BoundInv, EdgesInv, AnswerInv, ResolvesExactly,
    RefusalNamesFault
<1>9. SelectInv'
  <2>1. \A k, p : HasEdge(k, p)' <=> HasEdge(k, p)
    BY <1>1, <1>6 DEF HasEdge
  <2>2. \A e \in Edge : e \in edges' <=> HasEdge(<<e.consumer, e.capability>>, e.provider)'
    BY <1>1, <1>2, <2>1 DEF RInv, SelectInv
  <2> QED  BY <1>1, <1>2, <1>6, <2>2 DEF RInv, SelectInv
<1>10. WorkBounded'
  BY <1>1, <1>2, <1>6 DEF RInv, WorkBounded
<1> QED  BY <1>7, <1>8, <1>9, <1>10 DEF RInv

\* When the order is asked for, the edges are those of the reference and every
\* other demand on a resolvable composition is met.
LEMMA SortFacts ==
    ASSUME RInv, phase = "sort"
    PROVE  /\ edges = ExpectedEdges(Descriptors, Bindings) /\ nodes = Names(Descriptors)
           /\ Resolvable <=> Acyclic(edges, nodes)
           /\ SInv /\ SearchInv
<1>1. /\ spec \in Specs /\ InputFault = "None" /\ Declared(Len(spec.plugins)) /\ Bound(Len(spec.bindings))
      /\ edges \subseteq Edge /\ Conflicts = {} /\ SelfDependencies = {}
  BY SelectFacts
<1>2. nodes = Known /\ todo = {} /\ Unused = {} /\ SInv /\ SearchInv
  BY DEF RInv, OrderInv
<1>3. edges = ExpectedEdges(Descriptors, Bindings)
  <2>1. \A e \in Edge : e \in edges <=> HasEdge(<<e.consumer, e.capability>>, e.provider)
    BY DEF RInv, SelectInv
  <2>2. \A k, p : HasEdge(k, p) <=> k \in Required /\ p \in Selection(k)
    BY <1>2 DEF HasEdge
  <2>3. ExpectedEdges(Descriptors, Bindings) \subseteq Edge
    BY <1>1, ExpectedEdgeFacts
  <2>4. \A e \in Edge : e \in edges <=> e \in ExpectedEdges(Descriptors, Bindings)
    BY <1>1, <2>1, <2>2, ExpectedEdgeFacts
  <2> QED  BY <1>1, <2>3, <2>4
<1>4. Satisfiable(Descriptors, Bindings)
  <2>1. \A key \in Required : SelectionFault(key) = "None"
    BY <1>2 DEF RInv, SelectInv
  <2>2. DOMAIN bindings \subseteq Required
    BY <1>2 DEF RInv, SelectInv, Unused
  <2> QED  BY <1>1, <2>1, <2>2, SatisfiableFacts
<1>5. WithinLimits /\ NoRepetition /\ Coherent(Descriptors)
  BY <1>1, CheckedFacts
<1>6. Cardinality(edges) <= spec.limits["edges"]
  BY DEF RInv, SelectInv
<1>7. nodes = Names(Descriptors)
  BY <1>1, <1>2, KnownFacts
<1> QED  BY <1>2, <1>3, <1>4, <1>5, <1>6, <1>7 DEF Resolvable

\* A graph is acyclic when none of its plugins wait for each other.
LEMMA AcyclicFacts ==
    ASSUME InputInv
    PROVE  Acyclic(edges, nodes) <=> \A S \in SUBSET nodes : ~Deadlocked(S)
<1>1. ASSUME NEW S \in SUBSET nodes, NEW n \in S
      PROVE  Providers(edges, n) \cap S = {} <=> \A e \in edges : e.consumer = n => e.provider \notin S
  <2>1. \A e \in edges : e.provider \in Ids
    BY DEF InputInv, Edge
  <2> QED  BY <2>1 DEF Providers
<1>2. \A S \in SUBSET nodes : Deadlocked(S) <=> S # {} /\ \A n \in S : Providers(edges, n) \cap S # {}
  BY DEF Deadlocked
<1>3. ASSUME NEW S \in SUBSET nodes
      PROVE  ~Deadlocked(S) <=> S = {} \/ \E n \in S : \A e \in edges : e.consumer = n => e.provider \notin S
  BY <1>1, <1>2
<1>4. Acyclic(edges, nodes) <=>
        \A S \in SUBSET nodes : S = {} \/ \E n \in S : \A e \in edges : e.consumer = n => e.provider \notin S
  BY DEF Acyclic
<1> QED  BY <1>3, <1>4

\* resolve() returns the graph.
LEMMA ResolveOkStep == RInv /\ ResolveOk => RInv'
<1> SUFFICES ASSUME RInv, ResolveOk PROVE RInv'
  OBVIOUS
<1>1. /\ phase = "sort" /\ verdict = "Ok" /\ UNCHANGED <<declared, todo, unlinked, edges>>
      /\ phase' = "returned" /\ at' = at /\ outcome'.tag = "Ok" /\ spec' = spec
  BY DEF ResolveOk, Return, linked, sortVars, declared
<1>2. SInv /\ (Resolvable <=> Acyclic(edges, nodes))
  BY <1>1, SortFacts
<1>3. Resolvable
  BY <1>1, <1>2, RightVerdict, AcyclicFacts DEF VerdictIsRight, SInv
<1>4. ResolvesExactly' /\ RefusalNamesFault'
  BY <1>1, <1>3, SameComposition DEF ResolvesExactly, RefusalNamesFault
<1> QED  BY <1>1, <1>4, ReturnStep DEF AnswerInv

\* resolve() refuses a graph whose plugins wait for each other.
LEMMA CycleFoundStep == RInv /\ CycleFound => RInv'
<1> SUFFICES ASSUME RInv, CycleFound PROVE RInv'
  OBVIOUS
<1>1. /\ phase = "sort" /\ verdict = "DependencyCycle" /\ UNCHANGED <<declared, todo, unlinked, edges>>
      /\ at' = at /\ Return("DependencyCycle", cycle)
  BY DEF CycleFound, Return, linked, sortVars, declared
<1>2. /\ SInv /\ SearchInv /\ (Resolvable <=> Acyclic(edges, nodes))
      /\ edges = ExpectedEdges(Descriptors, Bindings)
  BY <1>1, SortFacts
<1>3. ~Resolvable
  BY <1>1, <1>2, RightVerdict, AcyclicFacts DEF VerdictIsRight, SInv
<1>4. IsCycleFault("DependencyCycle", cycle)
  <2>1. /\ Len(cycle) >= 2 /\ cycle[1] = cycle[Len(cycle)]
        /\ \A i, j \in 1..(Len(cycle) - 1) : cycle[i] = cycle[j] => i = j
        /\ \A i \in 1..(Len(cycle) - 1) : cycle[i] \in Providers(edges, cycle[i + 1])
    BY <1>1, <1>2, RealCycle DEF CycleIsReal
  <2>2. \A i \in 1..(Len(cycle) - 1) :
          \E e \in edges : e.provider = cycle[i] /\ e.consumer = cycle[i + 1]
    BY <2>1 DEF Providers
  <2> QED  BY <1>2, <2>1, <2>2 DEF IsCycleFault
<1> QED  BY <1>1, <1>3, <1>4, RefusalStep DEF IsFault

\* Once resolve() has returned, nothing changes.
LEMMA StutterStep == RInv /\ UNCHANGED allVars => RInv'
<1> SUFFICES ASSUME RInv, UNCHANGED allVars PROVE RInv'
  OBVIOUS
<1>1. /\ UNCHANGED declared /\ UNCHANGED sortVars /\ UNCHANGED <<order, stack, cycle, verdict, nodes, edges>>
      /\ UNCHANGED <<spec, phase, at, bindings, todo, unlinked, used, outcome>>
  BY DEF allVars, resolveVars, sortVars, declared
<1>2. /\ Known' = Known /\ Required' = Required /\ InputFault' = InputFault
      /\ Declared(Len(spec.plugins))' <=> Declared(Len(spec.plugins))
      /\ Bound(Len(spec.bindings))' <=> Bound(Len(spec.bindings))
      /\ Conflicts' = Conflicts /\ SelfDependencies' = SelfDependencies
      /\ \A k : SelectionFault(k)' = SelectionFault(k) /\ Selection(k)' = Selection(k)
  BY <1>1, SameMaps, SameSelection
<1>3. (Declared(at - 1)' <=> Declared(at - 1)) /\ (Bound(at - 1)' <=> Bound(at - 1))
  BY <1>1, <1>2 DEF Declared, Bound, declared, Key
<1>4. PhaseInv' /\ DeclaredInv' /\ BoundInv' /\ EdgesInv'
  BY <1>1, <1>2, <1>3 DEF RInv, PhaseInv, DeclaredInv, BoundInv, EdgesInv
<1>5. SelectInv'
  <2>1. \A k, p : HasEdge(k, p)' <=> HasEdge(k, p)
    BY <1>1, <1>2 DEF HasEdge
  <2>2. phase \in {"select", "link", "sort"} =>
          \A e \in Edge : e \in edges' <=> HasEdge(<<e.consumer, e.capability>>, e.provider)'
    BY <1>1, <2>1 DEF RInv, SelectInv
  <2> QED  BY <1>1, <1>2, <2>2 DEF RInv, SelectInv
<1>6. OrderInv'
  <2>1. SInv /\ SearchInv => SInv' /\ SearchInv'
    BY <1>1, NextSInv, NextSearchInv
  <2> QED  BY <1>1, <1>2, <2>1 DEF RInv, OrderInv, Unused
<1>7. WorkBounded'
  BY <1>1, <1>2 DEF RInv, WorkBounded
<1>8. ResolvesExactly'
  BY <1>1, SameComposition DEF RInv, AnswerInv, ResolvesExactly
<1>9. RefusalNamesFault'
  <2>1. CASE phase = "returned" /\ outcome.tag # "Ok"
    <3>1. IsFault(outcome.tag, outcome.about)
      BY <2>1 DEF RInv, AnswerInv, RefusalNamesFault
    <3> QED  BY <1>1, <3>1, NamedFault
  <2>2. CASE ~(phase = "returned" /\ outcome.tag # "Ok")
    BY <1>1, <2>2 DEF RefusalNamesFault
  <2> QED  BY <2>1, <2>2
<1> QED  BY <1>4, <1>5, <1>6, <1>7, <1>8, <1>9 DEF RInv, AnswerInv

\* Every step of resolve() keeps the invariant.
LEMMA NextRInv == RInv /\ [ResolveNext \/ Done]_allVars => RInv'
<1> SUFFICES ASSUME RInv, [ResolveNext \/ Done]_allVars PROVE RInv'
  OBVIOUS
<1>1. CASE ValidateInput
  BY <1>1, ValidateInputStep
<1>2. CASE Declare
  BY <1>2, DeclareAccepted, DeclareRefused
<1>3. CASE AllDeclared
  BY <1>3, AllDeclaredStep
<1>4. CASE ValidateConflicts
  BY <1>4, ValidateConflictsStep
<1>5. CASE ValidateNoSelfDependencies
  BY <1>5, ValidateSelfStep
<1>6. CASE ValidateBinding
  BY <1>6, BindingAccepted, BindingRefused
<1>7. CASE AllBound
  BY <1>7, AllBoundStep
<1>8. CASE SelectProviders
  BY <1>8, SelectProvidersStep
<1>9. CASE Link
  BY <1>9, LinkStep
<1>10. CASE Resolved
  BY <1>10, ResolvedStep
<1>11. CASE UnusedBinding
  BY <1>11, UnusedBindingStep
<1>12. CASE AllSelected
  BY <1>12, AllSelectedStep
<1>13. CASE TopologicalOrderStep
  BY <1>13, OrderStep
<1>14. CASE ResolveOk
  BY <1>14, ResolveOkStep
<1>15. CASE CycleFound
  BY <1>15, CycleFoundStep
<1>16. CASE Done \/ UNCHANGED allVars
  BY <1>16, StutterStep DEF Done
<1> QED  BY <1>1, <1>2, <1>3, <1>4, <1>5, <1>6, <1>7, <1>8, <1>9, <1>10, <1>11, <1>12, <1>13,
            <1>14, <1>15, <1>16 DEF ResolveNext

-----------------------------------------------------------------------------
\* The invariant holds at every step of resolve(), whatever the composition.
THEOREM ResolverInvariance == Spec => []RInv
<1>1. Init => RInv
  BY InitRInv
<1>2. RInv /\ [ResolveNext \/ Done]_allVars => RInv'
  BY NextRInv
<1> QED  BY <1>1, <1>2, PTL DEF Spec

\* Whatever the composition, resolve() stores no more descriptors than
\* max_plugins and makes at most one edge more than max_edges, looks up only
\* plugins that are there, and sorts edges between different plugins.
THEOREM WorkIsBounded == Spec => []WorkBounded
<1>1. RInv => WorkBounded
  BY DEF RInv
<1> QED  BY <1>1, ResolverInvariance, PTL

\* resolve() succeeds for exactly the compositions that the reference calls
\* resolvable: for any number of plugins, bindings and capabilities and any limits.
THEOREM ResolutionIsExact == Spec => []ResolvesExactly
<1>1. RInv => ResolvesExactly
  BY DEF RInv, AnswerInv
<1> QED  BY <1>1, ResolverInvariance, PTL

\* Each of the nineteen errors of resolve() is about a fault of its own kind, and
\* the limit, plugins, capability, binding, providers or path it carries are those
\* of the composition that have it.
THEOREM RefusalsNameFaults == Spec => []RefusalNamesFault
<1>1. RInv => RefusalNamesFault
  BY DEF RInv, AnswerInv
<1> QED  BY <1>1, ResolverInvariance, PTL

-----------------------------------------------------------------------------
(* What resolve() hands to the executor *)

\* A graph that resolve() returns orders the declared plugins, has the edges of
\* the reference, and is what the lifecycle executor relies on.
DeliversGraph ==
    Succeeded =>
        /\ Ordered = Names(Descriptors)
        /\ edges = ExpectedEdges(Descriptors, Bindings)
        /\ FitsLifecycle

\* What a selected provider offers.
LEMMA SelectedOffers ==
    ASSUME RInv, phase = "sort", NEW e \in edges
    PROVE  e.provider \in Known /\ e.capability \in DOMAIN plugins[e.provider].provides
<1> DEFINE key == <<e.consumer, e.capability>>
<1>1. todo = {} /\ e \in Edge
  BY DEF RInv, OrderInv, EdgesInv
<1>2. HasEdge(key, e.provider)
  BY <1>1 DEF RInv, SelectInv
<1>3. key \in Required /\ e.provider \in Selection(key) /\ SelectionFault(key) = "None"
  BY <1>1, <1>2 DEF HasEdge, RInv, SelectInv
<1>4. e.provider \in Known
  BY DEF RInv, WorkBounded
<1>5. Offers(e.provider, e.capability)
  <2>1. CASE key \in DOMAIN bindings
    <3>1. e.provider = bindings[key] /\ BoundFault(key) = "None"
      BY <1>3, <2>1 DEF Selection, SelectionFault
    <3> QED  BY <3>1 DEF BoundFault
  <2>2. CASE key \notin DOMAIN bindings
    BY <1>3, <2>2 DEF Selection, Compatible, Candidates
  <2> QED  BY <2>1, <2>2
<1> QED  BY <1>4, <1>5 DEF Offers

\* When the sort succeeds, the graph is one the executor can walk.
LEMMA SortedFits ==
    ASSUME RInv, phase = "sort", verdict = "Ok"
    PROVE  Ordered = nodes /\ FitsLifecycle
<1> DEFINE offers == [p \in Ids |-> IF p \in Known THEN plugins[p].provides ELSE Empty]
           g == [order |-> order, offers |-> offers, edges |-> edges]
<1>1. /\ spec \in Specs /\ Declared(Len(spec.plugins)) /\ edges \subseteq Edge
      /\ nodes = Known /\ SInv
  BY SelectFacts, SortFacts DEF RInv, OrderInv
<1>2. Ordered = nodes
  BY <1>1, RightVerdict DEF VerdictIsRight
<1>3. nodes \subseteq Ids /\ order \in Seq(Ids)
  <2>1. nodes \subseteq Ids /\ order \in Seq(nodes)
    BY <1>1 DEF SInv, InputInv, KahnInv
  <2> QED  BY <2>1
<1>4. \A i, j \in 1..Len(order) : order[i] = order[j] => i = j
  BY <1>1 DEF SInv, OrderRespectsEdges
<1>5. offers \in [Ids -> Runtime!OfferSet]
  <2>1. Empty \in [{} -> SemVers]
    BY DEF Empty
  <2>2. ASSUME NEW p \in Known PROVE plugins[p].provides \in Runtime!OfferSet
    <3>1. IsDescriptor(plugins[p])
      BY <1>1, KnownFacts
    <3> QED  BY <3>1 DEF IsDescriptor, Runtime!OfferSet
  <2>3. Empty \in Runtime!OfferSet
    BY <2>1 DEF Runtime!OfferSet
  <2> QED  BY <2>2, <2>3
<1>6. edges \subseteq [consumer : Ids, provider : Ids, capability : Links]
  BY <1>1 DEF Edge
<1>7. ASSUME NEW e \in edges
      PROVE  /\ e.capability \in DOMAIN offers[e.provider]
             /\ \E i, j \in 1..Len(order) : i < j /\ order[i] = e.provider /\ order[j] = e.consumer
  <2>1. e \in Edge /\ e.provider \in nodes /\ e.consumer \in nodes
    BY <1>1 DEF SInv, InputInv
  <2>2. e.capability \in DOMAIN offers[e.provider]
    BY <1>1, <1>3, <2>1, SelectedOffers
  <2>3. PICK j \in 1..Len(order) : order[j] = e.consumer
    BY <1>2, <2>1 DEF Ordered
  <2>4. e.provider \in Providers(edges, order[j])
    BY <1>1, <2>1, <2>3 DEF Providers, Edge
  <2>5. PICK i \in 1..(j - 1) : order[i] = e.provider
    BY <1>1, <2>4 DEF SInv, OrderRespectsEdges
  <2>6. Len(order) \in Nat
    BY <1>3
  <2>7. i \in 1..Len(order) /\ i < j
    BY <2>5, <2>6
  <2> QED  BY <2>2, <2>3, <2>5, <2>7
<1>8. Runtime!IsResolvedGraph(g)
  <2>1. g.order = order /\ g.offers = offers /\ g.edges = edges
    OBVIOUS
  <2> HIDE DEF g, offers
  <2> QED  BY <1>3, <1>4, <1>5, <1>6, <1>7, <2>1 DEF Runtime!IsResolvedGraph
<1> QED  BY <1>2, <1>8 DEF FitsLifecycle

\* Only the end of the sort returns a graph: any other step that changes
\* something returns no graph.
LEMMA OnlySortSucceeds == ResolveNext /\ ~ResolveOk => ~Succeeded'
<1> SUFFICES ASSUME ResolveNext, ~ResolveOk PROVE ~Succeeded'
  OBVIOUS
<1>1. CASE ValidateInput
  BY <1>1 DEF ValidateInput, InputFault, Return, Goto, Succeeded
<1>2. CASE Declare
  BY <1>2 DEF Declare, DescriptorFault, Return, Advance, Succeeded
<1>3. CASE AllDeclared \/ AllBound \/ Resolved \/ AllSelected
  BY <1>3 DEF AllDeclared, AllBound, Resolved, AllSelected, Goto, Succeeded
<1>4. CASE ValidateConflicts \/ ValidateNoSelfDependencies
  BY <1>4 DEF ValidateConflicts, ValidateNoSelfDependencies, Return, Goto, Succeeded
<1>5. CASE ValidateBinding
  BY <1>5 DEF ValidateBinding, BindingFault, Return, Advance, Succeeded
<1>6. CASE SelectProviders
  <2>1. \A key : SelectionFault(key) # "Ok"
    BY DEF SelectionFault, BoundFault, UnboundFault
  <2> QED  BY <1>6, <2>1 DEF SelectProviders, Return, Goto, Succeeded
<1>7. CASE Link
  BY <1>7 DEF Link, Return, Succeeded
<1>8. CASE UnusedBinding \/ CycleFound
  BY <1>8 DEF UnusedBinding, CycleFound, Return, Succeeded
<1>9. CASE TopologicalOrderStep
  BY <1>9 DEF TopologicalOrderStep, resolveVars, Succeeded
<1> QED  BY <1>1, <1>2, <1>3, <1>4, <1>5, <1>6, <1>7, <1>8, <1>9 DEF ResolveNext

\* Every step keeps it.
LEMMA NextDelivers == RInv /\ DeliversGraph /\ [ResolveNext \/ Done]_allVars => DeliversGraph'
<1> SUFFICES ASSUME RInv, DeliversGraph, [ResolveNext \/ Done]_allVars PROVE DeliversGraph'
  OBVIOUS
<1>1. CASE ResolveOk
  <2>1. phase = "sort" /\ verdict = "Ok" /\ UNCHANGED declared /\ UNCHANGED sortVars /\ spec' = spec
    BY <1>1 DEF ResolveOk, declared
  <2>2. Ordered = Names(Descriptors) /\ edges = ExpectedEdges(Descriptors, Bindings) /\ FitsLifecycle
    BY <2>1, SortedFits, SortFacts
  <2>3. Ordered' = Ordered /\ edges' = edges /\ order' = order /\ plugins' = plugins /\ Known' = Known
    BY <2>1 DEF Ordered, sortVars, declared, Known
  <2>4. FitsLifecycle' <=> FitsLifecycle
    BY <2>3 DEF FitsLifecycle
  <2> QED  BY <2>1, <2>2, <2>3, <2>4, SameComposition DEF DeliversGraph
<1>2. CASE UNCHANGED allVars
  <2>1. UNCHANGED <<spec, plugins, phase, outcome, order, edges>> /\ spec' = spec
    BY <1>2 DEF allVars, resolveVars, sortVars
  <2>2. Succeeded' <=> Succeeded
    BY <2>1 DEF Succeeded
  <2>3. Ordered' = Ordered /\ (FitsLifecycle' <=> FitsLifecycle)
    BY <2>1 DEF Ordered, FitsLifecycle, Known
  <2> QED  BY <2>1, <2>2, <2>3, SameComposition DEF DeliversGraph
<1>3. CASE ResolveNext /\ ~ResolveOk
  <2>1. ~Succeeded'
    BY <1>3, OnlySortSucceeds
  <2> QED  BY <2>1 DEF DeliversGraph
<1> QED  BY <1>1, <1>2, <1>3 DEF Done

\* Every graph resolve() returns, whatever the composition, orders each declared
\* plugin once, providers first, has exactly the edges the descriptors and the
\* bindings describe, and satisfies what Lifecycle assumes of its graphs.
THEOREM ResolverDelivers == Spec => []DeliversGraph
<1>1. Init => DeliversGraph
  BY DEF Init, DeliversGraph, Succeeded
<1> QED  BY <1>1, NextDelivers, ResolverInvariance, PTL DEF Spec

-----------------------------------------------------------------------------
(* The resolved requirements and the diagnostics *)

Entry == [key : Ids \X Links, cardinality : Cardinalities, providers : SUBSET Ids]

\* requirements holds the requirements resolved so far, in ascending order and
\* before those that are to be resolved, each with the providers selected for it.
Listed ==
    /\ requirements \in Seq(Entry)
    /\ \A i \in 1..Len(requirements) :
         LET r == requirements[i]
         IN  /\ r.key \in Required \ todo
             /\ r.cardinality = RequirementOf(r.key).cardinality
             /\ r.providers = Selection(r.key)
             /\ \A key \in todo : Before(r.key, key)
    /\ \A i, j \in 1..Len(requirements) : i < j => Before(requirements[i].key, requirements[j].key)
    /\ \A key \in Required \ todo : \E i \in 1..Len(requirements) : requirements[i].key = key

\* Every requirement has its providers, every binding is used, and the
\* diagnostics are found.
Settled ==
    /\ Declared(Len(spec.plugins)) /\ Bound(Len(spec.bindings))
    /\ todo = {} /\ DOMAIN bindings \subseteq Required
    /\ \A key \in Required : SelectionFault(key) = "None"
    /\ edges = ExpectedEdges(Descriptors, Bindings)
    /\ diagnostics = GraphDiagnostics

GraphInv ==
    /\ phase \in {"input", "declare", "conflicts", "self", "bindings"} => requirements = << >>
    /\ phase \in {"select", "link", "sort"} \/ Succeeded => Listed
    /\ phase = "sort" \/ Succeeded => Settled

\* Keys are pairs of numbers.
LEMMA KeyFacts ==
    ASSUME NEW a \in Ids \X Links, NEW b \in Ids \X Links
    PROVE  /\ a[1] \in Nat /\ a[2] \in Nat /\ ~Before(a, a)
           /\ Before(a, b) => a # b /\ ~Before(b, a)
<1>1. a[1] \in Nat /\ a[2] \in Nat /\ b[1] \in Nat /\ b[2] \in Nat
  BY IdsAssumption, LinksAssumption
<1> QED  BY <1>1 DEF Before

\* The entries of a list and their keys.
LEMMA EntryFacts ==
    ASSUME Listed
    PROVE  /\ Len(requirements) \in Nat /\ DOMAIN requirements = 1..Len(requirements)
           /\ \A i \in 1..Len(requirements) : requirements[i] \in Entry /\ requirements[i].key \in Ids \X Links
           /\ \A i, j \in 1..Len(requirements) :
                /\ Before(requirements[i].key, requirements[j].key) <=> i < j
                /\ requirements[i].key = requirements[j].key => i = j
<1>1. Len(requirements) \in Nat /\ DOMAIN requirements = 1..Len(requirements)
  BY DEF Listed
<1>2. \A i \in 1..Len(requirements) : requirements[i] \in Entry
  BY DEF Listed
<1>3. \A i \in 1..Len(requirements) : requirements[i].key \in Ids \X Links
  BY <1>2 DEF Entry
<1>4. ASSUME NEW i \in 1..Len(requirements), NEW j \in 1..Len(requirements)
      PROVE  /\ Before(requirements[i].key, requirements[j].key) <=> i < j
             /\ requirements[i].key = requirements[j].key => i = j
  <2> DEFINE a == requirements[i].key
             b == requirements[j].key
  <2>1. (i < j => Before(a, b)) /\ (j < i => Before(b, a))
    BY DEF Listed
  <2>2. i < j \/ j < i \/ i = j
    BY <1>1
  <2>3. a \in Ids \X Links /\ b \in Ids \X Links
    BY <1>3
  <2>4. ~Before(a, a) /\ ~Before(b, b) /\ (Before(a, b) => a # b /\ ~Before(b, a))
          /\ (Before(b, a) => b # a /\ ~Before(a, b))
    <3> HIDE DEF a, b
    <3> QED  BY <2>3, KeyFacts
  <2>5. i = j => a = b
    OBVIOUS
  <2>6. i = j => ~(i < j)
    BY <1>1
  <2> HIDE DEF a, b
  <2>7. (Before(a, b) <=> i < j) /\ (a = b => i = j)
    BY <2>1, <2>2, <2>4, <2>5, <2>6
  <2> QED  BY <2>7 DEF a, b
<1> QED  BY <1>1, <1>2, <1>3, <1>4

\* The binary search finds the requirements of the composition and no others.
LEMMA LookupFacts ==
    ASSUME Listed, todo = {}, NEW key \in Ids \X Links
    PROVE  IF key \in Required
           THEN /\ Lookup(key) \in 1..Len(requirements)
                /\ requirements[Lookup(key)].key = key
                /\ requirements[Lookup(key)].cardinality = RequirementOf(key).cardinality
                /\ requirements[Lookup(key)].providers = Selection(key)
           ELSE Lookup(key) = 0
<1> DEFINE found == {i \in 1..Len(requirements) :
                       /\ requirements[i].key = key
                       /\ \A j \in 1..Len(requirements) :
                            /\ j < i => Before(requirements[j].key, key)
                            /\ i < j => Before(key, requirements[j].key)}
<1>1. Lookup(key) = IF found = {} THEN 0 ELSE CHOOSE i \in found : TRUE
  BY DEF Lookup
<1>2. ASSUME NEW i \in 1..Len(requirements), requirements[i].key = key PROVE i \in found
  BY <1>2, EntryFacts
<1>3. CASE key \in Required
  <2>1. PICK i \in 1..Len(requirements) : requirements[i].key = key
    BY <1>3 DEF Listed
  <2>2. found # {}
    BY <1>2, <2>1
  <2>3. Lookup(key) \in found
    <3> HIDE DEF found
    <3> QED  BY <1>1, <2>2
  <2> QED  BY <1>3, <2>3 DEF Listed
<1>4. CASE key \notin Required
  <2>1. found = {}
    BY <1>4 DEF Listed
  <2> QED  BY <1>1, <1>4, <2>1
<1> QED  BY <1>3, <1>4

\* sort_unstable_by leaves the requirements where they are.
LEMMA AlreadySorted == Listed => SortedRequirements = requirements
<1> SUFFICES ASSUME Listed PROVE SortedRequirements = requirements
  OBVIOUS
<1> DEFINE n == Len(requirements)
           below(r) == {s \in Entries : Precedes(s, r)}
<1>1. n \in Nat /\ DOMAIN requirements = 1..n
  BY EntryFacts
<1>2. ASSUME NEW i \in 1..n PROVE Cardinality(below(requirements[i])) = i - 1
  <2> DEFINE f == [j \in 1..(i - 1) |-> requirements[j]]
  <2>1. i - 1 \in Nat /\ \A j \in 1..(i - 1) : j \in 1..n /\ j < i
    BY <1>1
  <2>2. below(requirements[i]) = {requirements[j] : j \in {k \in 1..n : k < i}}
    BY <1>1, EntryFacts DEF Entries, Precedes
  <2>3. {k \in 1..n : k < i} = 1..(i - 1)
    BY <1>1
  <2>4. below(requirements[i]) = {f[j] : j \in 1..(i - 1)}
    BY <2>2, <2>3
  <2>5. \A j, k \in 1..(i - 1) : f[j] = f[k] => j = k
    BY <2>1, EntryFacts
  <2>6. DOMAIN f = 1..(i - 1) /\ f = [j \in 1..(i - 1) |-> f[j]]
    OBVIOUS
  <2> HIDE DEF f, below
  <2>7. Cardinality({f[j] : j \in 1..(i - 1)}) = i - 1
    <3> DEFINE m == i - 1
    <3>1. m \in Nat /\ DOMAIN f = 1..m /\ f = [j \in 1..m |-> f[j]] /\ \A j, k \in 1..m : f[j] = f[k] => j = k
      BY <2>1, <2>5, <2>6
    <3> HIDE DEF m
    <3>2. Cardinality({f[j] : j \in 1..m}) = m
      BY <3>1, CountDistinct
    <3> QED  BY <3>2 DEF m
  <2> QED  BY <2>4, <2>7
<1>3. ASSUME NEW i \in 1..n
      PROVE  (CHOOSE r \in Entries : Cardinality(below(r)) = i - 1) = requirements[i]
  <2>1. requirements[i] \in Entries
    BY DEF Entries
  <2>2. ASSUME NEW r \in Entries, Cardinality(below(r)) = i - 1 PROVE r = requirements[i]
    <3>1. PICK k \in 1..n : r = requirements[k]
      BY DEF Entries
    <3>2. k - 1 = i - 1
      BY <1>2, <2>2, <3>1
    <3> QED  BY <1>1, <3>1, <3>2
  <2> HIDE DEF below
  <2> QED  BY <1>2, <2>1, <2>2
<1>4. SortedRequirements = [i \in 1..n |-> requirements[i]]
  <2>1. SortedRequirements = [i \in 1..n |-> CHOOSE r \in Entries : Cardinality(below(r)) = i - 1]
    BY DEF SortedRequirements
  <2> HIDE DEF below
  <2> QED  BY <1>3, <2>1
<1>5. requirements = [i \in 1..n |-> requirements[i]]
  BY <1>1 DEF Listed
<1> QED  BY <1>4, <1>5

\* An appended entry comes last.
LEMMA AppendEntry ==
    ASSUME NEW s \in Seq(Entry), NEW r \in Entry, NEW t, t = Append(s, r)
    PROVE  /\ t \in Seq(Entry) /\ Len(s) \in Nat /\ Len(t) = Len(s) + 1
           /\ \A i \in 1..Len(s) : t[i] = s[i]
           /\ t[Len(s) + 1] = r
<1> HIDE DEF Entry
<1> QED  OBVIOUS

\* What a list is depends on the maps, on todo and on the list.
LEMMA SameList ==
    ASSUME UNCHANGED declared, UNCHANGED <<todo, requirements>>
    PROVE  Listed' <=> Listed
<1>1. Required' = Required /\ \A key : Selection(key)' = Selection(key)
  BY SameMaps, SameSelection
<1>2. \A key : RequirementOf(key)' = RequirementOf(key)
  BY DEF declared, RequirementOf
<1>3. todo' = todo /\ requirements' = requirements
  OBVIOUS
<1> QED  BY <1>1, <1>2, <1>3 DEF Listed

\* The same for what is settled.
LEMMA SameSettled ==
    ASSUME UNCHANGED declared, UNCHANGED <<todo, requirements>>, UNCHANGED <<edges, diagnostics>>
    PROVE  Settled' <=> Settled
<1>1. /\ Required' = Required /\ Known' = Known
      /\ \A key : Selection(key)' = Selection(key) /\ SelectionFault(key)' = SelectionFault(key)
      /\ Declared(Len(spec.plugins))' <=> Declared(Len(spec.plugins))
      /\ Bound(Len(spec.bindings))' <=> Bound(Len(spec.bindings))
  BY SameMaps, SameSelection
<1>2. spec' = spec /\ bindings' = bindings /\ plugins' = plugins /\ requirements' = requirements
      /\ todo' = todo /\ edges' = edges /\ diagnostics' = diagnostics
  BY DEF declared
<1>3. Entries' = Entries
  BY <1>2 DEF Entries
<1>4. GraphDiagnostics' = GraphDiagnostics
  BY <1>1, <1>2, <1>3 DEF GraphDiagnostics, Offers
<1>5. Descriptors' = Descriptors /\ Bindings' = Bindings
  BY <1>2, SameComposition
<1>6. (edges = ExpectedEdges(Descriptors, Bindings))' <=> edges = ExpectedEdges(Descriptors, Bindings)
  BY <1>2, <1>5
<1> QED  BY <1>1, <1>2, <1>4, <1>6 DEF Settled

\* The first requirement to resolve goes to the end of the list.
LEMMA ResolvedList == RInv /\ Listed /\ Resolved => Listed'
<1> SUFFICES ASSUME RInv, Listed, Resolved PROVE Listed'
  OBVIOUS
<1>1. PICK key \in todo :
        /\ IsFirst(key, todo) /\ todo' = todo \ {key}
        /\ requirements' = Append(requirements,
             [key |-> key, cardinality |-> RequirementOf(key).cardinality, providers |-> Selection(key)])
  BY DEF Resolved
<1> DEFINE n == Len(requirements)
           r == [key |-> key, cardinality |-> RequirementOf(key).cardinality, providers |-> Selection(key)]
<1>2. phase = "link" /\ UNCHANGED declared
  BY DEF Resolved
<1>3. spec \in Specs /\ Declared(Len(spec.plugins)) /\ Bound(Len(spec.bindings)) /\ todo \subseteq Required
      /\ todo \subseteq Ids \X Links
  BY <1>2, SelectFacts
<1>4. key \in Required /\ key \in Ids \X Links
  BY <1>3
<1>5. r \in Entry
  <2>1. RequirementOf(key).cardinality \in Cardinalities
    BY <1>3, <1>4, RequiredFacts DEF Requirement
  <2>2. Selection(key) \subseteq Ids
    BY <1>3, <1>4, SelectionIsChosen, KnownFacts
  <2> QED  BY <1>4, <2>1, <2>2 DEF Entry
<1>6. r.key = key /\ r.cardinality = RequirementOf(key).cardinality /\ r.providers = Selection(key)
  OBVIOUS
<1> HIDE DEF r
<1>7. /\ requirements' \in Seq(Entry) /\ n \in Nat /\ Len(requirements') = n + 1
      /\ \A i \in 1..n : requirements'[i] = requirements[i]
      /\ requirements'[n + 1] = r
  <2>1. requirements' = Append(requirements, r)
    BY <1>1 DEF r
  <2>2. requirements \in Seq(Entry)
    BY DEF Listed
  <2> QED  BY <1>5, <2>1, <2>2, AppendEntry
<1>8. /\ Required' = Required /\ \A k : Selection(k)' = Selection(k)
      /\ \A k : RequirementOf(k)' = RequirementOf(k)
  BY <1>2, SameMaps, SameSelection DEF declared, RequirementOf
<1>9. \A i \in 1..(n + 1) : i \in 1..n \/ i = n + 1
  BY <1>7
<1>10. ASSUME NEW i \in 1..(n + 1)
       PROVE  LET s == requirements'[i]
              IN  /\ s.key \in Required \ todo'
                  /\ s.cardinality = RequirementOf(s.key).cardinality
                  /\ s.providers = Selection(s.key)
                  /\ \A k \in todo' : Before(s.key, k)
  <2>1. CASE i \in 1..n
    BY <1>1, <1>7, <2>1 DEF Listed
  <2>2. CASE i = n + 1
    BY <1>1, <1>4, <1>6, <1>7, <2>2 DEF IsFirst
  <2> QED  BY <1>9, <2>1, <2>2
<1>11. ASSUME NEW i \in 1..(n + 1), NEW j \in 1..(n + 1), i < j
       PROVE  Before(requirements'[i].key, requirements'[j].key)
  <2>1. i \in 1..n
    BY <1>7, <1>11
  <2>2. CASE j \in 1..n
    BY <1>7, <1>11, <2>1, <2>2 DEF Listed
  <2>3. CASE j = n + 1
    BY <1>6, <1>7, <2>1, <2>3 DEF Listed
  <2> QED  BY <1>9, <2>2, <2>3
<1>12. ASSUME NEW k \in Required \ todo' PROVE \E i \in 1..(n + 1) : requirements'[i].key = k
  <2>1. CASE k = key
    <3>1. n + 1 \in 1..(n + 1)
      BY <1>7
    <3> QED  BY <1>6, <1>7, <2>1, <3>1
  <2>2. CASE k # key
    <3>1. k \in Required \ todo
      BY <1>1, <2>2
    <3>2. PICK i \in 1..n : requirements[i].key = k
      BY <3>1 DEF Listed
    <3>3. i \in 1..(n + 1)
      BY <1>7
    <3> QED  BY <1>7, <3>2, <3>3
  <2> QED  BY <2>1, <2>2
<1> HIDE DEF n
<1> QED  BY <1>7, <1>8, <1>10, <1>11, <1>12 DEF Listed

\* SortFacts, after a step.
LEMMA EdgesSettled == (RInv /\ phase = "sort" => edges = ExpectedEdges(Descriptors, Bindings))'
<1>1. RInv /\ phase = "sort" => edges = ExpectedEdges(Descriptors, Bindings)
  BY SortFacts
<1> QED  BY <1>1, PTL

\* AllSelected sorts the list and finds the diagnostics.
LEMMA AllSelectedList == RInv /\ Listed /\ AllSelected => Listed' /\ Settled'
<1> SUFFICES ASSUME RInv, Listed, AllSelected PROVE Listed' /\ Settled'
  OBVIOUS
<1>1. /\ UNCHANGED declared /\ todo' = todo /\ requirements' = SortedRequirements
      /\ diagnostics' = GraphDiagnostics /\ edges' = edges /\ plugins' = plugins
      /\ bindings' = bindings /\ phase' = "sort"
  BY DEF AllSelected, declared, Goto
<1>2. requirements' = requirements
  BY <1>1, AlreadySorted
<1>3. Listed'
  BY <1>1, <1>2, SameList
<1>4. RInv'
  BY AllSelectedStep
<1>5. edges' = ExpectedEdges(Descriptors, Bindings)'
  BY <1>1, <1>4, EdgesSettled
<1>6. Declared(Len(spec.plugins))' /\ Bound(Len(spec.bindings))' /\ todo' = {} /\ Unused' = {}
  BY <1>1, <1>4 DEF RInv, DeclaredInv, BoundInv, OrderInv
<1>7. \A key \in Required' : SelectionFault(key)' = "None"
  BY <1>1, <1>4, <1>6 DEF RInv, SelectInv
<1>8. DOMAIN bindings' \subseteq Required'
  BY <1>1, <1>4, <1>6 DEF RInv, SelectInv, Unused
<1>9. GraphDiagnostics' = GraphDiagnostics
  <2>1. Known' = Known /\ Entries' = Entries
    BY <1>1, <1>2 DEF Known, Entries
  <2> QED  BY <1>1, <2>1 DEF GraphDiagnostics, Offers
<1> QED  BY <1>1, <1>3, <1>5, <1>6, <1>7, <1>8, <1>9 DEF Settled

\* Every step keeps the list and what is settled.
LEMMA NextGraphInv == RInv /\ GraphInv /\ [ResolveNext \/ Done]_allVars => GraphInv'
<1> SUFFICES ASSUME RInv, GraphInv, [ResolveNext \/ Done]_allVars PROVE GraphInv'
  OBVIOUS
<1> DEFINE Early == {"input", "declare", "conflicts", "self", "bindings"}
<1>1. CASE ValidateInput \/ Declare \/ AllDeclared \/ ValidateConflicts \/ ValidateNoSelfDependencies \/ ValidateBinding
  <2>1. phase \in Early /\ phase' \in Early \cup {"returned"} /\ requirements' = requirements
    BY <1>1 DEF ValidateInput, Declare, AllDeclared, ValidateConflicts, ValidateNoSelfDependencies,
      ValidateBinding, linked, Goto, Return, Advance
  <2>2. ~Succeeded'
    BY <1>1, OnlySortSucceeds DEF ResolveNext, ResolveOk, ValidateInput, Declare, AllDeclared,
      ValidateConflicts, ValidateNoSelfDependencies, ValidateBinding
  <2> QED  BY <2>1, <2>2 DEF GraphInv
<1>2. CASE AllBound
  <2>1. /\ phase = "bindings" /\ phase' = "select" /\ UNCHANGED declared /\ todo' = Required
        /\ requirements' = requirements /\ requirements = << >>
    BY <1>2 DEF AllBound, Goto, GraphInv
  <2>2. Required' = Required
    BY <2>1, SameMaps
  <2>3. << >> \in Seq(Entry) /\ Len(<< >>) = 0
    OBVIOUS
  <2>4. Listed'
    BY <2>1, <2>2, <2>3 DEF Listed
  <2> QED  BY <2>1, <2>4 DEF GraphInv, Succeeded
<1>3. CASE SelectProviders \/ Link
  <2>1. /\ phase \in {"select", "link"} /\ phase' \in {"select", "link", "returned"}
        /\ UNCHANGED declared /\ UNCHANGED <<todo, requirements>>
    BY <1>3 DEF SelectProviders, Link, Goto, Return
  <2>2. ~Succeeded'
    BY <1>3, OnlySortSucceeds DEF ResolveNext, ResolveOk, SelectProviders, Link
  <2>3. Listed'
    BY <2>1, SameList DEF GraphInv
  <2> QED  BY <2>1, <2>2, <2>3 DEF GraphInv
<1>4. CASE Resolved
  <2>1. phase = "link" /\ phase' = "select"
    BY <1>4 DEF Resolved, Goto
  <2>2. Listed'
    BY <1>4, <2>1, ResolvedList DEF GraphInv
  <2> QED  BY <2>1, <2>2 DEF GraphInv, Succeeded
<1>5. CASE UnusedBinding \/ CycleFound
  <2>1. phase' = "returned" /\ ~Succeeded'
    BY <1>5, OnlySortSucceeds DEF UnusedBinding, CycleFound, Return, Succeeded
  <2> QED  BY <2>1 DEF GraphInv
<1>6. CASE AllSelected
  <2>1. phase = "select" /\ phase' = "sort"
    BY <1>6 DEF AllSelected, Goto
  <2>2. Listed' /\ Settled'
    BY <1>6, <2>1, AllSelectedList DEF GraphInv
  <2> QED  BY <2>1, <2>2 DEF GraphInv
<1>7. CASE TopologicalOrderStep
  <2>1. phase = "sort" /\ phase' = "sort" /\ UNCHANGED declared /\ UNCHANGED <<todo, requirements>>
        /\ diagnostics' = diagnostics
    BY <1>7 DEF TopologicalOrderStep, resolveVars, declared
  <2>2. edges' = edges
    BY <1>7 DEF TopologicalOrderStep, SortNext, PopReady, Sorted, Unsorted, StartSearch, Backtrack, TryNeighbour
  <2>3. Listed' /\ Settled'
    BY <2>1, <2>2, SameList, SameSettled DEF GraphInv
  <2> QED  BY <2>1, <2>3 DEF GraphInv
<1>8. CASE ResolveOk
  <2>1. phase = "sort" /\ phase' = "returned" /\ UNCHANGED declared /\ UNCHANGED <<todo, requirements>>
        /\ UNCHANGED <<edges, diagnostics>>
    BY <1>8 DEF ResolveOk, Return, linked, sortVars
  <2>2. Listed' /\ Settled'
    BY <2>1, SameList, SameSettled DEF GraphInv
  <2> QED  BY <2>1, <2>2 DEF GraphInv
<1>9. CASE Done \/ UNCHANGED allVars
  <2>1. UNCHANGED declared /\ UNCHANGED <<todo, requirements>> /\ UNCHANGED <<edges, diagnostics>>
        /\ UNCHANGED <<phase, outcome>>
    BY <1>9 DEF Done, allVars, resolveVars, sortVars, declared
  <2>2. (Listed' <=> Listed) /\ (Settled' <=> Settled) /\ (Succeeded' <=> Succeeded)
    BY <2>1, SameList, SameSettled DEF Succeeded
  <2> QED  BY <2>1, <2>2 DEF GraphInv
<1> QED  BY <1>1, <1>2, <1>3, <1>4, <1>5, <1>6, <1>7, <1>8, <1>9 DEF ResolveNext

\* An optional requirement is reported missing exactly when it got no provider.
LEMMA MissingIsExact ==
    ASSUME spec \in Specs, Listed, Settled, NEW key \in Required
    PROVE  /\ <<"OptionalProviderMissing", key[1], key[2]>> \in diagnostics <=> Selection(key) = {}
           /\ Selection(key) = {} => PermitsZero(RequirementOf(key).cardinality)
<1> DEFINE T(k) == <<"OptionalProviderMissing", k[1], k[2]>>
           A == {s \in Entries : s.providers = {} /\ PermitsZero(s.cardinality)}
<1>1. key = <<key[1], key[2]>> /\ \A k \in Required : k = <<k[1], k[2]>>
  BY RequiredFacts DEF Settled
<1>2. T(key) \in diagnostics <=> T(key) \in {T(r.key) : r \in A}
  BY DEF Settled, GraphDiagnostics
<1>3. \A r \in A : /\ r.key \in Required /\ r.providers = Selection(r.key) /\ r.providers = {}
  BY DEF Entries, Listed
<1>4. PICK i \in 1..Len(requirements) : requirements[i].key = key
  BY DEF Listed, Settled
<1>5. /\ requirements[i] \in Entries /\ requirements[i].providers = Selection(key)
      /\ requirements[i].cardinality = RequirementOf(key).cardinality
  BY <1>4 DEF Entries, Listed
<1>6. ASSUME T(key) \in diagnostics PROVE Selection(key) = {}
  <2>1. PICK r \in A : T(key) = T(r.key)
    BY <1>2, <1>6
  <2>2. r.key = key
    BY <1>1, <1>3, <2>1
  <2> QED  BY <1>3, <2>2
<1>7. ASSUME Selection(key) = {} PROVE PermitsZero(RequirementOf(key).cardinality)
  <2>1. key \notin DOMAIN bindings /\ Compatible(key) = {}
    BY <1>7 DEF Selection
  <2>2. UnboundFault(key) = "None"
    BY <2>1 DEF Settled, SelectionFault
  <2> QED  BY <2>1, <2>2 DEF UnboundFault
<1>8. ASSUME Selection(key) = {} PROVE T(key) \in diagnostics
  <2>1. requirements[i] \in A
    BY <1>5, <1>7, <1>8
  <2>2. T(key) = T(requirements[i].key)
    BY <1>4
  <2> HIDE DEF A, T
  <2> QED  BY <1>2, <2>1, <2>2
<1> QED  BY <1>6, <1>7, <1>8

\* An offer is reported unselected exactly when no edge uses it.
LEMMA UnselectedIsExact ==
    ASSUME spec \in Specs, Settled, NEW d \in Descriptors, NEW c \in DOMAIN d.provides
    PROVE  /\ d.id \in Known /\ c \in Links
           /\ <<"UnselectedOffer", d.id, c>> \in diagnostics
                <=> \A key \in Required : key[2] = c => d.id \notin Selection(key)
<1>1. d.id \in Known /\ plugins[d.id] = d /\ IsDescriptor(d)
  BY KnownFacts DEF Settled
<1>2. c \in Links /\ Offers(d.id, c)
  BY <1>1 DEF IsDescriptor, Offers
<1> DEFINE U == {qc \in Known \X Links :
                   /\ Offers(qc[1], qc[2])
                   /\ ~\E e \in edges : e.provider = qc[1] /\ e.capability = qc[2]}
           x == <<d.id, c>>
<1>3. <<"UnselectedOffer", d.id, c>> \in diagnostics <=> x \in U
  <2>1. <<"UnselectedOffer", d.id, c>> \in diagnostics
          <=> <<"UnselectedOffer", d.id, c>> \in {<<"UnselectedOffer", pc[1], pc[2]>> : pc \in U}
    BY DEF Settled, GraphDiagnostics
  <2>2. \A pc \in U : pc = <<pc[1], pc[2]>>
    OBVIOUS
  <2>3. x[1] = d.id /\ x[2] = c
    OBVIOUS
  <2>4. ASSUME NEW pc \in U, <<"UnselectedOffer", d.id, c>> = <<"UnselectedOffer", pc[1], pc[2]>>
        PROVE  x \in U
    <3>1. pc[1] = d.id /\ pc[2] = c
      BY <2>4
    <3>2. pc = x
      BY <2>2, <3>1
    <3> QED  BY <3>2
  <2> HIDE DEF U, x
  <2> QED  BY <2>1, <2>3, <2>4
<1>4. x \in U <=> ~\E e \in edges : e.provider = d.id /\ e.capability = c
  BY <1>1, <1>2
<1>5. ASSUME NEW e \in edges, e.provider = d.id, e.capability = c
      PROVE  \E key \in Required : key[2] = c /\ d.id \in Selection(key)
  <2>1. e \in Edge /\ <<e.consumer, e.capability>> \in Required
        /\ e.provider \in Selection(<<e.consumer, e.capability>>)
    BY ExpectedEdgeFacts DEF Settled
  <2> QED  BY <1>5, <2>1
<1>6. ASSUME NEW key \in Required, key[2] = c, d.id \in Selection(key)
      PROVE  \E e \in edges : e.provider = d.id /\ e.capability = c
  <2> DEFINE e == [provider |-> d.id, consumer |-> key[1], capability |-> key[2]]
  <2>1. key[1] \in Known /\ key[2] \in Links /\ key = <<key[1], key[2]>> /\ Known \subseteq Ids
    BY RequiredFacts, KnownFacts DEF Settled
  <2>2. e \in Edge /\ e.provider = d.id /\ e.consumer = key[1] /\ e.capability = key[2]
    BY <1>1, <2>1 DEF Edge
  <2> HIDE DEF e
  <2>3. e \in edges
    BY <1>6, <2>1, <2>2, ExpectedEdgeFacts DEF Settled
  <2> QED  BY <1>6, <2>2, <2>3
<1> QED  BY <1>1, <1>2, <1>3, <1>4, <1>5, <1>6

\* A descriptor that no longer offers the capability.
Withdrawn(d, p, c) ==
    IF d.id = p
    THEN [id |-> p, requires |-> d.requires, conflicts |-> d.conflicts,
          provides |-> [k \in DOMAIN d.provides \ {c} |-> d.provides[k]]]
    ELSE d

\* What changes when a plugin withdraws an offer nobody uses: nothing.
LEMMA WithdrawnFacts ==
    ASSUME NEW d, NEW p, NEW c
    PROVE  /\ Withdrawn(d, p, c).id = d.id
           /\ Withdrawn(d, p, c).requires = d.requires
           /\ \A k, need : Satisfies(Withdrawn(d, p, c), k, need)
                             <=> Satisfies(d, k, need) /\ ~(d.id = p /\ k = c)
  BY DEF Withdrawn, Satisfies

\* Without an offer that no requirement selects, the composition needs and
\* chooses what it did.
LEMMA WithoutFacts ==
    ASSUME spec \in Specs, Settled, NEW p \in Known, NEW c,
           \A key \in Required : key[2] = c => p \notin Selection(key)
    PROVE  LET ds == Without(Descriptors, p, c) IN
           /\ Needs(ds) = Required
           /\ \A key \in Required : Need(ds, key) = RequirementOf(key)
           /\ \A key \in Required : Chosen(ds, Bindings, key) = Selection(key)
           /\ \A q \in Known : \E d \in ds : d = Withdrawn(plugins[q], p, c) /\ d.id = q
<1> DEFINE ds == Without(Descriptors, p, c)
           W(d) == Withdrawn(d, p, c)
<1>1. ds = {W(d) : d \in Descriptors}
  BY DEF Without, Withdrawn
<1>2. \A q \in Known : plugins[q] \in Descriptors /\ plugins[q].id = q
  BY KnownFacts DEF Settled
<1>3. \A d \in Descriptors : d.id \in Known /\ plugins[d.id] = d
  BY KnownFacts DEF Settled
<1>4. \A d \in Descriptors : W(d).id = d.id /\ W(d).requires = d.requires
  BY WithdrawnFacts
<1>5. \A d \in Descriptors : \A k, need : Satisfies(W(d), k, need) <=> Satisfies(d, k, need) /\ ~(d.id = p /\ k = c)
  BY WithdrawnFacts
<1>6. Required = Needs(Descriptors)
  BY RequiredFacts DEF Settled
<1> HIDE DEF W
<1>7. Needs(ds) = Needs(Descriptors)
  <2>1. Needs(ds) = UNION {{<<W(d).id, k>> : k \in DOMAIN W(d).requires} : d \in Descriptors}
    BY <1>1 DEF Needs
  <2> QED  BY <1>4, <2>1 DEF Needs
<1>8. ASSUME NEW q \in Known PROVE Named(ds, q) = W(plugins[q])
  <2>1. W(plugins[q]) \in ds /\ W(plugins[q]).id = q
    BY <1>1, <1>2, <1>4
  <2>2. ASSUME NEW d \in ds, d.id = q PROVE d = W(plugins[q])
    <3>1. PICK e \in Descriptors : d = W(e)
      BY <1>1
    <3> QED  BY <1>3, <1>4, <2>2, <3>1
  <2> QED  BY <2>1, <2>2 DEF Named
<1>9. ASSUME NEW key \in Required PROVE Need(ds, key) = RequirementOf(key)
  <2>1. key[1] \in Known
    BY RequiredFacts DEF Settled
  <2> QED  BY <1>2, <1>4, <1>8, <2>1 DEF Need, RequirementOf
<1>10. ASSUME NEW key \in Required PROVE Chosen(ds, Bindings, key) = Selection(key)
  <2>1. /\ Selection(key) = Chosen(Descriptors, Bindings, key)
        /\ key \notin DOMAIN bindings => Selection(key) = Compatible(key)
        /\ Need(Descriptors, key) = RequirementOf(key)
    BY SelectionIsChosen, RequiredFacts DEF Settled, Selection
  <2> DEFINE bound == {b \in Bindings : Key(b) = key}
             need == RequirementOf(key)
  <2>2. CASE bound # {}
    BY <2>1, <2>2 DEF Chosen
  <2>3. CASE bound = {}
    <3>1. key \notin DOMAIN bindings
      BY <2>3, BoundFacts DEF Settled
    <3>2. Selection(key) = {d.id : d \in {e \in Descriptors : Satisfies(e, key[2], need)}}
      BY <2>1, <2>3 DEF Chosen
    <3>3. Chosen(ds, Bindings, key) = {d.id : d \in {e \in ds : Satisfies(e, key[2], need)}}
      BY <1>9, <2>3 DEF Chosen
    <3> HIDE DEF need
    <3>4. ASSUME NEW e \in Descriptors, Satisfies(e, key[2], need)
          PROVE  Satisfies(W(e), key[2], need)
      BY <1>5, <3>2, <3>4
    <3>5. {d.id : d \in {e \in ds : Satisfies(e, key[2], need)}}
            = {d.id : d \in {e \in Descriptors : Satisfies(e, key[2], need)}}
      <4> HIDE DEF ds
      <4> QED  BY <1>1, <1>4, <1>5, <3>4
    <3> QED  BY <3>2, <3>3, <3>5
  <2> QED  BY <2>2, <2>3
<1>11. ASSUME NEW q \in Known PROVE \E d \in ds : d = W(plugins[q]) /\ d.id = q
  BY <1>1, <1>2, <1>4
<1> HIDE DEF ds
<1>12. /\ Needs(ds) = Required
       /\ \A key \in Required : Need(ds, key) = RequirementOf(key)
       /\ \A key \in Required : Chosen(ds, Bindings, key) = Selection(key)
       /\ \A q \in Known : \E d \in ds : d = W(plugins[q]) /\ d.id = q
  BY <1>6, <1>7, <1>9, <1>10, <1>11
<1> QED  BY <1>12 DEF ds, W

\* The composition without that offer is satisfiable and has the same edges.
LEMMA WithoutResolves ==
    ASSUME spec \in Specs, Settled, NEW p \in Known, NEW c,
           \A key \in Required : key[2] = c => p \notin Selection(key)
    PROVE  LET ds == Without(Descriptors, p, c)
           IN  Satisfiable(ds, Bindings) /\ ExpectedEdges(ds, Bindings) = edges
<1> DEFINE ds == Without(Descriptors, p, c)
<1>1. /\ Needs(ds) = Required
      /\ \A key \in Required : Need(ds, key) = RequirementOf(key)
      /\ \A key \in Required : Chosen(ds, Bindings, key) = Selection(key)
      /\ \A q \in Known : \E d \in ds : d = Withdrawn(plugins[q], p, c) /\ d.id = q
  BY WithoutFacts
<1>2. /\ Needs(Descriptors) = Required
      /\ \A key \in Required : Need(Descriptors, key) = RequirementOf(key)
      /\ \A key \in Required : Chosen(Descriptors, Bindings, key) = Selection(key)
  BY RequiredFacts, SelectionIsChosen DEF Settled
<1>3. Satisfiable(Descriptors, Bindings)
  BY SatisfiableFacts DEF Settled
<1> HIDE DEF ds
<1>4. ExpectedEdges(ds, Bindings) = edges
  <2>1. edges = ExpectedEdges(Descriptors, Bindings)
    BY DEF Settled
  <2> QED  BY <1>1, <1>2, <2>1 DEF ExpectedEdges
<1>5. \A key \in Required : Cardinality(Chosen(ds, Bindings, key)) \in Permitted(Need(ds, key).cardinality)
  BY <1>1, <1>2, <1>3 DEF Satisfiable
<1>6. ASSUME NEW b \in Bindings
      PROVE  /\ Key(b) \in Required
             /\ Need(ds, Key(b)).cardinality \in {"ExactlyOne", "ZeroOrOne"}
             /\ \E d \in ds : d.id = b.provider /\ Satisfies(d, b.capability, Need(ds, Key(b)))
  <2>1. /\ Key(b) \in Required /\ Need(Descriptors, Key(b)).cardinality \in {"ExactlyOne", "ZeroOrOne"}
        /\ \E d \in Descriptors : d.id = b.provider /\ Satisfies(d, b.capability, Need(Descriptors, Key(b)))
    BY <1>2, <1>3 DEF Satisfiable, BindingsFit
  <2>2. b.provider \in Known /\ Selection(Key(b)) = {b.provider} /\ Key(b)[2] = b.capability
    BY BoundFacts DEF Settled, Selection, Key
  <2>3. Satisfies(plugins[b.provider], b.capability, RequirementOf(Key(b)))
    BY <1>2, <2>1, KnownFacts DEF Settled
  <2>4. ~(b.provider = p /\ b.capability = c)
    BY <2>1, <2>2
  <2>5. PICK d \in ds : d = Withdrawn(plugins[b.provider], p, c) /\ d.id = b.provider
    BY <1>1, <2>2
  <2>6. plugins[b.provider].id = b.provider
    BY <2>2, KnownFacts DEF Settled
  <2>7. Satisfies(d, b.capability, RequirementOf(Key(b)))
    BY <2>3, <2>4, <2>5, <2>6, WithdrawnFacts
  <2> QED  BY <1>1, <1>2, <2>1, <2>5, <2>7
<1>7. BindingsFit(ds, Bindings)
  BY <1>1, <1>6 DEF BindingsFit
<1>8. Satisfiable(ds, Bindings) /\ ExpectedEdges(ds, Bindings) = edges
  BY <1>1, <1>4, <1>5, <1>7 DEF Satisfiable
<1> QED  BY <1>8 DEF ds

\* The diagnostics of a settled graph say what is so.
LEMMA DiagnosticsFacts ==
    ASSUME spec \in Specs, Listed, Settled
    PROVE  DiagnosticsAreExact
<1>1. /\ Needs(Descriptors) = Required
      /\ \A key \in Required : Chosen(Descriptors, Bindings, key) = Selection(key)
  BY RequiredFacts, SelectionIsChosen DEF Settled
<1>2. \A key \in Required : <<"OptionalProviderMissing", key[1], key[2]>> \in diagnostics <=> Selection(key) = {}
  BY MissingIsExact
<1>3. ASSUME NEW d \in Descriptors, NEW c \in DOMAIN d.provides,
             <<"UnselectedOffer", d.id, c>> \in diagnostics
      PROVE  /\ Satisfiable(Without(Descriptors, d.id, c), Bindings)
             /\ ExpectedEdges(Without(Descriptors, d.id, c), Bindings) = edges
  BY <1>3, UnselectedIsExact, WithoutResolves
<1>4. ASSUME NEW d \in Descriptors, NEW c \in DOMAIN d.provides,
             <<"UnselectedOffer", d.id, c>> \notin diagnostics
      PROVE  \E key \in Needs(Descriptors) : key[2] = c /\ d.id \in Chosen(Descriptors, Bindings, key)
  BY <1>1, <1>4, UnselectedIsExact
<1> QED  BY <1>1, <1>2, <1>3, <1>4 DEF DiagnosticsAreExact

\* What holds of a graph that resolve() has returned.
LEMMA ReturnedGraph ==
    ASSUME RInv, GraphInv, DeliversGraph
    PROVE  GraphIsExpected
<1> SUFFICES ASSUME Succeeded PROVE GraphIsExpected
  BY DEF GraphIsExpected
<1>1. spec \in Specs /\ Listed /\ Settled
  BY DEF RInv, PhaseInv, GraphInv
<1>2. Ordered = Names(Descriptors) /\ edges = ExpectedEdges(Descriptors, Bindings) /\ FitsLifecycle
  BY DEF DeliversGraph
<1>3. DiagnosticsAreExact
  BY <1>1, DiagnosticsFacts
<1>4. /\ Needs(Descriptors) = Required /\ todo = {}
      /\ \A key \in Required : Chosen(Descriptors, Bindings, key) = Selection(key)
  BY <1>1, RequiredFacts, SelectionIsChosen DEF Settled
<1>5. ASSUME NEW key \in Ids \X Links
      PROVE  IF key \in Needs(Descriptors)
             THEN /\ Lookup(key) # 0
                  /\ requirements[Lookup(key)].key = key
                  /\ requirements[Lookup(key)].providers = Chosen(Descriptors, Bindings, key)
             ELSE Lookup(key) = 0
  <2>1. Len(requirements) \in Nat
    BY <1>1, EntryFacts
  <2>2. \A i \in 1..Len(requirements) : i # 0
    BY <2>1
  <2> QED  BY <1>1, <1>4, <2>2, LookupFacts
<1> QED  BY <1>2, <1>3, <1>5 DEF GraphIsExpected

\* Nothing is resolved before resolve() starts.
LEMMA InitGraphInv == Init => GraphInv /\ DeliversGraph
  BY DEF Init, GraphInv, DeliversGraph, Succeeded

\* Whatever the composition, the graph resolve() returns is the one the
\* descriptors and the bindings describe: its order, its edges and its
\* requirements, which the binary search of ResolvedGraph::requirement finds,
\* with the diagnostics that are so and no others.
THEOREM GraphsAreExpected == Spec => []GraphIsExpected
<1>1. RInv /\ GraphInv /\ DeliversGraph => GraphIsExpected
  BY ReturnedGraph
<1> QED  BY <1>1, InitRInv, InitGraphInv, NextRInv, NextGraphInv, NextDelivers, PTL DEF Spec
=============================================================================
