----------------------- MODULE ResolverCallersProofs ------------------------
(***************************************************************************)
(* The callers of resolve(), for every composition.  AppBuilder::resolve   *)
(* accepts exactly the applications whose graph resolves and whose host    *)
(* fits, and then every plugin instance has its place in the startup       *)
(* order; initialize hooks obtain exactly the handles the composition      *)
(* entitles them to; and cargo kernox says what the composition is.        *)
(*                                                                         *)
(* The resolver's invariant and what it delivers are taken over as they    *)
(* are: nothing of resolve() changes once it has returned.  The invariants *)
(* add how far the negotiation with the host, the initialization and the   *)
(* command have come.                                                      *)
(***************************************************************************)
EXTENDS ResolverCallers, ResolverProofs, WellFoundedInduction

-----------------------------------------------------------------------------
(* The application builder *)

AppPhases == {"resolving", "supplied", "hosts", "returned"}

\* supplied holds the first k host properties, which have different identities.
SuppliedUpTo(k) ==
    /\ DOMAIN supplied = {spec.supplied[i].id : i \in 1..k}
    /\ \A i \in 1..k : supplied[spec.supplied[i].id] = spec.supplied[i].version
    /\ \A i, j \in 1..k : spec.supplied[i].id = spec.supplied[j].id => i = j

\* The host meets the first k requirements of the plugin declared at p.
Meets(p, k) ==
    /\ \A i, j \in 1..k : spec.hosts[p][i].id = spec.hosts[p][j].id => i = j
    /\ \A i \in 1..k : /\ spec.hosts[p][i].id \in DOMAIN supplied
                       /\ supplied[spec.hosts[p][i].id] \in spec.hosts[p][i].accepts

\* The plugins before the current one are met, and what was looked at of it.
Negotiated ==
    /\ SuppliedUpTo(Len(spec.supplied))
    /\ plugin - 1 \in 0..Len(spec.hosts)
    /\ \A p \in 1..(plugin - 1) : Meets(p, Len(spec.hosts[p]))
    /\ plugin <= Len(spec.hosts) =>
         index - 1 \in 0..Len(spec.hosts[plugin]) /\ Meets(plugin, index - 1)

AppInv ==
    /\ app \in AppPhases /\ plugin \in Nat /\ index \in Nat
    /\ app \in {"resolving", "supplied"} => plugin = 1
    /\ app = "resolving" => index = 1 /\ supplied = Empty
    /\ app \in {"supplied", "hosts"} => Succeeded
    /\ app = "supplied" => index - 1 \in 0..Len(spec.supplied) /\ SuppliedUpTo(index - 1)
    /\ app = "hosts" => Negotiated
    /\ app = "returned" /\ answer = "Ok" => Succeeded
    /\ AppResolvesExactly

BuilderInv == RInv /\ DeliversGraph /\ AppInv

\* What a builder takes from its host.
LEMMA HostFacts ==
    ASSUME spec \in Specs
    PROVE  /\ Len(spec.supplied) \in Nat /\ Len(spec.hosts) \in Nat
           /\ \A p \in 1..Len(spec.hosts) : Len(spec.hosts[p]) \in Nat
  BY HostsAssumption

\* What negotiation reads of the variables it does not change.
LEMMA SameNegotiation ==
    ASSUME UNCHANGED <<spec, supplied>>
    PROVE  /\ \A k : SuppliedUpTo(k)' <=> SuppliedUpTo(k)
           /\ \A p, k : Meets(p, k)' <=> Meets(p, k)
           /\ HostFits' <=> HostFits
<1>1. \A k : SuppliedUpTo(k)' <=> SuppliedUpTo(k)
  BY DEF SuppliedUpTo
<1>2. \A p, k : Meets(p, k)' <=> Meets(p, k)
  BY DEF Meets
<1>3. HostFits' <=> HostFits
  BY DEF HostFits
<1> QED  BY <1>1, <1>2, <1>3

\* The resolver stands still while the builder goes on.
LEMMA ResolverStands ==
    ASSUME RInv, DeliversGraph, UNCHANGED allVars
    PROVE  /\ RInv' /\ DeliversGraph' /\ spec' = spec
           /\ (Succeeded' <=> Succeeded) /\ (Resolvable' <=> Resolvable)
<1>1. spec' = spec /\ (Succeeded' <=> Succeeded)
  BY DEF allVars, resolveVars, Succeeded
<1>2. RInv'
  BY StutterStep
<1>3. DeliversGraph'
  BY NextDelivers
<1> QED  BY <1>1, <1>2, <1>3, SameComposition

\* A host that meets every plugin's requirements fits, and the other way round.
LEMMA FitsWhenMet ==
    ASSUME spec \in Specs, SuppliedUpTo(Len(spec.supplied))
    PROVE  HostFits <=> \A p \in 1..Len(spec.hosts) : Meets(p, Len(spec.hosts[p]))
<1>1. Distinct(spec.supplied)
  BY DEF SuppliedUpTo, Distinct
<1>2. ASSUME NEW p, NEW k
      PROVE  (\E s \in 1..Len(spec.supplied) :
                 /\ spec.supplied[s].id = spec.hosts[p][k].id
                 /\ spec.supplied[s].version \in spec.hosts[p][k].accepts)
             <=> /\ spec.hosts[p][k].id \in DOMAIN supplied
                 /\ supplied[spec.hosts[p][k].id] \in spec.hosts[p][k].accepts
  <2>1. \A x : x \in DOMAIN supplied <=> \E s \in 1..Len(spec.supplied) : spec.supplied[s].id = x
    BY DEF SuppliedUpTo
  <2>2. \A s \in 1..Len(spec.supplied) : supplied[spec.supplied[s].id] = spec.supplied[s].version
    BY DEF SuppliedUpTo
  <2> QED  BY <2>1, <2>2
<1>3. ASSUME NEW p \in 1..Len(spec.hosts)
      PROVE  Meets(p, Len(spec.hosts[p])) <=>
               /\ Distinct(spec.hosts[p])
               /\ \A k \in 1..Len(spec.hosts[p]) : \E s \in 1..Len(spec.supplied) :
                    /\ spec.supplied[s].id = spec.hosts[p][k].id
                    /\ spec.supplied[s].version \in spec.hosts[p][k].accepts
  BY <1>2 DEF Meets, Distinct
<1> QED  BY <1>1, <1>3 DEF HostFits

\* A refusal of the host, when it is justified.
LEMMA HostRefused ==
    ASSUME BuilderInv, ~HostFits, UNCHANGED allVars, app' = "returned", answer' # "Ok",
           plugin' = plugin, index' = index
    PROVE  BuilderInv'
<1>1. RInv' /\ DeliversGraph' /\ spec' = spec /\ (Resolvable' <=> Resolvable)
  BY ResolverStands DEF BuilderInv
<1>2. ~HostFits'
  BY <1>1 DEF HostFits
<1>3. AppResolvesExactly'
  BY <1>2 DEF AppResolvesExactly
<1>4. AppInv'
  BY <1>3 DEF AppInv, AppPhases, BuilderInv
<1> QED  BY <1>1, <1>4 DEF BuilderInv

-----------------------------------------------------------------------------
\* One more property of the host is supplied, or it is there already.
LEMMA SupplyStep == BuilderInv /\ Supply => BuilderInv'
<1> SUFFICES ASSUME BuilderInv, Supply PROVE BuilderInv'
  OBVIOUS
<1> DEFINE property == spec.supplied[index]
<1>1. /\ app = "supplied" /\ index <= Len(spec.supplied) /\ UNCHANGED allVars /\ plugin' = plugin
      /\ spec \in Specs /\ index \in Nat /\ plugin = 1 /\ Succeeded
      /\ index - 1 \in 0..Len(spec.supplied) /\ SuppliedUpTo(index - 1)
  BY DEF Supply, BuilderInv, AppInv, RInv, PhaseInv
<1>2. Len(spec.supplied) \in Nat
  BY <1>1, HostFacts
<1>3. index \in 1..Len(spec.supplied) /\ 1..index = (1..(index - 1)) \cup {index}
  BY <1>1, <1>2
<1>4. CASE property.id \in DOMAIN supplied
  <2>1. PICK i \in 1..(index - 1) : spec.supplied[i].id = property.id
    BY <1>1, <1>4 DEF SuppliedUpTo
  <2>2. i \in 1..Len(spec.supplied) /\ i # index
    BY <1>1, <1>2, <2>1
  <2>3. ~HostFits
    BY <1>3, <2>1, <2>2 DEF HostFits, Distinct
  <2>4. app' = "returned" /\ answer' # "Ok" /\ index' = index
    BY <1>4 DEF Supply
  <2> QED  BY <1>1, <2>3, <2>4, HostRefused
<1>5. CASE property.id \notin DOMAIN supplied
  <2>1. /\ supplied' = Put(supplied, property.id, property.version) /\ index' = index + 1
        /\ app' = app /\ answer' = answer
    BY <1>5 DEF Supply
  <2>2. /\ RInv' /\ DeliversGraph' /\ spec' = spec /\ (Succeeded' <=> Succeeded)
    BY <1>1, ResolverStands DEF BuilderInv
  <2>3. DOMAIN supplied' = DOMAIN supplied \cup {property.id}
    BY <2>1 DEF Put
  <2>4. /\ supplied'[property.id] = property.version
        /\ \A x \in DOMAIN supplied : supplied'[x] = supplied[x]
    BY <1>5, <2>1 DEF Put
  <2>5. \A i \in 1..(index - 1) : spec.supplied[i].id \in DOMAIN supplied /\ spec.supplied[i].id # property.id
    BY <1>1, <1>5 DEF SuppliedUpTo
  <2>6. DOMAIN supplied' = {spec.supplied[i].id : i \in 1..index}
    BY <1>1, <1>3, <2>3 DEF SuppliedUpTo
  <2>7. \A i \in 1..index : supplied'[spec.supplied[i].id] = spec.supplied[i].version
    BY <1>1, <1>3, <2>4, <2>5 DEF SuppliedUpTo
  <2>8. \A i, j \in 1..index : spec.supplied[i].id = spec.supplied[j].id => i = j
    BY <1>1, <1>3, <2>5 DEF SuppliedUpTo
  <2>9. index' - 1 = index /\ index' \in Nat
    BY <1>1, <2>1
  <2>10. SuppliedUpTo(index - 1)'
    <3>1. spec' = spec /\ index' - 1 = index
      BY <2>2, <2>9
    <3>2. DOMAIN supplied' = {spec'.supplied[i].id : i \in 1..(index' - 1)}
      BY <2>6, <3>1
    <3>3. \A i \in 1..(index' - 1) : supplied'[spec'.supplied[i].id] = spec'.supplied[i].version
      BY <2>7, <3>1
    <3>4. \A i, j \in 1..(index' - 1) : spec'.supplied[i].id = spec'.supplied[j].id => i = j
      BY <2>8, <3>1
    <3> QED  BY <3>2, <3>3, <3>4 DEF SuppliedUpTo
  <2>11. index' - 1 \in 0..Len(spec'.supplied)
    <3>1. index \in 0..Len(spec.supplied)
      BY <1>1, <1>2
    <3> QED  BY <2>2, <2>9, <3>1
  <2>12. AppInv'
    <3>1. app' = "supplied" /\ plugin' = 1 /\ Succeeded'
      BY <1>1, <2>1, <2>2
    <3> QED  BY <2>9, <2>10, <2>11, <3>1 DEF AppInv, AppPhases, AppResolvesExactly
  <2> QED  BY <2>2, <2>12 DEF BuilderInv
<1> QED  BY <1>4, <1>5

\* One more requirement of a plugin is met, or the host does not fit.
LEMMA NegotiateStep == BuilderInv /\ Negotiate => BuilderInv'
<1> SUFFICES ASSUME BuilderInv, Negotiate PROVE BuilderInv'
  OBVIOUS
<1> DEFINE need == spec.hosts[plugin][index]
<1>1. /\ app = "hosts" /\ plugin <= Len(spec.hosts) /\ index <= Len(spec.hosts[plugin])
      /\ UNCHANGED allVars /\ plugin' = plugin /\ supplied' = supplied
      /\ spec \in Specs /\ index \in Nat /\ plugin \in Nat /\ Succeeded /\ Negotiated
  BY DEF Negotiate, BuilderInv, AppInv, RInv, PhaseInv
<1>2. /\ Len(spec.supplied) \in Nat /\ Len(spec.hosts) \in Nat
      /\ plugin - 1 \in 0..Len(spec.hosts) /\ SuppliedUpTo(Len(spec.supplied))
      /\ index - 1 \in 0..Len(spec.hosts[plugin]) /\ Meets(plugin, index - 1)
      /\ \A p \in 1..(plugin - 1) : Meets(p, Len(spec.hosts[p]))
  BY <1>1, HostFacts DEF Negotiated
<1>3. plugin \in 1..Len(spec.hosts) /\ Len(spec.hosts[plugin]) \in Nat
  BY <1>1, <1>2, HostFacts
<1>4. index \in 1..Len(spec.hosts[plugin]) /\ 1..index = (1..(index - 1)) \cup {index}
  BY <1>1, <1>2, <1>3
<1>5. need.id \in Seen <=> \E k \in 1..(index - 1) : spec.hosts[plugin][k].id = need.id
  BY DEF Seen
<1>6. CASE HostFault(need) = "None"
  <2>1. index' = index + 1 /\ app' = app /\ answer' = answer
    BY <1>6 DEF Negotiate
  <2>2. RInv' /\ DeliversGraph' /\ spec' = spec /\ (Succeeded' <=> Succeeded)
    BY <1>1, ResolverStands DEF BuilderInv
  <2>3. need.id \notin Seen /\ need.id \in DOMAIN supplied /\ supplied[need.id] \in need.accepts
    BY <1>6 DEF HostFault
  <2>4. Meets(plugin, index)
    BY <1>2, <1>4, <1>5, <2>3 DEF Meets
  <2>5. index' - 1 = index /\ index' \in Nat
    BY <1>1, <2>1
  <2>6. Negotiated'
    <3>1. SuppliedUpTo(Len(spec.supplied))' /\ \A p, k : Meets(p, k)' <=> Meets(p, k)
      BY <1>1, <1>2, <2>2, SameNegotiation
    <3>2. ASSUME NEW p \in 1..(plugin' - 1) PROVE Meets(p, Len(spec.hosts[p]))'
      <4>1. Meets(p, Len(spec.hosts[p]))
        BY <1>1, <1>2
      <4> QED  BY <1>1, <2>2, <4>1 DEF Meets
    <3>3. Meets(plugin, index - 1)'
      BY <1>1, <2>2, <2>4, <2>5 DEF Meets
    <3>4. index' - 1 \in 0..Len(spec'.hosts[plugin']) /\ plugin' - 1 \in 0..Len(spec'.hosts)
      <4>1. index \in 0..Len(spec.hosts[plugin]) /\ plugin - 1 \in 0..Len(spec.hosts)
        BY <1>1, <1>2, <1>3
      <4> QED  BY <1>1, <2>2, <2>5, <4>1
    <3> QED  BY <3>1, <3>2, <3>3, <3>4 DEF Negotiated
  <2>7. AppInv'
    BY <1>1, <2>1, <2>2, <2>5, <2>6 DEF AppInv, AppPhases, AppResolvesExactly
  <2> QED  BY <2>2, <2>7 DEF BuilderInv
<1>7. CASE HostFault(need) # "None"
  <2>1. app' = "returned" /\ answer' = HostFault(need) /\ index' = index
    BY <1>7 DEF Negotiate
  <2>2. HostFault(need) # "Ok"
    BY DEF HostFault
  <2>3. ~Meets(plugin, Len(spec.hosts[plugin]))
    <3>1. CASE need.id \in Seen
      <4>1. PICK k \in 1..(index - 1) : spec.hosts[plugin][k].id = need.id
        BY <1>5, <3>1
      <4>2. k \in 1..Len(spec.hosts[plugin]) /\ k # index
        BY <1>1, <1>2, <1>3, <4>1
      <4> QED  BY <1>4, <4>1, <4>2 DEF Meets
    <3>2. CASE need.id \notin Seen
      <4>1. ~(need.id \in DOMAIN supplied /\ supplied[need.id] \in need.accepts)
        BY <1>7, <3>2 DEF HostFault
      <4> QED  BY <1>4, <4>1 DEF Meets
    <3> QED  BY <3>1, <3>2
  <2>4. ~HostFits
    BY <1>1, <1>2, <1>3, <2>3, FitsWhenMet
  <2> QED  BY <1>1, <2>1, <2>2, <2>4, HostRefused
<1> QED  BY <1>6, <1>7

\* The instances are collected once every plugin's requirements are met.
LEMMA AssembleStep == BuilderInv /\ Assemble => BuilderInv'
<1> SUFFICES ASSUME BuilderInv, Assemble PROVE BuilderInv'
  OBVIOUS
<1>1. /\ app = "hosts" /\ plugin > Len(spec.hosts) /\ UNCHANGED allVars
      /\ instances' = Collected /\ app' = "returned" /\ answer' = "Ok"
      /\ plugin' = plugin /\ index' = index /\ supplied' = supplied
      /\ spec \in Specs /\ plugin \in Nat /\ Succeeded /\ Negotiated
  BY DEF Assemble, BuilderInv, AppInv, RInv, PhaseInv
<1>2. /\ RInv' /\ DeliversGraph' /\ spec' = spec /\ (Succeeded' <=> Succeeded)
      /\ Resolvable' <=> Resolvable
  BY <1>1, ResolverStands DEF BuilderInv
<1>3. /\ Len(spec.hosts) \in Nat /\ plugin - 1 \in 0..Len(spec.hosts)
      /\ SuppliedUpTo(Len(spec.supplied))
      /\ \A p \in 1..(plugin - 1) : Meets(p, Len(spec.hosts[p]))
  BY <1>1, HostFacts DEF Negotiated
<1>4. HostFits
  <2>1. plugin - 1 = Len(spec.hosts)
    BY <1>1, <1>3
  <2> QED  BY <1>1, <1>3, <2>1, FitsWhenMet
<1>5. Resolvable
  BY <1>1 DEF Succeeded, BuilderInv, RInv, AnswerInv, ResolvesExactly
<1>6. HostFits'
  BY <1>1, <1>2, <1>4, SameNegotiation
<1>7. \A i, j \in 1..Len(spec.plugins) : spec.plugins[i].id = spec.plugins[j].id => i = j
  BY <1>1, <1>5, NamesCounted DEF Resolvable, NoRepetition
<1>8. DOMAIN instances' = Ordered'
  <2>1. Ordered' = Names(Descriptors)' /\ Descriptors' = Descriptors
    BY <1>1, <1>2, SameComposition DEF DeliversGraph
  <2>2. DOMAIN Collected = Names(Descriptors)
    BY DEF Collected, Names, Descriptors
  <2> QED  BY <1>1, <2>1, <2>2 DEF Names
<1>9. ASSUME NEW i \in 1..Len(spec.plugins) PROVE Collected[spec.plugins[i].id] = i
  <2> DEFINE p == spec.plugins[i].id
             Last(k) == spec.plugins[k].id = p /\ \A j \in (k + 1)..Len(spec.plugins) : spec.plugins[j].id # p
  <2>1. Len(spec.plugins) \in Nat
    BY <1>1, CompositionFacts
  <2>2. Last(i)
    BY <1>7, <2>1
  <2>3. \A k \in 1..Len(spec.plugins) : Last(k) => k = i
    BY <1>7
  <2>4. Collected[p] = CHOOSE k \in 1..Len(spec.plugins) : Last(k)
    BY DEF Collected
  <2> QED  BY <2>2, <2>3, <2>4
<1>10. AppResolvesExactly'
  BY <1>1, <1>2, <1>5, <1>6, <1>8, <1>9 DEF AppResolvesExactly
<1>11. AppInv'
  BY <1>1, <1>2, <1>10 DEF AppInv, AppPhases, BuilderInv
<1> QED  BY <1>2, <1>11 DEF BuilderInv

\* The steps between the loops.
LEMMA PassingStep ==
    BuilderInv /\ (BuilderResolves \/ GraphRefused \/ GraphResolved \/ AllSupplied \/ NextPlugin)
        => BuilderInv'
<1> SUFFICES ASSUME BuilderInv,
                    BuilderResolves \/ GraphRefused \/ GraphResolved \/ AllSupplied \/ NextPlugin
             PROVE  BuilderInv'
  OBVIOUS
<1>1. CASE BuilderResolves
  <2>1. app = "resolving" /\ UNCHANGED appVars /\ [ResolveNext \/ Done]_allVars
    BY <1>1 DEF BuilderResolves
  <2>2. RInv' /\ DeliversGraph'
    BY <2>1, NextRInv, NextDelivers DEF BuilderInv
  <2>3. AppInv'
    BY <2>1 DEF AppInv, BuilderInv, appVars, AppResolvesExactly, Empty
  <2> QED  BY <2>2, <2>3 DEF BuilderInv
<1>2. CASE GraphRefused
  <2>1. /\ app' = "returned" /\ answer' # "Ok" /\ plugin' = plugin /\ index' = index
        /\ phase = "returned" /\ outcome.tag # "Ok" /\ UNCHANGED allVars
    BY <1>2 DEF GraphRefused
  <2>2. RInv' /\ DeliversGraph' /\ (Resolvable' <=> Resolvable)
    BY <2>1, ResolverStands DEF BuilderInv
  <2>3. ~Resolvable
    BY <2>1 DEF BuilderInv, RInv, AnswerInv, ResolvesExactly
  <2>4. AppInv'
    BY <2>1, <2>2, <2>3 DEF AppInv, AppPhases, BuilderInv, AppResolvesExactly
  <2> QED  BY <2>2, <2>4 DEF BuilderInv
<1>3. CASE GraphResolved
  <2>1. /\ app = "resolving" /\ app' = "supplied" /\ Succeeded /\ UNCHANGED allVars
        /\ UNCHANGED <<plugin, index, supplied, answer>>
    BY <1>3 DEF GraphResolved, Succeeded
  <2>2. RInv' /\ DeliversGraph' /\ Succeeded' /\ spec' = spec
    BY <2>1, ResolverStands DEF BuilderInv
  <2>3. spec \in Specs /\ plugin = 1 /\ index = 1 /\ supplied = Empty
    BY <2>1 DEF BuilderInv, AppInv, RInv, PhaseInv
  <2>4. index' - 1 = 0 /\ 0 \in 0..Len(spec'.supplied) /\ 1..0 = {}
    BY <2>1, <2>2, <2>3, HostFacts
  <2>5. DOMAIN supplied' = {}
    BY <2>1, <2>3 DEF Empty
  <2>6. SuppliedUpTo(index - 1)'
    BY <2>4, <2>5 DEF SuppliedUpTo
  <2>7. AppInv'
    BY <2>1, <2>2, <2>3, <2>4, <2>6 DEF AppInv, AppPhases, AppResolvesExactly
  <2> QED  BY <2>2, <2>7 DEF BuilderInv
<1>4. CASE AllSupplied
  <2>1. /\ app = "supplied" /\ app' = "hosts" /\ index' = 1 /\ index > Len(spec.supplied)
        /\ UNCHANGED allVars /\ UNCHANGED <<plugin, supplied, answer>>
        /\ spec \in Specs /\ Succeeded /\ plugin = 1 /\ index \in Nat
        /\ index - 1 \in 0..Len(spec.supplied) /\ SuppliedUpTo(index - 1)
    BY <1>4 DEF AllSupplied, BuilderInv, AppInv, RInv, PhaseInv
  <2>2. RInv' /\ DeliversGraph' /\ Succeeded' /\ spec' = spec
    BY <2>1, ResolverStands DEF BuilderInv
  <2>3. /\ Len(spec.supplied) \in Nat /\ Len(spec.hosts) \in Nat
        /\ \A p \in 1..Len(spec.hosts) : Len(spec.hosts[p]) \in Nat
    BY <2>1, HostFacts
  <2>4. index - 1 = Len(spec.supplied)
    BY <2>1, <2>3
  <2>5. SuppliedUpTo(Len(spec.supplied))'
    BY <2>1, <2>2, <2>4, SameNegotiation
  <2>6. Negotiated'
    <3>1. plugin' = 1 /\ plugin' - 1 = 0 /\ index' - 1 = 0 /\ 1..0 = {}
      BY <2>1
    <3>2. plugin' - 1 \in 0..Len(spec'.hosts)
      BY <2>2, <2>3, <3>1
    <3>3. plugin' <= Len(spec'.hosts) => index' - 1 \in 0..Len(spec'.hosts[plugin'])
      BY <2>2, <2>3, <3>1
    <3>4. Meets(plugin, index - 1)'
      BY <3>1 DEF Meets
    <3> QED  BY <2>5, <3>1, <3>2, <3>3, <3>4 DEF Negotiated
  <2>7. AppInv'
    BY <2>1, <2>2, <2>6 DEF AppInv, AppPhases, AppResolvesExactly
  <2> QED  BY <2>2, <2>7 DEF BuilderInv
<1>5. CASE NextPlugin
  <2>1. /\ app = "hosts" /\ app' = app /\ index' = 1 /\ plugin' = plugin + 1
        /\ plugin <= Len(spec.hosts) /\ index > Len(spec.hosts[plugin])
        /\ UNCHANGED allVars /\ UNCHANGED <<supplied, answer>>
        /\ spec \in Specs /\ Succeeded /\ plugin \in Nat /\ index \in Nat /\ Negotiated
    BY <1>5 DEF NextPlugin, BuilderInv, AppInv, RInv, PhaseInv
  <2>2. RInv' /\ DeliversGraph' /\ Succeeded' /\ spec' = spec
    BY <2>1, ResolverStands DEF BuilderInv
  <2>3. /\ Len(spec.hosts) \in Nat /\ plugin - 1 \in 0..Len(spec.hosts)
        /\ SuppliedUpTo(Len(spec.supplied))
        /\ \A p \in 1..(plugin - 1) : Meets(p, Len(spec.hosts[p]))
        /\ index - 1 \in 0..Len(spec.hosts[plugin]) /\ Meets(plugin, index - 1)
    BY <2>1, HostFacts DEF Negotiated
  <2>4. plugin \in 1..Len(spec.hosts) /\ Len(spec.hosts[plugin]) \in Nat
    BY <2>1, <2>3, HostFacts
  <2>5. index - 1 = Len(spec.hosts[plugin])
    BY <2>1, <2>3, <2>4
  <2>6. \A p \in 1..plugin : Meets(p, Len(spec.hosts[p]))
    <3>1. 1..plugin = (1..(plugin - 1)) \cup {plugin}
      BY <2>1, <2>3
    <3>2. Meets(plugin, Len(spec.hosts[plugin]))
      BY <2>3, <2>5
    <3> QED  BY <2>3, <3>1, <3>2
  <2>7. Negotiated'
    <3>1. SuppliedUpTo(Len(spec.supplied))' /\ \A p, k : Meets(p, k)' <=> Meets(p, k)
      BY <2>1, <2>2, <2>3, SameNegotiation
    <3>2. plugin' - 1 = plugin /\ index' - 1 = 0 /\ 1..0 = {}
      BY <2>1
    <3>3. \A p \in 1..(plugin' - 1) : Meets(p, Len(spec.hosts[p]))'
      BY <2>2, <2>6, <3>1, <3>2
    <3>4. plugin' - 1 \in 0..Len(spec'.hosts)
      BY <2>2, <2>4, <3>2
    <3>5. plugin' <= Len(spec'.hosts) => index' - 1 \in 0..Len(spec'.hosts[plugin'])
      <4>1. plugin' \in Nat \ {0}
        BY <2>1
      <4>2. plugin' <= Len(spec.hosts) => Len(spec.hosts[plugin']) \in Nat
        BY <2>1, <2>3, <4>1, HostFacts
      <4> QED  BY <2>2, <3>2, <4>2
    <3>6. Meets(plugin, index - 1)'
      BY <3>2 DEF Meets
    <3> QED  BY <3>1, <3>3, <3>4, <3>5, <3>6 DEF Negotiated
  <2>8. AppInv'
    BY <2>1, <2>2, <2>7 DEF AppInv, AppPhases, AppResolvesExactly
  <2> QED  BY <2>2, <2>8 DEF BuilderInv
<1> QED  BY <1>1, <1>2, <1>3, <1>4, <1>5

\* Every step of the builder keeps the invariant.
LEMMA NextBuilderInv == BuilderInv /\ [AppNext \/ AppDone]_<<appVars, allVars>> => BuilderInv'
<1> SUFFICES ASSUME BuilderInv, [AppNext \/ AppDone]_<<appVars, allVars>> PROVE BuilderInv'
  OBVIOUS
<1>1. CASE AppNext
  BY <1>1, SupplyStep, NegotiateStep, AssembleStep, PassingStep DEF AppNext
<1>2. CASE UNCHANGED <<appVars, allVars>>
  <2>1. UNCHANGED appVars /\ UNCHANGED allVars
    BY <1>2
  <2>2. RInv' /\ DeliversGraph' /\ spec' = spec /\ (Succeeded' <=> Succeeded) /\ (Resolvable' <=> Resolvable)
    BY <2>1, ResolverStands DEF BuilderInv
  <2>3. UNCHANGED <<app, plugin, index, supplied, instances, answer, order>>
    BY <2>1 DEF appVars, allVars, sortVars
  <2>4. /\ \A k : SuppliedUpTo(k)' <=> SuppliedUpTo(k)
        /\ \A p, k : Meets(p, k)' <=> Meets(p, k)
        /\ HostFits' <=> HostFits
    BY <2>2, <2>3, SameNegotiation
  <2>5. Negotiated' <=> Negotiated
    BY <2>2, <2>3 DEF Negotiated, SuppliedUpTo, Meets
  <2>6. AppResolvesExactly' <=> AppResolvesExactly
    BY <2>2, <2>3, <2>4 DEF AppResolvesExactly, Ordered
  <2>7. SuppliedUpTo(index - 1)' <=> SuppliedUpTo(index - 1)
    BY <2>2, <2>3 DEF SuppliedUpTo
  <2>8. AppInv'
    BY <2>2, <2>3, <2>5, <2>6, <2>7 DEF AppInv, BuilderInv
  <2> QED  BY <2>2, <2>8 DEF BuilderInv
<1> QED  BY <1>1, <1>2 DEF AppDone

\* The builder starts with nothing resolved and nothing negotiated.
LEMMA InitBuilderInv == AppInit => BuilderInv
<1> SUFFICES ASSUME AppInit PROVE BuilderInv
  OBVIOUS
<1>1. RInv /\ DeliversGraph
  BY InitRInv DEF AppInit, Init, DeliversGraph, Succeeded
<1>2. AppInv
  BY DEF AppInit, AppInv, AppPhases, AppResolvesExactly
<1> QED  BY <1>1, <1>2 DEF BuilderInv

-----------------------------------------------------------------------------
\* For every composition and every host, AppBuilder::resolve succeeds exactly
\* when the graph resolves and the host supplies what every plugin requires of
\* it, and then each declared instance is the one at its place in the order.
THEOREM ApplicationResolvesExactly == AppSpec => []AppResolvesExactly
<1>1. AppInit => BuilderInv
  BY InitBuilderInv
<1>2. BuilderInv /\ [AppNext \/ AppDone]_<<appVars, allVars>> => BuilderInv'
  BY NextBuilderInv
<1>3. BuilderInv => AppResolvesExactly
  BY DEF BuilderInv, AppInv
<1> QED  BY <1>1, <1>2, <1>3, PTL DEF AppSpec

-----------------------------------------------------------------------------
(* Initialization *)

\* The graph of the run is resolved before the first hook; the plugins before
\* the current one have published what they offer; and what the last call of the
\* current hook returned is what it would return now.
InitializationInv ==
    /\ boot \in {"building", "initializing", "failed", "done"}
    /\ boot \in {"initializing", "done"} => Succeeded
    /\ boot = "initializing" => turn \in 1..(Len(order) + 1)
    /\ DOMAIN registry = Ids
    /\ boot = "building" => turn = 1
    /\ boot = "initializing" => \A i \in 1..Len(order) : i < turn =>
         DOMAIN plugins[order[i]].provides \subseteq DOMAIN registry[order[i]]

LastCallInv ==
    \/ access = << >>
    \/ /\ Initializing
       /\ \E mode \in Modes, capability \in Links, marker \in Markers :
            access = <<[consumer |-> Self, mode |-> mode, capability |-> capability,
                        marker |-> marker, result |-> Result(mode, capability, marker)]>>

AccessInv == BuilderInv /\ GraphInv /\ InitializationInv /\ LastCallInv

\* A set of identities that is not empty has a least one.
LEMMA LeastExists ==
    ASSUME NEW S \in SUBSET Nat, S # {}
    PROVE  \E x \in S : IsLeast(x, S)
<1> DEFINE R == {x \in Nat \X Nat : x[1] < x[2]}
<1>1. IsWellFoundedOn(R, Nat)
  BY NatLessThanWellFounded DEF OpToRel
<1>2. PICK x \in S : \A y \in S : ~(<<y, x>> \in R)
  <2> HIDE DEF R
  <2> QED  BY <1>1, WFMin
<1>3. \A y \in S : ~(y < x)
  BY <1>2
<1> QED  BY <1>3 DEF IsLeast

\* What the executor relies on, of the resolver's own variables.
LEMMA WalkFacts ==
    ASSUME FitsLifecycle, Known \subseteq Ids
    PROVE  /\ order \in Seq(Ids)
           /\ \A i, j \in 1..Len(order) : order[i] = order[j] => i = j
           /\ \A e \in edges :
                /\ e.provider \in Known => e.capability \in DOMAIN plugins[e.provider].provides
                /\ \E i, j \in 1..Len(order) : i < j /\ order[i] = e.provider /\ order[j] = e.consumer
<1> DEFINE offers == [p \in Ids |-> IF p \in Known THEN plugins[p].provides ELSE Empty]
           g == [order |-> order, offers |-> offers, edges |-> edges]
<1>1. Runtime!IsResolvedGraph(g)
  BY DEF FitsLifecycle
<1>2. g.order = order /\ g.offers = offers /\ g.edges = edges
  OBVIOUS
<1> HIDE DEF g
<1>3. /\ order \in Seq(Ids)
      /\ \A i, j \in 1..Len(order) : order[i] = order[j] => i = j
      /\ \A e \in edges :
           /\ e.capability \in DOMAIN offers[e.provider]
           /\ \E i, j \in 1..Len(order) : i < j /\ order[i] = e.provider /\ order[j] = e.consumer
  <2> HIDE DEF offers
  <2> QED  BY <1>1, <1>2 DEF Runtime!IsResolvedGraph
<1> QED  BY <1>3

\* The plugin whose hook runs, and what it has to wait for.
LEMMA SelfFacts ==
    ASSUME AccessInv, Initializing
    PROVE  /\ spec \in Specs /\ Succeeded /\ Listed /\ Settled
           /\ Self \in Known /\ Known \subseteq Ids /\ turn \in 1..Len(order)
           /\ \A e \in edges : e.consumer = Self =>
                /\ e.provider \in Known /\ e.capability \in DOMAIN plugins[e.provider].provides
                /\ \E i \in 1..Len(order) : i < turn /\ order[i] = e.provider
<1>1. spec \in Specs /\ Succeeded /\ Listed /\ Settled /\ DeliversGraph
  BY DEF AccessInv, BuilderInv, InitializationInv, Initializing, GraphInv, RInv, PhaseInv
<1>2. Ordered = Names(Descriptors) /\ FitsLifecycle
  BY <1>1 DEF DeliversGraph
<1>3. Known = Names(Descriptors) /\ Known \subseteq Ids
  BY <1>1, KnownFacts DEF Settled
<1>4. /\ order \in Seq(Ids)
      /\ \A i, j \in 1..Len(order) : order[i] = order[j] => i = j
      /\ \A e \in edges :
           /\ e.provider \in Known => e.capability \in DOMAIN plugins[e.provider].provides
           /\ \E i, j \in 1..Len(order) : i < j /\ order[i] = e.provider /\ order[j] = e.consumer
  BY <1>2, <1>3, WalkFacts
<1>5. turn \in 1..Len(order)
  <2>1. Len(order) \in Nat
    BY <1>4
  <2> QED  BY <2>1 DEF AccessInv, InitializationInv, Initializing
<1>6. Self \in Known
  BY <1>2, <1>3, <1>5 DEF Self, Ordered
<1>7. ASSUME NEW e \in edges, e.consumer = Self
      PROVE  /\ e.provider \in Known /\ e.capability \in DOMAIN plugins[e.provider].provides
             /\ \E i \in 1..Len(order) : i < turn /\ order[i] = e.provider
  <2>1. PICK i, j \in 1..Len(order) : i < j /\ order[i] = e.provider /\ order[j] = e.consumer
    BY <1>4
  <2>2. j = turn
    BY <1>4, <1>5, <1>7, <2>1 DEF Self
  <2>3. e.provider \in Known
    BY <1>2, <1>3, <2>1 DEF Ordered
  <2>4. e.capability \in DOMAIN plugins[e.provider].provides
    BY <1>4, <1>3, <2>3
  <2> QED  BY <2>1, <2>2, <2>3, <2>4
<1> QED  BY <1>1, <1>3, <1>5, <1>6, <1>7

\* Every provider that the current plugin's requirement selects has published it.
LEMMA Published ==
    ASSUME AccessInv, Initializing, NEW capability \in Links, <<Self, capability>> \in Required,
           NEW p \in Selection(<<Self, capability>>)
    PROVE  p \in Known /\ capability \in DOMAIN registry[p]
<1> DEFINE key == <<Self, capability>>
           e == [provider |-> p, consumer |-> Self, capability |-> capability]
<1>1. spec \in Specs /\ Settled /\ Self \in Known /\ Known \subseteq Ids
  BY SelfFacts
<1>2. p \in Known
  BY <1>1, SelectionIsChosen DEF Settled
<1>3. e \in Edge /\ e.provider = p /\ e.consumer = Self /\ e.capability = capability
  BY <1>1, <1>2 DEF Edge
<1> HIDE DEF e
<1>4. e \in edges
  BY <1>1, <1>3, ExpectedEdgeFacts DEF Settled
<1>5. /\ capability \in DOMAIN plugins[p].provides
      /\ \E i \in 1..Len(order) : i < turn /\ order[i] = p
  BY <1>3, <1>4, SelfFacts
<1>6. \A i \in 1..Len(order) : i < turn => DOMAIN plugins[order[i]].provides \subseteq DOMAIN registry[order[i]]
  BY DEF AccessInv, InitializationInv, Initializing
<1> QED  BY <1>2, <1>5, <1>6

\* A requirement that asks for at most one provider has at most one.
LEMMA AtMostOne ==
    ASSUME spec \in Specs, Settled, NEW key \in Required
    PROVE  LET S == Selection(key)
               c == RequirementOf(key).cardinality
           IN  /\ S \in SUBSET Nat
               /\ c = "ExactlyOne" => S # {}
               /\ IsBindable(c) => \A p, q \in S : p = q
<1> DEFINE S == Selection(key)
           c == RequirementOf(key).cardinality
<1>1. /\ S = Chosen(Descriptors, Bindings, key) /\ S \subseteq Known /\ Known \subseteq Ids
      /\ Need(Descriptors, key) = RequirementOf(key) /\ key \in Needs(Descriptors)
      /\ c \in Cardinalities
  BY SelectionIsChosen, KnownFacts, RequiredFacts DEF Settled, Requirement
<1>2. Satisfiable(Descriptors, Bindings)
  BY SatisfiableFacts DEF Settled
<1>3. Cardinality(S) \in Permitted(c)
  BY <1>1, <1>2 DEF Satisfiable
<1>4. IsFiniteSet(S) /\ S \in SUBSET Nat
  BY <1>1, IdsAssumption, FS_Subset
<1> HIDE DEF S
<1>5. Cardinality(S) \in Nat /\ (Cardinality(S) = 0 <=> S = {})
  BY <1>4, FS_EmptySet, FS_CardinalityType
<1>6. (Cardinality(S) = 0 => PermitsZero(c)) /\ (Cardinality(S) > 1 => ~IsBindable(c))
  <2> HIDE DEF c
  <2> QED  BY <1>1, <1>3, <1>5, PermittedFacts
<1>7. c = "ExactlyOne" => S # {}
  BY <1>5, <1>6 DEF PermitsZero
<1>8. ASSUME IsBindable(c), NEW p \in S, NEW q \in S PROVE p = q
  <2>1. Cardinality(S) <= 1
    BY <1>5, <1>6, <1>8
  <2>2. Cardinality(S) = 1
    BY <1>5, <1>8, <2>1
  <2>3. PICK x : S = {x}
    BY <1>4, <2>2, FS_Singleton
  <2> QED  BY <1>8, <2>3
<1>9. S \in SUBSET Nat /\ (c = "ExactlyOne" => S # {}) /\ (IsBindable(c) => \A p, q \in S : p = q)
  BY <1>4, <1>7, <1>8
<1> QED  BY <1>9 DEF S

\* What AccessIsExact says of one call.
Due(mode, capability, marker) ==
    LET key == <<Self, capability>>
        due == Chosen(Descriptors, Bindings, key)
        agree == {p \in due : capability \in DOMAIN registry[p] /\ registry[p][capability].marker = marker}
    IN  IF key \notin Needs(Descriptors) THEN [tag |-> "Undeclared", handles |-> {}]
        ELSE IF Need(Descriptors, key).cardinality \notin Admits(mode)
        THEN [tag |-> "CardinalityMismatch", handles |-> {}]
        ELSE IF agree # due THEN [tag |-> "TypeMismatch", handles |-> {}]
        ELSE [tag |-> "Ok", handles |-> due]

\* Registry::get for providers that have all published the capability.
LEMMA FetchFacts ==
    ASSUME NEW S \in SUBSET Nat, NEW capability, NEW marker, \A p \in S : capability \in DOMAIN registry[p]
    PROVE  LET agree == {p \in S : capability \in DOMAIN registry[p] /\ registry[p][capability].marker = marker}
           IN  Fetch(S, capability, marker) =
                 IF agree # S THEN [tag |-> "TypeMismatch", handles |-> {}] ELSE [tag |-> "Ok", handles |-> S]
<1> DEFINE agree == {p \in S : capability \in DOMAIN registry[p] /\ registry[p][capability].marker = marker}
           Got(p) == Provisions!Get(registry, p, capability, marker)
           failed == {p \in S : Got(p) # "Ok"}
           first == CHOOSE p \in failed : IsLeast(p, failed)
<1>1. \A p \in S : /\ p \in agree => Got(p) = "Ok"
                   /\ p \notin agree => Got(p) = "TypeMismatch"
  BY DEF Provisions!Get
<1>2. failed = {} <=> agree = S
  <2> HIDE DEF Got
  <2>1. \A p \in S : p \in failed <=> p \notin agree
    BY <1>1
  <2>2. agree \subseteq S /\ failed \subseteq S
    OBVIOUS
  <2> HIDE DEF agree, failed
  <2> QED  BY <2>1, <2>2
<1>3. failed # {} => Got(first) = "TypeMismatch"
  <2> SUFFICES ASSUME failed # {} PROVE Got(first) = "TypeMismatch"
    OBVIOUS
  <2>1. failed \in SUBSET Nat
    OBVIOUS
  <2>2. \E x \in failed : IsLeast(x, failed)
    <3> HIDE DEF failed
    <3> QED  BY <2>1, LeastExists
  <2>3. first \in failed
    <3> HIDE DEF failed
    <3> QED  BY <2>2
  <2> HIDE DEF first, Got
  <2> QED  BY <1>1, <2>3
<1>4. Fetch(S, capability, marker) =
        IF failed = {} THEN [tag |-> "Ok", handles |-> S] ELSE [tag |-> Got(first), handles |-> {}]
  BY DEF Fetch
<1> HIDE DEF failed, first, Got
<1>5. Fetch(S, capability, marker) =
        IF agree # S THEN [tag |-> "TypeMismatch", handles |-> {}] ELSE [tag |-> "Ok", handles |-> S]
  BY <1>2, <1>3, <1>4
<1> QED  BY <1>5

\* A call returns what is due.
LEMMA ResultIsDue ==
    ASSUME AccessInv, Initializing, NEW mode \in Modes, NEW capability \in Links, NEW marker
    PROVE  Result(mode, capability, marker) = Due(mode, capability, marker)
<1> DEFINE key == <<Self, capability>>
           S == Selection(key)
           found == Lookup(key)
           r == requirements[found]
<1>1. spec \in Specs /\ Listed /\ Settled /\ Self \in Known /\ Known \subseteq Ids /\ todo = {}
  BY SelfFacts DEF Settled
<1>2. key \in Ids \X Links
  BY <1>1
<1>3. Required = Needs(Descriptors)
  BY <1>1, RequiredFacts DEF Settled
<1>4. CASE key \notin Required
  <2>1. found = 0
    <3> HIDE DEF key
    <3> QED  BY <1>1, <1>2, <1>4, LookupFacts
  <2> QED  BY <1>3, <1>4, <2>1 DEF Result, Due
<1>5. CASE key \in Required
  <2>1. found \in 1..Len(requirements) /\ r.cardinality = RequirementOf(key).cardinality /\ r.providers = S
    <3> HIDE DEF key
    <3> QED  BY <1>1, <1>2, <1>5, LookupFacts
  <2>2. found # 0
    <3>1. Len(requirements) \in Nat
      BY <1>1, EntryFacts
    <3> HIDE DEF found
    <3> QED  BY <2>1, <3>1
  <2>3. Chosen(Descriptors, Bindings, key) = S /\ Need(Descriptors, key) = RequirementOf(key)
    <3> HIDE DEF key
    <3> QED  BY <1>1, <1>5, SelectionIsChosen, RequiredFacts DEF Settled
  <2> DEFINE c == RequirementOf(key).cardinality
  <2>4. S \in SUBSET Nat /\ (c = "ExactlyOne" => S # {}) /\ (IsBindable(c) => \A p, q \in S : p = q)
    <3> HIDE DEF key
    <3> QED  BY <1>1, <1>5, AtMostOne
  <2>5. \A p \in S : capability \in DOMAIN registry[p]
    BY <1>5, Published
  <2> HIDE DEF S, c
  <2>6. ASSUME c \in Admits(mode) PROVE Asked(mode, S) = S /\ ~(mode = "require" /\ S = {})
    <3>1. CASE mode = "all"
      BY <3>1 DEF Asked
    <3>2. CASE mode = "require"
      <4>1. c = "ExactlyOne"
        BY <2>6, <3>2 DEF Admits
      <4>2. \A p \in S : IsLeast(p, S)
        BY <2>4, <4>1 DEF IsLeast, IsBindable
      <4> QED  BY <2>4, <3>2, <4>1, <4>2 DEF Asked
    <3>3. CASE mode = "optional"
      <4>1. c = "ZeroOrOne"
        BY <2>6, <3>3 DEF Admits
      <4>2. \A p \in S : IsLeast(p, S)
        BY <2>4, <4>1 DEF IsLeast, IsBindable
      <4> QED  BY <3>3, <4>2 DEF Asked
    <3> QED  BY <3>1, <3>2, <3>3 DEF Modes
  <2> DEFINE agree == {p \in S : capability \in DOMAIN registry[p] /\ registry[p][capability].marker = marker}
  <2>7. Fetch(S, capability, marker) =
          IF agree # S THEN [tag |-> "TypeMismatch", handles |-> {}] ELSE [tag |-> "Ok", handles |-> S]
    BY <2>4, <2>5, FetchFacts
  <2>8. Result(mode, capability, marker) =
          IF c \notin Admits(mode) THEN [tag |-> "CardinalityMismatch", handles |-> {}]
          ELSE Fetch(S, capability, marker)
    <3>1. Result(mode, capability, marker) =
            IF found = 0 THEN [tag |-> "Undeclared", handles |-> {}]
            ELSE IF r.cardinality \notin Admits(mode) THEN [tag |-> "CardinalityMismatch", handles |-> {}]
            ELSE IF mode = "require" /\ r.providers = {} THEN [tag |-> "Panic", handles |-> {}]
            ELSE Fetch(Asked(mode, r.providers), capability, marker)
      BY DEF Result
    <3>2. r.cardinality = c
      BY <2>1 DEF c
    <3> HIDE DEF found, r
    <3> QED  BY <2>1, <2>2, <2>6, <3>1, <3>2
  <2>9. Due(mode, capability, marker) =
          IF c \notin Admits(mode) THEN [tag |-> "CardinalityMismatch", handles |-> {}]
          ELSE IF agree # S THEN [tag |-> "TypeMismatch", handles |-> {}]
          ELSE [tag |-> "Ok", handles |-> S]
    BY <1>3, <1>5, <2>3 DEF Due, c
  <2> HIDE DEF agree
  <2> QED  BY <2>7, <2>8, <2>9
<1> QED  BY <1>4, <1>5

\* A step of the builder leaves initialization alone, and the graph settled.
LEMMA BuildStep == AccessInv /\ Build => AccessInv'
<1> SUFFICES ASSUME AccessInv, Build PROVE AccessInv'
  OBVIOUS
<1>1. boot = "building" /\ AppNext /\ UNCHANGED <<boot, turn, registry, access>>
  BY DEF Build, accessVars
<1>2. BuilderInv'
  BY <1>1, NextBuilderInv DEF AccessInv
<1>3. GraphInv'
  <2>1. [ResolveNext \/ Done]_allVars
    BY <1>1 DEF AppNext, BuilderResolves, GraphRefused, GraphResolved, Supply, AllSupplied, Negotiate, NextPlugin, Assemble
  <2> QED  BY <2>1, NextGraphInv DEF AccessInv, BuilderInv
<1>4. InitializationInv'
  BY <1>1 DEF AccessInv, InitializationInv
<1>5. access = << >>
  BY <1>1 DEF AccessInv, LastCallInv, Initializing
<1> QED  BY <1>1, <1>2, <1>3, <1>4, <1>5 DEF AccessInv, LastCallInv

\* Nothing of the application is resolved again while plugins initialize.
LEMMA ApplicationStands ==
    ASSUME AccessInv, UNCHANGED appVars, UNCHANGED allVars
    PROVE  /\ BuilderInv' /\ GraphInv' /\ (Succeeded' <=> Succeeded)
           /\ order' = order /\ plugins' = plugins /\ requirements' = requirements
<1>1. BuilderInv'
  BY NextBuilderInv DEF AccessInv, AppDone
<1>2. GraphInv'
  BY NextGraphInv DEF AccessInv, BuilderInv
<1> QED  BY <1>1, <1>2 DEF allVars, resolveVars, sortVars, Succeeded

\* Initialization starts with an application that has resolved.
LEMMA BeginStep == AccessInv /\ BeginInitialize => AccessInv'
<1> SUFFICES ASSUME AccessInv, BeginInitialize PROVE AccessInv'
  OBVIOUS
<1>1. /\ boot = "building" /\ app = "returned" /\ UNCHANGED <<turn, registry, access>>
      /\ boot' = IF answer = "Ok" THEN "initializing" ELSE "failed"
      /\ UNCHANGED appVars /\ UNCHANGED allVars
  BY DEF BeginInitialize
<1>2. BuilderInv' /\ GraphInv' /\ (Succeeded' <=> Succeeded) /\ order' = order
  BY <1>1, ApplicationStands
<1>3. answer = "Ok" => Succeeded
  BY <1>1 DEF AccessInv, BuilderInv, AppInv
<1>4. access = << >>
  BY <1>1 DEF AccessInv, LastCallInv, Initializing
<1>5. turn = 1 /\ DOMAIN registry = Ids
  BY <1>1 DEF AccessInv, InitializationInv
<1>6. Succeeded => Len(order) \in Nat
  BY DEF AccessInv, BuilderInv, DeliversGraph, FitsLifecycle, Runtime!IsResolvedGraph
<1>7. InitializationInv'
  <2>1. boot' = "initializing" => turn' \in 1..(Len(order') + 1)
    BY <1>1, <1>2, <1>3, <1>5, <1>6
  <2>2. boot' = "initializing" => \A i \in 1..Len(order') : ~(i < turn')
    BY <1>1, <1>2, <1>3, <1>5, <1>6
  <2> QED  BY <1>1, <1>2, <1>3, <1>5, <2>1, <2>2 DEF InitializationInv
<1> QED  BY <1>1, <1>2, <1>4, <1>7 DEF AccessInv, LastCallInv

\* A call changes nothing but what it returns.
LEMMA AccessStep ==
    ASSUME AccessInv, NEW mode \in Modes, NEW capability \in Links, NEW marker \in Markers,
           Access(mode, capability, marker)
    PROVE  AccessInv'
<1>1. /\ Initializing /\ UNCHANGED <<boot, turn, registry>> /\ UNCHANGED appVars /\ UNCHANGED allVars
      /\ access' = <<[consumer |-> Self, mode |-> mode, capability |-> capability,
                      marker |-> marker, result |-> Result(mode, capability, marker)]>>
  BY DEF Access
<1>2. /\ BuilderInv' /\ GraphInv' /\ (Succeeded' <=> Succeeded) /\ order' = order
      /\ plugins' = plugins /\ requirements' = requirements
  BY <1>1, ApplicationStands
<1>3. InitializationInv'
  BY <1>1, <1>2 DEF AccessInv, InitializationInv
<1>4. Initializing' /\ Self' = Self
  BY <1>1, <1>2 DEF Initializing, Self
<1>5. \A m, c, k : Result(m, c, k)' = Result(m, c, k)
  <2>1. \A k : Lookup(k)' = Lookup(k)
    BY <1>2 DEF Lookup
  <2>2. \A S, c, k : Fetch(S, c, k)' = Fetch(S, c, k)
    BY <1>1 DEF Fetch
  <2> QED  BY <1>2, <1>4, <2>1, <2>2 DEF Result
<1>6. LastCallInv'
  BY <1>1, <1>4, <1>5 DEF LastCallInv
<1> QED  BY <1>2, <1>3, <1>6 DEF AccessInv

\* The end of a hook: what it staged is committed, or initialization fails.
LEMMA CommitStep ==
    ASSUME AccessInv, NEW staged, Commit(staged)
    PROVE  AccessInv'
<1>1. Initializing /\ access' = << >> /\ UNCHANGED appVars /\ UNCHANGED allVars
  BY DEF Commit
<1>2. /\ BuilderInv' /\ GraphInv' /\ (Succeeded' <=> Succeeded) /\ order' = order /\ plugins' = plugins
  BY <1>1, ApplicationStands
<1>3. /\ Self \in Known /\ Known \subseteq Ids /\ turn \in 1..Len(order) /\ Succeeded
  BY <1>1, SelfFacts
<1>4. Len(order) \in Nat
  BY <1>3 DEF AccessInv, BuilderInv, DeliversGraph, FitsLifecycle, Runtime!IsResolvedGraph
<1>5. CASE Provisions!CommitErrors(plugins[Self].provides, staged) = {}
  <2>1. /\ registry' = [registry EXCEPT ![Self] = Provisions!Insert(@, staged)]
        /\ turn' = turn + 1 /\ boot' = boot
    BY <1>5 DEF Commit
  <2>2. DOMAIN registry = Ids
    BY DEF AccessInv, InitializationInv
  <2>3. DOMAIN plugins[Self].provides \subseteq DOMAIN staged
    BY <1>5 DEF Provisions!CommitErrors, Provisions!Missing
  <2>4. /\ DOMAIN registry' = Ids
        /\ DOMAIN registry'[Self] = DOMAIN registry[Self] \cup DOMAIN staged
        /\ \A p \in Ids : p # Self => registry'[p] = registry[p]
    BY <1>3, <2>1, <2>2 DEF Provisions!Insert
  <2>5. \A i \in 1..Len(order) : i < turn => DOMAIN plugins[order[i]].provides \subseteq DOMAIN registry[order[i]]
    BY <1>1 DEF AccessInv, InitializationInv, Initializing
  <2>6. \A i \in 1..Len(order) : order[i] \in Ids
    BY <1>3 DEF AccessInv, BuilderInv, DeliversGraph, FitsLifecycle, Runtime!IsResolvedGraph
  <2>7. ASSUME NEW i \in 1..Len(order), i < turn'
        PROVE  DOMAIN plugins[order[i]].provides \subseteq DOMAIN registry'[order[i]]
    <3>1. CASE order[i] = Self
      BY <2>3, <2>4, <3>1
    <3>2. CASE order[i] # Self
      <4>1. i # turn
        BY <3>2 DEF Self
      <4>2. i < turn
        BY <1>3, <1>4, <2>1, <2>7, <4>1
      <4> QED  BY <2>4, <2>5, <2>6, <3>2, <4>2
    <3> QED  BY <3>1, <3>2
  <2>8. turn' \in 1..(Len(order) + 1)
    BY <1>3, <1>4, <2>1
  <2>9. boot' = "initializing"
    BY <1>1, <2>1 DEF Initializing
  <2>10. InitializationInv'
    BY <1>2, <1>3, <2>4, <2>7, <2>8, <2>9 DEF InitializationInv
  <2> QED  BY <1>1, <1>2, <2>10 DEF AccessInv, LastCallInv
<1>6. CASE Provisions!CommitErrors(plugins[Self].provides, staged) # {}
  <2>1. boot' = "failed" /\ UNCHANGED <<turn, registry>>
    BY <1>6 DEF Commit
  <2>2. InitializationInv'
    BY <2>1 DEF AccessInv, InitializationInv
  <2> QED  BY <1>1, <1>2, <2>2 DEF AccessInv, LastCallInv
<1> QED  BY <1>5, <1>6

\* Initialization fails, ends, or has ended.
LEMMA EndStep ==
    ASSUME AccessInv, \/ HookFails \/ AllInitialized
                      \/ UNCHANGED <<accessVars, appVars, allVars>>
    PROVE  AccessInv'
<1>1. UNCHANGED appVars /\ UNCHANGED allVars /\ UNCHANGED <<turn, registry>>
  BY DEF HookFails, AllInitialized, accessVars
<1>2. /\ BuilderInv' /\ GraphInv' /\ (Succeeded' <=> Succeeded) /\ order' = order
      /\ plugins' = plugins /\ requirements' = requirements
  BY <1>1, ApplicationStands
<1>3. CASE HookFails
  <2>1. boot' = "failed" /\ access' = << >>
    BY <1>3 DEF HookFails
  <2> QED  BY <1>1, <1>2, <2>1 DEF AccessInv, InitializationInv, LastCallInv
<1>4. CASE AllInitialized
  <2>1. boot = "initializing" /\ boot' = "done" /\ access' = access /\ turn > Len(order)
    BY <1>4 DEF AllInitialized
  <2>2. Len(order) \in Nat
    BY <2>1 DEF AccessInv, InitializationInv, BuilderInv, DeliversGraph, FitsLifecycle, Runtime!IsResolvedGraph
  <2>3. turn \in Nat
    BY <2>1, <2>2 DEF AccessInv, InitializationInv
  <2>4. access = << >>
    BY <2>1, <2>2, <2>3 DEF AccessInv, LastCallInv, Initializing
  <2>5. InitializationInv'
    BY <1>1, <1>2, <2>1 DEF AccessInv, InitializationInv
  <2> QED  BY <1>2, <2>1, <2>4, <2>5 DEF AccessInv, LastCallInv
<1>5. CASE UNCHANGED <<accessVars, appVars, allVars>>
  <2>1. boot' = boot /\ access' = access
    BY <1>5 DEF accessVars
  <2>2. InitializationInv'
    BY <1>1, <1>2, <2>1 DEF AccessInv, InitializationInv
  <2>3. (Initializing' <=> Initializing) /\ Self' = Self
    BY <1>1, <1>2, <2>1 DEF Initializing, Self
  <2>4. \A m, c, k : Result(m, c, k)' = Result(m, c, k)
    <3>1. \A k : Lookup(k)' = Lookup(k)
      BY <1>2 DEF Lookup
    <3>2. \A S, c, k : Fetch(S, c, k)' = Fetch(S, c, k)
      BY <1>1 DEF Fetch
    <3> QED  BY <1>2, <2>3, <3>1, <3>2 DEF Result
  <2>5. LastCallInv'
    BY <2>1, <2>3, <2>4 DEF AccessInv, LastCallInv
  <2> QED  BY <1>2, <2>2, <2>5 DEF AccessInv
<1> QED  BY <1>3, <1>4, <1>5

\* Before initialization there is no call.
LEMMA InitAccessInv == AccessInit => AccessInv
<1> SUFFICES ASSUME AccessInit PROVE AccessInv
  OBVIOUS
<1>1. BuilderInv /\ GraphInv
  BY InitBuilderInv, InitGraphInv DEF AccessInit, AppInit
<1>2. InitializationInv /\ LastCallInv
  BY DEF AccessInit, InitializationInv, LastCallInv
<1> QED  BY <1>1, <1>2 DEF AccessInv

\* The last call was answered as AccessIsExact says.
LEMMA AccessExact == AccessInv => AccessIsExact
<1> SUFFICES ASSUME AccessInv PROVE AccessIsExact
  OBVIOUS
<1>1. CASE access = << >>
  BY <1>1 DEF AccessIsExact
<1>2. CASE access # << >>
  <2>1. Initializing
    BY <1>2 DEF AccessInv, LastCallInv
  <2>2. PICK mode \in Modes, capability \in Links, marker \in Markers :
          access = <<[consumer |-> Self, mode |-> mode, capability |-> capability,
                      marker |-> marker, result |-> Result(mode, capability, marker)]>>
    BY <1>2 DEF AccessInv, LastCallInv
  <2> DEFINE a == [consumer |-> Self, mode |-> mode, capability |-> capability,
                   marker |-> marker, result |-> Result(mode, capability, marker)]
  <2>3. {access[i] : i \in DOMAIN access} = {a}
    BY <2>2
  <2>4. /\ a.consumer = Self /\ a.mode = mode /\ a.capability = capability /\ a.marker = marker
        /\ a.result = Due(mode, capability, marker)
    BY <2>1, ResultIsDue
  <2> HIDE DEF a
  <2> QED  BY <2>3, <2>4 DEF AccessIsExact, Due
<1> QED  BY <1>1, <1>2

\* For every composition, every host and every sequence of calls, an initialize
\* hook obtains exactly what its descriptor and the bindings entitle it to: no
\* access panics or misses a provision, and handles come from the selected
\* providers only.
THEOREM AccessesAreExact == AccessSpec => []AccessIsExact
<1>1. AccessInv /\ [AccessNext]_<<accessVars, appVars, allVars>> => AccessInv'
  BY BuildStep, BeginStep, AccessStep, CommitStep, EndStep DEF AccessNext, AccessDone
<1> QED  BY <1>1, InitAccessInv, AccessExact, PTL DEF AccessSpec

-----------------------------------------------------------------------------
(* cargo kernox: what it prints of a graph *)

\* The report counts as the resolver does.
LEMMA SameCount == \A S : Inspection!Cardinality(S) = Cardinality(S)
  BY DEF Inspection!Cardinality, Cardinality

\* Finite sets of identities are listed in full by their ascending order.
LEMMA AscendingFacts ==
    ASSUME NEW S \in SUBSET Nat, IsFiniteSet(S)
    PROVE  /\ Len(Inspection!Ascending(S)) = Cardinality(S)
           /\ Inspection!Names(Inspection!Ascending(S)) = S
<1> DEFINE n == Cardinality(S)
           Below(x) == {y \in S : y < x}
           rank == [x \in S |-> Cardinality(Below(x))]
<1>1. n \in Nat
  BY FS_CardinalityType
<1>2. \A x \in S : IsFiniteSet(Below(x)) /\ Cardinality(Below(x)) \in Nat
  <2> SUFFICES ASSUME NEW x \in S PROVE IsFiniteSet(Below(x)) /\ Cardinality(Below(x)) \in Nat
    OBVIOUS
  <2>1. Below(x) \in SUBSET S
    OBVIOUS
  <2> HIDE DEF Below
  <2> QED  BY <2>1, FS_Subset, FS_CardinalityType
<1>3. ASSUME NEW x \in S PROVE Cardinality(Below(x)) \in 0..(n - 1)
  <2>1. Below(x) \in SUBSET (S \ {x})
    OBVIOUS
  <2>2. IsFiniteSet(S \ {x}) /\ Cardinality(S \ {x}) = n - 1
    BY FS_RemoveElement
  <2>3. Cardinality(Below(x)) <= n - 1
    <3> HIDE DEF Below
    <3> QED  BY <2>1, <2>2, FS_Subset
  <2> QED  BY <1>1, <1>2, <2>3
<1>4. ASSUME NEW x \in S, NEW z \in S, x < z PROVE Cardinality(Below(x)) < Cardinality(Below(z))
  <2>1. Below(x) \cup {x} \in SUBSET Below(z) /\ x \notin Below(x)
    <3>1. \A y \in S : y < x => y < z
      BY <1>4
    <3>2. x \in Below(z) /\ x \notin Below(x)
      BY <1>4
    <3> QED  BY <3>1, <3>2
  <2>2. Cardinality(Below(x) \cup {x}) = Cardinality(Below(x)) + 1
    <3> HIDE DEF Below
    <3> QED  BY <1>2, <2>1, FS_AddElement
  <2>3. Cardinality(Below(x) \cup {x}) <= Cardinality(Below(z))
    <3> HIDE DEF Below
    <3> QED  BY <1>2, <2>1, FS_Subset
  <2> QED  BY <1>2, <2>2, <2>3
<1> HIDE DEF Below
<1>5. \A x \in S : rank[x] = Cardinality(Below(x)) /\ rank[x] \in 0..(n - 1)
  BY <1>3
<1>6. \A x, z \in S : rank[x] = rank[z] => x = z
  <2> SUFFICES ASSUME NEW x \in S, NEW z \in S, rank[x] = rank[z] PROVE x = z
    OBVIOUS
  <2>1. x < z \/ z < x \/ x = z
    OBVIOUS
  <2>2. rank[x] \in Nat /\ rank[z] \in Nat
    BY <1>1, <1>5
  <2>3. (x < z => rank[x] < rank[z]) /\ (z < x => rank[z] < rank[x])
    BY <1>4, <1>5
  <2> QED  BY <2>1, <2>2, <2>3
<1>7. rank \in Injection(S, 0..(n - 1))
  BY <1>5, <1>6 DEF Injection, IsInjective
<1>8. IsFiniteSet(0..(n - 1)) /\ Cardinality(0..(n - 1)) = n
  <2>1. 0 \in Int /\ n - 1 \in Int
    BY <1>1
  <2>2. IsFiniteSet(0..(n - 1)) /\ Cardinality(0..(n - 1)) = IF 0 > n - 1 THEN 0 ELSE (n - 1) - 0 + 1
    BY <2>1, FS_Interval
  <2> QED  BY <1>1, <2>2
<1>9. rank \in Surjection(S, 0..(n - 1))
  <2> DEFINE T == 0..(n - 1)
  <2>1. rank \in Injection(S, T) /\ IsFiniteSet(T) /\ Cardinality(S) = Cardinality(T)
    BY <1>7, <1>8
  <2> HIDE DEF T, rank
  <2>2. rank \in Surjection(S, T)
    BY <2>1, FS_Injection
  <2> QED  BY <2>2 DEF T
<1>10. \A k \in 0..(n - 1) : \E x \in S : rank[x] = k
  BY <1>9 DEF Surjection
<1> DEFINE s == Inspection!Ascending(S)
<1>11. s = [i \in 1..n |-> CHOOSE x \in S : Inspection!Cardinality(Below(x)) = i - 1]
  <2>1. s = [i \in 1..Inspection!Cardinality(S) |-> CHOOSE x \in S : Inspection!Cardinality(Below(x)) = i - 1]
    BY DEF Inspection!Ascending, Below
  <2>2. Inspection!Cardinality(S) = n
    BY SameCount
  <2> QED  BY <2>1, <2>2
<1>12. ASSUME NEW i \in 1..n PROVE s[i] \in S /\ rank[s[i]] = i - 1
  <2>1. i - 1 \in 0..(n - 1)
    BY <1>1
  <2>2. \E x \in S : Inspection!Cardinality(Below(x)) = i - 1
    BY <1>5, <1>10, <2>1, SameCount
  <2>3. s[i] = CHOOSE x \in S : Inspection!Cardinality(Below(x)) = i - 1
    BY <1>11
  <2> HIDE DEF s
  <2>4. s[i] \in S /\ Inspection!Cardinality(Below(s[i])) = i - 1
    BY <2>2, <2>3
  <2> QED  BY <1>5, <2>4, SameCount
<1>13. Len(s) = n /\ DOMAIN s = 1..n
  <2>1. s \in Seq(S)
    <3>1. s \in [1..n -> S]
      BY <1>11, <1>12
    <3> QED  BY <1>1, <3>1
  <2>2. DOMAIN s = 1..n
    BY <1>11
  <2> HIDE DEF s
  <2> QED  BY <1>1, <2>1, <2>2, LenProperties
<1> HIDE DEF s, rank
<1>14. ASSUME NEW x \in S PROVE \E i \in 1..n : s[i] = x
  <2> DEFINE i == rank[x] + 1
  <2>1. i \in 1..n /\ i - 1 = rank[x]
    BY <1>1, <1>5
  <2>2. s[i] \in S /\ rank[s[i]] = rank[x]
    BY <1>12, <2>1
  <2> QED  BY <1>6, <2>1, <2>2
<1>15. Inspection!Names(s) = S
  BY <1>12, <1>13, <1>14 DEF Inspection!Names
<1> QED  BY <1>13, <1>15 DEF s

\* The pairs of a finite set can be told apart under a tag, and counted so.
LEMMA TagCount ==
    ASSUME NEW S \in SUBSET (Ids \X Links), NEW t
    PROVE  LET T == {<<t, k[1], k[2]>> : k \in S}
           IN  IsFiniteSet(S) /\ IsFiniteSet(T) /\ Cardinality(T) = Cardinality(S) /\ Cardinality(S) \in Nat
<1> DEFINE T == {<<t, k[1], k[2]>> : k \in S}
           f == [k \in S |-> <<t, k[1], k[2]>>]
<1>1. IsFiniteSet(S)
  <2>1. IsFiniteSet(Ids \X Links)
    BY IdsAssumption, LinksAssumption, FS_Product
  <2> QED  BY <2>1, FS_Subset
<1>2. \A k \in S : k = <<k[1], k[2]>>
  OBVIOUS
<1>3. \A k \in S : f[k] = <<t, k[1], k[2]>>
  OBVIOUS
<1>4. f \in Surjection(S, T)
  BY DEF Surjection
<1>5. \A k, m \in S : f[k] = f[m] => k = m
  <2> SUFFICES ASSUME NEW k \in S, NEW m \in S, f[k] = f[m] PROVE k = m
    OBVIOUS
  <2>1. k[1] = m[1] /\ k[2] = m[2]
    BY <1>3
  <2> QED  BY <1>2, <2>1
<1>6. f \in Injection(S, T)
  BY <1>5 DEF Injection, IsInjective
<1> HIDE DEF f, T
<1>7. IsFiniteSet(T) /\ Cardinality(T) = Cardinality(S)
  BY <1>1, <1>4, <1>6, FS_Surjection
<1>8. Cardinality(S) \in Nat
  BY <1>1, FS_CardinalityType
<1> QED  BY <1>1, <1>7, <1>8 DEF T

\* As many diagnostics as requirements without a provider and unused offers.
LEMMA DiagnosticsCount ==
    ASSUME spec \in Specs, Listed, Settled
    PROVE  Cardinality(diagnostics) =
             Cardinality(Missed(Descriptors, Bindings))
             + Cardinality(Offered(Descriptors) \ Selected(Descriptors, Bindings))
<1> DEFINE M == Missed(Descriptors, Bindings)
           U == Offered(Descriptors) \ Selected(Descriptors, Bindings)
           A == {<<"OptionalProviderMissing", k[1], k[2]>> : k \in M}
           B == {<<"UnselectedOffer", k[1], k[2]>> : k \in U}
           E == {s \in Entries : s.providers = {} /\ PermitsZero(s.cardinality)}
           V == {qc \in Known \X Links :
                   /\ Offers(qc[1], qc[2])
                   /\ ~\E e \in edges : e.provider = qc[1] /\ e.capability = qc[2]}
<1>1. /\ Needs(Descriptors) = Required /\ todo = {} /\ Known \subseteq Ids
      /\ \A key \in Required : /\ Chosen(Descriptors, Bindings, key) = Selection(key)
                               /\ key[1] \in Known /\ key[2] \in Links /\ key = <<key[1], key[2]>>
  BY RequiredFacts, SelectionIsChosen, KnownFacts DEF Settled
<1>2. M = {key \in Required : Selection(key) = {}}
  BY <1>1 DEF Missed
<1>3. M \in SUBSET (Ids \X Links)
  BY <1>1, <1>2
<1>4. {r.key : r \in E} = M
  <2>1. \A r \in E : r.key \in M
    BY <1>2 DEF Entries, Listed
  <2>2. ASSUME NEW key \in M PROVE \E r \in E : r.key = key
    <3>1. key \in Required /\ Selection(key) = {}
      BY <1>2
    <3>2. PICK i \in 1..Len(requirements) : requirements[i].key = key
      BY <1>1, <3>1 DEF Listed
    <3>3. requirements[i].providers = {} /\ requirements[i].cardinality = RequirementOf(key).cardinality
      BY <3>1, <3>2 DEF Listed
    <3>4. PermitsZero(RequirementOf(key).cardinality)
      BY <3>1, MissingIsExact
    <3> QED  BY <3>2, <3>3, <3>4 DEF Entries
  <2> HIDE DEF E, M
  <2> QED  BY <2>1, <2>2
<1>5. V = U
  <2>1. \A d \in Descriptors : d.id \in Known /\ plugins[d.id] = d /\ DOMAIN d.provides \subseteq Links
    BY KnownFacts DEF Settled, IsDescriptor
  <2>2. \A p \in Known : plugins[p] \in Descriptors /\ plugins[p].id = p
    BY KnownFacts DEF Settled
  <2>3. \A x : x \in Offered(Descriptors) <=> \E d \in Descriptors : \E c \in DOMAIN d.provides : x = <<d.id, c>>
    BY DEF Offered
  <2>4. Selected(Descriptors, Bindings) = {<<e.provider, e.capability>> : e \in edges}
    BY DEF Selected, Settled
  <2>5. ASSUME NEW x \in V PROVE x \in U
    <3>1. /\ x = <<x[1], x[2]>> /\ x[1] \in Known /\ x[2] \in DOMAIN plugins[x[1]].provides
          /\ ~\E e \in edges : e.provider = x[1] /\ e.capability = x[2]
      BY DEF Offers
    <3>2. x \in Offered(Descriptors)
      BY <2>2, <2>3, <3>1
    <3>3. x \notin Selected(Descriptors, Bindings)
      <4> SUFFICES ASSUME NEW e \in edges, x = <<e.provider, e.capability>> PROVE FALSE
        BY <2>4
      <4>1. e.provider = x[1] /\ e.capability = x[2]
        OBVIOUS
      <4> QED  BY <3>1, <4>1
    <3> QED  BY <3>2, <3>3
  <2>6. ASSUME NEW x \in U PROVE x \in V
    <3>1. PICK d \in Descriptors : \E c \in DOMAIN d.provides : x = <<d.id, c>>
      BY <2>3
    <3>2. PICK c \in DOMAIN d.provides : x = <<d.id, c>>
      BY <3>1
    <3>3. x \in Known \X Links /\ x[1] = d.id /\ x[2] = c /\ Offers(d.id, c)
      BY <2>1, <3>2 DEF Offers
    <3>4. \A e \in edges : ~(e.provider = d.id /\ e.capability = c)
      BY <2>4, <3>2
    <3> QED  BY <3>3, <3>4
  <2> HIDE DEF U, V
  <2> QED  BY <2>5, <2>6
<1>6. U \in SUBSET (Ids \X Links)
  <2>1. V \in SUBSET (Ids \X Links)
    BY <1>1
  <2> HIDE DEF U, V
  <2> QED  BY <1>5, <2>1
<1>7. diagnostics = A \cup B
  <2>1. diagnostics = {<<"OptionalProviderMissing", r.key[1], r.key[2]>> : r \in E}
                      \cup {<<"UnselectedOffer", pc[1], pc[2]>> : pc \in V}
    BY DEF Settled, GraphDiagnostics
  <2>2. {<<"OptionalProviderMissing", r.key[1], r.key[2]>> : r \in E}
          = {<<"OptionalProviderMissing", k[1], k[2]>> : k \in {r.key : r \in E}}
    <3> HIDE DEF E
    <3> QED  OBVIOUS
  <2> HIDE DEF E, M, U, V
  <2> QED  BY <1>4, <1>5, <2>1, <2>2
<1>8. A \cap B = {}
  <2> HIDE DEF M, U
  <2>1. \A x \in A : x[1] = "OptionalProviderMissing"
    OBVIOUS
  <2>2. \A x \in B : x[1] = "UnselectedOffer"
    OBVIOUS
  <2> QED  BY <2>1, <2>2
<1> HIDE DEF M, U, E, V
<1>9. IsFiniteSet(A) /\ Cardinality(A) = Cardinality(M) /\ Cardinality(M) \in Nat
  BY <1>3, TagCount
<1>10. IsFiniteSet(B) /\ Cardinality(B) = Cardinality(U) /\ Cardinality(U) \in Nat
  BY <1>6, TagCount
<1> HIDE DEF A, B
<1>11. Cardinality(A \cup B) = Cardinality(A) + Cardinality(B) - Cardinality({})
  BY <1>8, <1>9, <1>10, FS_Union
<1>12. Cardinality(diagnostics) = Cardinality(M) + Cardinality(U)
  BY <1>7, <1>9, <1>10, <1>11, FS_EmptySet
<1> QED  BY <1>12 DEF M, U

\* verify_graph_attribution passes exactly the applications that are attributed
\* and then finds as many packages as plugins.
LEMMA AttributionFacts ==
    ASSUME NEW s, DOMAIN s \in SUBSET Nat, IsFiniteSet(DOMAIN s),
           \A p \in DOMAIN s : s[p] = << >> \/ (s[p] = <<s[p][1]>> /\ s[p][1].repository \in BOOLEAN)
    PROVE  LET verdict_ == VerifyGraphAttribution(s)
           IN  /\ verdict_.tag = "Ok" <=> Attributed(s)
               /\ verdict_.tag = "Ok" => Cardinality(verdict_.packages) = Cardinality(DOMAIN s)
               /\ verdict_.tag \notin ReadFaults
<1> DEFINE D == DOMAIN s
           faulty == {p \in D : Fault(s, p) # "None"}
           first == CHOOSE p \in faulty : \A q \in faulty : p <= q
           v == VerifyGraphAttribution(s)
           packages == {s[p][1].package : p \in D}
<1>1. v = IF Cardinality(D) < MINIMUM_VERIFIED_PLUGINS
          THEN [tag |-> "conformance.too-few-plugins", packages |-> {}]
          ELSE IF faulty # {} THEN [tag |-> Fault(s, first), packages |-> {}]
          ELSE [tag |-> "Ok", packages |-> packages]
  BY DEF VerifyGraphAttribution
<1>2. Cardinality(D) \in Nat /\ MINIMUM_VERIFIED_PLUGINS \in Nat
  BY FS_CardinalityType DEF MINIMUM_VERIFIED_PLUGINS
<1>3. \A p : Fault(s, p) \in {"conformance.missing-source", "conformance.duplicate-source-package", "None"}
  BY DEF Fault
<1>4. ASSUME NEW p \in D
      PROVE  /\ ~MissingSource(s, p) <=> Len(s[p]) = 1 /\ s[p][1].repository
             /\ ~MissingSource(s, p) => s[p] = <<s[p][1]>>
  <2>1. CASE s[p] = << >>
    BY <2>1 DEF MissingSource
  <2>2. CASE s[p] = <<s[p][1]>> /\ s[p][1].repository \in BOOLEAN
    <3>1. Len(s[p]) = 1 /\ s[p] # << >>
      <4>1. Len(<<s[p][1]>>) = 1 /\ Len(<< >>) = 0
        OBVIOUS
      <4> QED  BY <2>2, <4>1
    <3> QED  BY <2>2, <3>1 DEF MissingSource
  <2> QED  BY <2>1, <2>2
<1>5. \A p \in D : Fault(s, p) = "None" <=> ~MissingSource(s, p) /\ ~Repeated(s, p)
  BY DEF Fault
<1>6. faulty = {} <=> \A p \in D : ~MissingSource(s, p) /\ ~Repeated(s, p)
  BY <1>5
<1>7. ASSUME \A p \in D : ~MissingSource(s, p)
      PROVE  (\A p \in D : ~Repeated(s, p))
               <=> \A p, q \in D : p # q => s[p][1].package # s[q][1].package
  <2>1. ASSUME \A p \in D : ~Repeated(s, p), NEW p \in D, NEW q \in D, p # q
        PROVE  s[p][1].package # s[q][1].package
    <3>1. p < q \/ q < p
      BY <2>1
    <3> QED  BY <1>7, <2>1, <3>1 DEF Repeated
  <2>2. ASSUME \A p, q \in D : p # q => s[p][1].package # s[q][1].package, NEW p \in D
        PROVE  ~Repeated(s, p)
    <3>1. \A q \in D : q < p => q # p
      OBVIOUS
    <3> QED  BY <2>2, <3>1 DEF Repeated
  <2> QED  BY <2>1, <2>2
<1>8. Attributed(s) <=> Cardinality(D) >= MINIMUM_VERIFIED_PLUGINS /\ faulty = {}
  <2>1. Attributed(s) <=> /\ Cardinality(D) >= MINIMUM_VERIFIED_PLUGINS
                          /\ \A p \in D : ~MissingSource(s, p)
                          /\ \A p, q \in D : p # q => s[p][1].package # s[q][1].package
    BY <1>4 DEF Attributed
  <2> HIDE DEF faulty
  <2> QED  BY <1>6, <1>7, <2>1
<1>9. v.tag = "Ok" <=> Attributed(s)
  <2> HIDE DEF faulty, first, packages
  <2> QED  BY <1>1, <1>2, <1>3, <1>8
<1>10. v.tag \notin ReadFaults
  <2> HIDE DEF faulty, first, packages
  <2> QED  BY <1>1, <1>3 DEF ReadFaults
<1>11. ASSUME v.tag = "Ok" PROVE Cardinality(v.packages) = Cardinality(D)
  <2>1. v.packages = packages
    <3> HIDE DEF faulty, first, packages
    <3> QED  BY <1>1, <1>3, <1>11
  <2> DEFINE f == [p \in D |-> s[p][1].package]
  <2>2. \A p, q \in D : p # q => s[p][1].package # s[q][1].package
    BY <1>9, <1>11 DEF Attributed
  <2>3. f \in Surjection(D, packages)
    BY DEF Surjection
  <2>4. f \in Injection(D, packages)
    BY <2>2 DEF Injection, IsInjective
  <2> HIDE DEF f, packages
  <2>5. Cardinality(packages) = Cardinality(D)
    BY <2>3, <2>4, FS_Surjection
  <2> QED  BY <2>1, <2>5
<1> QED  BY <1>9, <1>10, <1>11

\* What the command reads of a graph that resolve() has returned.
LEMMA GraphFacts ==
    ASSUME RInv, GraphInv, DeliversGraph, Succeeded
    PROVE  /\ spec \in Specs /\ Listed /\ Settled
           /\ Known = Names(Descriptors) /\ Known \in SUBSET Nat /\ IsFiniteSet(Known)
           /\ edges = ExpectedEdges(Descriptors, Bindings)
           /\ order \in Seq(Ids) /\ Len(order) = Cardinality(Known) /\ Inspection!Names(order) = Known
           /\ \A e \in edges :
                /\ e.provider \in Known /\ e.consumer \in Known
                /\ \E i, j \in 1..Len(order) : i < j /\ order[i] = e.provider /\ order[j] = e.consumer
<1>1. /\ spec \in Specs /\ Listed /\ Settled
      /\ Ordered = Names(Descriptors) /\ edges = ExpectedEdges(Descriptors, Bindings) /\ FitsLifecycle
  BY DEF RInv, PhaseInv, GraphInv, DeliversGraph
<1>2. Known = Names(Descriptors) /\ Known \subseteq Ids
  BY <1>1, KnownFacts DEF Settled
<1>3. Known \in SUBSET Nat /\ IsFiniteSet(Known)
  BY <1>2, IdsAssumption, FS_Subset
<1>4. /\ order \in Seq(Ids)
      /\ \A i, j \in 1..Len(order) : order[i] = order[j] => i = j
      /\ \A e \in edges : \E i, j \in 1..Len(order) : i < j /\ order[i] = e.provider /\ order[j] = e.consumer
  BY <1>1, <1>2, WalkFacts
<1>5. Ordered = {order[i] : i \in 1..Len(order)}
  BY DEF Ordered
<1>6. Len(order) = Cardinality(Known)
  <2>1. Len(order) \in Nat /\ DOMAIN order = 1..Len(order) /\ order = [i \in 1..Len(order) |-> order[i]]
    BY <1>4
  <2>2. Cardinality({order[i] : i \in 1..Len(order)}) = Len(order)
    BY <1>4, <2>1, CountDistinct
  <2> QED  BY <1>1, <1>2, <1>5, <2>2
<1>7. Inspection!Names(order) = Known
  BY <1>1, <1>2, <1>5 DEF Inspection!Names
<1>8. \A e \in edges : e.provider \in Known /\ e.consumer \in Known
  BY <1>1, <1>2, <1>4, <1>5
<1> QED  BY <1>1, <1>2, <1>3, <1>4, <1>6, <1>7, <1>8

\* A report that is printed is one GraphReport::accept takes back.
LEMMA ReportFacts ==
    ASSUME RInv, GraphInv, DeliversGraph, Succeeded
    PROVE  /\ Inspection!ValidateReport(report) = "Ok"
           /\ report.edges = edges /\ report.startup = order /\ report.diagnostics = diagnostics
           /\ Len(report.plugins) = Cardinality(Known) /\ Inspection!Names(report.plugins) = Known
<1>1. /\ spec \in Specs /\ Listed /\ Settled /\ Known \in SUBSET Nat /\ IsFiniteSet(Known)
      /\ order \in Seq(Ids) /\ Len(order) = Cardinality(Known) /\ Inspection!Names(order) = Known
      /\ \A e \in edges : e.provider \in Known /\ e.consumer \in Known
  BY GraphFacts
<1>2. /\ report.schema = Inspection!Schema /\ report.plugins = Inspection!Ascending(Known)
      /\ report.requirements = Entries /\ report.edges = edges /\ report.diagnostics = diagnostics
      /\ report.startup = order /\ report.teardown = Inspection!Reverse(order)
  BY DEF report, Inspection!Report
<1>3. Len(report.plugins) = Cardinality(Known) /\ Inspection!Names(report.plugins) = Known
  BY <1>1, <1>2, AscendingFacts
<1>4. Inspection!StartupAgrees(report)
  BY <1>1, <1>2, <1>3, SameCount DEF Inspection!StartupAgrees
<1>5. Inspection!TeardownAgrees(report)
  <2> DEFINE n == Len(order)
             t == Inspection!Reverse(order)
  <2>1. n \in Nat
    BY <1>1
  <2>2. t = [i \in 1..n |-> order[(n - i) + 1]]
    BY DEF Inspection!Reverse
  <2>3. \A i \in 1..n : order[(n - i) + 1] \in Ids
    BY <1>1, <2>1
  <2>4. t \in Seq(Ids) /\ DOMAIN t = 1..n
    <3>1. t \in [1..n -> Ids]
      BY <2>2, <2>3
    <3> QED  BY <2>1, <3>1
  <2>5. Len(t) = n
    <3> HIDE DEF t
    <3> QED  BY <2>1, <2>4, LenProperties
  <2>6. \A i \in 1..n : t[i] = order[n + 1 - i]
    <3>1. \A i \in 1..n : (n - i) + 1 = n + 1 - i
      BY <2>1
    <3> QED  BY <2>2, <3>1
  <2> HIDE DEF t
  <2> QED  BY <1>2, <2>5, <2>6 DEF Inspection!TeardownAgrees, t
<1>6. Inspection!RelationPlugins(report) \subseteq Known
  <2>1. ASSUME NEW r \in Entries PROVE {r.key[1]} \cup r.providers \subseteq Known
    <3>1. r.key \in Required /\ r.providers = Selection(r.key)
      BY DEF Entries, Listed, GraphInv
    <3>2. r.key[1] \in Known /\ Selection(r.key) \subseteq Known
      BY <1>1, <3>1, RequiredFacts, SelectionIsChosen DEF Settled
    <3> QED  BY <3>1, <3>2
  <2>2. ASSUME NEW d \in diagnostics PROVE d[2] \in Known
    <3>1. CASE \E r \in Entries : d = <<"OptionalProviderMissing", r.key[1], r.key[2]>>
      BY <2>1, <3>1
    <3>2. CASE \E pc \in Known \X Links : d = <<"UnselectedOffer", pc[1], pc[2]>>
      BY <3>2
    <3> QED  BY <1>1, <2>2, <3>1, <3>2 DEF Settled, GraphDiagnostics
  <2> DEFINE A == UNION {{r.key[1]} \cup r.providers : r \in report.requirements}
             B == UNION {{e.provider, e.consumer} : e \in report.edges}
             C == {d[2] : d \in report.diagnostics}
  <2>3. Inspection!RelationPlugins(report) = A \cup B \cup C
    BY DEF Inspection!RelationPlugins
  <2>4. A \subseteq Known
    BY <1>2, <2>1
  <2>5. B \subseteq Known
    BY <1>1, <1>2
  <2>6. C \subseteq Known
    BY <1>2, <2>2
  <2> HIDE DEF A, B, C
  <2> QED  BY <2>3, <2>4, <2>5, <2>6
<1>7. Inspection!ValidateReport(report) = "Ok"
  BY <1>1, <1>2, <1>3, <1>4, <1>5, <1>6, SameCount DEF Inspection!ValidateReport
<1> QED  BY <1>2, <1>3, <1>7

\* The sources of a graph that resolve() has returned are those declared.
LEMMA SourceFacts ==
    ASSUME RInv, GraphInv, DeliversGraph, Succeeded
    PROVE  /\ source = Sources /\ DOMAIN source = Known
           /\ \A p \in DOMAIN source :
                source[p] = << >> \/ (source[p] = <<source[p][1]>> /\ source[p][1].repository \in BOOLEAN)
<1>1. spec \in Specs /\ Settled
  BY GraphFacts
<1>2. /\ Known = Names(Descriptors)
      /\ \A p \in Known : plugins[p] \in Descriptors /\ Named(Descriptors, p) = plugins[p]
  BY <1>1, KnownFacts DEF Settled
<1>3. source = Sources /\ DOMAIN source = Known
  BY <1>2 DEF source, Sources
<1>4. ASSUME NEW p \in Known
      PROVE  LET origin == plugins[p].source
             IN  origin = << >> \/ (origin = <<origin[1]>> /\ origin[1].repository \in BOOLEAN)
  <2>1. PICK i \in 1..Len(spec.plugins) : plugins[p] = spec.plugins[i]
    BY <1>2 DEF Descriptors
  <2> QED  BY <1>1, <2>1, SourcesAssumption
<1>5. \A p \in Known : source[p] = plugins[p].source
  BY DEF source
<1> QED  BY <1>3, <1>4, <1>5

\* No error of resolve() is one of reading the composition.
LEMMA OutcomeTag ==
    outcome.tag \notin ReadFaults /\ [ResolveNext \/ Done]_allVars => (outcome.tag \notin ReadFaults)'
<1> SUFFICES ASSUME outcome.tag \notin ReadFaults, [ResolveNext \/ Done]_allVars
             PROVE  outcome'.tag \notin ReadFaults
  BY DEF ReadFaults
<1> USE DEF ReadFaults
<1>1. CASE ValidateInput
  BY <1>1 DEF ValidateInput, InputFault, Return, Goto
<1>2. CASE Declare
  BY <1>2 DEF Declare, DescriptorFault, Return, Advance
<1>3. CASE AllDeclared \/ AllBound \/ Resolved \/ AllSelected
  BY <1>3 DEF AllDeclared, AllBound, Resolved, AllSelected, Goto
<1>4. CASE ValidateConflicts \/ ValidateNoSelfDependencies
  BY <1>4 DEF ValidateConflicts, ValidateNoSelfDependencies, Return, Goto
<1>5. CASE ValidateBinding
  BY <1>5 DEF ValidateBinding, BindingFault, Return, Advance
<1>6. CASE SelectProviders
  <2>1. \A key : SelectionFault(key) \notin ReadFaults
    BY DEF SelectionFault, BoundFault, UnboundFault
  <2> QED  BY <1>6, <2>1 DEF SelectProviders, Return, Goto
<1>7. CASE Link
  BY <1>7 DEF Link, Return
<1>8. CASE UnusedBinding \/ CycleFound \/ ResolveOk
  BY <1>8 DEF UnusedBinding, CycleFound, ResolveOk, Return
<1>9. CASE TopologicalOrderStep
  BY <1>9 DEF TopologicalOrderStep, resolveVars
<1>10. CASE UNCHANGED allVars
  BY <1>10 DEF allVars, resolveVars
<1> QED  BY <1>1, <1>2, <1>3, <1>4, <1>5, <1>6, <1>7, <1>8, <1>9, <1>10 DEF ResolveNext, Done

\* What holds of the resolver while the command runs.
ResolutionInv == RInv /\ GraphInv /\ DeliversGraph /\ outcome.tag \notin ReadFaults

CliInv ==
    /\ ResolutionInv
    /\ file \in Files
    /\ cli \in {"reading", "resolving", "exited"}
    /\ cli = "resolving" => Usable
    /\ AnswerIsRight

\* A step of the resolver keeps it, and so does one that leaves it alone.
LEMMA ResolutionStep == ResolutionInv /\ [ResolveNext \/ Done]_allVars => ResolutionInv'
<1> SUFFICES ASSUME ResolutionInv, [ResolveNext \/ Done]_allVars PROVE ResolutionInv'
  OBVIOUS
<1> QED  BY NextRInv, NextGraphInv, NextDelivers, OutcomeTag DEF ResolutionInv

\* The command's reading of the input.
LEMMA ReadFacts ==
    ASSUME file \in Files PROVE TooLarge <=> ~(file.size <= MAX_SPEC_BYTES)
  BY BytesAssumption, FilesAssumption DEF TooLarge, Taken

\* An exit is right when its code and what is printed are.
LEMMA ExitStep ==
    ASSUME CliInv, UNCHANGED allVars, UNCHANGED <<command, file>>, cli' = "exited",
           exit' = 0 <=> Usable /\ Resolvable /\ (command = "verified" => Attributed(Sources)),
           exit' = 0 => Describes(Descriptors, Bindings, output'),
           exit' # 0 /\ Usable => output'.tag \notin ReadFaults
    PROVE  CliInv'
<1>1. ResolutionInv'
  BY ResolutionStep DEF CliInv
<1>2. spec' = spec
  BY DEF allVars, resolveVars
<1>3. Descriptors' = Descriptors /\ Bindings' = Bindings /\ (Resolvable' <=> Resolvable)
  BY <1>2, SameComposition
<1>4. Sources' = Sources /\ (Usable' <=> Usable)
  BY <1>3 DEF Sources, Usable
<1>5. AnswerIsRight'
  BY <1>3, <1>4 DEF AnswerIsRight
<1> QED  BY <1>1, <1>5 DEF CliInv

\* A composition that cannot be read, that is too large or that does not decode.
LEMMA UnreadableStep == CliInv /\ (ReadFails \/ InputTooLarge \/ InvalidJson) => CliInv'
<1> SUFFICES ASSUME CliInv, ReadFails \/ InputTooLarge \/ InvalidJson PROVE CliInv'
  OBVIOUS
<1>1. file \in Files
  BY DEF CliInv
<1>2. ~Usable
  BY <1>1, ReadFacts DEF ReadFails, InputTooLarge, InvalidJson, Usable
<1>3. UNCHANGED allVars /\ UNCHANGED <<command, file>> /\ cli' = "exited" /\ exit' = 2
  BY DEF ReadFails, InputTooLarge, InvalidJson, Fail, Exit
<1> QED  BY <1>2, <1>3, ExitStep

\* A composition that decodes, and the steps of resolve() for it.
LEMMA ResolvingStep == CliInv /\ (Decode \/ CliResolves) => CliInv'
<1> SUFFICES ASSUME CliInv, Decode \/ CliResolves PROVE CliInv'
  OBVIOUS
<1>1. Usable
  BY ReadFacts DEF CliInv, Decode, CliResolves, Usable
<1>2. UNCHANGED file /\ cli' = "resolving"
  BY DEF Decode, CliResolves, cliVars
<1>3. Usable'
  BY <1>1, <1>2 DEF Usable
<1>4. [ResolveNext \/ Done]_allVars
  BY DEF Decode, CliResolves
<1>5. ResolutionInv'
  BY <1>4, ResolutionStep DEF CliInv
<1> QED  BY <1>2, <1>3, <1>5 DEF CliInv, AnswerIsRight

\* A composition that resolve() refuses.
LEMMA RejectedStep == CliInv /\ Rejected => CliInv'
<1> SUFFICES ASSUME CliInv, Rejected PROVE CliInv'
  OBVIOUS
<1>1. ~Resolvable
  BY DEF CliInv, ResolutionInv, RInv, AnswerInv, ResolvesExactly, Rejected
<1>2. /\ UNCHANGED allVars /\ UNCHANGED <<command, file>> /\ cli' = "exited"
      /\ exit' = 2 /\ output' = [tag |-> outcome.tag]
  BY DEF Rejected, Fail, Exit
<1>3. output'.tag \notin ReadFaults
  BY <1>2 DEF CliInv, ResolutionInv
<1> QED  BY <1>1, <1>2, <1>3, ExitStep

\* What the four commands rely on.
LEMMA ResolvedFacts ==
    ASSUME CliInv, NEW c, Resolves(c)
    PROVE  /\ Usable /\ Resolvable /\ UNCHANGED allVars /\ command = c
           /\ RInv /\ GraphInv /\ DeliversGraph /\ Succeeded
           /\ Known = Names(Descriptors) /\ edges = ExpectedEdges(Descriptors, Bindings)
           /\ report.edges = ExpectedEdges(Descriptors, Bindings)
<1>1. /\ Usable /\ UNCHANGED allVars /\ command = c
      /\ RInv /\ GraphInv /\ DeliversGraph /\ Succeeded
  BY DEF CliInv, ResolutionInv, Resolves
<1>2. Resolvable
  BY <1>1 DEF RInv, AnswerInv, ResolvesExactly, Succeeded
<1> QED  BY <1>1, <1>2, GraphFacts, ReportFacts

\* check: the counts.
LEMMA CheckStep == CliInv /\ Check => CliInv'
<1> SUFFICES ASSUME CliInv, Check PROVE CliInv'
  OBVIOUS
<1>1. Resolves("check")
  BY DEF Check
<1>2. /\ Usable /\ Resolvable /\ UNCHANGED allVars /\ command = "check"
      /\ RInv /\ GraphInv /\ DeliversGraph /\ Succeeded
      /\ Known = Names(Descriptors) /\ report.edges = ExpectedEdges(Descriptors, Bindings)
  BY <1>1, ResolvedFacts
<1>3. Len(report.plugins) = Cardinality(Known) /\ report.diagnostics = diagnostics
  BY <1>2, ReportFacts
<1>4. Cardinality(diagnostics) = Cardinality(Missed(Descriptors, Bindings))
                     + Cardinality(Offered(Descriptors) \ Selected(Descriptors, Bindings))
  BY <1>2, GraphFacts, DiagnosticsCount
<1>5. /\ UNCHANGED <<command, file>> /\ cli' = "exited" /\ exit' = 0
      /\ output' = [tag |-> "valid", plugins |-> Len(report.plugins),
                    edges |-> Cardinality(report.edges),
                    diagnostics |-> Cardinality(report.diagnostics)]
  BY DEF Check, Exit
<1>6. /\ output'.tag = "valid" /\ output'.plugins = Cardinality(Names(Descriptors))
      /\ output'.edges = Cardinality(ExpectedEdges(Descriptors, Bindings))
      /\ output'.diagnostics = Cardinality(Missed(Descriptors, Bindings))
                     + Cardinality(Offered(Descriptors) \ Selected(Descriptors, Bindings))
  BY <1>2, <1>3, <1>4, <1>5
<1>7. Describes(Descriptors, Bindings, output')
  BY <1>6 DEF Describes
<1> QED  BY <1>2, <1>5, <1>7, ExitStep

\* check --verified: the attribution decides.
LEMMA CheckVerifiedStep == CliInv /\ CheckVerified => CliInv'
<1> SUFFICES ASSUME CliInv, CheckVerified PROVE CliInv'
  OBVIOUS
<1>1. Resolves("verified")
  BY DEF CheckVerified
<1>2. /\ Usable /\ Resolvable /\ UNCHANGED allVars /\ command = "verified"
      /\ RInv /\ GraphInv /\ DeliversGraph /\ Succeeded
      /\ Known = Names(Descriptors) /\ report.edges = ExpectedEdges(Descriptors, Bindings)
  BY <1>1, ResolvedFacts
<1> DEFINE v == VerifyGraphAttribution(source)
<1>3. /\ v.tag = "Ok" <=> Attributed(Sources)
      /\ v.tag = "Ok" => Cardinality(v.packages) = Cardinality(Known)
      /\ v.tag \notin ReadFaults
  <2>1. Known \in SUBSET Nat /\ IsFiniteSet(Known)
    BY <1>2, GraphFacts
  <2>2. /\ source = Sources /\ DOMAIN source = Known
        /\ \A p \in DOMAIN source :
             source[p] = << >> \/ (source[p] = <<source[p][1]>> /\ source[p][1].repository \in BOOLEAN)
    BY <1>2, SourceFacts
  <2>3. DOMAIN source \in SUBSET Nat /\ IsFiniteSet(DOMAIN source)
    BY <2>1, <2>2
  <2>4. /\ v.tag = "Ok" <=> Attributed(source)
        /\ v.tag = "Ok" => Cardinality(v.packages) = Cardinality(DOMAIN source)
        /\ v.tag \notin ReadFaults
    BY <2>2, <2>3, AttributionFacts
  <2> HIDE DEF v
  <2> QED  BY <2>2, <2>4
<1>4. /\ UNCHANGED <<command, file>> /\ cli' = "exited"
      /\ v.tag # "Ok" => exit' = 2 /\ output' = [tag |-> v.tag]
      /\ v.tag = "Ok" => exit' = 0 /\ output' = [tag |-> "verified", plugins |-> Cardinality(Known),
                                                packages |-> Cardinality(v.packages),
                                                edges |-> Cardinality(report.edges)]
  BY DEF CheckVerified, Fail, Exit
<1> HIDE DEF v
<1>5. ASSUME v.tag = "Ok" PROVE Describes(Descriptors, Bindings, output')
  <2>1. /\ output'.tag = "verified" /\ output'.plugins = Cardinality(Names(Descriptors))
        /\ output'.packages = output'.plugins
        /\ output'.edges = Cardinality(ExpectedEdges(Descriptors, Bindings))
    BY <1>2, <1>3, <1>4, <1>5
  <2> QED  BY <2>1 DEF Describes
<1>6. v.tag # "Ok" => output'.tag \notin ReadFaults
  BY <1>3, <1>4
<1> QED  BY <1>2, <1>3, <1>4, <1>5, <1>6, ExitStep

\* graph --format json: the report.
LEMMA PrintJsonStep == CliInv /\ PrintJson => CliInv'
<1> SUFFICES ASSUME CliInv, PrintJson PROVE CliInv'
  OBVIOUS
<1>1. Resolves("json")
  BY DEF PrintJson
<1>2. /\ Usable /\ Resolvable /\ UNCHANGED allVars /\ command = "json"
      /\ RInv /\ GraphInv /\ DeliversGraph /\ Succeeded
      /\ edges = ExpectedEdges(Descriptors, Bindings)
      /\ report.edges = ExpectedEdges(Descriptors, Bindings)
  BY <1>1, ResolvedFacts
<1>3. Inspection!ValidateReport(report) = "Ok" /\ report.startup = order
  BY <1>2, ReportFacts
<1>4. /\ UNCHANGED <<command, file>> /\ cli' = "exited" /\ exit' = 0
      /\ output' = [tag |-> "json", report |-> report]
  BY DEF PrintJson, Exit
<1>5. \A e \in ExpectedEdges(Descriptors, Bindings) : \E i, j \in DOMAIN report.startup :
         i < j /\ report.startup[i] = e.provider /\ report.startup[j] = e.consumer
  <2>1. /\ order \in Seq(Ids)
        /\ \A e \in edges :
             \E i, j \in 1..Len(order) : i < j /\ order[i] = e.provider /\ order[j] = e.consumer
    BY <1>2, GraphFacts
  <2>2. DOMAIN order = 1..Len(order)
    BY <2>1
  <2> QED  BY <1>2, <1>3, <2>1, <2>2
<1>6. output'.tag = "json" /\ output'.report = report
  BY <1>4
<1>7. Describes(Descriptors, Bindings, output')
  BY <1>2, <1>3, <1>5, <1>6 DEF Describes
<1> QED  BY <1>2, <1>4, <1>7, ExitStep

\* graph --format dot: a node per plugin, an arrow per edge.
LEMMA PrintDotStep == CliInv /\ PrintDot => CliInv'
<1> SUFFICES ASSUME CliInv, PrintDot PROVE CliInv'
  OBVIOUS
<1>1. Resolves("dot")
  BY DEF PrintDot
<1>2. /\ Usable /\ Resolvable /\ UNCHANGED allVars /\ command = "dot"
      /\ RInv /\ GraphInv /\ DeliversGraph /\ Succeeded
      /\ Known = Names(Descriptors) /\ report.edges = ExpectedEdges(Descriptors, Bindings)
  BY <1>1, ResolvedFacts
<1>3. Inspection!Names(report.plugins) = Known
  BY <1>2, ReportFacts
<1> DEFINE arrows == {<<e.provider, e.consumer, e.capability>> : e \in report.edges}
<1>4. /\ UNCHANGED <<command, file>> /\ cli' = "exited" /\ exit' = 0
      /\ output' = [tag |-> "dot", nodes |-> Inspection!Names(report.plugins), arrows |-> arrows]
  BY DEF PrintDot, Exit
<1>5. arrows = {<<e.provider, e.consumer, e.capability>> : e \in ExpectedEdges(Descriptors, Bindings)}
  BY <1>2
<1> HIDE DEF arrows
<1>6. output'.tag = "dot" /\ output'.nodes = Names(Descriptors) /\ output'.arrows = arrows
  BY <1>2, <1>3, <1>4
<1>7. Describes(Descriptors, Bindings, output')
  BY <1>5, <1>6 DEF Describes
<1> QED  BY <1>2, <1>4, <1>7, ExitStep

\* Nothing changes.
LEMMA CliStutter == CliInv /\ UNCHANGED <<cliVars, allVars>> => CliInv'
<1> SUFFICES ASSUME CliInv, UNCHANGED <<cliVars, allVars>> PROVE CliInv'
  OBVIOUS
<1>1. UNCHANGED allVars /\ UNCHANGED <<command, file, cli, exit, output>> /\ spec' = spec
  BY DEF cliVars, allVars, resolveVars
<1>2. ResolutionInv'
  BY <1>1, ResolutionStep DEF CliInv
<1>3. Descriptors' = Descriptors /\ Bindings' = Bindings /\ (Resolvable' <=> Resolvable)
  BY <1>1, SameComposition
<1>4. Sources' = Sources /\ (Usable' <=> Usable)
  BY <1>1, <1>3 DEF Sources, Usable
<1>5. AnswerIsRight'
  BY <1>1, <1>3, <1>4 DEF CliInv, AnswerIsRight
<1> QED  BY <1>1, <1>2, <1>4, <1>5 DEF CliInv

\* Whatever the composition, the input and the command, cargo kernox exits with
\* code 0 exactly when the input is within the bound, decodes and resolves (and,
\* asked for a verified application, is attributed), prints what the descriptors
\* and bindings describe, and blames the input only when it is at fault.
THEOREM AnswersAreRight == CliSpec => []AnswerIsRight
<1>1. CliInit => CliInv
  <2> SUFFICES ASSUME CliInit PROVE CliInv
    OBVIOUS
  <2>1. Init /\ file \in Files /\ cli = "reading"
    BY DEF CliInit
  <2>2. outcome.tag \notin ReadFaults
    BY <2>1 DEF Init, ReadFaults
  <2> QED  BY <2>1, <2>2, InitRInv, InitGraphInv DEF CliInv, ResolutionInv, AnswerIsRight
<1>2. CliInv /\ [CliNext]_<<cliVars, allVars>> => CliInv'
  BY UnreadableStep, ResolvingStep, RejectedStep, CheckStep, CheckVerifiedStep,
     PrintJsonStep, PrintDotStep, CliStutter DEF CliNext, CliDone
<1>3. CliInv => AnswerIsRight
  BY DEF CliInv
<1> QED  BY <1>1, <1>2, <1>3, PTL DEF CliSpec
=============================================================================
