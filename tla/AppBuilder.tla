----------------------------- MODULE AppBuilder -----------------------------
(***************************************************************************)
(* AppBuilder::resolve of kernox-runtime (app.rs): snapshot the plugins'   *)
(* descriptors and host requirements, resolve the graph, negotiate with    *)
(* the host, and key the plugin instances by identity.                     *)
(*                                                                         *)
(* A composition has, besides what resolve() reads, the host's properties  *)
(* (`supplied`) and the host requirements of each plugin (`hosts`, a       *)
(* sequence parallel to `plugins`), both in the order of declaration.      *)
(***************************************************************************)
EXTENDS ResolutionContract

\* Host properties and requirements are vectors.
ASSUME HostsAssumption ==
    \A s \in Specs :
        /\ Len(s.supplied) \in Nat /\ Len(s.hosts) \in Nat
        /\ \A p \in 1..Len(s.hosts) : Len(s.hosts[p]) \in Nat

VARIABLES
    app,          \* "resolving", "supplied", "hosts" or "returned"
    plugin,       \* position in spec.hosts
    index,        \* position in spec.supplied or in spec.hosts[plugin]
    supplied,     \* the host's properties: the version of each identity
    instances,    \* the declared plugin, by position, of each identity
    answer        \* the outcome of AppBuilder::resolve

appVars == <<app, plugin, index, supplied, instances, answer>>

AppInit ==
    /\ Init
    /\ app = "resolving" /\ plugin = 1 /\ index = 1
    /\ supplied = Empty /\ instances = Empty
    /\ answer = "Pending"

BuilderResolves == app = "resolving" /\ ResolveNext /\ UNCHANGED appVars

GraphRefused ==
    /\ app = "resolving" /\ phase = "returned" /\ outcome.tag # "Ok"
    /\ app' = "returned" /\ answer' = outcome.tag
    /\ UNCHANGED <<plugin, index, supplied, instances, allVars>>

GraphResolved ==
    /\ app = "resolving" /\ phase = "returned" /\ outcome.tag = "Ok"
    /\ app' = "supplied"
    /\ UNCHANGED <<plugin, index, supplied, instances, answer, allVars>>

\* One iteration over the supplied host properties.
Supply ==
    /\ app = "supplied" /\ index <= Len(spec.supplied)
    /\ LET property == spec.supplied[index]
       IN  IF property.id \in DOMAIN supplied
           THEN /\ app' = "returned" /\ answer' = "DuplicateCapability"
                /\ UNCHANGED <<index, supplied>>
           ELSE /\ supplied' = Put(supplied, property.id, property.version)
                /\ index' = index + 1
                /\ UNCHANGED <<app, answer>>
    /\ UNCHANGED <<plugin, instances, allVars>>

AllSupplied ==
    /\ app = "supplied" /\ index > Len(spec.supplied)
    /\ app' = "hosts" /\ index' = 1
    /\ UNCHANGED <<plugin, supplied, instances, answer, allVars>>

Seen == {spec.hosts[plugin][k].id : k \in 1..(index - 1)}

\* Seeded defect: a property of any version satisfies a requirement.
HostFault_AnyVersion(requirement) ==
    IF requirement.id \in Seen THEN "DuplicateRequirement"
    ELSE IF requirement.id \notin DOMAIN supplied THEN "Missing"
    ELSE "None"

HostFault(requirement) ==
    IF requirement.id \in Seen THEN "DuplicateRequirement"
    ELSE IF requirement.id \notin DOMAIN supplied THEN "Missing"
    ELSE IF supplied[requirement.id] \notin requirement.accepts THEN "Incompatible"
    ELSE "None"

\* One iteration over the host requirements of one plugin.
Negotiate ==
    /\ app = "hosts" /\ plugin <= Len(spec.hosts) /\ index <= Len(spec.hosts[plugin])
    /\ LET fault == HostFault(spec.hosts[plugin][index])
       IN  IF fault = "None"
           THEN index' = index + 1 /\ UNCHANGED <<app, answer>>
           ELSE app' = "returned" /\ answer' = fault /\ UNCHANGED index
    /\ UNCHANGED <<plugin, supplied, instances, allVars>>

NextPlugin ==
    /\ app = "hosts" /\ plugin <= Len(spec.hosts) /\ index > Len(spec.hosts[plugin])
    /\ plugin' = plugin + 1 /\ index' = 1
    /\ UNCHANGED <<app, supplied, instances, answer, allVars>>

\* The instance collected last under each identity.
Collected ==
    [p \in {spec.plugins[i].id : i \in 1..Len(spec.plugins)} |->
        CHOOSE i \in 1..Len(spec.plugins) :
            /\ spec.plugins[i].id = p
            /\ \A j \in (i + 1)..Len(spec.plugins) : spec.plugins[j].id # p]

Assemble ==
    /\ app = "hosts" /\ plugin > Len(spec.hosts)
    /\ instances' = Collected
    /\ app' = "returned" /\ answer' = "Ok"
    /\ UNCHANGED <<plugin, index, supplied, allVars>>

AppDone == app = "returned" /\ UNCHANGED <<appVars, allVars>>

AppNext ==
    \/ BuilderResolves \/ GraphRefused \/ GraphResolved
    \/ Supply \/ AllSupplied \/ Negotiate \/ NextPlugin \/ Assemble

AppSpec == AppInit /\ [][AppNext \/ AppDone]_<<appVars, allVars>>

-----------------------------------------------------------------------------
(* Properties *)

Distinct(seq) == \A i, j \in 1..Len(seq) : seq[i].id = seq[j].id => i = j

HostFits ==
    /\ Distinct(spec.supplied)
    /\ \A p \in 1..Len(spec.hosts) :
        /\ Distinct(spec.hosts[p])
        /\ \A k \in 1..Len(spec.hosts[p]) : \E s \in 1..Len(spec.supplied) :
             /\ spec.supplied[s].id = spec.hosts[p][k].id
             /\ spec.supplied[s].version \in spec.hosts[p][k].accepts

\* An application resolves exactly when its graph does and the host supplies
\* what every plugin requires of it, each once: no plugin gets to initialize
\* on a host that lacks something it needs.  Every declared plugin instance then
\* has its own place in the startup order: the executor's lookup by identity
\* cannot miss, and no instance was displaced by another of the same identity.
AppResolvesExactly ==
    app = "returned" =>
        /\ answer = "Ok" <=> Resolvable /\ HostFits
        /\ answer = "Ok" =>
             /\ DOMAIN instances = Ordered
             /\ \A i \in 1..Len(spec.plugins) : instances[spec.plugins[i].id] = i
=============================================================================
