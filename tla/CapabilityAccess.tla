-------------------------- MODULE CapabilityAccess --------------------------
(***************************************************************************)
(* The composition of the application builder, the provision registry and  *)
(* the initialization loop, seen from a plugin: what InitializationContext *)
(* (capability.rs) hands out while the plugin's initialize hook runs.      *)
(*                                                                         *)
(* The graph is the one AppBuilder::resolve computes in this run.  Plugins *)
(* initialize one at a time in its startup order; the hook asks for any    *)
(* capability under any marker type, as often as it likes, and ends with a *)
(* staged set of provisions that Registry::commit accepts or refuses.  A   *)
(* refusal, or a hook that fails, ends initialization; the rollback is in  *)
(* Lifecycle.                                                              *)
(***************************************************************************)
EXTENDS AppBuilder

CONSTANT Markers   \* Rust marker types

Provisions == INSTANCE Registry WITH Caps <- Links, Versions <- SemVers

VARIABLES
    boot,       \* "building", "initializing", "failed" or "done"
    turn,       \* position in the startup order
    registry,   \* committed provisions of each plugin
    access      \* the last call of the running hook, none or one

accessVars == <<boot, turn, registry, access>>

AccessInit ==
    /\ AppInit
    /\ boot = "building" /\ turn = 1
    /\ registry = [p \in Ids |-> Provisions!NoProvisions]
    /\ access = << >>

Build == boot = "building" /\ AppNext /\ UNCHANGED accessVars

BeginInitialize ==
    /\ boot = "building" /\ app = "returned"
    /\ boot' = IF answer = "Ok" THEN "initializing" ELSE "failed"
    /\ UNCHANGED <<turn, registry, access, appVars, allVars>>

Initializing == boot = "initializing" /\ turn <= Len(order)
Self == order[turn]

-----------------------------------------------------------------------------
(* require, optional and all *)

Modes == {"require", "optional", "all"}

Admits(mode) ==
    CASE mode = "require"  -> {"ExactlyOne"}
      [] mode = "optional" -> {"ZeroOrOne"}
      [] mode = "all"      -> {"ZeroOrMore", "OneOrMore"}

\* providers[0], providers.first() or every provider.
Asked(mode, providers) ==
    IF mode = "all" THEN providers ELSE {p \in providers : IsLeast(p, providers)}

\* Registry::get for each provider in turn: the first failure, or the handles.
Fetch(providers, capability, marker) ==
    LET Got(p) == Provisions!Get(registry, p, capability, marker)
        failed == {p \in providers : Got(p) # "Ok"}
    IN  IF failed = {} THEN [tag |-> "Ok", handles |-> providers]
        ELSE [tag |-> Got(CHOOSE p \in failed : IsLeast(p, failed)), handles |-> {}]

\* What a call returns; indexing an empty vector of providers panics.
Result(mode, capability, marker) ==
    LET found == Lookup(<<Self, capability>>) IN
    IF found = 0 THEN [tag |-> "Undeclared", handles |-> {}]
    ELSE LET requirement == requirements[found] IN
      IF requirement.cardinality \notin Admits(mode)
      THEN [tag |-> "CardinalityMismatch", handles |-> {}]
      ELSE IF mode = "require" /\ requirement.providers = {}
      THEN [tag |-> "Panic", handles |-> {}]
      ELSE Fetch(Asked(mode, requirement.providers), capability, marker)

Access(mode, capability, marker) ==
    /\ Initializing
    /\ access' = <<[consumer |-> Self, mode |-> mode, capability |-> capability,
                    marker |-> marker, result |-> Result(mode, capability, marker)]>>
    /\ UNCHANGED <<boot, turn, registry, appVars, allVars>>

-----------------------------------------------------------------------------
(* The end of a hook *)

\* ProvisionSet::provide refuses a second provision of one capability, so what
\* a hook stages is a function; Registry::commit takes all of it or nothing.
Commit(staged) ==
    /\ Initializing
    /\ IF Provisions!CommitErrors(plugins[Self].provides, staged) = {}
       THEN /\ registry' = [registry EXCEPT ![Self] = Provisions!Insert(@, staged)]
            /\ turn' = turn + 1
            /\ UNCHANGED boot
       ELSE boot' = "failed" /\ UNCHANGED <<turn, registry>>
    /\ access' = << >>
    /\ UNCHANGED <<appVars, allVars>>

HookFails ==
    /\ Initializing
    /\ boot' = "failed" /\ access' = << >>
    /\ UNCHANGED <<turn, registry, appVars, allVars>>

AllInitialized ==
    /\ boot = "initializing" /\ turn > Len(order)
    /\ boot' = "done"
    /\ UNCHANGED <<turn, registry, access, appVars, allVars>>

AccessDone == boot \in {"failed", "done"} /\ UNCHANGED <<accessVars, appVars, allVars>>

AccessNext ==
    \/ Build \/ BeginInitialize
    \/ \E mode \in Modes, capability \in Links, marker \in Markers :
         Access(mode, capability, marker)
    \/ \E staged \in Provisions!ProvisionSet : Commit(staged)
    \/ HookFails \/ AllInitialized \/ AccessDone

AccessSpec == AccessInit /\ [][AccessNext]_<<accessVars, appVars, allVars>>

-----------------------------------------------------------------------------
(* Properties *)

\* A hook obtains exactly the handles its descriptor and the bindings entitle
\* it to: a capability it does not declare is refused, one it declares is handed
\* out in its own cardinality only, and the handles come from every provider the
\* composition selects and from no other.  The provider has initialized and has
\* published what it offers, so no access fails for a missing provision and
\* providers[0] exists; only a marker type other than the published one can
\* still be refused (require, optional, all, Registry::get, Registry::commit,
\* resolve, topological_order).
AccessIsExact ==
    \A a \in {access[i] : i \in DOMAIN access} :
        LET key == <<a.consumer, a.capability>>
            due == Chosen(Descriptors, Bindings, key)
            agree == {p \in due : a.capability \in DOMAIN registry[p]
                                   /\ registry[p][a.capability].marker = a.marker}
        IN
        a.result =
            IF key \notin Needs(Descriptors) THEN [tag |-> "Undeclared", handles |-> {}]
            ELSE IF Need(Descriptors, key).cardinality \notin Admits(a.mode)
            THEN [tag |-> "CardinalityMismatch", handles |-> {}]
            ELSE IF agree # due THEN [tag |-> "TypeMismatch", handles |-> {}]
            ELSE [tag |-> "Ok", handles |-> due]
=============================================================================
