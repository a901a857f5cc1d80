-------------------------- MODULE ResolverPermuted --------------------------
(***************************************************************************)
(* Two resolutions of one composition, the second with its descriptors     *)
(* declared in another order.                                              *)
(***************************************************************************)
EXTENDS Resolver

VARIABLE first   \* the tag the first resolution returned: << >> or <<tag>>

PermutedInit == Init /\ first = << >>

IsReordering(ps, qs) ==
    \E f \in [1..Len(ps) -> 1..Len(ps)] :
        /\ \A i, j \in 1..Len(ps) : f[i] = f[j] => i = j
        /\ qs = [i \in 1..Len(ps) |-> ps[f[i]]]

\* resolve() is called again, on a reordered composition.
ResolveAgain ==
    /\ phase = "returned" /\ first = << >>
    /\ first' = <<outcome.tag>>
    /\ \E s \in Specs :
        /\ IsReordering(spec.plugins, s.plugins)
        /\ s = [spec EXCEPT !.plugins = s.plugins]
        /\ spec' = s
    /\ phase' = "input" /\ at' = 1
    /\ plugins' = Empty /\ bindings' = Empty
    /\ todo' = {} /\ unlinked' = {} /\ requirements' = << >> /\ used' = {}
    /\ diagnostics' = {}
    /\ outcome' = [tag |-> "Pending", about |-> << >>]
    /\ nodes' = {} /\ edges' = {} /\ indegree' = Empty /\ ready' = {} /\ order' = << >>
    /\ visited' = Empty /\ stack' = << >> /\ cycle' = << >> /\ verdict' = "sorting"

PermutedNext ==
    \/ ResolveNext /\ UNCHANGED first
    \/ ResolveAgain
    \/ phase = "returned" /\ first # << >> /\ UNCHANGED <<allVars, first>>

PermutedSpec == PermutedInit /\ [][PermutedNext]_<<allVars, first>>

\* "Resolution and diagnostics are deterministic under descriptor insertion
\* permutation": both resolutions return the same tag.
DiagnosticsPermutationFree == phase = "returned" /\ first # << >> => <<outcome.tag>> = first
=============================================================================
