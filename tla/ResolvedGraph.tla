--------------------------- MODULE ResolvedGraph ----------------------------
(***************************************************************************)
(* What ResolvedGraph of kernox-core (graph.rs) promises to the runtime    *)
(* that walks it: the resolver must deliver it and the lifecycle executor  *)
(* relies on it.                                                           *)
(***************************************************************************)
EXTENDS Naturals, Sequences, Registry

CONSTANT Plugins   \* plugin identities

\* A resolved graph: a startup order without repetition, each plugin's offers,
\* and edges whose provider comes earlier and offers the capability.
IsResolvedGraph(g) ==
    /\ g.order \in Seq(Plugins)
    /\ \A i, j \in 1..Len(g.order) : g.order[i] = g.order[j] => i = j
    /\ g.offers \in [Plugins -> OfferSet]
    /\ g.edges \subseteq [consumer : Plugins, provider : Plugins, capability : Caps]
    /\ \A e \in g.edges :
        /\ e.capability \in DOMAIN g.offers[e.provider]
        /\ \E i, j \in 1..Len(g.order) :
            i < j /\ g.order[i] = e.provider /\ g.order[j] = e.consumer
=============================================================================
