---------------------------- MODULE MCLifecycle -----------------------------
(* Lifecycle over every resolved graph of up to MaxPlugins plugins, each    *)
(* offering one capability of its own.  Identities are interchangeable to   *)
(* the executor, so one startup order per size is enough.                   *)
EXTENDS LifecycleRefinement

CONSTANT MaxPlugins

MCPlugins == 1..MaxPlugins
MCCaps == MCPlugins
MCOffers == [p \in MCPlugins |-> [c \in {p} |-> "v1"]]

MCGraphs ==
    UNION {{[order |-> [i \in 1..n |-> i], offers |-> MCOffers, edges |-> edges] :
              edges \in SUBSET {[consumer |-> j, provider |-> i, capability |-> i] :
                                  <<i, j>> \in {ij \in (1..n) \X (1..n) : ij[1] < ij[2]}}}
           : n \in 0..MaxPlugins}
=============================================================================
