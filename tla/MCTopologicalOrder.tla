------------------------- MODULE MCTopologicalOrder -------------------------
(* Every graph without self-dependencies (resolve rejects those earlier) of *)
(* up to MaxNodes plugins and one capability, and of up to MaxLabelled with *)
(* two capabilities, so that two edges may join the same plugins.           *)
EXTENDS TopologicalOrder

CONSTANTS MaxNodes, MaxLabelled

MCIds == 1..MaxNodes
MCLinks == {"a", "b"}
GraphsOver(ns, caps) ==
    {[nodes |-> ns, edges |-> es] :
        es \in SUBSET {e \in [provider : ns, consumer : ns, capability : caps] : e.provider # e.consumer}}
MCInputs == GraphsOver(1..MaxNodes, {"a"}) \cup GraphsOver(1..MaxLabelled, {"a", "b"})
=============================================================================
