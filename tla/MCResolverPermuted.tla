------------------------- MODULE MCResolverPermuted -------------------------
(* Two descriptors with the same identity, and one with more declarations   *)
(* than the composition's limit allows, in every order.                     *)
EXTENDS ResolverPermuted

MCIds == 1..2
MCLinks == 1..2
MCSemVers == {1}
MCMaxima == [plugins |-> 3, capabilities |-> 2, edges |-> 2]

None == [c \in {} |-> c]
Small == [id |-> 1, provides |-> None, requires |-> None, conflicts |-> {}]
Large == [id |-> 2, provides |-> [c \in {1, 2} |-> 1], requires |-> None, conflicts |-> {}]

MCSpecs ==
    {[schema |-> 1, limits |-> [MCMaxima EXCEPT !.capabilities = 1], plugins |-> ps, bindings |-> << >>] :
        ps \in {<<Small, Small, Large>>, <<Small, Large, Small>>, <<Large, Small, Small>>}}
=============================================================================
