------------------------------ MODULE MCRelease ------------------------------
(* Three released crates and a helper that is not released.  Every acyclic or *)
(* cyclic dependency relation between the three, and one workspace for each   *)
(* other thing release_check looks at.                                        *)
EXTENDS Release

MCOrder == <<"core", "runtime", "kernox">>
MCNames == ToSet(MCOrder) \cup {"xtask"}

Sound == [publishable |-> ToSet(MCOrder), version |-> [n \in MCNames |-> "0.1"],
          documented |-> MCNames, lockfile |-> TRUE,
          path_dependencies |-> {<<"runtime", "core">>, <<"kernox", "core">>}]

MCWorkspaces ==
    {[Sound EXCEPT !.path_dependencies = d] :
        d \in SUBSET {<<a, b>> \in ToSet(MCOrder) \X ToSet(MCOrder) : a # b}}
    \cup {[Sound EXCEPT !.publishable = p] : p \in SUBSET MCNames}
    \cup {[Sound EXCEPT !.version = v] : v \in [MCNames -> {"0.1", "0.2", "1.0"}]}
    \cup {[Sound EXCEPT !.documented = p] : p \in SUBSET MCNames}
    \cup {[Sound EXCEPT !.lockfile = FALSE]}
=============================================================================
