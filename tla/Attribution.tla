---------------------------- MODULE Attribution -----------------------------
(***************************************************************************)
(* verify_graph_attribution of kernox-core (attribution.rs): the walk over *)
(* the plugins of a resolved graph, in identity order, that the test kit   *)
(* and cargo-kernox share.  `source` maps each plugin to its PluginSource, *)
(* none or one, as a package and whether a repository is named.            *)
(***************************************************************************)
EXTENDS Naturals, FiniteSets, Sequences

MINIMUM_VERIFIED_PLUGINS == 3

MissingSource(source, p) == source[p] = << >> \/ ~source[p][1].repository

\* Seeded defect: a package is compared with that of the plugin before only.
Repeated_Neighbour(source, p) ==
    \E q \in DOMAIN source :
        /\ q < p /\ ~\E r \in DOMAIN source : q < r /\ r < p
        /\ ~MissingSource(source, q) /\ source[q][1].package = source[p][1].package

\* packages.insert finds the package of an earlier plugin.
Repeated(source, p) ==
    \E q \in DOMAIN source :
        q < p /\ ~MissingSource(source, q) /\ source[q][1].package = source[p][1].package

Fault(source, p) ==
    IF MissingSource(source, p) THEN "conformance.missing-source"
    ELSE IF Repeated(source, p) THEN "conformance.duplicate-source-package"
    ELSE "None"

\* "Ok" with the packages, or the first fault.
VerifyGraphAttribution(source) ==
    LET faulty == {p \in DOMAIN source : Fault(source, p) # "None"}
        first == CHOOSE p \in faulty : \A q \in faulty : p <= q
    IN  IF Cardinality(DOMAIN source) < MINIMUM_VERIFIED_PLUGINS
        THEN [tag |-> "conformance.too-few-plugins", packages |-> {}]
        ELSE IF faulty # {} THEN [tag |-> Fault(source, first), packages |-> {}]
        ELSE [tag |-> "Ok", packages |-> {source[p][1].package : p \in DOMAIN source}]

\* The reference: enough plugins, each with a package and a repository of its own.
Attributed(source) ==
    /\ Cardinality(DOMAIN source) >= MINIMUM_VERIFIED_PLUGINS
    /\ \A p \in DOMAIN source : Len(source[p]) = 1 /\ source[p][1].repository
    /\ \A p, q \in DOMAIN source : p # q => source[p][1].package # source[q][1].package
=============================================================================
