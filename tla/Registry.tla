------------------------------ MODULE Registry ------------------------------
(***************************************************************************)
(* The provision registry of kernox-runtime (capability.rs): what one      *)
(* plugin's initialize hook may publish, when the publication is refused,  *)
(* and what a lookup returns.  Pure operators; the executor in Lifecycle   *)
(* owns the state.                                                         *)
(*                                                                         *)
(* A capability's contract, as a marker type carries it, is its version    *)
(* and the marker type itself.  A descriptor's offer names the identity    *)
(* and the version only, so a publication is checked for these two and a   *)
(* lookup is checked for the marker.                                       *)
(***************************************************************************)
CONSTANTS
    Caps,       \* capability identities
    Versions,   \* contract versions
    Markers     \* Rust marker types

Contract == [version : Versions, marker : Markers]

\* ProvisionSet: staged provisions keyed by capability identity.
ProvisionSet == UNION {[C -> Contract] : C \in SUBSET Caps}

\* The descriptor's offers: the promised version of each offered identity.
OfferSet == UNION {[C -> Versions] : C \in SUBSET Caps}

NoProvisions == [c \in {} |-> c]

-----------------------------------------------------------------------------
Undeclared(offers, staged) == DOMAIN staged \ DOMAIN offers

VersionMismatch(offers, staged) ==
    {c \in DOMAIN staged \cap DOMAIN offers : staged[c].version # offers[c]}

Missing(offers, staged) == DOMAIN offers \ DOMAIN staged

\* Seeded defect: a publication that leaves out an offered capability passes.
CommitErrors_IncompleteAccepted(offers, staged) ==
       (IF Undeclared(offers, staged) # {} THEN {"Undeclared"} ELSE {})
       \cup (IF VersionMismatch(offers, staged) # {} THEN {"VersionMismatch"} ELSE {})

\* Registry::commit's verdict: empty when the transaction is accepted.  The
\* staged provisions are checked first, in an order of identities this model
\* does not fix (hence a set); missing offers are looked for only afterwards.
CommitErrors(offers, staged) ==
    LET bad == (IF Undeclared(offers, staged) # {} THEN {"Undeclared"} ELSE {})
               \cup (IF VersionMismatch(offers, staged) # {} THEN {"VersionMismatch"} ELSE {})
    IN  IF bad # {} THEN bad
        ELSE IF Missing(offers, staged) # {} THEN {"Missing"} ELSE {}

\* BTreeMap::insert of every staged provision under the publishing plugin.
Insert(held, staged) ==
    [c \in DOMAIN held \cup DOMAIN staged |->
        IF c \in DOMAIN staged THEN staged[c] ELSE held[c]]

\* Registry::get: the outcome of looking up a provider's capability as `marker`.
Get(registry, provider, capability, marker) ==
    IF capability \notin DOMAIN registry[provider] THEN "MissingProvision"
    ELSE IF registry[provider][capability].marker # marker THEN "TypeMismatch"
    ELSE "Ok"
=============================================================================
