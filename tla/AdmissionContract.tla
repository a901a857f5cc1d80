-------------------------- MODULE AdmissionContract -------------------------
(***************************************************************************)
(* What the serverless host promises the platform (docs/specs/             *)
(* 20260815T185400Z-runtime-contract.md, Host contract): one application   *)
(* is reused across invocations, each admitted call gets a fresh scope, no *)
(* more than the configured number live at a time, and none is admitted    *)
(* once shutdown has begun.  Threads, counters and registries are unknown  *)
(* here.                                                                   *)
(***************************************************************************)
EXTENDS Naturals, FiniteSets

CONSTANTS
    ScopeNames,   \* identities of invocation scopes
    Capacity      \* the most that may live at a time

VARIABLES
    open,         \* the host admits invocations
    live,         \* scopes of the invocations that were admitted and have not ended
    spent         \* every scope there ever was

contractVars == <<open, live, spent>>

Init == open = TRUE /\ live = {} /\ spent = {}

Admit(s) ==
    /\ open /\ Cardinality(live) < Capacity
    /\ s \notin spent
    /\ live' = live \cup {s}
    /\ spent' = spent \cup {s}
    /\ UNCHANGED open

\* An invocation ends, or shutdown ends those that were never returned.
End(S) ==
    /\ S \subseteq live /\ S # {}
    /\ live' = live \ S
    /\ UNCHANGED <<open, spent>>

Close ==
    /\ open
    /\ open' = FALSE
    /\ UNCHANGED <<live, spent>>

Next ==
    \/ \E s \in ScopeNames : Admit(s)
    \/ \E S \in SUBSET ScopeNames : End(S)
    \/ Close

Spec == Init /\ [][Next]_contractVars
=============================================================================
