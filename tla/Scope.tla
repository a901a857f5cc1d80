------------------------------- MODULE Scope --------------------------------
(***************************************************************************)
(* The scope tree of kernox-runtime (scope.rs), as RunningApp uses it: the *)
(* application scope and its invocation scopes.  A step is one atomic      *)
(* access or one section under the children mutex of the application       *)
(* scope.  Invocation scopes never get children of their own.              *)
(***************************************************************************)
EXTENDS Naturals, FiniteSets

CONSTANT MaxScopes   \* bound: invocation scopes numbered 1..MaxScopes

ASSUME ScopesAssumption == MaxScopes \in Nat

Application == 0
Invocations == 1..MaxScopes
ScopeIds == {Application} \cup Invocations

VARIABLES
    scope,      \* each ScopeInner's state; "None" before it exists
    children,   \* the application scope's registry of Weak references
    next_id     \* the shared sequence counter

scopeVars == <<scope, children, next_id>>

ScopeInit ==
    /\ scope = [s \in ScopeIds |-> IF s = Application THEN "Open" ELSE "None"]
    /\ children = {}
    /\ next_id = 1

IsOpen(s) == scope[s] = "Open"

\* Seeded defect: the sequence number is not advanced.
Allocate_Reuses ==
    /\ next_id <= MaxScopes
    /\ scope' = [scope EXCEPT ![next_id] = "Open"]
    /\ UNCHANGED <<children, next_id>>

\* child: the sequence number and the ScopeInner, which starts Open.
Allocate ==
    /\ next_id <= MaxScopes
    /\ next_id' = next_id + 1
    /\ scope' = [scope EXCEPT ![next_id] = "Open"]
    /\ UNCHANGED children

\* child, under the mutex, when admission is still open; and when it is not:
\* the ScopeInner is dropped unregistered.
Register(s) ==
    /\ children' = children \cup {s}
    /\ UNCHANGED <<scope, next_id>>

Discard(s) ==
    /\ scope' = [scope EXCEPT ![s] = "None"]
    /\ UNCHANGED <<children, next_id>>

\* begin_close of an invocation scope: the swap.  It has no children to visit.
BeginClose(s) ==
    /\ scope' = [scope EXCEPT ![s] = IF @ = "Closed" THEN "Closed" ELSE "Closing"]
    /\ UNCHANGED <<children, next_id>>

\* finish_close of an invocation scope: the store.
FinishClose(s) ==
    /\ scope' = [scope EXCEPT ![s] = "Closed"]
    /\ UNCHANGED <<children, next_id>>

\* Seeded defect: the closed scope stays in the application's registry.
Prune_Forgotten(s) == UNCHANGED scopeVars

\* finish_close, under the application's mutex: retain everything else.
Prune(s) ==
    /\ children' = children \ {s}
    /\ UNCHANGED <<scope, next_id>>

\* Seeded defect: closing the application leaves its invocations open.
BeginCloseAll_AppOnly ==
    /\ scope' = [scope EXCEPT ![Application] = IF @ = "Closed" THEN "Closed" ELSE "Closing"]
    /\ UNCHANGED <<children, next_id>>

\* begin_close of the application scope and of every registered child, and
\* below finish_close.  Both need the application to themselves (&mut self).
BeginCloseAll ==
    /\ scope' = [s \in ScopeIds |->
         IF s \in children \cup {Application} /\ scope[s] # "Closed" THEN "Closing" ELSE scope[s]]
    /\ UNCHANGED <<children, next_id>>

FinishCloseAll ==
    /\ scope' = [s \in ScopeIds |-> IF s \in children \cup {Application} THEN "Closed" ELSE scope[s]]
    /\ children' = {}
    /\ UNCHANGED next_id
=============================================================================
