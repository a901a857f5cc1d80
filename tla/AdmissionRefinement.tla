------------------------- MODULE AdmissionRefinement ------------------------
(* The serverless host implements the admission contract: a call is admitted  *)
(* when its scope is registered, and ends when that scope is Closed.          *)
EXTENDS ServerlessHost

\* Scopes that are numbered and not yet registered belong to no admitted call.
Admitted == {s \in Invocations : scope[s] # "None"}
            \ {held[t] : t \in In({"Numbered"})}

LiveScopes == {s \in Admitted : scope[s] \in {"Open", "Closing"}}

Contract == INSTANCE AdmissionContract
              WITH ScopeNames <- Invocations, Capacity <- MaxConcurrent,
                   open <- accepting,
                   live <- LiveScopes,
                   spent <- Admitted

\* Whatever the threads, drops, leaks and interrupted shutdowns do, the platform
\* sees the contract: each admission gets a scope nobody had before, the live
\* scopes, Closing ones included, never exceed the configured maximum, a scope
\* ends once, and nothing is admitted after shutdown began (begin_invocation,
\* Scope::child, the field order of Invocation, shutdown).
ImplementsAdmission == Contract!Spec
=============================================================================
