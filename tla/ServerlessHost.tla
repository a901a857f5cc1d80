--------------------------- MODULE ServerlessHost ---------------------------
(***************************************************************************)
(* kernox-host-serverless: admission of invocations into a warm            *)
(* application, on the scope tree of Scope.                                *)
(*                                                                         *)
(* begin_invocation takes &self, so platform threads run it at the same    *)
(* time; one step is one atomic access.  An Invocation borrows the host,   *)
(* and shutdown takes &mut self: it starts only while no thread is inside  *)
(* begin_invocation or holds an Invocation.  What the borrow checker does  *)
(* not rule out is an Invocation that is leaked (mem::forget), whose scope *)
(* stays registered and whose unit of capacity is never returned, and a    *)
(* shutdown() future that is dropped while hooks run.  The error paths     *)
(* behind the second check of accepting need an overlap of shutdown with   *)
(* begin_invocation and are never taken.                                   *)
(***************************************************************************)
EXTENDS Scope

CONSTANTS
    Threads,          \* platform threads
    MaxConcurrent,    \* ServerlessConfig::max_concurrent_invocations
    MaxLeaks          \* bound: how many Invocations are leaked

ASSUME HostAssumption ==
    MaxConcurrent \in Nat \ {0} /\ MaxLeaks \in Nat /\ IsFiniteSet(Threads)

VARIABLES
    accepting, active,   \* the host's two atomics
    thread,              \* where each thread is, see ThreadStates
    held,                \* the scope a thread is creating, using or closing
    leaked,              \* scopes of leaked Invocations
    app                  \* the RunningApp: "Ready", "ShuttingDown", "Interrupted", "Stopped"

hostVars == <<accepting, active, thread, held, leaked, app>>
vars == <<scopeVars, hostVars>>

\* Admitting to Entering are the steps of begin_invocation, Closing to
\* Releasing those of dropping the Invocation.
ThreadStates == {"Idle", "Admitting", "Counted", "Entering", "Numbered", "Live",
                 "Closing", "Closed", "Releasing"}

Init ==
    /\ ScopeInit
    /\ accepting = TRUE /\ active = 0
    /\ thread = [t \in Threads |-> "Idle"]
    /\ held = [t \in Threads |-> Application]
    /\ leaked = {}
    /\ app = "Ready"

Moves(t, from, to) == thread[t] = from /\ thread' = [thread EXCEPT ![t] = to]
Arriving == {t \in Threads : thread[t] \in {"Admitting", "Counted", "Entering"}}
Borrowed == \E t \in Threads : thread[t] # "Idle"

-----------------------------------------------------------------------------
(* begin_invocation *)

\* accepting is loaded and the deadline has not elapsed.  The calls refused
\* here, Closed or DeadlineExceeded, change nothing.
Enter(t) ==
    /\ accepting /\ app # "ShuttingDown"
    /\ next_id + Cardinality(Arriving) <= MaxScopes
    /\ Moves(t, "Idle", "Admitting")
    /\ UNCHANGED <<scopeVars, accepting, active, held, leaked, app>>

RefusedEarly(t) ==
    /\ thread[t] = "Idle" /\ ~accepting /\ app # "ShuttingDown"
    /\ UNCHANGED vars

HasCapacity == active < MaxConcurrent

\* fetch_update: the check and the increment are one atomic step.
TakeCapacity(t) ==
    /\ HasCapacity
    /\ active' = active + 1
    /\ Moves(t, "Admitting", "Counted")
    /\ UNCHANGED <<scopeVars, accepting, held, leaked, app>>

RefusedCapacity(t) ==
    /\ ~HasCapacity
    /\ Moves(t, "Admitting", "Idle")
    /\ UNCHANGED <<scopeVars, accepting, active, held, leaked, app>>

\* The second load of accepting and the first check of Scope::child.  The
\* error path, as that of RegisterScope, gives the unit of capacity back.
Recheck(t) ==
    /\ IF accepting /\ IsOpen(Application)
       THEN Moves(t, "Counted", "Entering") /\ UNCHANGED active
       ELSE Moves(t, "Counted", "Idle") /\ active' = active - 1
    /\ UNCHANGED <<scopeVars, accepting, held, leaked, app>>

CreateScope(t) ==
    /\ Allocate
    /\ Moves(t, "Entering", "Numbered")
    /\ held' = [held EXCEPT ![t] = next_id]
    /\ UNCHANGED <<accepting, active, leaked, app>>

RegisterScope(t) ==
    /\ IF IsOpen(Application)
       THEN Register(held[t]) /\ Moves(t, "Numbered", "Live") /\ UNCHANGED active
       ELSE Discard(held[t]) /\ Moves(t, "Numbered", "Idle") /\ active' = active - 1
    /\ UNCHANGED <<accepting, held, leaked, app>>

-----------------------------------------------------------------------------
(* The Invocation goes out of scope: its handler returned, failed, unwound or *)
(* was cancelled.  Fields drop in order, the scope before the counter.        *)

DropInvocation(t) ==
    /\ BeginClose(held[t])
    /\ Moves(t, "Live", "Closing")
    /\ UNCHANGED <<accepting, active, held, leaked, app>>

CloseScope(t) ==
    /\ FinishClose(held[t])
    /\ Moves(t, "Closing", "Closed")
    /\ UNCHANGED <<accepting, active, held, leaked, app>>

PruneScope(t) ==
    /\ Prune(held[t])
    /\ Moves(t, "Closed", "Releasing")
    /\ UNCHANGED <<accepting, active, held, leaked, app>>

\* Seeded defect: a dropped Invocation keeps its unit of capacity.
ReleaseCapacity_Forgotten(t) ==
    /\ Moves(t, "Releasing", "Idle")
    /\ UNCHANGED <<scopeVars, accepting, active, held, leaked, app>>

\* InvocationCounter::drop.
ReleaseCapacity(t) ==
    /\ active' = active - 1
    /\ Moves(t, "Releasing", "Idle")
    /\ UNCHANGED <<scopeVars, accepting, held, leaked, app>>

LeakInvocation(t) ==
    /\ Cardinality(leaked) < MaxLeaks
    /\ leaked' = leaked \cup {held[t]}
    /\ Moves(t, "Live", "Idle")
    /\ UNCHANGED <<scopeVars, accepting, active, held, app>>

-----------------------------------------------------------------------------
(* shutdown *)

BeginShutdown ==
    /\ app \in {"Ready", "Interrupted"} /\ ~Borrowed
    /\ accepting' = FALSE
    /\ BeginCloseAll
    /\ app' = "ShuttingDown"
    /\ UNCHANGED <<active, thread, held, leaked>>

\* The hooks have run.
FinishShutdown ==
    /\ app = "ShuttingDown"
    /\ FinishCloseAll
    /\ app' = "Stopped"
    /\ UNCHANGED <<accepting, active, thread, held, leaked>>

DropShutdownFuture ==
    /\ app = "ShuttingDown"
    /\ app' = "Interrupted"
    /\ UNCHANGED <<scopeVars, accepting, active, thread, held, leaked>>

-----------------------------------------------------------------------------
Next ==
    \/ \E t \in Threads :
         \/ Enter(t) \/ RefusedEarly(t) \/ TakeCapacity(t) \/ RefusedCapacity(t)
         \/ Recheck(t) \/ CreateScope(t) \/ RegisterScope(t)
         \/ DropInvocation(t) \/ CloseScope(t) \/ PruneScope(t) \/ ReleaseCapacity(t)
         \/ LeakInvocation(t)
    \/ BeginShutdown \/ FinishShutdown \/ DropShutdownFuture

Spec == Init /\ [][Next]_vars

-----------------------------------------------------------------------------
(* Properties *)

In(states) == {t \in Threads : thread[t] \in states}

\* Capacity is neither lost nor given back twice: active is the number of calls
\* between fetch_update and InvocationCounter::drop, and of leaked Invocations,
\* whatever was refused in between.
CapacityAccounted ==
    active = Cardinality(In(ThreadStates \ {"Idle", "Admitting"})) + Cardinality(leaked)

\* The application's registry holds exactly the scopes that are in use, so a
\* warm instance does not accumulate closed ones and shutdown misses none; a
\* handler's scope is its own and Open for as long as it runs, and so is the
\* application's (child, finish_close, ServerlessHost).
RegistryExact ==
    /\ children = {held[t] : t \in In({"Live", "Closing", "Closed"})}
                  \cup (IF app = "Stopped" THEN {} ELSE leaked)
    /\ \A t, u \in In({"Live", "Closing", "Closed"}) : held[t] = held[u] => t = u
    /\ \A t \in In({"Live"}) : held[t] \notin leaked /\ IsOpen(held[t]) /\ IsOpen(Application)

\* From the moment shutdown begins no scope is Open, leaked ones included, and
\* no call gets past the first check, also after a shutdown() that was dropped;
\* when it completes every scope is Closed (shutdown, begin_close, finish_close).
ShutdownClosesScopes ==
    /\ app # "Ready" => ~Borrowed /\ \A s \in ScopeIds : ~IsOpen(s)
    /\ app = "Stopped" => \A s \in ScopeIds : scope[s] \in {"None", "Closed"}
=============================================================================
