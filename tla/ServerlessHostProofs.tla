------------------------ MODULE ServerlessHostProofs -------------------------
(***************************************************************************)
(* Proofs about ServerlessHost for every finite set of platform threads,   *)
(* every configured maximum, and any number of scopes and leaks.           *)
(***************************************************************************)
EXTENDS AdmissionRefinement, FiniteSetTheorems, TLAPS

ScopeStates == {"None", "Open", "Closing", "Closed"}
AppStates == {"Ready", "ShuttingDown", "Interrupted", "Stopped"}

\* Threads that own the scope in held, and those that own a unit of capacity.
Holding == {"Numbered", "Live", "Closing", "Closed", "Releasing"}
Counted == ThreadStates \ {"Idle", "Admitting"}

TypeInv ==
    /\ scope \in [ScopeIds -> ScopeStates]
    /\ children \subseteq Invocations
    /\ next_id \in 1..(MaxScopes + 1)
    /\ accepting \in BOOLEAN /\ active \in Nat
    /\ thread \in [Threads -> ThreadStates]
    /\ held \in [Threads -> ScopeIds]
    /\ leaked \subseteq Invocations
    /\ app \in AppStates

(***************************************************************************)
(* Scopes in use have one owner each: the thread that numbered them or,    *)
(* once leaked, nobody.  Sequence numbers at and above next_id are unused. *)
(***************************************************************************)
OwnerInv ==
    /\ \A s \in Invocations : s >= next_id <=> scope[s] = "None"
    /\ \A s \in leaked : s < next_id
    /\ \A t \in In(Holding) : held[t] \in Invocations \ leaked /\ held[t] < next_id
    /\ \A t, u \in In(Holding) : held[t] = held[u] => t = u
    /\ \A s \in Invocations : scope[s] \in {"Open", "Closing"} =>
         s \in leaked \/ \E t \in In({"Numbered", "Live", "Closing"}) : held[t] = s

\* A scope is as far as the thread that owns it.
ProgressInv ==
    \A t \in Threads :
        /\ thread[t] \in {"Numbered", "Live"} => scope[held[t]] = "Open"
        /\ thread[t] = "Closing" => scope[held[t]] = "Closing"
        /\ thread[t] \in {"Closed", "Releasing"} => scope[held[t]] = "Closed"

\* Shutdown has the host to itself, and closes what was leaked.
AppInv ==
    /\ app = "Ready" => accepting /\ \A s \in leaked \cup {Application} : scope[s] = "Open"
    /\ app # "Ready" => ~accepting /\ ~Borrowed
    /\ app \in {"ShuttingDown", "Interrupted"} =>
         \A s \in leaked \cup {Application} : scope[s] = "Closing"
    /\ app = "Stopped" => \A s \in leaked \cup {Application} : scope[s] = "Closed"

ChildrenInv ==
    children = {held[t] : t \in In({"Live", "Closing", "Closed"})}
               \cup (IF app = "Stopped" THEN {} ELSE leaked)

CapacityInv == CapacityAccounted /\ active <= MaxConcurrent

IInv == TypeInv /\ OwnerInv /\ ProgressInv /\ AppInv /\ ChildrenInv /\ CapacityInv

-----------------------------------------------------------------------------
(* Facts about threads and their numbers. *)

\* Which threads are in which states after one of them has moved.
LEMMA MovedThreads ==
    ASSUME TypeInv, NEW t \in Threads, NEW to, thread' = [thread EXCEPT ![t] = to]
    PROVE  /\ \A u \in Threads : thread'[u] = IF u = t THEN to ELSE thread[u]
           /\ \A S : In(S)' = IF to \in S THEN In(S) \cup {t} ELSE In(S) \ {t}
<1>1. \A u \in Threads : thread'[u] = IF u = t THEN to ELSE thread[u]
  BY DEF TypeInv
<1>2. QED
  BY <1>1 DEF In

\* Any set of threads is finite and has a cardinality.
LEMMA ThreadsFinite ==
    ASSUME NEW S PROVE IsFiniteSet(In(S)) /\ Cardinality(In(S)) \in Nat
<1>1. In(S) \subseteq Threads
  BY DEF In
<1>2. QED
  BY <1>1, HostAssumption, FS_Subset, FS_CardinalityType

\* So has the set of leaked scopes.
LEMMA LeakedFinite ==
    ASSUME TypeInv PROVE IsFiniteSet(leaked) /\ Cardinality(leaked) \in Nat
<1>1. IsFiniteSet(Invocations)
  BY ScopesAssumption, FS_Interval DEF Invocations
<1>2. QED
  BY <1>1, FS_Subset, FS_CardinalityType DEF TypeInv

\* Moving a thread changes the number of threads that own a unit of capacity by
\* what that thread gains or loses.
LEMMA MovedCapacity ==
    ASSUME TypeInv, NEW t \in Threads, NEW to \in ThreadStates, thread' = [thread EXCEPT ![t] = to]
    PROVE  Cardinality(In(Counted))' =
             Cardinality(In(Counted)) + (IF to \in Counted THEN 1 ELSE 0)
                                      - (IF thread[t] \in Counted THEN 1 ELSE 0)
<1>1. In(Counted)' = IF to \in Counted THEN In(Counted) \cup {t} ELSE In(Counted) \ {t}
  BY MovedThreads
<1>2. t \in In(Counted) <=> thread[t] \in Counted
  BY DEF In
<1>3. IsFiniteSet(In(Counted)) /\ Cardinality(In(Counted)) \in Nat
  BY ThreadsFinite
<1> DEFINE A == In(Counted)
<1>4. /\ Cardinality(A \cup {t}) = IF t \in A THEN Cardinality(A) ELSE Cardinality(A) + 1
      /\ Cardinality(A \ {t}) = IF t \in A THEN Cardinality(A) - 1 ELSE Cardinality(A)
  <2> HIDE DEF A
  <2> IsFiniteSet(A)
    BY <1>3 DEF A
  <2> QED  BY FS_AddElement, FS_RemoveElement
<1>5. Cardinality(In(Counted))' = Cardinality(In(Counted)')
  OBVIOUS
<1>6. CASE to \in Counted
  BY <1>1, <1>2, <1>3, <1>4, <1>5, <1>6
<1>7. CASE to \notin Counted
  BY <1>1, <1>2, <1>3, <1>4, <1>5, <1>7
<1>8. QED
  BY <1>6, <1>7

\* A thread at work means that the application is Ready.
LEMMA BorrowedReady ==
    ASSUME IInv, NEW t \in Threads, thread[t] # "Idle"
    PROVE  app = "Ready" /\ accepting /\ IsOpen(Application) /\ Borrowed
BY DEF IInv, AppInv, Borrowed, IsOpen

-----------------------------------------------------------------------------
(* The steps.  Threads that own no scope first. *)

\* A thread that owns no scope before or after its step disturbs no scope.
LEMMA OutsideKeeps ==
    ASSUME IInv, NEW t \in Threads, NEW to \in ThreadStates \ Holding,
           thread[t] \notin Holding, thread' = [thread EXCEPT ![t] = to],
           app = "Ready", UNCHANGED <<scopeVars, accepting, held, leaked, app>>
    PROVE  OwnerInv' /\ ProgressInv' /\ AppInv' /\ ChildrenInv'
<1>1. TypeInv
  BY DEF IInv
<1>2. \A u \in Threads : thread'[u] = IF u = t THEN to ELSE thread[u]
  BY <1>1, MovedThreads
<1>3. \A S \in SUBSET Holding : In(S)' = In(S)
  BY <1>2 DEF In
<1>4. /\ UNCHANGED <<scope, children, next_id, accepting, held, leaked, app>>
      /\ In(Holding)' = In(Holding)
      /\ In({"Numbered", "Live", "Closing"})' = In({"Numbered", "Live", "Closing"})
      /\ In({"Live", "Closing", "Closed"})' = In({"Live", "Closing", "Closed"})
  BY <1>3 DEF Holding, scopeVars
<1>5. OwnerInv'
  BY <1>4 DEF IInv, OwnerInv
<1>6. ProgressInv'
  BY <1>2, <1>4 DEF IInv, ProgressInv, Holding
<1>7. AppInv'
  BY <1>4 DEF IInv, AppInv
<1>8. ChildrenInv'
  BY <1>4 DEF IInv, ChildrenInv
<1>9. QED
  BY <1>5, <1>6, <1>7, <1>8

\* begin_invocation up to the allocation of a scope: admission, the capacity
\* check and the recheck.
LEMMA EnteringKeeps ==
    ASSUME IInv, NEW t \in Threads,
           Enter(t) \/ TakeCapacity(t) \/ RefusedCapacity(t) \/ Recheck(t)
    PROVE  IInv'
<1>1. TypeInv /\ app = "Ready" /\ accepting /\ IsOpen(Application)
  BY BorrowedReady DEF Enter, TakeCapacity, RefusedCapacity, Recheck, Moves, IInv, AppInv, IsOpen
<1>2. PICK to \in {"Admitting", "Counted", "Idle", "Entering"} :
        /\ thread' = [thread EXCEPT ![t] = to]
        /\ thread[t] \in {"Idle", "Admitting", "Counted"}
        /\ \/ thread[t] = "Idle" /\ to = "Admitting" /\ active' = active
           \/ thread[t] = "Admitting" /\ to = "Counted" /\ active' = active + 1 /\ HasCapacity
           \/ thread[t] = "Admitting" /\ to = "Idle" /\ active' = active
           \/ thread[t] = "Counted" /\ to = "Entering" /\ active' = active
  BY <1>1 DEF Enter, TakeCapacity, RefusedCapacity, Recheck, Moves
<1>3. UNCHANGED <<scopeVars, accepting, held, leaked, app>>
  BY DEF Enter, TakeCapacity, RefusedCapacity, Recheck
<1>4. to \in ThreadStates \ Holding /\ thread[t] \notin Holding
  BY <1>2 DEF ThreadStates, Holding
<1>5. OwnerInv' /\ ProgressInv' /\ AppInv' /\ ChildrenInv'
  BY <1>1, <1>2, <1>3, <1>4, OutsideKeeps
<1>6. active \in Nat /\ active <= MaxConcurrent /\ MaxConcurrent \in Nat
      /\ active = Cardinality(In(Counted)) + Cardinality(leaked)
  BY HostAssumption DEF IInv, TypeInv, CapacityInv, CapacityAccounted, Counted
<1>7. TypeInv'
  BY <1>1, <1>2, <1>3, <1>4, <1>6 DEF TypeInv, scopeVars
<1>8. CapacityInv'
  <2>1. Cardinality(In(Counted))' =
             Cardinality(In(Counted)) + (IF to \in Counted THEN 1 ELSE 0)
                                      - (IF thread[t] \in Counted THEN 1 ELSE 0)
    BY <1>1, <1>2, <1>4, MovedCapacity
  <2>2. "Admitting" \notin Counted /\ "Idle" \notin Counted /\ "Counted" \in Counted /\ "Entering" \in Counted
    BY DEF Counted, ThreadStates
  <2>3. Cardinality(In(Counted)) \in Nat /\ Cardinality(leaked) \in Nat
    BY <1>1, ThreadsFinite, LeakedFinite
  <2>4. active' = Cardinality(In(Counted))' + Cardinality(leaked) /\ active' <= MaxConcurrent
    BY <1>2, <1>6, <2>1, <2>2, <2>3 DEF HasCapacity
  <2>5. QED
    BY <1>3, <2>4 DEF CapacityInv, CapacityAccounted, Counted
<1>9. QED
  BY <1>5, <1>7, <1>8 DEF IInv

\* A thread keeps its unit of capacity from one step to the next.
LEMMA UnitKept ==
    ASSUME IInv, NEW t \in Threads, NEW to \in Counted, thread[t] \in Counted,
           thread' = [thread EXCEPT ![t] = to], UNCHANGED <<active, leaked>>
    PROVE  CapacityInv'
<1>1. TypeInv /\ to \in ThreadStates /\ Cardinality(In(Counted)) \in Nat
  <2>1. Cardinality(In(Counted)) \in Nat
    BY ThreadsFinite
  <2>2. QED
    BY <2>1 DEF IInv, Counted
<1>2. Cardinality(In(Counted))' = Cardinality(In(Counted)) + (IF to \in Counted THEN 1 ELSE 0)
                                                          - (IF thread[t] \in Counted THEN 1 ELSE 0)
  BY <1>1, MovedCapacity
<1>3. Cardinality(In(Counted))' = Cardinality(In(Counted))
  BY <1>1, <1>2
<1>4. QED
  BY <1>3 DEF IInv, CapacityInv, CapacityAccounted, Counted

\* What the owner of a scope may rely on.
LEMMA OwnerFacts ==
    ASSUME IInv, NEW t \in Threads, thread[t] \in Holding
    PROVE  /\ held[t] \in Invocations /\ held[t] \notin leaked /\ held[t] < next_id
           /\ held[t] \in ScopeIds /\ held[t] # Application
           /\ \A u \in Threads : thread[u] \in Holding /\ held[u] = held[t] => u = t
<1>1. t \in In(Holding)
  BY DEF In
<1>2. held[t] \in Invocations /\ held[t] \notin leaked /\ held[t] < next_id
  BY <1>1 DEF IInv, OwnerInv
<1>3. held[t] \in ScopeIds /\ held[t] # Application
  BY <1>2, ScopesAssumption DEF ScopeIds, Invocations, Application
<1>4. ASSUME NEW u \in Threads, thread[u] \in Holding, held[u] = held[t] PROVE u = t
  <2>1. u \in In(Holding)
    BY <1>4 DEF In
  <2>2. QED
    BY <1>1, <1>4, <2>1 DEF IInv, OwnerInv
<1>5. QED
  BY <1>2, <1>3, <1>4

\* child allocates a fresh scope for the thread.
LEMMA CreateKeeps == ASSUME IInv, NEW t \in Threads, CreateScope(t) PROVE IInv'
<1>1. /\ thread[t] = "Entering" /\ thread' = [thread EXCEPT ![t] = "Numbered"]
      /\ next_id \in Invocations /\ next_id' = next_id + 1
      /\ scope' = [scope EXCEPT ![next_id] = "Open"] /\ held' = [held EXCEPT ![t] = next_id]
      /\ UNCHANGED <<children, accepting, active, leaked, app>>
  BY ScopesAssumption DEF CreateScope, Allocate, Moves, IInv, TypeInv, Invocations
<1>2. TypeInv /\ next_id \in ScopeIds /\ next_id # Application /\ next_id \in Nat
  BY <1>1, ScopesAssumption DEF IInv, ScopeIds, Invocations, Application
<1>3. /\ \A u \in Threads : thread'[u] = IF u = t THEN "Numbered" ELSE thread[u]
      /\ \A u \in Threads : held'[u] = IF u = t THEN next_id ELSE held[u]
      /\ \A s \in ScopeIds : scope'[s] = IF s = next_id THEN "Open" ELSE scope[s]
  BY <1>1, <1>2 DEF TypeInv
<1>4. /\ In(Holding)' = In(Holding) \cup {t} /\ t \notin In(Holding)
      /\ In({"Numbered", "Live", "Closing"})' = In({"Numbered", "Live", "Closing"}) \cup {t}
      /\ In({"Live", "Closing", "Closed"})' = In({"Live", "Closing", "Closed"})
  BY <1>1, <1>3 DEF In, Holding
<1>5. \A s \in Invocations : s \in Nat /\ s \in ScopeIds
  BY ScopesAssumption DEF Invocations, ScopeIds
<1>6. TypeInv'
  BY <1>1, <1>2, ScopesAssumption DEF TypeInv, ThreadStates, ScopeStates, Invocations
<1>7. OwnerInv'
  <2>1. \A s \in Invocations : s >= next_id' <=> scope'[s] = "None"
    BY <1>1, <1>2, <1>3, <1>5 DEF IInv, OwnerInv
  <2>2. \A s \in leaked' : s < next_id'
    BY <1>1, <1>2, <1>5 DEF IInv, TypeInv, OwnerInv
  <2>3. \A u \in In(Holding)' : held'[u] \in Invocations \ leaked' /\ held'[u] < next_id'
    <3>1. next_id \notin leaked
      BY <1>1, <1>2, <1>5 DEF IInv, OwnerInv
    <3>2. ASSUME NEW u \in In(Holding), u # t
          PROVE  held'[u] \in Invocations \ leaked /\ held'[u] < next_id + 1
      <4>1. held'[u] = held[u]
        BY <1>3, <3>2 DEF In
      <4>2. held[u] \in Invocations \ leaked /\ held[u] < next_id
        BY DEF IInv, OwnerInv
      <4>3. QED
        BY <1>2, <1>5, <4>1, <4>2
    <3>3. held'[t] = next_id
      BY <1>3
    <3>4. QED
      BY <1>1, <1>2, <1>4, <3>1, <3>2, <3>3
  <2>4. \A u, v \in In(Holding)' : held'[u] = held'[v] => u = v
    <3>1. \A u \in In(Holding) : held[u] # next_id /\ u \in Threads
      BY <1>2, <1>5 DEF IInv, OwnerInv, In
    <3>2. ASSUME NEW u \in In(Holding)', NEW v \in In(Holding)', held'[u] = held'[v] PROVE u = v
      <4>1. u \in Threads /\ v \in Threads
        BY <3>2 DEF In
      <4>2. u # t /\ v # t => u \in In(Holding) /\ v \in In(Holding) /\ held[u] = held[v]
        BY <1>3, <1>4, <3>2, <4>1
      <4>3. QED
        BY <1>3, <1>4, <3>1, <3>2, <4>1, <4>2 DEF IInv, OwnerInv
    <3>3. QED
      BY <3>2
  <2>5. ASSUME NEW s \in Invocations, scope'[s] \in {"Open", "Closing"}
        PROVE  s \in leaked' \/ \E u \in In({"Numbered", "Live", "Closing"})' : held'[u] = s
    <3>1. CASE s = next_id
      BY <1>3, <1>4, <3>1
    <3>2. CASE s # next_id
      <4>1. scope[s] \in {"Open", "Closing"}
        BY <1>3, <1>5, <2>5, <3>2
      <4>2. t \notin In({"Numbered", "Live", "Closing"})
        BY <1>1 DEF In
      <4>3. CASE s \in leaked
        BY <1>1, <4>3
      <4>4. CASE \E u \in In({"Numbered", "Live", "Closing"}) : held[u] = s
        BY <1>3, <1>4, <4>2, <4>4 DEF In
      <4>5. QED
        BY <4>1, <4>3, <4>4 DEF IInv, OwnerInv
    <3>3. QED
      BY <3>1, <3>2
  <2>6. QED
    BY <2>1, <2>2, <2>3, <2>4, <2>5 DEF OwnerInv
<1>8. ProgressInv'
  <2>1. \A u \in In(Holding) : held[u] # next_id /\ held[u] \in ScopeIds
    BY <1>2, <1>5 DEF IInv, OwnerInv
  <2>2. scope'[held'[t]] = "Open" /\ thread'[t] = "Numbered"
    BY <1>2, <1>3
  <2>3. ASSUME NEW u \in Threads, u # t, thread[u] \in Holding
        PROVE  scope'[held'[u]] = scope[held[u]] /\ thread'[u] = thread[u]
    BY <1>3, <2>1, <2>3 DEF In
  <2>4. \A u \in Threads : u # t => thread'[u] = thread[u]
    BY <1>3
  <2>5. QED
    BY <2>2, <2>3, <2>4 DEF IInv, ProgressInv, Holding
<1>9. AppInv'
  <2>1. app = "Ready" /\ accepting /\ \A s \in leaked \cup {Application} : scope[s] = "Open"
    BY <1>1, BorrowedReady DEF IInv, AppInv
  <2>2. \A s \in leaked \cup {Application} : s \in ScopeIds
    BY <1>5 DEF IInv, TypeInv, ScopeIds
  <2>3. QED
    BY <1>1, <1>3, <2>1, <2>2 DEF AppInv
<1>10. ChildrenInv'
  <2>1. {held'[u] : u \in In({"Live", "Closing", "Closed"})'} = {held[u] : u \in In({"Live", "Closing", "Closed"})}
    BY <1>1, <1>3, <1>4 DEF In
  <2>2. QED
    BY <1>1, <2>1 DEF IInv, ChildrenInv
<1>11. CapacityInv'
  BY <1>1, UnitKept DEF Counted, ThreadStates
<1>12. QED
  BY <1>6, <1>7, <1>8, <1>9, <1>10, <1>11 DEF IInv

\* A thread takes its own scope a step further.
LEMMA OwnScopeKeeps ==
    ASSUME IInv, NEW t \in Threads, NEW to \in Holding, NEW v \in {"Open", "Closing", "Closed"},
           thread[t] \in Holding, thread' = [thread EXCEPT ![t] = to],
           scope' = [scope EXCEPT ![held[t]] = v],
           to \in {"Numbered", "Live"} => v = "Open", to = "Closing" => v = "Closing",
           to \in {"Closed", "Releasing"} => v = "Closed",
           UNCHANGED <<next_id, accepting, active, held, leaked, app>>
    PROVE  OwnerInv' /\ ProgressInv' /\ AppInv' /\ CapacityInv'
<1>1. /\ held[t] \in Invocations /\ held[t] \notin leaked /\ held[t] < next_id
      /\ held[t] \in ScopeIds /\ held[t] # Application
      /\ \A u \in Threads : thread[u] \in Holding /\ held[u] = held[t] => u = t
  BY OwnerFacts
<1>2. /\ TypeInv
      /\ \A u \in Threads : thread'[u] = IF u = t THEN to ELSE thread[u]
      /\ \A s \in ScopeIds : scope'[s] = IF s = held[t] THEN v ELSE scope[s]
  BY <1>1 DEF IInv, TypeInv
<1>3. In(Holding)' = In(Holding)
  BY <1>2 DEF In
<1>4. \A s \in Invocations : s \in ScopeIds /\ s \in Nat
  BY ScopesAssumption DEF Invocations, ScopeIds
<1>5. OwnerInv'
  <2>1. \A s \in Invocations : s >= next_id <=> scope'[s] = "None"
    <3>1. scope[held[t]] # "None" /\ next_id \in Nat
      BY <1>1, <1>4 DEF IInv, OwnerInv, TypeInv
    <3>2. QED
      BY <1>1, <1>2, <1>4, <3>1 DEF IInv, OwnerInv
  <2>2. ASSUME NEW s \in Invocations, scope'[s] \in {"Open", "Closing"}, s \notin leaked
        PROVE  \E u \in In({"Numbered", "Live", "Closing"})' : held[u] = s
    <3>1. CASE s = held[t]
      <4>1. to \in {"Numbered", "Live", "Closing"}
        BY <1>2, <1>4, <2>2, <3>1 DEF Holding
      <4>2. t \in In({"Numbered", "Live", "Closing"})'
        BY <1>2, <4>1 DEF In
      <4>3. QED
        BY <3>1, <4>2
    <3>2. CASE s # held[t]
      <4>1. scope[s] \in {"Open", "Closing"}
        BY <1>2, <1>4, <2>2, <3>2
      <4>2. PICK u \in In({"Numbered", "Live", "Closing"}) : held[u] = s
        BY <2>2, <4>1 DEF IInv, OwnerInv
      <4>3. u # t /\ u \in Threads /\ thread[u] \in {"Numbered", "Live", "Closing"}
        BY <3>2, <4>2 DEF In
      <4>4. u \in In({"Numbered", "Live", "Closing"})'
        BY <1>2, <4>3 DEF In
      <4>5. QED
        BY <4>2, <4>4
    <3>3. QED
      BY <3>1, <3>2
  <2>3. QED
    BY <1>3, <2>1, <2>2 DEF IInv, OwnerInv
<1>6. ProgressInv'
  <2>1. ASSUME NEW u \in Threads, u # t, thread[u] \in Holding
        PROVE  scope'[held[u]] = scope[held[u]] /\ thread'[u] = thread[u]
    BY <1>1, <1>2, <2>1 DEF TypeInv
  <2>2. scope'[held[t]] = v /\ thread'[t] = to
    BY <1>1, <1>2
  <2>3. \A u \in Threads : u # t => thread'[u] = thread[u]
    BY <1>2
  <2>4. QED
    BY <2>1, <2>2, <2>3 DEF IInv, ProgressInv, Holding
<1>7. AppInv'
  <2>1. app = "Ready" /\ accepting /\ \A s \in leaked \cup {Application} : scope[s] = "Open"
    <3>1. thread[t] # "Idle"
      BY DEF Holding
    <3>2. QED
      BY <3>1, BorrowedReady DEF IInv, AppInv
  <2>2. \A s \in leaked \cup {Application} : s \in ScopeIds /\ s # held[t]
    BY <1>1, <1>2, <1>4 DEF TypeInv, ScopeIds
  <2>3. QED
    BY <1>2, <2>1, <2>2 DEF AppInv
<1>8. CapacityInv'
  <2>1. to \in Counted /\ thread[t] \in Counted
    BY DEF Holding, Counted, ThreadStates
  <2>2. QED
    BY <2>1, UnitKept
<1>9. QED
  BY <1>5, <1>6, <1>7, <1>8

\* child registers the scope; the application scope is still Open, so the path
\* that discards it is not taken.
LEMMA RegisterKeeps == ASSUME IInv, NEW t \in Threads, RegisterScope(t) PROVE IInv'
<1>1. /\ thread[t] = "Numbered" /\ thread' = [thread EXCEPT ![t] = "Live"]
      /\ children' = children \cup {held[t]}
      /\ UNCHANGED <<scope, next_id, accepting, active, held, leaked, app>> /\ TypeInv
  <2>1. thread[t] = "Numbered"
    BY DEF RegisterScope, Moves
  <2>2. IsOpen(Application)
    BY <2>1, BorrowedReady
  <2>3. QED
    BY <2>1, <2>2 DEF RegisterScope, Moves, Register, IInv
<1>2. held[t] \in Invocations /\ held[t] \in ScopeIds
  BY <1>1, OwnerFacts DEF Holding
<1>3. scope' = [scope EXCEPT ![held[t]] = "Open"]
  <2>1. scope[held[t]] = "Open"
    BY <1>1 DEF IInv, ProgressInv
  <2>2. QED
    BY <1>1, <1>2, <2>1 DEF TypeInv
<1>4. OwnerInv' /\ ProgressInv' /\ AppInv' /\ CapacityInv'
  BY <1>1, <1>3, OwnScopeKeeps DEF Holding
<1>5. TypeInv'
  BY <1>1, <1>2 DEF TypeInv, ThreadStates
<1>6. ChildrenInv'
  <2>1. In({"Live", "Closing", "Closed"})' = In({"Live", "Closing", "Closed"}) \cup {t}
    BY <1>1 DEF In, TypeInv
  <2>2. QED
    <3>1. {held[u] : u \in In({"Live", "Closing", "Closed"}) \cup {t}}
            = {held[u] : u \in In({"Live", "Closing", "Closed"})} \cup {held[t]}
      OBVIOUS
    <3>2. QED
      BY <1>1, <2>1, <3>1 DEF IInv, ChildrenInv
<1>7. QED
  BY <1>4, <1>5, <1>6 DEF IInv

\* The Invocation is dropped: its scope is closed, then taken out of the registry.
LEMMA DropKeeps ==
    ASSUME IInv, NEW t \in Threads, DropInvocation(t) \/ CloseScope(t) \/ PruneScope(t)
    PROVE  IInv'
<1>1. TypeInv /\ thread[t] \in Holding
  BY DEF IInv, DropInvocation, CloseScope, PruneScope, Moves, Holding
<1>2. held[t] \in Invocations /\ held[t] \in ScopeIds /\ held[t] \notin leaked
  BY <1>1, OwnerFacts
<1>3. CASE DropInvocation(t) \/ CloseScope(t)
  <2>1. PICK to \in {"Closing", "Closed"} :
          /\ thread' = [thread EXCEPT ![t] = to] /\ thread[t] \in {"Live", "Closing"}
          /\ scope' = [scope EXCEPT ![held[t]] = to]
          /\ UNCHANGED <<children, next_id, accepting, active, held, leaked, app>>
    <3>1. thread[t] = "Live" => scope[held[t]] = "Open"
      BY DEF IInv, ProgressInv
    <3>2. CASE DropInvocation(t)
      BY <3>1, <3>2, <1>1, <1>2 DEF DropInvocation, Moves, BeginClose, TypeInv
    <3>3. CASE CloseScope(t)
      BY <3>3 DEF CloseScope, Moves, FinishClose
    <3>4. QED
      BY <1>3, <3>2, <3>3
  <2>2. OwnerInv' /\ ProgressInv' /\ AppInv' /\ CapacityInv'
    BY <1>1, <2>1, OwnScopeKeeps DEF Holding
  <2>3. TypeInv'
    BY <1>1, <1>2, <2>1 DEF TypeInv, ThreadStates, ScopeStates
  <2>4. ChildrenInv'
    <3>1. In({"Live", "Closing", "Closed"})' = In({"Live", "Closing", "Closed"})
      BY <1>1, <2>1, MovedThreads DEF In
    <3>2. QED
      BY <2>1, <3>1 DEF IInv, ChildrenInv
  <2>5. QED
    BY <2>2, <2>3, <2>4 DEF IInv
<1>4. CASE PruneScope(t)
  <2>1. /\ thread[t] = "Closed" /\ thread' = [thread EXCEPT ![t] = "Releasing"]
        /\ children' = children \ {held[t]}
        /\ UNCHANGED <<scope, next_id, accepting, active, held, leaked, app>>
    BY <1>4 DEF PruneScope, Moves, Prune
  <2>2. scope' = [scope EXCEPT ![held[t]] = "Closed"]
    <3>1. scope[held[t]] = "Closed"
      BY <2>1 DEF IInv, ProgressInv
    <3>2. QED
      BY <1>1, <1>2, <2>1, <3>1 DEF TypeInv
  <2>3. OwnerInv' /\ ProgressInv' /\ AppInv' /\ CapacityInv'
    BY <1>1, <2>1, <2>2, OwnScopeKeeps DEF Holding
  <2>4. TypeInv'
    BY <1>1, <1>2, <2>1 DEF TypeInv, ThreadStates
  <2>5. ChildrenInv'
    <3>1. In({"Live", "Closing", "Closed"})' = In({"Live", "Closing", "Closed"}) \ {t}
      BY <1>1, <2>1 DEF In, TypeInv
    <3>2. \A u \in In({"Live", "Closing", "Closed"}) : held[u] = held[t] => u = t
      BY <1>1, OwnerFacts DEF In, Holding
    <3>3. {held[u] : u \in In({"Live", "Closing", "Closed"}) \ {t}}
            = {held[u] : u \in In({"Live", "Closing", "Closed"})} \ {held[t]}
      BY <3>2
    <3>4. (IF app = "Stopped" THEN {} ELSE leaked) \ {held[t]} = IF app = "Stopped" THEN {} ELSE leaked
      BY <1>2
    <3>5. QED
      BY <2>1, <3>1, <3>3, <3>4 DEF IInv, ChildrenInv
  <2>6. QED
    BY <2>3, <2>4, <2>5 DEF IInv
<1>5. QED
  BY <1>3, <1>4

\* The thread gives its unit of capacity back, or leaks its Invocation: either
\* way it owns no scope afterwards.
LEMMA LeaveKeeps ==
    ASSUME IInv, NEW t \in Threads, ReleaseCapacity(t) \/ LeakInvocation(t) PROVE IInv'
<1>1. /\ TypeInv /\ thread[t] \in Holding /\ thread' = [thread EXCEPT ![t] = "Idle"]
      /\ UNCHANGED <<scope, children, next_id, accepting, held, app>>
  BY DEF IInv, ReleaseCapacity, LeakInvocation, Moves, Holding, scopeVars
<1>2. /\ held[t] \in Invocations /\ held[t] \notin leaked /\ held[t] < next_id /\ held[t] \in ScopeIds
      /\ \A u \in Threads : thread[u] \in Holding /\ held[u] = held[t] => u = t
  BY <1>1, OwnerFacts
<1>3. \A u \in Threads : thread'[u] = IF u = t THEN "Idle" ELSE thread[u]
  BY <1>1 DEF TypeInv
<1>4. /\ In(Holding)' = In(Holding) \ {t}
      /\ \A u \in In(Holding)' : u \in In(Holding) /\ u # t /\ u \in Threads /\ thread[u] \in Holding
  BY <1>1, <1>3 DEF In, Holding
<1>5. /\ app = "Ready" /\ accepting
      /\ \A s \in leaked \cup {Application} : scope[s] = "Open"
  <2>1. thread[t] # "Idle"
    BY <1>1 DEF Holding
  <2>2. QED
    BY <2>1, BorrowedReady DEF IInv, AppInv
<1>6. ProgressInv'
  BY <1>1, <1>3 DEF IInv, ProgressInv
<1>7. /\ Cardinality(In(Counted))' = Cardinality(In(Counted)) - 1
      /\ Cardinality(In(Counted)) \in Nat /\ Cardinality(leaked) \in Nat /\ IsFiniteSet(leaked)
      /\ active \in Nat /\ active <= MaxConcurrent /\ MaxConcurrent \in Nat
      /\ active = Cardinality(In(Counted)) + Cardinality(leaked)
  <2>1. /\ "Idle" \in ThreadStates /\ "Idle" \notin Counted /\ thread[t] \in Counted
    BY <1>1 DEF Counted, ThreadStates, Holding
  <2>2. Cardinality(In(Counted))' = Cardinality(In(Counted)) + (IF "Idle" \in Counted THEN 1 ELSE 0)
                                      - (IF thread[t] \in Counted THEN 1 ELSE 0)
    BY <1>1, <2>1, MovedCapacity
  <2>3. Cardinality(In(Counted)) \in Nat /\ Cardinality(leaked) \in Nat /\ IsFiniteSet(leaked)
    BY <1>1, ThreadsFinite, LeakedFinite
  <2>4. /\ active \in Nat /\ active <= MaxConcurrent /\ MaxConcurrent \in Nat
        /\ active = Cardinality(In(Counted)) + Cardinality(leaked)
    BY HostAssumption DEF IInv, TypeInv, CapacityInv, CapacityAccounted, Counted
  <2>5. QED
    BY <2>1, <2>2, <2>3, <2>4
<1>8. CASE ReleaseCapacity(t)
  <2>1. thread[t] = "Releasing" /\ active' = active - 1 /\ UNCHANGED leaked
    BY <1>8 DEF ReleaseCapacity, Moves
  <2>2. \A S \in SUBSET {"Numbered", "Live", "Closing", "Closed"} : In(S)' = In(S)
    BY <1>3, <2>1 DEF In
  <2>3. /\ In({"Numbered", "Live", "Closing"})' = In({"Numbered", "Live", "Closing"})
        /\ In({"Live", "Closing", "Closed"})' = In({"Live", "Closing", "Closed"})
    BY <2>2
  <2>4. OwnerInv'
    BY <1>1, <1>4, <2>1, <2>3 DEF IInv, OwnerInv
  <2>5. AppInv'
    BY <1>1, <1>5, <2>1 DEF AppInv
  <2>6. ChildrenInv'
    BY <1>1, <2>1, <2>3 DEF IInv, ChildrenInv
  <2>7. active' \in Nat
    <3>1. t \in In(Counted)
      BY <1>1 DEF In, Counted, Holding, ThreadStates
    <3>2. Cardinality(In(Counted)) # 0
      BY <3>1, ThreadsFinite, FS_EmptySet
    <3>3. QED
      BY <1>7, <2>1, <3>2
  <2>8. TypeInv' /\ CapacityInv'
    BY <1>1, <1>7, <2>1, <2>7 DEF TypeInv, ThreadStates, CapacityInv, CapacityAccounted, Counted
  <2>9. QED
    BY <1>6, <2>4, <2>5, <2>6, <2>8 DEF IInv
<1>9. CASE LeakInvocation(t)
  <2>1. thread[t] = "Live" /\ leaked' = leaked \cup {held[t]} /\ UNCHANGED active
    BY <1>9 DEF LeakInvocation, Moves
  <2>2. scope[held[t]] = "Open"
    BY <2>1 DEF IInv, ProgressInv
  <2>3. /\ In({"Numbered", "Live", "Closing"})' = In({"Numbered", "Live", "Closing"}) \ {t}
        /\ In({"Live", "Closing", "Closed"})' = In({"Live", "Closing", "Closed"}) \ {t}
        /\ t \in In({"Live", "Closing", "Closed"})
    BY <1>3, <2>1 DEF In
  <2>4. OwnerInv'
    <3>1. \A s \in leaked' : s < next_id'
      BY <1>1, <1>2, <2>1 DEF IInv, OwnerInv
    <3>2. ASSUME NEW u \in In(Holding)'
          PROVE  held'[u] \in Invocations \ leaked' /\ held'[u] < next_id'
      <4>1. held[u] \in Invocations \ leaked /\ held[u] < next_id
        BY <1>4 DEF IInv, OwnerInv
      <4>2. held[u] # held[t]
        BY <1>2, <1>4
      <4>3. QED
        BY <1>1, <2>1, <4>1, <4>2
    <3>3. \A u, v \in In(Holding)' : held'[u] = held'[v] => u = v
      BY <1>1, <1>4 DEF IInv, OwnerInv
    <3>4. ASSUME NEW s \in Invocations, scope[s] \in {"Open", "Closing"}
          PROVE  s \in leaked' \/ \E u \in In({"Numbered", "Live", "Closing"})' : held[u] = s
      <4>1. CASE \E u \in In({"Numbered", "Live", "Closing"}) : held[u] = s
        BY <2>1, <2>3, <4>1
      <4>2. QED
        BY <2>1, <3>4, <4>1 DEF IInv, OwnerInv
    <3>5. QED
      BY <1>1, <3>1, <3>2, <3>3, <3>4 DEF IInv, OwnerInv
  <2>5. AppInv'
    BY <1>1, <1>5, <2>1, <2>2 DEF AppInv
  <2>6. ChildrenInv'
    <3>1. {held[u] : u \in In({"Live", "Closing", "Closed"}) \ {t}} \cup {held[t]}
            = {held[u] : u \in In({"Live", "Closing", "Closed"})}
      BY <2>3
    <3>2. children = {held[u] : u \in In({"Live", "Closing", "Closed"})} \cup leaked
      BY <1>5 DEF IInv, ChildrenInv
    <3>3. children = {held[u] : u \in In({"Live", "Closing", "Closed"}) \ {t}} \cup leaked'
      BY <2>1, <3>1, <3>2
    <3>4. QED
      BY <1>1, <1>5, <2>3, <3>3 DEF ChildrenInv
  <2>7. Cardinality(leaked') = Cardinality(leaked) + 1
    BY <1>2, <1>7, <2>1, FS_AddElement
  <2>8. CapacityInv'
    BY <1>7, <2>1, <2>7 DEF CapacityInv, CapacityAccounted, Counted
  <2>9. TypeInv'
    BY <1>1, <1>2, <1>7, <2>1 DEF TypeInv, ThreadStates
  <2>10. QED
    BY <1>6, <2>4, <2>5, <2>6, <2>8, <2>9 DEF IInv
<1>10. QED
  BY <1>8, <1>9

\* shutdown begins, completes, or its future is dropped.
LEMMA ShutdownKeeps ==
    ASSUME IInv, BeginShutdown \/ FinishShutdown \/ DropShutdownFuture PROVE IInv'
<1>1. /\ TypeInv /\ ~Borrowed /\ UNCHANGED <<next_id, active, thread, held, leaked>>
  BY DEF IInv, AppInv, BeginShutdown, FinishShutdown, DropShutdownFuture, BeginCloseAll,
         FinishCloseAll, scopeVars
<1>2. \A S : In(S)' = In(S) /\ ("Idle" \notin S => In(S) = {})
  BY <1>1 DEF In, Borrowed
<1>3. /\ In(Holding) = {} /\ In({"Numbered", "Live", "Closing"}) = {}
      /\ In({"Live", "Closing", "Closed"}) = {} /\ Borrowed' = Borrowed
  BY <1>1, <1>2 DEF Holding, Borrowed
<1>4. CapacityInv'
  BY <1>1, <1>2 DEF IInv, CapacityInv, CapacityAccounted
<1>5. ProgressInv'
  BY <1>1 DEF ProgressInv, Borrowed
<1>6. \A s \in Invocations : s \in ScopeIds /\ s # Application /\ s \in Nat
  BY ScopesAssumption DEF Invocations, ScopeIds, Application
<1>7. app # "Stopped" => children = leaked
  BY <1>3 DEF IInv, ChildrenInv
<1>8. \A s \in Invocations : scope[s] \in {"Open", "Closing"} => s \in leaked
  BY <1>3 DEF IInv, OwnerInv
<1>9. \A s \in leaked : s \in Invocations /\ s < next_id /\ scope[s] # "None"
  BY <1>1, <1>6 DEF IInv, OwnerInv, TypeInv
<1>10. CASE BeginShutdown
  <2>1. /\ app \in {"Ready", "Interrupted"} /\ app' = "ShuttingDown" /\ accepting' = FALSE
        /\ children = leaked /\ UNCHANGED children
        /\ \A s \in leaked \cup {Application} : scope[s] \in {"Open", "Closing"}
    BY <1>7, <1>10 DEF BeginShutdown, BeginCloseAll, IInv, AppInv
  <2>2. scope' = [s \in ScopeIds |-> IF s \in leaked \cup {Application} THEN "Closing" ELSE scope[s]]
    BY <1>10, <2>1 DEF BeginShutdown, BeginCloseAll
  <2>3. TypeInv'
    BY <1>1, <2>1, <2>2 DEF TypeInv, ScopeStates, AppStates
  <2>4. OwnerInv'
    BY <1>1, <1>2, <1>3, <1>6, <1>8, <1>9, <2>2 DEF IInv, OwnerInv
  <2>5. AppInv'
    <3>1. \A s \in leaked \cup {Application} : s \in ScopeIds /\ scope'[s] = "Closing"
      BY <1>6, <1>9, <2>2 DEF ScopeIds
    <3>2. QED
      BY <1>1, <1>3, <2>1, <3>1 DEF AppInv
  <2>6. ChildrenInv'
    BY <1>1, <1>2, <1>3, <2>1 DEF ChildrenInv
  <2>7. QED
    BY <1>4, <1>5, <2>3, <2>4, <2>5, <2>6 DEF IInv
<1>11. CASE FinishShutdown
  <2>1. /\ app = "ShuttingDown" /\ app' = "Stopped" /\ UNCHANGED accepting /\ ~accepting
        /\ children = leaked /\ children' = {}
    BY <1>7, <1>11 DEF FinishShutdown, FinishCloseAll, IInv, AppInv
  <2>2. scope' = [s \in ScopeIds |-> IF s \in leaked \cup {Application} THEN "Closed" ELSE scope[s]]
    BY <1>11, <2>1 DEF FinishShutdown, FinishCloseAll
  <2>3. TypeInv'
    BY <1>1, <2>1, <2>2 DEF TypeInv, ScopeStates, AppStates
  <2>4. OwnerInv'
    BY <1>1, <1>2, <1>3, <1>6, <1>8, <1>9, <2>2 DEF IInv, OwnerInv
  <2>5. AppInv'
    <3>1. \A s \in leaked \cup {Application} : s \in ScopeIds /\ scope'[s] = "Closed"
      BY <1>6, <1>9, <2>2 DEF ScopeIds
    <3>2. QED
      BY <1>1, <1>3, <2>1, <3>1 DEF AppInv
  <2>6. ChildrenInv'
    BY <1>1, <1>2, <1>3, <2>1 DEF ChildrenInv
  <2>7. QED
    BY <1>4, <1>5, <2>3, <2>4, <2>5, <2>6 DEF IInv
<1>12. CASE DropShutdownFuture
  <2>1. /\ app = "ShuttingDown" /\ app' = "Interrupted"
        /\ UNCHANGED <<scope, children, accepting>>
    BY <1>12 DEF DropShutdownFuture, scopeVars
  <2>2. TypeInv'
    BY <1>1, <2>1 DEF TypeInv, AppStates
  <2>3. OwnerInv'
    BY <1>1, <1>2, <2>1 DEF IInv, OwnerInv
  <2>4. AppInv'
    BY <1>1, <1>3, <2>1 DEF IInv, AppInv
  <2>5. ChildrenInv'
    BY <1>1, <1>2, <1>3, <2>1 DEF IInv, ChildrenInv
  <2>6. QED
    BY <1>4, <1>5, <2>2, <2>3, <2>4, <2>5 DEF IInv
<1>13. QED
  BY <1>10, <1>11, <1>12

-----------------------------------------------------------------------------
(* The invariant. *)

\* A fresh host satisfies the invariant.
LEMMA InitIInv == Init => IInv
<1> SUFFICES ASSUME Init PROVE IInv
  OBVIOUS
<1>1. \A S : "Idle" \notin S => In(S) = {}
  BY DEF Init, In
<1>2. /\ In(Holding) = {} /\ In(Counted) = {} /\ In({"Numbered", "Live", "Closing"}) = {}
      /\ In({"Live", "Closing", "Closed"}) = {}
  BY <1>1 DEF Holding, Counted
<1>3. \A s \in Invocations : s \in ScopeIds /\ s # Application /\ s \in Nat /\ s >= 1
  BY ScopesAssumption DEF Invocations, ScopeIds, Application
<1>4. TypeInv
  BY ScopesAssumption
  DEF Init, ScopeInit, TypeInv, ScopeStates, AppStates, ThreadStates, ScopeIds, Application
<1>5. OwnerInv
  BY <1>2, <1>3 DEF Init, ScopeInit, OwnerInv
<1>6. ProgressInv
  BY DEF Init, ProgressInv
<1>7. AppInv
  BY DEF Init, ScopeInit, AppInv, ScopeIds
<1>8. ChildrenInv
  BY <1>2 DEF Init, ScopeInit, ChildrenInv
<1>9. CapacityInv
  <2>1. Cardinality(In(Counted)) = 0 /\ Cardinality(leaked) = 0 /\ active = 0
    BY <1>2, FS_EmptySet DEF Init
  <2>2. QED
    BY <2>1, HostAssumption DEF CapacityInv, CapacityAccounted, Counted
<1>10. QED
  BY <1>4, <1>5, <1>6, <1>7, <1>8, <1>9 DEF IInv

\* Every step of every thread, and of shutdown, preserves it.
LEMMA NextIInv == IInv /\ [Next]_vars => IInv'
<1> SUFFICES ASSUME IInv, [Next]_vars PROVE IInv'
  OBVIOUS
<1>1. CASE UNCHANGED vars
  <2>1. UNCHANGED <<scope, children, next_id, accepting, active, thread, held, leaked, app>>
    BY <1>1 DEF vars, scopeVars, hostVars
  <2>2. TypeInv' /\ OwnerInv' /\ ProgressInv' /\ AppInv' /\ ChildrenInv' /\ CapacityInv'
    BY <2>1 DEF IInv, TypeInv, OwnerInv, ProgressInv, AppInv, ChildrenInv, CapacityInv,
                CapacityAccounted, In, Borrowed
  <2>3. QED
    BY <2>2 DEF IInv
<1>2. ASSUME NEW t \in Threads,
             Enter(t) \/ TakeCapacity(t) \/ RefusedCapacity(t) \/ Recheck(t) PROVE IInv'
  BY <1>2, EnteringKeeps
<1>3. ASSUME NEW t \in Threads, RefusedEarly(t) PROVE IInv'
  BY <1>1, <1>3 DEF RefusedEarly
<1>4. ASSUME NEW t \in Threads, CreateScope(t) PROVE IInv'
  BY <1>4, CreateKeeps
<1>5. ASSUME NEW t \in Threads, RegisterScope(t) PROVE IInv'
  BY <1>5, RegisterKeeps
<1>6. ASSUME NEW t \in Threads, DropInvocation(t) \/ CloseScope(t) \/ PruneScope(t) PROVE IInv'
  BY <1>6, DropKeeps
<1>7. ASSUME NEW t \in Threads, ReleaseCapacity(t) \/ LeakInvocation(t) PROVE IInv'
  BY <1>7, LeaveKeeps
<1>8. CASE BeginShutdown \/ FinishShutdown \/ DropShutdownFuture
  BY <1>8, ShutdownKeeps
<1>9. QED
  BY <1>1, <1>2, <1>3, <1>4, <1>5, <1>6, <1>7, <1>8 DEF Next

\* The inductive invariant holds in every reachable state.
THEOREM HostInvariance == Spec => []IInv
BY InitIInv, NextIInv, PTL DEF Spec

\* No unit of capacity is lost or given back twice, whatever threads are refused,
\* return, unwind or leak (CapacityAccounted).
THEOREM CapacityIsAccounted == Spec => []CapacityAccounted
<1>1. IInv => CapacityAccounted
  BY DEF IInv, CapacityInv
<1>2. QED
  BY <1>1, HostInvariance, PTL

\* The registry holds exactly the scopes in use, each with one owner, Open while
\* its handler runs (RegistryExact).
THEOREM RegistryIsExact == Spec => []RegistryExact
<1>1. IInv => RegistryExact
  <2> SUFFICES ASSUME IInv PROVE RegistryExact
    OBVIOUS
  <2>1. \A t, u \in In({"Live", "Closing", "Closed"}) : held[t] = held[u] => t = u
    BY DEF IInv, OwnerInv, In, Holding
  <2>2. \A t \in In({"Live"}) : held[t] \notin leaked /\ IsOpen(held[t]) /\ IsOpen(Application)
    <3> SUFFICES ASSUME NEW t \in Threads, thread[t] = "Live"
                 PROVE  held[t] \notin leaked /\ IsOpen(held[t]) /\ IsOpen(Application)
      BY DEF In
    <3>1. held[t] \notin leaked
      BY OwnerFacts DEF Holding
    <3>2. IsOpen(held[t])
      BY DEF IInv, ProgressInv, IsOpen
    <3>3. IsOpen(Application)
      BY BorrowedReady
    <3>4. QED
      BY <3>1, <3>2, <3>3
  <2>3. QED
    BY <2>1, <2>2 DEF IInv, ChildrenInv, RegistryExact
<1>2. QED
  BY <1>1, HostInvariance, PTL

\* Once shutdown has begun no scope is Open and no call is under way, also after
\* its future was dropped, and when it completes no scope is left unclosed
\* (ShutdownClosesScopes).
THEOREM ShutdownClosesAll == Spec => []ShutdownClosesScopes
<1>1. IInv => ShutdownClosesScopes
  <2> SUFFICES ASSUME IInv, app # "Ready"
               PROVE  /\ ~Borrowed /\ \A s \in ScopeIds : ~IsOpen(s)
                      /\ app = "Stopped" => \A s \in ScopeIds : scope[s] \in {"None", "Closed"}
    BY DEF ShutdownClosesScopes
  <2>1. ~Borrowed /\ In({"Numbered", "Live", "Closing"}) = {}
    BY DEF IInv, AppInv, Borrowed, In
  <2>2. \A s \in Invocations : scope[s] \in {"Open", "Closing"} => s \in leaked
    BY <2>1 DEF IInv, OwnerInv
  <2>3. \A s \in leaked \cup {Application} : scope[s] = IF app = "Stopped" THEN "Closed" ELSE "Closing"
    BY DEF IInv, AppInv, TypeInv, AppStates
  <2>4. \A s \in ScopeIds : scope[s] \in ScopeStates
    BY DEF IInv, TypeInv
  <2>5. QED
    BY <2>1, <2>2, <2>3, <2>4 DEF IsOpen, ScopeIds, ScopeStates
<1>2. QED
  BY <1>1, HostInvariance, PTL

-----------------------------------------------------------------------------
(* The admission contract. *)

\* The live scopes of the contract are leaked or held by a thread that has a
\* registered scope which is not Closed.
LEMMA LiveScopesOwned ==
    ASSUME IInv
    PROVE  LiveScopes \subseteq {held[t] : t \in In({"Live", "Closing"})} \cup leaked
<1> SUFFICES ASSUME NEW s \in LiveScopes, s \notin leaked
             PROVE  s \in {held[t] : t \in In({"Live", "Closing"})}
  OBVIOUS
<1>1. /\ s \in Invocations /\ scope[s] \in {"Open", "Closing"}
      /\ s \notin {held[t] : t \in In({"Numbered"})}
  BY DEF LiveScopes, Admitted
<1>2. PICK t \in In({"Numbered", "Live", "Closing"}) : held[t] = s
  BY <1>1 DEF IInv, OwnerInv
<1>3. t \in In({"Live", "Closing"})
  BY <1>1, <1>2 DEF In
<1>4. QED
  BY <1>2, <1>3

\* While a thread is about to register its scope there is room for it.
LEMMA RoomForOne ==
    ASSUME IInv, NEW t \in Threads, thread[t] = "Numbered"
    PROVE  Cardinality(LiveScopes) < MaxConcurrent
<1> DEFINE W == In({"Live", "Closing"})
           H == {held[u] : u \in W}
           f == [u \in W |-> held[u]]
<1>1. IsFiniteSet(W) /\ Cardinality(W) \in Nat
  BY ThreadsFinite
<1>2. IsFiniteSet(leaked) /\ Cardinality(leaked) \in Nat
  BY LeakedFinite DEF IInv
<1>3. f \in Surjection(W, H)
  BY DEF Surjection
<1>4. IsFiniteSet(H) /\ Cardinality(H) <= Cardinality(W) /\ Cardinality(H) \in Nat
  <2> HIDE DEF W, H, f
  <2> QED  BY <1>1, <1>3, FS_Surjection, FS_CardinalityType
<1>5. /\ IsFiniteSet(H \cup leaked) /\ Cardinality(H \cup leaked) \in Nat
      /\ Cardinality(H \cup leaked) <= Cardinality(H) + Cardinality(leaked)
  <2> HIDE DEF H
  <2>1. IsFiniteSet(H \cap leaked) /\ Cardinality(H \cap leaked) \in Nat
    BY <1>4, FS_Intersection, FS_CardinalityType
  <2>2. /\ IsFiniteSet(H \cup leaked)
        /\ Cardinality(H \cup leaked) = Cardinality(H) + Cardinality(leaked) - Cardinality(H \cap leaked)
    BY <1>2, <1>4, FS_Union
  <2>3. QED
    BY <1>2, <1>4, <2>1, <2>2, FS_CardinalityType
<1>6. IsFiniteSet(LiveScopes) /\ Cardinality(LiveScopes) \in Nat
      /\ Cardinality(LiveScopes) <= Cardinality(H \cup leaked)
  <2>1. LiveScopes \subseteq H \cup leaked
    BY LiveScopesOwned
  <2> HIDE DEF H
  <2>2. QED
    BY <1>5, <2>1, FS_Subset, FS_CardinalityType
<1>7. Cardinality(W) + 1 <= Cardinality(In(Counted))
  <2>1. t \notin W /\ W \cup {t} \subseteq In(Counted)
    BY DEF In, Counted, ThreadStates
  <2>2. IsFiniteSet(In(Counted))
    BY ThreadsFinite
  <2> HIDE DEF W
  <2>3. Cardinality(W \cup {t}) = Cardinality(W) + 1
    BY <1>1, <2>1, FS_AddElement
  <2>4. Cardinality(W \cup {t}) <= Cardinality(In(Counted))
    BY <2>1, <2>2, FS_Subset
  <2>5. QED
    BY <2>3, <2>4
<1>8. /\ active = Cardinality(In(Counted)) + Cardinality(leaked)
      /\ active <= MaxConcurrent /\ MaxConcurrent \in Nat /\ active \in Nat
  BY HostAssumption DEF IInv, TypeInv, CapacityInv, CapacityAccounted, Counted
<1>9. Cardinality(In(Counted)) \in Nat
  BY ThreadsFinite
<1>10. QED
  <2> HIDE DEF W, H
  <2> QED  BY <1>1, <1>2, <1>4, <1>5, <1>6, <1>7, <1>8, <1>9

\* Which scopes the contract has seen, and which of them live, scope by scope.
Pending(s) == \E t \in Threads : thread[t] = "Numbered" /\ held[t] = s
Seen(s) == s \in Invocations /\ scope[s] # "None" /\ ~Pending(s)
Lives(s) == Seen(s) /\ scope[s] \in {"Open", "Closing"}

\* They are the sets of the mapping.
LEMMA ScopeByScope ==
    /\ \A s : (s \in Admitted <=> Seen(s)) /\ (s \in LiveScopes <=> Lives(s))
    /\ \A s : (s \in Admitted' <=> Seen(s)') /\ (s \in LiveScopes' <=> Lives(s)')
BY DEF Admitted, LiveScopes, Seen, Lives, Pending, In

\* A step that changes neither is a stutter of the contract, if the host goes on
\* admitting as before.
LEMMA Invisible ==
    ASSUME \A s \in Invocations : (Seen(s)' <=> Seen(s)) /\ (Lives(s)' <=> Lives(s))
    PROVE  UNCHANGED <<LiveScopes, Admitted>>
<1>1. \A s : (Seen(s)' <=> Seen(s)) /\ (Lives(s)' <=> Lives(s))
  BY DEF Seen, Lives
<1>2. QED
  BY <1>1, ScopeByScope

\* A fresh host has admitted nothing.
LEMMA InitContract == Init => Contract!Init
<1> SUFFICES ASSUME Init PROVE Contract!Init
  OBVIOUS
<1>1. \A s \in Invocations : scope[s] = "None"
  BY ScopesAssumption DEF Init, ScopeInit, ScopeIds, Invocations, Application
<1>2. Admitted = {} /\ LiveScopes = {}
  BY <1>1 DEF Admitted, LiveScopes
<1>3. QED
  BY <1>2 DEF Contract!Init, Init

\* The steps of begin_invocation that register nothing, and the return of the
\* unit of capacity, are invisible.
LEMMA QuietSteps ==
    ASSUME IInv, NEW t \in Threads,
           \/ Enter(t) \/ RefusedEarly(t) \/ TakeCapacity(t) \/ RefusedCapacity(t) \/ Recheck(t)
           \/ PruneScope(t) \/ ReleaseCapacity(t) \/ LeakInvocation(t)
    PROVE  UNCHANGED <<accepting, LiveScopes, Admitted>>
<1>1. /\ UNCHANGED <<scope, held, accepting>>
      /\ thread' = thread \/ \E to \in ThreadStates \ {"Numbered"} : thread' = [thread EXCEPT ![t] = to]
      /\ thread[t] # "Numbered"
  BY DEF Enter, RefusedEarly, TakeCapacity, RefusedCapacity, Recheck, PruneScope, Prune,
         ReleaseCapacity, LeakInvocation, Moves, vars, hostVars, scopeVars, ThreadStates
<1>2. \A u \in Threads : thread'[u] = "Numbered" <=> thread[u] = "Numbered"
  BY <1>1 DEF IInv, TypeInv
<1>3. \A s \in Invocations : (Seen(s)' <=> Seen(s)) /\ (Lives(s)' <=> Lives(s))
  BY <1>1, <1>2 DEF Seen, Lives, Pending
<1>4. QED
  BY <1>1, <1>3, Invisible

\* So is the allocation of a scope, which is pending until it is registered.
LEMMA AllocationIsQuiet ==
    ASSUME IInv, NEW t \in Threads, CreateScope(t)
    PROVE  UNCHANGED <<accepting, LiveScopes, Admitted>>
<1>1. /\ thread[t] = "Entering" /\ thread' = [thread EXCEPT ![t] = "Numbered"]
      /\ next_id \in Invocations
      /\ scope' = [scope EXCEPT ![next_id] = "Open"] /\ held' = [held EXCEPT ![t] = next_id]
      /\ UNCHANGED accepting
  BY ScopesAssumption DEF CreateScope, Allocate, Moves, IInv, TypeInv, Invocations
<1>2. /\ \A u \in Threads : thread'[u] = IF u = t THEN "Numbered" ELSE thread[u]
      /\ \A u \in Threads : held'[u] = IF u = t THEN next_id ELSE held[u]
      /\ \A s \in Invocations : scope'[s] = IF s = next_id THEN "Open" ELSE scope[s]
  BY <1>1 DEF IInv, TypeInv, ScopeIds
<1>3. scope[next_id] = "None"
  BY <1>1 DEF IInv, OwnerInv, TypeInv, Invocations
<1>4. ASSUME NEW s \in Invocations PROVE (Seen(s)' <=> Seen(s)) /\ (Lives(s)' <=> Lives(s))
  <2>1. CASE s = next_id
    <3>1. Pending(s)'
      BY <1>2, <2>1 DEF Pending
    <3>2. QED
      BY <1>3, <2>1, <3>1 DEF Seen, Lives
  <2>2. CASE s # next_id
    <3>1. Pending(s)' <=> Pending(s)
      BY <1>1, <1>2, <2>2 DEF Pending
    <3>2. QED
      BY <1>2, <2>2, <3>1 DEF Seen, Lives
  <2>3. QED
    BY <2>1, <2>2
<1>5. QED
  BY <1>1, <1>4, Invisible

\* Registering the scope is the admission.
LEMMA RegistrationAdmits ==
    ASSUME IInv, NEW t \in Threads, RegisterScope(t)
    PROVE  Contract!Admit(held[t]) /\ held[t] \in Invocations
<1>1. thread[t] = "Numbered"
  BY DEF RegisterScope, Moves
<1>2. /\ thread' = [thread EXCEPT ![t] = "Live"] /\ accepting
      /\ UNCHANGED <<scope, held, accepting>>
  BY <1>1, BorrowedReady DEF RegisterScope, Register, Moves
<1>3. /\ held[t] \in Invocations /\ scope[held[t]] = "Open"
      /\ \A u \in Threads : thread[u] = "Numbered" /\ held[u] = held[t] => u = t
  BY <1>1, OwnerFacts DEF IInv, ProgressInv, Holding
<1>4. \A u \in Threads : thread'[u] = IF u = t THEN "Live" ELSE thread[u]
  BY <1>2 DEF IInv, TypeInv
<1>5. Pending(held[t]) /\ ~Pending(held[t])'
  BY <1>1, <1>2, <1>3, <1>4 DEF Pending
<1>6. \A s : s # held[t] => (Pending(s)' <=> Pending(s))
  BY <1>1, <1>2, <1>4 DEF Pending
<1>7. \A s : Seen(s)' <=> Seen(s) \/ s = held[t]
  <2> SUFFICES ASSUME NEW s PROVE Seen(s)' <=> Seen(s) \/ s = held[t]
    OBVIOUS
  <2>1. CASE s = held[t]
    <3>1. ~Pending(s)'
      BY <1>2, <1>3, <1>4, <2>1 DEF Pending
    <3>2. QED
      BY <1>2, <1>3, <2>1, <3>1 DEF Seen
  <2>2. CASE s # held[t]
    BY <1>2, <1>6, <2>2 DEF Seen
  <2>3. QED
    BY <2>1, <2>2
<1>8. \A s : Lives(s)' <=> Lives(s) \/ s = held[t]
  BY <1>2, <1>3, <1>7 DEF Lives
<1>9. /\ held[t] \notin Admitted
      /\ Admitted' = Admitted \cup {held[t]} /\ LiveScopes' = LiveScopes \cup {held[t]}
  <2>1. ~Seen(held[t])
    BY <1>5 DEF Seen
  <2>2. QED
    BY <1>7, <1>8, <2>1, ScopeByScope
<1>10. Cardinality(LiveScopes) < MaxConcurrent
  BY <1>1, RoomForOne
<1>11. Contract!Cardinality(LiveScopes) = Cardinality(LiveScopes)
  BY DEF Contract!Cardinality, Cardinality
<1>12. QED
  BY <1>2, <1>3, <1>9, <1>10, <1>11 DEF Contract!Admit

\* Dropping an Invocation is invisible until its scope is Closed, which ends it.
LEMMA ClosingEnds ==
    ASSUME IInv, NEW t \in Threads, DropInvocation(t) \/ CloseScope(t)
    PROVE  \/ UNCHANGED <<accepting, LiveScopes, Admitted>>
           \/ \E S \in SUBSET Invocations : Contract!End(S)
<1>1. PICK to \in {"Closing", "Closed"} :
        /\ thread[t] \in {"Live", "Closing"} /\ thread' = [thread EXCEPT ![t] = to]
        /\ scope' = [scope EXCEPT ![held[t]] = to] /\ UNCHANGED <<held, accepting>>
        /\ scope[held[t]] \in {"Open", "Closing"}
  BY DEF DropInvocation, CloseScope, BeginClose, FinishClose, Moves, IInv, ProgressInv
<1>2. \A u \in Threads : thread'[u] = "Numbered" <=> thread[u] = "Numbered"
  BY <1>1 DEF IInv, TypeInv
<1>3. \A s : Pending(s)' <=> Pending(s)
  BY <1>1, <1>2 DEF Pending
<1>4. held[t] \in Invocations /\ \A u \in Threads : thread[u] \in Holding /\ held[u] = held[t] => u = t
  BY <1>1, OwnerFacts DEF Holding
<1>5. ~Pending(held[t])
  BY <1>1, <1>4 DEF Pending, Holding
<1>6. \A s \in Invocations : scope'[s] = IF s = held[t] THEN to ELSE scope[s]
  BY <1>1 DEF IInv, TypeInv, ScopeIds
<1>7. \A s \in Invocations : Seen(s)' <=> Seen(s)
  BY <1>1, <1>3, <1>6 DEF Seen
<1>8. CASE to = "Closing"
  <2>1. \A s \in Invocations : Lives(s)' <=> Lives(s)
    BY <1>1, <1>6, <1>7, <1>8 DEF Lives
  <2>2. QED
    BY <1>1, <1>7, <2>1, Invisible
<1>9. CASE to = "Closed"
  <2>1. \A s : (Seen(s)' <=> Seen(s)) /\ (Lives(s)' <=> Lives(s) /\ s # held[t])
    <3>1. \A s : Lives(s)' => s \in Invocations
      BY DEF Lives, Seen
    <3>2. \A s : Seen(s)' <=> Seen(s)
      BY <1>7 DEF Seen
    <3>3. \A s \in Invocations : Lives(s)' <=> Lives(s) /\ s # held[t]
      BY <1>6, <1>7, <1>9 DEF Lives
    <3>4. QED
      BY <3>1, <3>2, <3>3 DEF Lives, Seen
  <2>2. Lives(held[t])
    BY <1>1, <1>4, <1>5 DEF Lives, Seen
  <2>3. /\ held[t] \in LiveScopes /\ LiveScopes' = LiveScopes \ {held[t]} /\ Admitted' = Admitted
    BY <2>1, <2>2, ScopeByScope
  <2>4. Contract!End({held[t]})
    BY <1>1, <2>3 DEF Contract!End
  <2>5. QED
    BY <1>4, <2>4
<1>10. QED
  BY <1>8, <1>9

\* shutdown stops admission when it first begins, and ends what was leaked when
\* it completes.
LEMMA ShutdownContract ==
    ASSUME IInv, BeginShutdown \/ FinishShutdown \/ DropShutdownFuture
    PROVE  [Contract!Next]_(Contract!contractVars)
<1>1. ~Borrowed /\ UNCHANGED <<thread, held>>
  BY DEF IInv, AppInv, BeginShutdown, FinishShutdown, DropShutdownFuture
<1>2. \A s : ~Pending(s) /\ ~Pending(s)'
  BY <1>1 DEF Pending, Borrowed
<1>3. In({"Live", "Closing", "Closed"}) = {} /\ In({"Numbered", "Live", "Closing"}) = {}
  BY <1>1 DEF In, Borrowed
<1>4. app # "Stopped" => children = leaked
  BY <1>3 DEF IInv, ChildrenInv
<1>5. \A s \in Invocations : s \in ScopeIds /\ s # Application
  BY ScopesAssumption DEF Invocations, ScopeIds, Application
<1>6. \A s \in leaked : s \in Invocations /\ scope[s] # "None"
  BY ScopesAssumption DEF IInv, TypeInv, OwnerInv, Invocations
<1>7. CASE BeginShutdown
  <2>1. /\ \A s \in Invocations : scope'[s] = IF s \in leaked /\ scope[s] # "Closed" THEN "Closing" ELSE scope[s]
        /\ accepting' = FALSE
    BY <1>4, <1>5, <1>7 DEF BeginShutdown, BeginCloseAll
  <2>2. \A s \in Invocations : scope[s] \in ScopeStates
    BY <1>5 DEF IInv, TypeInv
  <2>3. \A s \in Invocations : (Seen(s)' <=> Seen(s)) /\ (Lives(s)' <=> Lives(s))
    BY <1>2, <1>6, <2>1, <2>2 DEF Seen, Lives, ScopeStates
  <2>4. UNCHANGED <<LiveScopes, Admitted>>
    BY <2>3, Invisible
  <2>5. CASE accepting
    BY <2>1, <2>4, <2>5 DEF Contract!Next, Contract!Close
  <2>6. CASE ~accepting
    <3>1. accepting = FALSE
      BY <2>6 DEF IInv, TypeInv
    <3>2. QED
      BY <2>1, <2>4, <3>1 DEF Contract!contractVars
  <2>7. QED
    BY <2>5, <2>6
<1>8. CASE FinishShutdown
  <2>1. /\ \A s \in Invocations : scope'[s] = IF s \in leaked THEN "Closed" ELSE scope[s]
        /\ accepting' = accepting
    BY <1>4, <1>5, <1>8 DEF FinishShutdown, FinishCloseAll
  <2>2. \A s \in Invocations : scope[s] \in {"Open", "Closing"} => s \in leaked
    BY <1>3 DEF IInv, OwnerInv
  <2>3. \A s \in Invocations : (Seen(s)' <=> Seen(s)) /\ ~Lives(s)'
    BY <1>2, <1>6, <2>1, <2>2 DEF Seen, Lives
  <2>4. \A s : (Seen(s)' <=> Seen(s)) /\ ~Lives(s)'
    BY <2>3 DEF Seen, Lives
  <2>5. Admitted' = Admitted /\ LiveScopes' = {}
    BY <2>4, ScopeByScope
  <2>6. LiveScopes \in SUBSET Invocations
    BY DEF LiveScopes, Admitted
  <2>7. CASE LiveScopes = {}
    BY <2>1, <2>5, <2>7 DEF Contract!contractVars
  <2>8. CASE LiveScopes # {}
    <3>1. Contract!End(LiveScopes)
      BY <2>1, <2>5, <2>8 DEF Contract!End
    <3>2. QED
      BY <2>6, <3>1 DEF Contract!Next
  <2>9. QED
    BY <2>7, <2>8
<1>9. CASE DropShutdownFuture
  <2>1. UNCHANGED <<scope, thread, held, accepting>>
    BY <1>9 DEF DropShutdownFuture, scopeVars
  <2>2. UNCHANGED <<LiveScopes, Admitted>>
    BY <2>1 DEF LiveScopes, Admitted, In
  <2>3. QED
    BY <2>1, <2>2 DEF Contract!contractVars
<1>10. QED
  BY <1>7, <1>8, <1>9

\* Every step of the host is a step of the contract or invisible in it.
LEMMA NextContract == IInv /\ [Next]_vars => [Contract!Next]_(Contract!contractVars)
<1> SUFFICES ASSUME IInv, [Next]_vars PROVE [Contract!Next]_(Contract!contractVars)
  OBVIOUS
<1>1. CASE UNCHANGED vars
  <2>1. UNCHANGED <<scope, thread, held, accepting>>
    BY <1>1 DEF vars, scopeVars, hostVars
  <2>2. UNCHANGED <<LiveScopes, Admitted>>
    BY <2>1 DEF LiveScopes, Admitted, In
  <2>3. QED
    BY <2>1, <2>2 DEF Contract!contractVars
<1>2. ASSUME NEW t \in Threads,
             \/ Enter(t) \/ RefusedEarly(t) \/ TakeCapacity(t) \/ RefusedCapacity(t) \/ Recheck(t)
             \/ PruneScope(t) \/ ReleaseCapacity(t) \/ LeakInvocation(t)
      PROVE  UNCHANGED Contract!contractVars
  BY <1>2, QuietSteps DEF Contract!contractVars
<1>3. ASSUME NEW t \in Threads, CreateScope(t) PROVE UNCHANGED Contract!contractVars
  BY <1>3, AllocationIsQuiet DEF Contract!contractVars
<1>4. ASSUME NEW t \in Threads, RegisterScope(t) PROVE Contract!Next
  BY <1>4, RegistrationAdmits DEF Contract!Next
<1>5. ASSUME NEW t \in Threads, DropInvocation(t) \/ CloseScope(t)
      PROVE  [Contract!Next]_(Contract!contractVars)
  BY <1>5, ClosingEnds DEF Contract!Next, Contract!contractVars
<1>6. CASE BeginShutdown \/ FinishShutdown \/ DropShutdownFuture
  BY <1>6, ShutdownContract
<1>7. QED
  BY <1>1, <1>2, <1>3, <1>4, <1>5, <1>6 DEF Next

\* The host implements the admission contract (ImplementsAdmission): fresh
\* scopes, never more live ones than the configured maximum, each ended once,
\* none admitted after shutdown began.
THEOREM HostImplementsAdmission == Spec => ImplementsAdmission
<1>1. Init => Contract!Init
  BY InitContract
<1>2. IInv /\ [Next]_vars => [Contract!Next]_(Contract!contractVars)
  BY NextContract
<1>3. QED
  BY <1>1, <1>2, HostInvariance, PTL DEF Spec, ImplementsAdmission, Contract!Spec
=============================================================================
