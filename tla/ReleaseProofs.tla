---------------------------- MODULE ReleaseProofs ----------------------------
(***************************************************************************)
(* Proofs about Release for every release order, every set of workspaces,  *)
(* every tag and any number of jobs and attempts.                          *)
(***************************************************************************)
EXTENDS Release, TLAPS

TypeInv ==
    /\ job \in JobStates /\ at \in DOMAIN RELEASE_ORDER
    /\ artifact = [name \in Crates |-> artifact[name]]
    /\ accepted = [name \in DOMAIN accepted |-> accepted[name]]
    /\ served \subseteq DOMAIN accepted /\ DOMAIN accepted \subseteq Crates

\* Nothing is packaged or uploaded from a workspace that failed release-check.
CheckedInv == Running \/ job = "Succeeded" \/ DOMAIN accepted # {} => ReleaseCheck(workspace)

\* The crates this job is done with: served, with the bytes it packaged.
Done(i) == RELEASE_ORDER[i] \in served /\ accepted[RELEASE_ORDER[i]] = artifact[RELEASE_ORDER[i]]

ProgressInv ==
    /\ Running => \A i \in DOMAIN RELEASE_ORDER : i < at => Done(i)
    /\ job = "Succeeded" => \A i \in DOMAIN RELEASE_ORDER : Done(i)

ClosedInv == \A name \in DOMAIN accepted : Dependencies(name) \subseteq DOMAIN accepted

IInv == TypeInv /\ CheckedInv /\ ProgressInv /\ ClosedInv

-----------------------------------------------------------------------------
(* The release order *)

\* Positions 1 to Len name the crates, one each.
LEMMA OrderFacts ==
    /\ DOMAIN RELEASE_ORDER = 1..Len(RELEASE_ORDER) /\ Len(RELEASE_ORDER) \in Nat \ {0}
    /\ Crates = {RELEASE_ORDER[i] : i \in DOMAIN RELEASE_ORDER}
    /\ \A i \in DOMAIN RELEASE_ORDER : RELEASE_ORDER[i] \in Crates
    /\ \A i, j \in DOMAIN RELEASE_ORDER : RELEASE_ORDER[i] = RELEASE_ORDER[j] => i = j
<1>1. DOMAIN RELEASE_ORDER = 1..Len(RELEASE_ORDER) /\ Len(RELEASE_ORDER) \in Nat \ {0}
  BY OrderAssumption
<1>2. Crates = {RELEASE_ORDER[i] : i \in DOMAIN RELEASE_ORDER}
  BY DEF Crates, ToSet
<1>3. \A i, j \in DOMAIN RELEASE_ORDER : RELEASE_ORDER[i] = RELEASE_ORDER[j] => i = j
  BY OrderAssumption DEF IsInjective
<1>4. QED
  BY <1>1, <1>2, <1>3

\* A crate is at the position release_check computes for it.
LEMMA PositionIs ==
    ASSUME NEW i \in DOMAIN RELEASE_ORDER PROVE Position(RELEASE_ORDER[i]) = i
BY OrderFacts DEF Position

\* In a workspace that passed release-check the dependencies of a crate come
\* before it in the release order.
LEMMA DependenciesEarlier ==
    ASSUME ReleaseCheck(workspace), NEW i \in DOMAIN RELEASE_ORDER,
           NEW d \in Dependencies(RELEASE_ORDER[i])
    PROVE  \E j \in DOMAIN RELEASE_ORDER : j < i /\ d = RELEASE_ORDER[j]
<1>1. PICK e \in workspace.path_dependencies : e[1] = RELEASE_ORDER[i] /\ e[2] = d
  BY DEF Dependencies
<1>2. RELEASE_ORDER[i] \in Crates /\ d \in Crates
  BY OrderFacts DEF Dependencies
<1>3. PICK j \in DOMAIN RELEASE_ORDER : d = RELEASE_ORDER[j]
  BY <1>2, OrderFacts
<1>4. Position(d) < Position(RELEASE_ORDER[i])
  BY <1>1, <1>2 DEF ReleaseCheck, OrderedDependencies
<1>5. Position(d) = j /\ Position(RELEASE_ORDER[i]) = i
  BY <1>3, PositionIs
<1>6. QED
  BY <1>3, <1>4, <1>5

\* While a job runs, the dependencies of its crate are served.
LEMMA DependenciesServed ==
    ASSUME IInv, Running PROVE Dependencies(Crate) \subseteq served
<1> SUFFICES ASSUME NEW d \in Dependencies(Crate) PROVE d \in served
  OBVIOUS
<1>1. ReleaseCheck(workspace) /\ at \in DOMAIN RELEASE_ORDER
  BY DEF IInv, CheckedInv, TypeInv
<1>2. PICK j \in DOMAIN RELEASE_ORDER : j < at /\ d = RELEASE_ORDER[j]
  BY <1>1, DependenciesEarlier DEF Crate
<1>3. QED
  BY <1>2 DEF IInv, ProgressInv, Done

-----------------------------------------------------------------------------
(* The steps *)

\* Steps that change neither the crate the job works on nor the registry.
LEMMA LoopKeeps ==
    ASSUME IInv, Running, job' \in JobStates \ {"None", "Succeeded"},
           UNCHANGED <<workspace, at, artifact, accepted, served>>
    PROVE  IInv'
<1>1. TypeInv'
  BY DEF IInv, TypeInv
<1>2. CheckedInv'
  BY DEF IInv, CheckedInv, ReleaseCheck, OrderedDependencies
<1>3. ProgressInv'
  BY DEF IInv, ProgressInv, Done, Running
<1>4. ClosedInv'
  BY DEF IInv, ClosedInv, Dependencies
<1>5. QED
  BY <1>1, <1>2, <1>3, <1>4 DEF IInv

\* A job begins with nothing done and its own artifacts.
LEMMA BeginKeeps == ASSUME IInv, BeginJob PROVE IInv'
<1>1. /\ job' = (IF ReleaseCheck(workspace) THEN "Packaging" ELSE "Failed") /\ at' = 1
      /\ UNCHANGED <<workspace, accepted, served>>
  BY DEF BeginJob, registry
<1>2. PICK c \in Checksums : artifact' = [name \in Crates |-> c]
  BY DEF BeginJob
<1>3. TypeInv'
  BY <1>1, <1>2, OrderFacts DEF IInv, TypeInv, JobStates
<1>4. CheckedInv'
  BY <1>1 DEF IInv, CheckedInv, Running
<1>5. ProgressInv'
  BY <1>1, OrderFacts DEF ProgressInv
<1>6. ClosedInv'
  BY <1>1 DEF IInv, ClosedInv, Dependencies
<1>7. QED
  BY <1>3, <1>4, <1>5, <1>6 DEF IInv

\* An upload is accepted, or it is not; what was accepted before stays.
LEMMA PublishKeeps == ASSUME IInv, Publish PROVE IInv'
<1>1. /\ job = "Publishing" /\ job' = "ReadingBack" /\ Running
      /\ UNCHANGED <<workspace, at, artifact, served>>
  BY DEF Publish, Running
<1>2. CASE UNCHANGED accepted
  BY <1>1, <1>2, LoopKeeps DEF JobStates
<1>3. CASE /\ Crate \notin DOMAIN accepted
           /\ accepted' = [name \in DOMAIN accepted \cup {Crate} |->
                             IF name = Crate THEN artifact[Crate] ELSE accepted[name]]
  <2>1. DOMAIN accepted' = DOMAIN accepted \cup {Crate} /\ Crate \in Crates
    BY <1>3, OrderFacts DEF IInv, TypeInv, Crate
  <2>2. \A name \in DOMAIN accepted : accepted'[name] = accepted[name]
    BY <1>3
  <2>3. TypeInv'
    BY <1>1, <1>3, <2>1 DEF IInv, TypeInv, JobStates
  <2>4. CheckedInv'
    BY <1>1 DEF IInv, CheckedInv
  <2>5. ProgressInv'
    BY <1>1, <2>2 DEF IInv, ProgressInv, Done, TypeInv
  <2>6. ClosedInv'
    <3>1. Dependencies(Crate) \subseteq DOMAIN accepted
      BY <1>1, DependenciesServed DEF IInv, TypeInv
    <3>2. \A name : Dependencies(name)' = Dependencies(name)
      BY <1>1 DEF Dependencies
    <3>3. QED
      BY <2>1, <3>1, <3>2 DEF IInv, ClosedInv
  <2>7. QED
    BY <2>3, <2>4, <2>5, <2>6 DEF IInv
<1>4. QED
  BY <1>2, <1>3 DEF Publish

\* The crate the job works on is done: the next one, or success.
LEMMA VerifyKeeps == ASSUME IInv, VerifyChecksum PROVE IInv'
<1>1. /\ job = "Verifying" /\ Running /\ Done(at)
      /\ job' = IF at = Len(RELEASE_ORDER) THEN "Succeeded" ELSE "Packaging"
      /\ at' = IF at = Len(RELEASE_ORDER) THEN at ELSE at + 1
      /\ UNCHANGED <<workspace, artifact, accepted, served>>
  BY DEF VerifyChecksum, Verified, Crate, Done, Running, registry
<1>2. at \in DOMAIN RELEASE_ORDER
  BY DEF IInv, TypeInv
<1>3. at' \in DOMAIN RELEASE_ORDER
  BY <1>1, <1>2, OrderFacts
<1>4. TypeInv'
  BY <1>1, <1>3 DEF IInv, TypeInv, JobStates
<1>5. CheckedInv'
  BY <1>1 DEF IInv, CheckedInv
<1>6. \A i \in DOMAIN RELEASE_ORDER : i <= at => Done(i)
  BY <1>1, <1>2, OrderFacts DEF IInv, ProgressInv
<1>7. \A i : Done(i)' <=> Done(i)
  BY <1>1 DEF Done
<1>8. ProgressInv'
  <2>1. CASE at = Len(RELEASE_ORDER)
    BY <1>1, <1>6, <1>7, <2>1, OrderFacts DEF ProgressInv, Running
  <2>2. CASE at # Len(RELEASE_ORDER)
    BY <1>1, <1>2, <1>6, <1>7, <2>2, OrderFacts DEF ProgressInv
  <2>3. QED
    BY <2>1, <2>2
<1>9. ClosedInv'
  BY <1>1 DEF IInv, ClosedInv, Dependencies
<1>10. QED
  BY <1>4, <1>5, <1>8, <1>9 DEF IInv

\* The registry begins to serve a crate.
LEMMA ServeKeeps == ASSUME IInv, NEW name \in Crates, Serve(name) PROVE IInv'
<1>1. /\ name \in DOMAIN accepted /\ served' = served \cup {name}
      /\ UNCHANGED <<workspace, job, at, artifact, accepted>>
  BY DEF Serve
<1>2. TypeInv'
  BY <1>1 DEF IInv, TypeInv
<1>3. CheckedInv'
  BY <1>1 DEF IInv, CheckedInv, Running
<1>4. ProgressInv'
  BY <1>1 DEF IInv, ProgressInv, Done, Running
<1>5. ClosedInv'
  BY <1>1 DEF IInv, ClosedInv, Dependencies
<1>6. QED
  BY <1>2, <1>3, <1>4, <1>5 DEF IInv

\* Before the first job nothing is accepted.
LEMMA InitIInv == Init => IInv
<1> SUFFICES ASSUME Init PROVE IInv
  OBVIOUS
<1>1. DOMAIN accepted = {} /\ served = {} /\ job = "None" /\ at = 1
  BY DEF Init
<1>2. TypeInv
  BY <1>1, OrderFacts DEF Init, TypeInv, JobStates
<1>3. CheckedInv /\ ProgressInv /\ ClosedInv
  BY <1>1 DEF CheckedInv, ProgressInv, ClosedInv, Running
<1>4. QED
  BY <1>2, <1>3 DEF IInv

\* Every step of the job and of the registry preserves it.
LEMMA NextIInv == IInv /\ [Next]_vars => IInv'
<1> SUFFICES ASSUME IInv, [Next]_vars PROVE IInv'
  OBVIOUS
<1>1. CASE UNCHANGED vars
  BY <1>1 DEF vars, registry, IInv, TypeInv, CheckedInv, ProgressInv, ClosedInv, Done, Dependencies,
              Running
<1>2. CASE BeginJob
  BY <1>2, BeginKeeps
<1>3. CASE PackageReady \/ PackageRetries \/ ReadFinds \/ LookMisses \/ ReadBackMisses \/ FailJob
  <2>1. /\ Running /\ job' \in JobStates \ {"None", "Succeeded"}
        /\ UNCHANGED <<workspace, at, artifact, accepted, served>>
    BY <1>3 DEF PackageReady, PackageRetries, ReadFinds, LookMisses, ReadBackMisses, FailJob,
                Running, JobStates, registry
  <2>2. QED
    BY <2>1, LoopKeeps
<1>4. CASE Publish
  BY <1>4, PublishKeeps
<1>5. CASE VerifyChecksum
  BY <1>5, VerifyKeeps
<1>6. ASSUME NEW name \in Crates, Serve(name) PROVE IInv'
  BY <1>6, ServeKeeps
<1>7. QED
  BY <1>1, <1>2, <1>3, <1>4, <1>5, <1>6 DEF Next, Loop

\* The inductive invariant holds in every reachable state.
THEOREM ReleaseInvariance == Spec => []IInv
BY InitIInv, NextIInv, PTL DEF Spec

\* Whatever fails and whenever the job is killed, no accepted crate is without
\* its dependencies, nor is the crate the job works on, and all come from a
\* workspace whose crates have the version of the tag, which is not a stable one
\* (PublishedInOrder).
THEOREM CratesArePublishedInOrder == Spec => []PublishedInOrder
<1>1. IInv => PublishedInOrder
  <2> SUFFICES ASSUME IInv PROVE PublishedInOrder
    OBVIOUS
  <2>1. Running => Dependencies(Crate) \subseteq DOMAIN accepted
    BY DependenciesServed DEF IInv, TypeInv
  <2>2. ASSUME DOMAIN accepted # {}
        PROVE  \A name \in Crates : workspace.version[name] = Tag /\ Tag \notin Stable
    <3>1. ReleaseCheck(workspace)
      BY <2>2 DEF IInv, CheckedInv
    <3>2. QED
      BY <3>1 DEF ReleaseCheck
  <2>3. QED
    BY <2>1, <2>2 DEF IInv, ClosedInv, PublishedInOrder
<1>2. QED
  BY <1>1, ReleaseInvariance, PTL

\* A job that succeeds has every crate served with the bytes it packaged, even
\* if earlier jobs uploaded some of them (SuccessIsServed).
THEOREM SuccessMeansServed == Spec => []SuccessIsServed
<1>1. IInv => SuccessIsServed
  <2> SUFFICES ASSUME IInv, job = "Succeeded" PROVE Crates = served /\ accepted = artifact
    BY DEF SuccessIsServed
  <2>1. \A name \in Crates : name \in served /\ accepted[name] = artifact[name]
    BY OrderFacts DEF IInv, ProgressInv, Done
  <2>2. Crates = served /\ DOMAIN accepted = Crates
    BY <2>1 DEF IInv, TypeInv
  <2>3. QED
    BY <2>1, <2>2 DEF IInv, TypeInv
<1>2. QED
  BY <1>1, ReleaseInvariance, PTL
=============================================================================
