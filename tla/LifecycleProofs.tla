--------------------------- MODULE LifecycleProofs ---------------------------
(***************************************************************************)
(* Proofs about Lifecycle for every set of plugins, every resolved graph   *)
(* and every number of dropped shutdown() futures: in which order hooks    *)
(* run and what they find, what the holder of the application sees while   *)
(* it goes down and is told of failures, that the executor's steps are     *)
(* those of the documented state machine, and that the verdict of the test *)
(* kit follows from the application it ran.                                *)
(*                                                                         *)
(* All but the last rest on one inductive invariant, IInv; the verdict has *)
(* its own, for there each hook does what the plan says.                   *)
(***************************************************************************)
EXTENDS LifecycleRefinement, Conformance, FiniteSetTheorems, SequenceTheorems,
        WellFoundedInduction, TLAPS

\* How often hook f of the i-th plugin of the startup order was called.
C(i, f) == calls[graph.order[i]][f]

Positions == 1..N

(***************************************************************************)
(* The executor's position: which phase the loop of each stage is in, and  *)
(* that an awaited hook belongs to a plugin of the order.                  *)
(***************************************************************************)
WalkInv ==
    /\ stage \in {"Resolved", "Initializing"} => phase = "Initialize" /\ at >= 1
    /\ stage = "Resolved" => at = 1
    /\ stage = "Starting" => phase = "Start" /\ at >= 1
    /\ Cleaning => phase \in CleanupPhases /\ at <= reach[phase]
    /\ pending => /\ stage \in {"Initializing", "Starting", "RollingBack", "ShuttingDown"}
                  /\ at \in Positions

(***************************************************************************)
(* The application scope is Open until a cleanup walk begins, Closing      *)
(* until it is complete, and Closed from then on.                          *)
(***************************************************************************)
ScopeInv ==
    /\ stage \in {"Resolved", "Initializing", "Starting", "Running"} => scope = "Open"
    /\ stage \in {"RollingBack", "ShuttingDown", "Interrupted"} => scope = "Closing"
    /\ stage \in {"Failed", "Stopped"} => scope = "Closed"
    /\ stage = "Dropped" => scope # "Closed"

\* A report is stored exactly when the application has stopped.
ReportInv == stage = "Stopped" <=> terminal # << >>

(***************************************************************************)
(* Published(i): the offers of the i-th plugin are in the registry.        *)
(***************************************************************************)
Published(i) ==
    LET p == graph.order[i]
    IN  /\ DOMAIN graph.offers[p] \subseteq DOMAIN registry[p]
        /\ \A c \in DOMAIN graph.offers[p] : registry[p][c].version = graph.offers[p][c]

RegistryInv ==
    /\ stage = "Initializing" => \A i \in Positions : i < at => Published(i)
    /\ stage \in {"Starting", "Running"} => \A i \in Positions : Published(i)

(***************************************************************************)
(* How often each hook was called, by stage.  Done(i, f) says that the     *)
(* current cleanup walk has called hook f of the i-th plugin, Due(i, f)    *)
(* that it will or did.                                                    *)
(***************************************************************************)
Rank(f) == IF f = "Quiesce" THEN 1 ELSE IF f = "Stop" THEN 2 ELSE 3

Due(i, f) == i <= reach[f]

Done(i, f) ==
    \/ Rank(f) < Rank(phase)
    \/ f = phase /\ (i > at \/ (i = at /\ pending))

Precedes(i, f, j, g) == Rank(f) < Rank(g) \/ (f = g /\ i > j)

CleanupStages == {"RollingBack", "Failed", "ShuttingDown", "Interrupted", "Stopped"}

\* Going up: the hooks called so far are a prefix of the order.
StartupCounts ==
    /\ stage \in {"Resolved", "Initializing", "Starting", "Running"} =>
         /\ cancels = 0
         /\ \A i \in Positions, f \in CleanupPhases : C(i, f) = 0
    /\ stage \in {"Resolved", "Initializing"} => \A i \in Positions :
         /\ C(i, "Initialize") = IF i < at \/ (i = at /\ pending) THEN 1 ELSE 0
         /\ C(i, "Start") = 0
    /\ stage = "Starting" => \A i \in Positions :
         /\ C(i, "Initialize") = 1
         /\ C(i, "Start") = IF i < at \/ (i = at /\ pending) THEN 1 ELSE 0
    /\ stage = "Running" => \A i \in Positions :
         C(i, "Initialize") = 1 /\ C(i, "Start") = 1

\* Going down: what was begun is what is due; of two due hooks the one the walk
\* meets first was called at least as often, and strictly more often when the
\* walk is between the two.
CleanupCounts ==
    stage \in CleanupStages =>
        /\ \A i \in Positions :
             /\ C(i, "Initialize") = IF Due(i, "Dispose") THEN 1 ELSE 0
             /\ C(i, "Start") = IF Due(i, "Quiesce") THEN 1 ELSE 0
        /\ reach["Stop"] = reach["Quiesce"]
        /\ reach["Quiesce"] > 0 => reach["Dispose"] = N
        /\ \A i \in Positions, f \in CleanupPhases :
             ~Due(i, f) => C(i, f) = 0
        /\ \A i, j \in Positions, f, g \in CleanupPhases :
             Due(i, f) /\ Due(j, g) /\ Precedes(i, f, j, g) => C(j, g) <= C(i, f)

WalkCounts ==
    /\ stage \in {"RollingBack", "Failed"} => cancels = 0
    /\ stage \in {"ShuttingDown", "Interrupted", "Stopped"} =>
         \A f \in CleanupPhases : reach[f] = N
    /\ Cleaning => \A i, j \in Positions, f, g \in CleanupPhases :
         Due(i, f) /\ Due(j, g) /\ Done(i, f) /\ ~Done(j, g) => C(j, g) < C(i, f)
    /\ Cleaning => \A i \in Positions, f \in CleanupPhases :
         /\ Due(i, f) /\ Done(i, f) => C(i, f) \in 1..(1 + cancels)
         /\ ~Done(i, f) => C(i, f) <= cancels
    /\ stage = "Interrupted" => \A i \in Positions, f \in CleanupPhases : C(i, f) <= cancels
    /\ stage \in {"Failed", "Stopped"} => \A i \in Positions, f \in CleanupPhases :
         Due(i, f) => C(i, f) \in 1..(1 + cancels)

\* No hook of a plugin outside the graph is ever called.
StrangersInv == \A p \in Plugins \ Members : \A f \in Phases : calls[p][f] = 0

CountInv == StartupCounts /\ CleanupCounts /\ WalkCounts /\ StrangersInv

IInv ==
    /\ TypeOK /\ WalkInv /\ ScopeInv /\ ReportInv /\ RegistryInv /\ CountInv
    /\ DependencyOrder /\ PhaseBarriers

-----------------------------------------------------------------------------
(* Facts about the operators. *)

\* Publishing a provision set over another one yields a provision set
\* (Registry::commit inserts into the registry's map).
LEMMA InsertType ==
    ASSUME NEW held \in ProvisionSet, NEW staged \in ProvisionSet
    PROVE  Insert(held, staged) \in ProvisionSet
<1>1. PICK H \in SUBSET Caps : held \in [H -> Contract]
  BY DEF ProvisionSet
<1>2. PICK S \in SUBSET Caps : staged \in [S -> Contract]
  BY DEF ProvisionSet
<1>3. Insert(held, staged) \in [H \cup S -> Contract]
  BY <1>1, <1>2 DEF Insert
<1>4. QED
  BY <1>3 DEF ProvisionSet

\* An accepted publication contains every offer at the offered version.
LEMMA CommitComplete ==
    ASSUME NEW offers \in OfferSet, NEW held \in ProvisionSet, NEW staged \in ProvisionSet,
           CommitErrors(offers, staged) = {}
    PROVE  /\ DOMAIN offers \subseteq DOMAIN Insert(held, staged)
           /\ \A c \in DOMAIN offers : Insert(held, staged)[c].version = offers[c]
<1>1. DOMAIN offers \subseteq DOMAIN staged
  BY DEF CommitErrors, Missing
<1>2. \A c \in DOMAIN offers : staged[c].version = offers[c]
  BY <1>1 DEF CommitErrors, VersionMismatch
<1>3. QED
  BY <1>1, <1>2 DEF Insert

\* The error tags of a refused publication are reportable tags.
LEMMA CommitErrorTags ==
    ASSUME NEW offers, NEW staged
    PROVE  CommitErrors(offers, staged) \subseteq Tags
BY DEF CommitErrors, Tags, CommitTags

\* Whatever a hook fails with, the reported tag is a reportable tag (safe_tag).
LEMMA SafeTagType == ASSUME NEW tag PROVE SafeTag(tag) \in Tags
BY DEF SafeTag, Tags

\* A graph of the application is a resolved graph.
LEMMA GraphFacts ==
    ASSUME graph \in Graphs
    PROVE  /\ N \in Nat
           /\ graph.order \in [Positions -> Plugins]
           /\ \A i, j \in Positions : graph.order[i] = graph.order[j] => i = j
           /\ graph.offers \in [Plugins -> OfferSet]
           /\ \A e \in graph.edges :
                /\ e.consumer \in Plugins /\ e.provider \in Plugins
                /\ e.capability \in DOMAIN graph.offers[e.provider]
                /\ \E i, j \in Positions :
                     i < j /\ graph.order[i] = e.provider /\ graph.order[j] = e.consumer
<1>1. IsResolvedGraph(graph)
  BY GraphsAssumption
<1>2. graph.order \in Seq(Plugins) /\ N \in Nat
  BY <1>1 DEF IsResolvedGraph, N
<1>3. QED
  BY <1>1, <1>2 DEF IsResolvedGraph, N, Positions

-----------------------------------------------------------------------------
(* Type correctness. *)

\* Types, and where the executor may be in each stage: both are needed for the
\* position to stay in the order when a hook is called or comes back.
TypeInv == TypeOK /\ WalkInv

\* The executor begins in a state of the right type.
LEMMA InitTypeInv == Init => TypeInv
<1> SUFFICES ASSUME Init PROVE TypeInv
  OBVIOUS
<1>1. N \in Nat
  BY GraphFacts DEF Init
<1>2. NoProvisions \in ProvisionSet
  BY DEF NoProvisions, ProvisionSet
<1> pending \in BOOLEAN
  BY DEF Init
<1>3. PositionOK
  BY <1>1 DEF Init, PositionOK, Stages, Phases, StartupPhases, CleanupPhases
<1>4. AppOK
  BY <1>2, CancelsAssumption DEF Init, AppOK
<1>5. ReportsOK
  BY DEF Init, ReportsOK
<1>6. HistoryOK
  BY DEF Init, HistoryOK
<1>7. WalkInv
  BY DEF Init, WalkInv, Cleaning
<1>8. QED
  BY <1>3, <1>4, <1>5, <1>6, <1>7 DEF TypeInv, TypeOK

\* Every step of start(), shutdown() and their caller keeps the types.
LEMMA NextTypeInv == TypeInv /\ [Next]_vars => TypeInv'
<1> SUFFICES ASSUME TypeInv, [Next]_vars PROVE TypeInv'
  OBVIOUS
<1> USE DEF TypeInv, TypeOK
<1>1. /\ graph \in Graphs /\ N \in Nat /\ graph.order \in [Positions -> Plugins]
      /\ graph.offers \in [Plugins -> OfferSet]
  BY GraphFacts DEF AppOK
<1>2. at \in Positions => Current \in Plugins
  BY <1>1 DEF Current
<1>3. graph' = graph /\ N' = N /\ Positions' = Positions
  BY DEF Next, Executor, HookReturns, Caller, Ended, CallStart, CallInitialize, InitializeOk,
         InitializeErr, CommitRefused, RollbackInitialize, InitializeAllDone, CallStartHook,
         StartOk, StartErr, StartAllDone, CallCleanup, CleanupOk, CleanupErr,
         NextCleanupPhase, RollbackDone, CallShutdown, ShutdownDone, CallShutdownAgain,
         DropShutdownFuture, DropStartFuture, DropApp, vars, N, Positions
<1>4. Len(observations) \in Nat /\ Len(primary) \in Nat /\ Len(terminal) \in Nat
  BY DEF ReportsOK
<1>5. phase \in Phases /\ (at \in Positions => at \in 1..N)
  BY DEF PositionOK, Positions
<1>10. CASE CallStart
  <2>1. PositionOK'
    BY <1>10, <1>1, <1>3 DEF CallStart, PositionOK, Stages
  <2>2. AppOK'
    BY <1>10, <1>1, <1>3 DEF CallStart, AppOK
  <2>3. ReportsOK'
    BY <1>10 DEF CallStart, ReportsOK
  <2>4. HistoryOK'
    BY <1>10 DEF CallStart, HistoryOK
  <2>5. WalkInv'
    BY <1>10, <1>1, <1>3 DEF CallStart, WalkInv, Cleaning, Positions, PositionOK
  <2>6. QED
    BY <2>1, <2>2, <2>3, <2>4, <2>5
<1>11. CASE CallInitialize
  <2>1. at \in Positions
    BY <1>11, <1>1 DEF CallInitialize, PositionOK, WalkInv, Positions
  <2>2. PositionOK'
    BY <1>11, <1>1, <1>3, <2>1 DEF CallInitialize, CallHook, PositionOK
  <2>3. AppOK'
    BY <1>11, <1>1, <1>3, <2>1 DEF CallInitialize, CallHook, AppOK
  <2>4. ReportsOK'
    BY <1>11, <2>1 DEF CallInitialize, CallHook, ReportsOK
  <2>5. HistoryOK'
    BY <1>11, <2>1, <1>2, <1>5 DEF CallInitialize, CallHook, HistoryOK
  <2>6. WalkInv'
    BY <1>11, <1>1, <1>3, <2>1 DEF CallInitialize, CallHook, WalkInv, Cleaning, Positions, PositionOK
  <2>7. QED
    BY <2>2, <2>3, <2>4, <2>5, <2>6
<1>12. ASSUME NEW staged \in ProvisionSet, InitializeOk(staged) PROVE TypeInv'
  <2>1. at \in Positions
    BY <1>12, <1>1 DEF InitializeOk, WalkInv
  <2>2. observations' \in Seq(Observation) /\ Len(observations') = Len(observations) + 1
    BY <1>12, <1>2, <1>5, <2>1 DEF InitializeOk, Observe, ReportsOK, Observation
  <2> pending' \in BOOLEAN
    BY <1>12 DEF InitializeOk
  <2>3. PositionOK'
    BY <1>12, <1>1, <1>3, <2>1, <2>2 DEF InitializeOk, PositionOK, Positions
  <2>4. AppOK'
    BY <1>12, <1>1, <1>3, <2>1, <2>2, <1>2, InsertType DEF InitializeOk, AppOK
  <2>5. ReportsOK'
    BY <1>12, <2>1, <2>2, <1>4 DEF InitializeOk, ReportsOK
  <2>6. HistoryOK'
    BY <1>12, <2>1, <2>2 DEF InitializeOk, HistoryOK
  <2>7. WalkInv'
    BY <1>12, <1>1, <1>3, <2>1, <2>2 DEF InitializeOk, WalkInv, Cleaning, Positions, PositionOK
  <2>8. QED
    BY <2>3, <2>4, <2>5, <2>6, <2>7
<1>13. ASSUME NEW tag \in Tags, stage = "Initializing", pending, RollbackInitialize(tag)
       PROVE TypeInv'
  <2>1. at \in Positions
    BY <1>13, <1>1 DEF WalkInv
  <2>2. observations' \in Seq(Observation) /\ Len(observations') = Len(observations) + 1
    BY <1>13, <1>2, <1>5, <2>1 DEF RollbackInitialize, Observe, ReportsOK, Observation
  <2>3. Record(tag) \in FailureRecord
    BY <1>13, <1>2, <1>5, <2>1 DEF Record, FailureRecord
  <2>4. reach' \in [CleanupPhases -> 0..N] /\ at' = reach'["Dispose"]
    BY <1>13, <1>1, <2>1 DEF RollbackInitialize, RollbackInitializeReach, Positions, CleanupPhases
  <2> pending' \in BOOLEAN
    BY <1>13 DEF RollbackInitialize
  <2>5. PositionOK'
    BY <1>13, <1>1, <1>3, <2>1, <2>2, <2>3, <2>4 DEF RollbackInitialize, PositionOK, Stages, Phases, CleanupPhases
  <2>6. AppOK'
    BY <1>13, <1>1, <1>3, <2>1, <2>2, <2>3, <2>4 DEF RollbackInitialize, AppOK, BeginClose
  <2>7. ReportsOK'
    BY <1>13, <2>1, <2>2, <2>3, <2>4, <1>4 DEF RollbackInitialize, ReportsOK
  <2>8. HistoryOK'
    BY <1>13, <2>1, <2>2, <2>3, <2>4 DEF RollbackInitialize, HistoryOK
  <2>9. WalkInv'
    BY <1>13, <1>1, <1>3, <2>1, <2>2, <2>3, <2>4 DEF RollbackInitialize, WalkInv, Cleaning, Positions, PositionOK, CleanupPhases
  <2>10. QED
    BY <2>5, <2>6, <2>7, <2>8, <2>9
<1>14. ASSUME NEW tag \in HookErrors, InitializeErr(tag) PROVE TypeInv'
  BY <1>13, <1>14, SafeTagType DEF InitializeErr
<1>15. ASSUME NEW staged \in ProvisionSet, CommitRefused(staged) PROVE TypeInv'
  BY <1>13, <1>15, CommitErrorTags DEF CommitRefused
<1>16. CASE InitializeAllDone
  <2>1. PositionOK'
    BY <1>16, <1>1, <1>3 DEF InitializeAllDone, PositionOK, Stages, Phases, StartupPhases
  <2>2. AppOK'
    BY <1>16, <1>1, <1>3 DEF InitializeAllDone, AppOK
  <2>3. ReportsOK'
    BY <1>16 DEF InitializeAllDone, ReportsOK
  <2>4. HistoryOK'
    BY <1>16 DEF InitializeAllDone, HistoryOK
  <2>5. WalkInv'
    BY <1>16, <1>1, <1>3 DEF InitializeAllDone, WalkInv, Cleaning, Positions, PositionOK
  <2>6. QED
    BY <2>1, <2>2, <2>3, <2>4, <2>5
<1>17. CASE CallStartHook
  <2>1. at \in Positions
    BY <1>17, <1>1 DEF CallStartHook, PositionOK, WalkInv, Positions
  <2>2. PositionOK'
    BY <1>17, <1>1, <1>3, <2>1 DEF CallStartHook, CallHook, PositionOK
  <2>3. AppOK'
    BY <1>17, <1>1, <1>3, <2>1 DEF CallStartHook, CallHook, AppOK
  <2>4. ReportsOK'
    BY <1>17, <2>1 DEF CallStartHook, CallHook, ReportsOK
  <2>5. HistoryOK'
    BY <1>17, <2>1, <1>2, <1>5 DEF CallStartHook, CallHook, HistoryOK
  <2>6. WalkInv'
    BY <1>17, <1>1, <1>3, <2>1 DEF CallStartHook, CallHook, WalkInv, Cleaning, Positions, PositionOK
  <2>7. QED
    BY <2>2, <2>3, <2>4, <2>5, <2>6
<1>18. CASE StartOk
  <2>1. at \in Positions
    BY <1>18, <1>1 DEF StartOk, WalkInv
  <2>2. observations' \in Seq(Observation) /\ Len(observations') = Len(observations) + 1
    BY <1>18, <1>2, <1>5, <2>1 DEF StartOk, Observe, ReportsOK, Observation
  <2> pending' \in BOOLEAN
    BY <1>18 DEF StartOk
  <2>3. PositionOK'
    BY <1>18, <1>1, <1>3, <2>1, <2>2 DEF StartOk, PositionOK, Positions
  <2>4. AppOK'
    BY <1>18, <1>1, <1>3, <2>1, <2>2 DEF StartOk, AppOK
  <2>5. ReportsOK'
    BY <1>18, <2>1, <2>2, <1>4 DEF StartOk, ReportsOK
  <2>6. HistoryOK'
    BY <1>18, <2>1, <2>2 DEF StartOk, HistoryOK
  <2>7. WalkInv'
    BY <1>18, <1>1, <1>3, <2>1, <2>2 DEF StartOk, WalkInv, Cleaning, Positions, PositionOK
  <2>8. QED
    BY <2>3, <2>4, <2>5, <2>6, <2>7
<1>19. ASSUME NEW tag \in HookErrors, StartErr(tag) PROVE TypeInv'
  <2>1. at \in Positions
    BY <1>19, <1>1 DEF StartErr, WalkInv
  <2>2. observations' \in Seq(Observation) /\ Len(observations') = Len(observations) + 1
    BY <1>19, <1>2, <1>5, <2>1, SafeTagType DEF StartErr, Observe, ReportsOK, Observation
  <2>3. Record(SafeTag(tag)) \in FailureRecord
    BY <1>19, <1>2, <1>5, <2>1, SafeTagType DEF Record, FailureRecord
  <2>4. reach' \in [CleanupPhases -> 0..N] /\ at' = reach'["Quiesce"]
    BY <1>19, <1>1, <2>1 DEF StartErr, RollbackStartReach, Positions, CleanupPhases
  <2> pending' \in BOOLEAN
    BY <1>19 DEF StartErr
  <2>5. PositionOK'
    BY <1>19, <1>1, <1>3, <2>1, <2>2, <2>3, <2>4 DEF StartErr, PositionOK, Stages, Phases, CleanupPhases
  <2>6. AppOK'
    BY <1>19, <1>1, <1>3, <2>1, <2>2, <2>3, <2>4 DEF StartErr, AppOK, BeginClose
  <2>7. ReportsOK'
    BY <1>19, <2>1, <2>2, <2>3, <2>4, <1>4 DEF StartErr, ReportsOK
  <2>8. HistoryOK'
    BY <1>19, <2>1, <2>2, <2>3, <2>4 DEF StartErr, HistoryOK
  <2>9. WalkInv'
    BY <1>19, <1>1, <1>3, <2>1, <2>2, <2>3, <2>4 DEF StartErr, WalkInv, Cleaning, Positions, PositionOK, CleanupPhases
  <2>10. QED
    BY <2>5, <2>6, <2>7, <2>8, <2>9
<1>20. CASE StartAllDone
  <2>1. PositionOK'
    BY <1>20, <1>1, <1>3 DEF StartAllDone, PositionOK, Stages
  <2>2. AppOK'
    BY <1>20, <1>1, <1>3 DEF StartAllDone, AppOK
  <2>3. ReportsOK'
    BY <1>20 DEF StartAllDone, ReportsOK
  <2>4. HistoryOK'
    BY <1>20 DEF StartAllDone, HistoryOK
  <2>5. WalkInv'
    BY <1>20, <1>1, <1>3 DEF StartAllDone, WalkInv, Cleaning, Positions, PositionOK
  <2>6. QED
    BY <2>1, <2>2, <2>3, <2>4, <2>5
<1>21. CASE CallCleanup
  <2>1. at \in Positions
    BY <1>21, <1>1 DEF CallCleanup, PositionOK, WalkInv, Positions, Cleaning
  <2>2. PositionOK'
    BY <1>21, <1>1, <1>3, <2>1 DEF CallCleanup, CallHook, PositionOK
  <2>3. AppOK'
    BY <1>21, <1>1, <1>3, <2>1 DEF CallCleanup, CallHook, AppOK
  <2>4. ReportsOK'
    BY <1>21, <2>1 DEF CallCleanup, CallHook, ReportsOK
  <2>5. HistoryOK'
    BY <1>21, <2>1, <1>2, <1>5 DEF CallCleanup, CallHook, HistoryOK
  <2>6. WalkInv'
    BY <1>21, <1>1, <1>3, <2>1 DEF CallCleanup, CallHook, WalkInv, Cleaning, Positions, PositionOK
  <2>7. QED
    BY <2>2, <2>3, <2>4, <2>5, <2>6
<1>22. CASE CleanupOk
  <2>1. at \in Positions /\ Cleaning
    BY <1>22, <1>1 DEF CleanupOk, WalkInv
  <2>2. observations' \in Seq(Observation) /\ Len(observations') = Len(observations) + 1
    BY <1>22, <1>2, <1>5, <2>1 DEF CleanupOk, Observe, ReportsOK, Observation
  <2> pending' \in BOOLEAN
    BY <1>22 DEF CleanupOk
  <2>3. PositionOK'
    BY <1>22, <1>1, <1>3, <2>1, <2>2 DEF CleanupOk, PositionOK, Positions
  <2>4. AppOK'
    BY <1>22, <1>1, <1>3, <2>1, <2>2 DEF CleanupOk, AppOK
  <2>5. ReportsOK'
    BY <1>22, <2>1, <2>2, <1>4 DEF CleanupOk, ReportsOK
  <2>6. HistoryOK'
    BY <1>22, <2>1, <2>2 DEF CleanupOk, HistoryOK
  <2>7. WalkInv'
    BY <1>22, <1>1, <1>3, <2>1, <2>2 DEF CleanupOk, WalkInv, Cleaning, Positions, PositionOK
  <2>8. QED
    BY <2>3, <2>4, <2>5, <2>6, <2>7
<1>23. ASSUME NEW tag \in HookErrors, CleanupErr(tag) PROVE TypeInv'
  <2>1. at \in Positions /\ Cleaning
    BY <1>23, <1>1 DEF CleanupErr, WalkInv
  <2>2. observations' \in Seq(Observation) /\ Len(observations') = Len(observations) + 1
    BY <1>23, <1>2, <1>5, <2>1, SafeTagType DEF CleanupErr, Observe, ReportsOK, Observation
  <2>3. Record(SafeTag(tag)) \in FailureRecord
    BY <1>23, <1>2, <1>5, <2>1, SafeTagType DEF Record, FailureRecord
  <2> pending' \in BOOLEAN
    BY <1>23 DEF CleanupErr
  <2>4. PositionOK'
    BY <1>23, <1>1, <1>3, <2>1, <2>2, <2>3 DEF CleanupErr, PositionOK, Positions
  <2>5. AppOK'
    BY <1>23, <1>1, <1>3, <2>1, <2>2, <2>3 DEF CleanupErr, AppOK
  <2>6. ReportsOK'
    BY <1>23, <2>1, <2>2, <2>3, <1>4 DEF CleanupErr, ReportsOK
  <2>7. HistoryOK'
    BY <1>23, <2>1, <2>2, <2>3 DEF CleanupErr, HistoryOK
  <2>8. WalkInv'
    BY <1>23, <1>1, <1>3, <2>1, <2>2, <2>3 DEF CleanupErr, WalkInv, Cleaning, Positions, PositionOK
  <2>9. QED
    BY <2>4, <2>5, <2>6, <2>7, <2>8
<1>24. CASE NextCleanupPhase
  <2>1. PositionOK'
    BY <1>24, <1>1, <1>3 DEF NextCleanupPhase, NextPhase, PositionOK, Phases, CleanupPhases
  <2>2. AppOK'
    BY <1>24, <1>1, <1>3 DEF NextCleanupPhase, NextPhase, AppOK
  <2>3. ReportsOK'
    BY <1>24 DEF NextCleanupPhase, NextPhase, ReportsOK
  <2>4. HistoryOK'
    BY <1>24 DEF NextCleanupPhase, NextPhase, HistoryOK
  <2>5. WalkInv'
    BY <1>24, <1>1, <1>3 DEF NextCleanupPhase, NextPhase, WalkInv, Cleaning, Positions, PositionOK, CleanupPhases
  <2>6. QED
    BY <2>1, <2>2, <2>3, <2>4, <2>5
<1>25. CASE RollbackDone
  <2>1. PositionOK'
    BY <1>25, <1>1, <1>3 DEF RollbackDone, PositionOK, Stages
  <2>2. AppOK'
    BY <1>25, <1>1, <1>3 DEF RollbackDone, AppOK, FinishClose
  <2>3. ReportsOK'
    BY <1>25 DEF RollbackDone, ReportsOK
  <2>4. HistoryOK'
    BY <1>25 DEF RollbackDone, HistoryOK
  <2>5. WalkInv'
    BY <1>25, <1>1, <1>3 DEF RollbackDone, WalkInv, Cleaning, Positions, PositionOK
  <2>6. QED
    BY <2>1, <2>2, <2>3, <2>4, <2>5
<1>26. CASE CallShutdown
  <2>1. PositionOK'
    BY <1>26, <1>1, <1>3 DEF CallShutdown, ShutdownReach, PositionOK, Stages, Phases, CleanupPhases
  <2>2. AppOK'
    BY <1>26, <1>1, <1>3 DEF CallShutdown, ShutdownReach, AppOK, BeginClose
  <2>3. ReportsOK'
    BY <1>26, <1>4 DEF CallShutdown, ShutdownReach, ReportsOK
  <2>4. HistoryOK'
    BY <1>26 DEF CallShutdown, ShutdownReach, HistoryOK
  <2>5. WalkInv'
    BY <1>26, <1>1, <1>3 DEF CallShutdown, ShutdownReach, WalkInv, Cleaning, Positions, PositionOK, CleanupPhases
  <2>6. QED
    BY <2>1, <2>2, <2>3, <2>4, <2>5
<1>27. CASE ShutdownDone
  <2>1. PositionOK'
    BY <1>27, <1>1, <1>3 DEF ShutdownDone, PositionOK, Stages
  <2>2. AppOK'
    BY <1>27, <1>1, <1>3 DEF ShutdownDone, AppOK, FinishClose
  <2>3. ReportsOK'
    BY <1>27 DEF ShutdownDone, ReportsOK
  <2>4. HistoryOK'
    BY <1>27 DEF ShutdownDone, HistoryOK
  <2>5. WalkInv'
    BY <1>27, <1>1, <1>3 DEF ShutdownDone, WalkInv, Cleaning, Positions, PositionOK
  <2>6. QED
    BY <2>1, <2>2, <2>3, <2>4, <2>5
<1>28. CASE DropShutdownFuture
  <2>1. PositionOK'
    BY <1>28, <1>1, <1>3 DEF DropShutdownFuture, PositionOK, Stages
  <2>2. AppOK'
    BY <1>28, <1>1, <1>3, CancelsAssumption DEF DropShutdownFuture, AppOK
  <2>3. ReportsOK'
    BY <1>28 DEF DropShutdownFuture, ReportsOK
  <2>4. HistoryOK'
    BY <1>28 DEF DropShutdownFuture, HistoryOK
  <2>5. WalkInv'
    BY <1>28, <1>1, <1>3 DEF DropShutdownFuture, WalkInv, Cleaning, Positions, PositionOK
  <2>6. QED
    BY <2>1, <2>2, <2>3, <2>4, <2>5
<1>29. CASE DropStartFuture
  <2>1. PositionOK'
    BY <1>29, <1>1, <1>3 DEF DropStartFuture, PositionOK, Stages
  <2>2. AppOK'
    BY <1>29, <1>1, <1>3 DEF DropStartFuture, AppOK
  <2>3. ReportsOK'
    BY <1>29 DEF DropStartFuture, ReportsOK
  <2>4. HistoryOK'
    BY <1>29 DEF DropStartFuture, HistoryOK
  <2>5. WalkInv'
    BY <1>29, <1>1, <1>3 DEF DropStartFuture, WalkInv, Cleaning, Positions, PositionOK
  <2>6. QED
    BY <2>1, <2>2, <2>3, <2>4, <2>5
<1>30. CASE DropApp
  <2>1. PositionOK'
    BY <1>30, <1>1, <1>3 DEF DropApp, PositionOK, Stages
  <2>2. AppOK'
    BY <1>30, <1>1, <1>3 DEF DropApp, AppOK
  <2>3. ReportsOK'
    BY <1>30 DEF DropApp, ReportsOK
  <2>4. HistoryOK'
    BY <1>30 DEF DropApp, HistoryOK
  <2>5. WalkInv'
    BY <1>30, <1>1, <1>3 DEF DropApp, WalkInv, Cleaning, Positions, PositionOK
  <2>6. QED
    BY <2>1, <2>2, <2>3, <2>4, <2>5
<1>31. CASE UNCHANGED vars
  <2>1. PositionOK'
    BY <1>31, <1>1, <1>3 DEF vars, PositionOK
  <2>2. AppOK'
    BY <1>31, <1>1, <1>3 DEF vars, AppOK
  <2>3. ReportsOK'
    BY <1>31 DEF vars, ReportsOK
  <2>4. HistoryOK'
    BY <1>31 DEF vars, HistoryOK
  <2>5. WalkInv'
    BY <1>31, <1>1, <1>3 DEF vars, WalkInv, Cleaning, Positions, PositionOK
  <2>6. QED
    BY <2>1, <2>2, <2>3, <2>4, <2>5
<1>40. QED
  BY <1>10, <1>11, <1>12, <1>14, <1>15, <1>16, <1>17, <1>18, <1>19, <1>20, <1>21, <1>22,
     <1>23, <1>24, <1>25, <1>26, <1>27, <1>28, <1>29, <1>30, <1>31
  DEF Next, Executor, HookReturns, Caller, Ended, CallShutdownAgain

\* Type correctness of the executor, for every graph and every number of dropped
\* shutdown() futures.
THEOREM TypeCorrect == Spec => []TypeOK
<1>1. Spec => []TypeInv
  BY InitTypeInv, NextTypeInv, PTL DEF Spec
<1>2. TypeInv => TypeOK
  BY DEF TypeInv
<1>3. QED
  BY <1>1, <1>2, PTL

-----------------------------------------------------------------------------
(* Scope, report and registry. *)

\* The scope, the reports and the registry begin as the invariant says.
LEMMA InitOwnInv == Init => ScopeInv /\ ReportInv /\ RegistryInv
<1> SUFFICES ASSUME Init PROVE ScopeInv /\ ReportInv /\ RegistryInv
  OBVIOUS
<1>1. QED
  BY DEF Init, ScopeInv, ReportInv, RegistryInv

\* Every step keeps the scope and the reports in agreement with the stage.
LEMMA NextScopeInv == TypeInv /\ ScopeInv /\ ReportInv /\ [Next]_vars => ScopeInv' /\ ReportInv'
<1> SUFFICES ASSUME TypeInv, ScopeInv, ReportInv, [Next]_vars
             PROVE  ScopeInv' /\ ReportInv'
  OBVIOUS
<1> USE DEF ScopeInv, ReportInv
<1>1. CASE CallStart
  BY <1>1 DEF CallStart
<1>2. CASE CallInitialize \/ CallStartHook \/ CallCleanup
  BY <1>2 DEF CallInitialize, CallStartHook, CallCleanup
<1>3. ASSUME NEW staged \in ProvisionSet, InitializeOk(staged) PROVE ScopeInv' /\ ReportInv'
  BY <1>3 DEF InitializeOk
<1>4. ASSUME NEW tag, stage = "Initializing", RollbackInitialize(tag)
      PROVE  ScopeInv' /\ ReportInv'
  BY <1>4 DEF RollbackInitialize, BeginClose
<1>5. ASSUME NEW tag \in HookErrors, InitializeErr(tag) \/ StartErr(tag) \/ CleanupErr(tag)
      PROVE  ScopeInv' /\ ReportInv'
  BY <1>4, <1>5 DEF InitializeErr, StartErr, CleanupErr, BeginClose
<1>6. ASSUME NEW staged \in ProvisionSet, CommitRefused(staged) PROVE ScopeInv' /\ ReportInv'
  BY <1>4, <1>6 DEF CommitRefused
<1>7. CASE InitializeAllDone \/ StartAllDone \/ StartOk \/ CleanupOk \/ NextCleanupPhase
  BY <1>7 DEF InitializeAllDone, StartAllDone, StartOk, CleanupOk, NextCleanupPhase
<1>8. CASE RollbackDone
  BY <1>8 DEF RollbackDone, FinishClose
<1>9. CASE ShutdownDone
  BY <1>9 DEF ShutdownDone, FinishClose
<1>10. CASE CallShutdown
  BY <1>10 DEF CallShutdown, BeginClose
<1>11. CASE DropShutdownFuture \/ DropStartFuture \/ DropApp
  BY <1>11 DEF DropShutdownFuture, DropStartFuture, DropApp
<1>12. CASE UNCHANGED vars
  BY <1>12 DEF vars
<1>13. QED
  BY <1>1, <1>2, <1>3, <1>5, <1>6, <1>7, <1>8, <1>9, <1>10, <1>11, <1>12
  DEF Next, Executor, HookReturns, Caller, Ended, CallShutdownAgain

\* Every step keeps what initialized plugins have published.
LEMMA NextRegistryInv == TypeInv /\ RegistryInv /\ [Next]_vars => RegistryInv'
<1> SUFFICES ASSUME TypeInv, RegistryInv, [Next]_vars PROVE RegistryInv'
  OBVIOUS
<1>1. /\ graph \in Graphs /\ N \in Nat /\ graph.order \in [Positions -> Plugins]
      /\ \A i, j \in Positions : graph.order[i] = graph.order[j] => i = j
      /\ graph.offers \in [Plugins -> OfferSet]
  BY GraphFacts DEF TypeInv, TypeOK, AppOK
<1>2. ASSUME UNCHANGED <<graph, registry>> PROVE \A i \in Positions : Published(i)' = Published(i)
  BY <1>2 DEF Published
<1>3. ASSUME UNCHANGED graph PROVE Positions' = Positions /\ N' = N
  BY <1>3 DEF Positions, N
<1>4. ASSUME NEW staged \in ProvisionSet, InitializeOk(staged) PROVE RegistryInv'
  <2>1. at \in Positions /\ Current \in Plugins /\ Current = graph.order[at]
    BY <1>1, <1>4 DEF InitializeOk, TypeInv, WalkInv, Current
  <2>2. /\ UNCHANGED <<graph, stage>> /\ stage = "Initializing" /\ at' = at + 1
        /\ registry' = [registry EXCEPT ![Current] = Insert(@, staged)]
        /\ CommitErrors(graph.offers[Current], staged) = {}
    BY <1>4 DEF InitializeOk
  <2>3. registry \in [Plugins -> ProvisionSet]
    BY DEF TypeInv, TypeOK, AppOK
  <2>4. ASSUME NEW i \in Positions, i = at PROVE Published(i)'
    <3>1. graph.offers[Current] \in OfferSet /\ registry[Current] \in ProvisionSet
      BY <1>1, <2>1, <2>3
    <3>2. registry'[Current] = Insert(registry[Current], staged)
      BY <2>1, <2>2, <2>3
    <3>3. /\ DOMAIN graph.offers[Current] \subseteq DOMAIN registry'[Current]
          /\ \A c \in DOMAIN graph.offers[Current] :
               registry'[Current][c].version = graph.offers[Current][c]
      BY <3>1, <3>2, <2>2, CommitComplete
    <3>4. QED
      BY <3>3, <2>1, <2>2, <2>4 DEF Published
  <2>5. ASSUME NEW i \in Positions, i < at PROVE Published(i)'
    <3>1. graph.order[i] # Current /\ graph.order[i] \in Plugins
      BY <1>1, <2>1, <2>5 DEF Positions
    <3>2. registry'[graph.order[i]] = registry[graph.order[i]]
      BY <3>1, <2>2, <2>3
    <3>3. Published(i)
      BY <2>2, <2>5 DEF RegistryInv
    <3>4. QED
      BY <3>2, <3>3, <2>2 DEF Published
  <2>6. \A i \in Positions : i < at + 1 => i < at \/ i = at
    BY <2>1, <1>1 DEF Positions
  <2>7. QED
    BY <2>2, <2>4, <2>5, <2>6, <1>3 DEF RegistryInv
<1>5. CASE InitializeAllDone
  <2>1. \A i \in Positions : Published(i)
    BY <1>5, <1>1 DEF InitializeAllDone, RegistryInv, Positions, TypeInv, TypeOK, PositionOK
  <2>2. QED
    BY <2>1, <1>2, <1>3, <1>5 DEF InitializeAllDone, RegistryInv
<1>6. CASE CallStart
  BY <1>6, <1>1, <1>3 DEF CallStart, RegistryInv, TypeInv, WalkInv, Positions
<1>7. ASSUME UNCHANGED <<graph, registry>>,
             stage' # stage => stage' \notin {"Initializing", "Starting", "Running"},
             stage' = "Initializing" => at' = at
      PROVE  RegistryInv'
  BY <1>2, <1>3, <1>7 DEF RegistryInv
<1>8. CASE StartAllDone
  BY <1>8, <1>2, <1>3 DEF StartAllDone, RegistryInv
<1>9. CASE CallInitialize \/ CallStartHook \/ StartOk \/ CallCleanup \/ CleanupOk \/ NextCleanupPhase
  BY <1>7, <1>9 DEF CallInitialize, CallStartHook, StartOk, CallCleanup, CleanupOk,
                    NextCleanupPhase, Cleaning
<1>10. CASE RollbackDone \/ ShutdownDone \/ CallShutdown
  BY <1>7, <1>10 DEF RollbackDone, ShutdownDone, CallShutdown
<1>11. CASE DropShutdownFuture \/ DropStartFuture \/ DropApp
  BY <1>7, <1>11 DEF DropShutdownFuture, DropStartFuture, DropApp
<1>12. CASE UNCHANGED vars
  BY <1>7, <1>12 DEF vars
<1>13. ASSUME NEW tag, RollbackInitialize(tag) \/ StartErr(tag) \/ CleanupErr(tag)
       PROVE  RegistryInv'
  BY <1>7, <1>13 DEF RollbackInitialize, StartErr, CleanupErr, Cleaning
<1>14. QED
  BY <1>4, <1>5, <1>6, <1>8, <1>9, <1>10, <1>11, <1>12, <1>13
  DEF Next, Executor, HookReturns, Caller, Ended, CallShutdownAgain, InitializeErr, CommitRefused

-----------------------------------------------------------------------------
(* How often hooks are called. *)

\* The hook counters are natural numbers.
LEMMA CountType ==
    ASSUME TypeInv PROVE \A i \in Positions, f \in Phases : C(i, f) \in Nat
BY GraphFacts DEF TypeInv, TypeOK, AppOK, HistoryOK, C

\* Calling a hook counts that hook of that plugin and nothing else.
LEMMA HookCounts ==
    ASSUME TypeInv, at \in Positions, CallHook, graph' = graph
    PROVE  /\ \A i \in Positions, f \in Phases :
                C(i, f)' = IF i = at /\ f = phase THEN C(i, f) + 1 ELSE C(i, f)
           /\ StrangersInv => StrangersInv'
<1>1. /\ graph.order \in [Positions -> Plugins]
      /\ \A i, j \in Positions : graph.order[i] = graph.order[j] => i = j
  BY GraphFacts DEF TypeInv, TypeOK, AppOK
<1>2. calls \in [Plugins -> [Phases -> Nat]] /\ phase \in Phases
  BY DEF TypeInv, TypeOK, HistoryOK, PositionOK
<1>3. calls' = [calls EXCEPT ![graph.order[at]][phase] = @ + 1]
  BY DEF CallHook, Current
<1>4. \A i \in Positions, f \in Phases :
        calls'[graph.order[i]][f] = IF i = at /\ f = phase THEN calls[graph.order[i]][f] + 1
                                    ELSE calls[graph.order[i]][f]
  BY <1>1, <1>2, <1>3
<1>5. \A p \in Plugins : p # graph.order[at] => calls'[p] = calls[p]
  BY <1>1, <1>2, <1>3
<1>6. Members' = Members /\ graph.order[at] \in Members
  BY DEF Members, N, Positions
<1>7. StrangersInv => StrangersInv'
  BY <1>5, <1>6 DEF StrangersInv
<1>8. QED
  BY <1>4, <1>7 DEF C

\* A step that calls no hook changes no count.
LEMMA SameCounts ==
    ASSUME UNCHANGED <<graph, calls>>
    PROVE  /\ \A i, f : C(i, f)' = C(i, f)
           /\ StrangersInv => StrangersInv'
           /\ Positions' = Positions /\ N' = N
<1>1. Members' = Members
  BY DEF Members, N
<1>2. QED
  BY <1>1 DEF C, StrangersInv, Positions, N

\* No hook has been called when the application is resolved.
LEMMA InitCountInv == Init => CountInv
<1> SUFFICES ASSUME Init PROVE CountInv
  OBVIOUS
<1>1. \A p \in Plugins, f \in Phases : calls[p][f] = 0
  BY DEF Init
<1>2. \A i \in Positions, f \in Phases : C(i, f) = 0
  BY <1>1, GraphFacts DEF Init, C
<1>3. StartupCounts
  BY <1>2, GraphFacts
  DEF Init, StartupCounts, Phases, StartupPhases, CleanupPhases, Positions
<1>4. CleanupCounts /\ WalkCounts
  BY DEF Init, CleanupCounts, WalkCounts, CleanupStages, Cleaning
<1>5. StrangersInv
  BY <1>1 DEF StrangersInv
<1>6. QED
  BY <1>3, <1>4, <1>5 DEF CountInv

\* The walk advances: a cleanup hook is called at the position of the walk.
LEMMA CallCleanupCounts ==
    ASSUME TypeInv, CountInv, CallCleanup PROVE CountInv'
<1>1. /\ N \in Nat /\ graph' = graph /\ Positions' = Positions /\ N' = N
      /\ at \in Positions /\ phase \in CleanupPhases /\ Due(at, phase)
  BY GraphFacts DEF CallCleanup, TypeInv, TypeOK, AppOK, PositionOK, WalkInv, Cleaning, Positions, N, Due
<1>2. /\ Cleaning /\ ~pending /\ pending' = TRUE
      /\ UNCHANGED <<stage, phase, at, reach, cancels>>
  BY DEF CallCleanup, CallHook
<1>3. /\ \A i \in Positions, f \in Phases :
           C(i, f)' = IF i = at /\ f = phase THEN C(i, f) + 1 ELSE C(i, f)
      /\ StrangersInv'
  BY <1>1, HookCounts DEF CallCleanup, CountInv
<1>4. \A i \in Positions, f \in Phases : C(i, f) \in Nat
  BY CountType
<1>5. \A i, f : Due(i, f)' = Due(i, f)
  BY <1>2 DEF Due
<1>6. /\ \A i \in Positions, f \in CleanupPhases :
           Done(i, f)' <=> (Done(i, f) \/ (i = at /\ f = phase))
      /\ ~Done(at, phase)
  <2>1. at \in Nat /\ Positions \subseteq Nat
    BY <1>1 DEF Positions
  <2>2. \A f \in CleanupPhases : Rank(f) \in Nat /\ ~(Rank(f) < Rank(f))
    BY DEF Rank, CleanupPhases
  <2>3. ~Done(at, phase)
    BY <1>1, <1>2, <2>1, <2>2 DEF Done
  <2>4. QED
    BY <1>1, <1>2, <2>1, <2>3 DEF Done, Rank
<1>7. \A i, j \in Positions, f, g \in CleanupPhases :
        /\ Precedes(i, f, at, phase) => Done(i, f)
        /\ Precedes(at, phase, j, g) => ~Done(j, g)
  BY <1>1, <1>2 DEF Precedes, Done, Rank, CleanupPhases, Positions
<1>8. cancels \in Nat /\ CleanupPhases \subseteq Phases
  BY CancelsAssumption DEF TypeInv, TypeOK, AppOK, Phases
<1>9. StartupCounts'
  BY <1>2 DEF StartupCounts, Cleaning
<1>10. CleanupCounts'
  <2>1. stage \in CleanupStages
    BY <1>2 DEF CleanupStages, Cleaning
  <2>2. ASSUME NEW i \in Positions
        PROVE  /\ C(i, "Initialize")' = IF Due(i, "Dispose") THEN 1 ELSE 0
               /\ C(i, "Start")' = IF Due(i, "Quiesce") THEN 1 ELSE 0
    BY <1>1, <1>3, <2>1 DEF CountInv, CleanupCounts, CleanupPhases, Phases, StartupPhases
  <2>3. ASSUME NEW i \in Positions, NEW f \in CleanupPhases, ~Due(i, f)
        PROVE  C(i, f)' = 0
    BY <1>1, <1>3, <1>8, <2>1, <2>3 DEF CountInv, CleanupCounts
  <2>4. ASSUME NEW i \in Positions, NEW j \in Positions,
               NEW f \in CleanupPhases, NEW g \in CleanupPhases,
               Due(i, f), Due(j, g), Precedes(i, f, j, g)
        PROVE  C(j, g)' <= C(i, f)'
    <3>1. C(j, g) <= C(i, f)
      BY <2>1, <2>4 DEF CountInv, CleanupCounts
    <3>2. (j = at /\ g = phase) => C(j, g) < C(i, f)
      BY <1>1, <1>2, <1>6, <1>7, <2>4 DEF CountInv, WalkCounts
    <3>3. ~(i = at /\ f = phase /\ j = at /\ g = phase)
      BY <2>4 DEF Precedes, Rank, Positions
    <3>4. QED
      BY <3>1, <3>2, <3>3, <1>3, <1>4, <1>8
  <2>5. QED
    BY <2>1, <2>2, <2>3, <2>4, <1>1, <1>2, <1>5 DEF CountInv, CleanupCounts, Precedes
<1>11. WalkCounts'
  <2>1. ASSUME NEW i \in Positions, NEW j \in Positions,
               NEW f \in CleanupPhases, NEW g \in CleanupPhases,
               Due(i, f), Due(j, g), Done(i, f)', ~Done(j, g)'
        PROVE  C(j, g)' < C(i, f)'
    <3>1. ~Done(j, g) /\ ~(j = at /\ g = phase)
      BY <1>6, <2>1
    <3>2. CASE Done(i, f)
      BY <3>1, <3>2, <2>1, <1>2, <1>3, <1>4, <1>8 DEF CountInv, WalkCounts
    <3>3. CASE i = at /\ f = phase
      <4>1. Precedes(i, f, j, g)
        BY <3>1, <3>3, <1>1, <1>2 DEF Done, Precedes, Rank, CleanupPhases, Positions
      <4>2. C(j, g) <= C(i, f)
        BY <4>1, <2>1, <1>2 DEF CountInv, CleanupCounts, CleanupStages, Cleaning
      <4>3. QED
        BY <4>2, <3>1, <3>3, <1>3, <1>4, <1>8
    <3>4. QED
      BY <3>2, <3>3, <1>6, <2>1
  <2>2. ASSUME NEW i \in Positions, NEW f \in CleanupPhases
        PROVE  /\ Due(i, f) /\ Done(i, f)' => C(i, f)' \in 1..(1 + cancels)
               /\ ~Done(i, f)' => C(i, f)' <= cancels
    <3>1. /\ Due(i, f) /\ Done(i, f) => C(i, f) \in 1..(1 + cancels)
          /\ ~Done(i, f) => C(i, f) <= cancels
      BY <1>2 DEF CountInv, WalkCounts
    <3>2. QED
      BY <3>1, <1>3, <1>4, <1>6, <1>8
  <2>3. stage \notin {"Failed", "Interrupted", "Stopped"}
    BY <1>2 DEF Cleaning
  <2>4. QED
    BY <2>1, <2>2, <2>3, <1>1, <1>2, <1>5 DEF CountInv, WalkCounts, Cleaning
<1>12. QED
  BY <1>3, <1>9, <1>10, <1>11 DEF CountInv

\* A step that calls no hook and leaves the walk where it is for every due hook.
LEMMA SameWalkCounts ==
    ASSUME TypeInv, CountInv, UNCHANGED <<graph, calls, stage, reach, cancels>>, Cleaning,
           \A i \in Positions, f \in CleanupPhases : Due(i, f) => (Done(i, f)' <=> Done(i, f))
    PROVE  CountInv'
<1>1. /\ \A i, f : C(i, f)' = C(i, f) /\ Due(i, f)' = Due(i, f)
      /\ StrangersInv' /\ Positions' = Positions /\ N' = N
  BY SameCounts DEF CountInv, Due
<1>2. StartupCounts'
  BY DEF StartupCounts, Cleaning
<1>3. CleanupCounts'
  BY <1>1 DEF CountInv, CleanupCounts, Precedes
<1>4. ASSUME NEW i \in Positions, NEW f \in CleanupPhases, ~Done(i, f)'
      PROVE  C(i, f) <= cancels
  <2>1. cancels \in Nat /\ stage \in CleanupStages
    BY CancelsAssumption DEF TypeInv, TypeOK, AppOK, CleanupStages, Cleaning
  <2>2. CASE Due(i, f)
    BY <2>2, <1>4 DEF CountInv, WalkCounts
  <2>3. CASE ~Due(i, f)
    BY <2>1, <2>3 DEF CountInv, CleanupCounts
  <2>4. QED
    BY <2>2, <2>3
<1>5. WalkCounts'
  BY <1>1, <1>4 DEF CountInv, WalkCounts, Cleaning
<1>6. QED
  BY <1>1, <1>2, <1>3, <1>5 DEF CountInv

\* A cleanup walk that begins with every due hook still to be called.
LEMMA WalkBegins ==
    ASSUME TypeInv, CountInv, UNCHANGED <<graph, calls, cancels>>, CleanupCounts',
           stage' \in {"RollingBack", "ShuttingDown"},
           stage' = "RollingBack" => cancels = 0,
           stage' = "ShuttingDown" => \A f \in CleanupPhases : reach'[f] = N,
           \A i \in Positions, f \in CleanupPhases : Due(i, f)' => ~Done(i, f)',
           \A i \in Positions, f \in CleanupPhases : C(i, f) <= cancels
    PROVE  CountInv'
<1>1. /\ \A i, f : C(i, f)' = C(i, f)
      /\ StrangersInv' /\ Positions' = Positions /\ N' = N
  BY SameCounts DEF CountInv
<1>2. StartupCounts'
  BY DEF StartupCounts
<1>3. WalkCounts'
  BY <1>1 DEF WalkCounts, Cleaning
<1>4. QED
  BY <1>1, <1>2, <1>3 DEF CountInv

\* Two rollbacks begin: no cleanup hook was called yet.
LEMMA RollbackBegins ==
    ASSUME TypeInv, CountInv, UNCHANGED <<graph, calls, cancels>>,
           stage \in {"Initializing", "Starting"}, stage' = "RollingBack",
           pending, pending' = FALSE,
           reach' \in [CleanupPhases -> 0..N],
           reach'["Stop"] = reach'["Quiesce"],
           reach'["Quiesce"] > 0 => reach'["Dispose"] = N,
           at' = reach'[phase'],
           \/ phase' = "Dispose" /\ reach'["Quiesce"] = 0
           \/ phase' = "Quiesce",
           \A i \in Positions :
              /\ C(i, "Initialize") = IF i <= reach'["Dispose"] THEN 1 ELSE 0
              /\ C(i, "Start") = IF i <= reach'["Quiesce"] THEN 1 ELSE 0
    PROVE  CountInv'
<1>1. /\ \A i, f : C(i, f)' = C(i, f)
      /\ Positions' = Positions /\ N' = N
  BY SameCounts
<1>2. cancels = 0 /\ \A i \in Positions, f \in CleanupPhases : C(i, f) = 0
  BY DEF CountInv, StartupCounts
<1>3. N \in Nat
  BY GraphFacts DEF TypeInv, TypeOK, AppOK
<1>4. CleanupCounts'
  BY <1>1, <1>2 DEF CleanupCounts, Due
<1>5. \A i \in Positions, f \in CleanupPhases : Due(i, f)' => ~Done(i, f)'
  <2> SUFFICES ASSUME NEW i \in Positions, NEW f \in CleanupPhases, i <= reach'[f]
               PROVE  ~Done(i, f)'
    BY DEF Due
  <2>1. i \in Nat /\ i > 0 /\ reach' \in [CleanupPhases -> 0..N]
    BY <1>3 DEF Positions
  <2>2. QED
    BY <2>1, <1>3 DEF Done, Rank, CleanupPhases
<1>6. QED
  BY <1>2, <1>4, <1>5, WalkBegins

\* Every step keeps the hook counters in agreement with the position of the walk.
LEMMA NextCountInv == TypeInv /\ ReportInv /\ CountInv /\ [Next]_vars => CountInv'
<1> SUFFICES ASSUME TypeInv, ReportInv, CountInv, [Next]_vars PROVE CountInv'
  OBVIOUS
<1>1. N \in Nat /\ cancels \in Nat /\ at \in Nat /\ Positions = 1..N
  BY GraphFacts, CancelsAssumption DEF TypeInv, TypeOK, AppOK, PositionOK, Positions
<1>2. \A i \in Positions, f \in Phases : C(i, f) \in Nat
  BY CountType
<1>3. CleanupPhases \subseteq Phases /\ "Initialize" \in Phases /\ "Start" \in Phases
  BY DEF Phases, StartupPhases
<1>4. reach \in [CleanupPhases -> 0..N]
  BY DEF TypeInv, TypeOK, PositionOK
<1>10. CASE CallStart
  <2>1. UNCHANGED <<graph, calls, at, pending, cancels>> /\ stage = "Resolved" /\ stage' = "Initializing"
    BY <1>10 DEF CallStart
  <2>2. StartupCounts'
    BY <2>1, SameCounts DEF CountInv, StartupCounts
  <2>3. QED
    BY <2>1, <2>2, SameCounts DEF CountInv, CleanupCounts, WalkCounts, CleanupStages, Cleaning
<1>11. CASE CallInitialize
  <2>1. /\ UNCHANGED <<graph, at, stage, cancels>> /\ stage = "Initializing"
        /\ phase = "Initialize" /\ ~pending /\ pending' = TRUE /\ at \in Positions
    BY <1>1, <1>11 DEF CallInitialize, CallHook, TypeInv, WalkInv
  <2>2. /\ \A i \in Positions, f \in Phases :
             C(i, f)' = IF i = at /\ f = phase THEN C(i, f) + 1 ELSE C(i, f)
        /\ StrangersInv'
    BY <1>11, <2>1, HookCounts DEF CallInitialize, CountInv
  <2>3. Positions' = Positions
    BY <2>1 DEF Positions, N
  <2>4. StartupCounts'
    BY <1>1, <1>3, <2>1, <2>2, <2>3 DEF CountInv, StartupCounts, CleanupPhases
  <2>5. QED
    BY <2>1, <2>2, <2>4 DEF CountInv, CleanupCounts, WalkCounts, CleanupStages, Cleaning
<1>12. ASSUME NEW staged \in ProvisionSet, InitializeOk(staged) PROVE CountInv'
  <2>1. /\ UNCHANGED <<graph, stage, calls, cancels>> /\ stage = "Initializing"
        /\ pending /\ pending' = FALSE /\ at' = at + 1
    BY <1>12 DEF InitializeOk
  <2>2. StartupCounts'
    BY <1>1, <2>1, SameCounts DEF CountInv, StartupCounts
  <2>3. QED
    BY <2>1, <2>2, SameCounts DEF CountInv, CleanupCounts, WalkCounts, CleanupStages, Cleaning
<1>13. ASSUME NEW tag, stage = "Initializing", pending, RollbackInitialize(tag) PROVE CountInv'
  <2>1. /\ UNCHANGED <<graph, calls, cancels>> /\ stage' = "RollingBack" /\ pending' = FALSE
        /\ phase' = "Dispose" /\ at' = reach'["Dispose"]
        /\ reach' = [f \in CleanupPhases |-> IF f = "Dispose" THEN at ELSE 0]
        /\ at \in Positions
    BY <1>13 DEF RollbackInitialize, RollbackInitializeReach, TypeInv, WalkInv
  <2>2. /\ reach'["Dispose"] = at /\ reach'["Quiesce"] = 0 /\ reach'["Stop"] = 0
        /\ reach' \in [CleanupPhases -> 0..N]
    BY <1>1, <2>1 DEF CleanupPhases
  <2>3. \A i \in Positions :
          /\ C(i, "Initialize") = IF i <= at THEN 1 ELSE 0
          /\ C(i, "Start") = IF i <= 0 THEN 1 ELSE 0
    BY <1>1, <1>13 DEF CountInv, StartupCounts
  <2>4. \A i \in Positions :
          /\ C(i, "Initialize") = IF i <= reach'["Dispose"] THEN 1 ELSE 0
          /\ C(i, "Start") = IF i <= reach'["Quiesce"] THEN 1 ELSE 0
    BY <2>2, <2>3
  <2>5. /\ reach'["Stop"] = reach'["Quiesce"] /\ at' = reach'[phase']
        /\ reach'["Quiesce"] > 0 => reach'["Dispose"] = N
    BY <2>1, <2>2
  <2>6. QED
    BY <1>13, <2>1, <2>2, <2>4, <2>5, RollbackBegins
<1>14. ASSUME NEW tag \in HookErrors, InitializeErr(tag) PROVE CountInv'
  BY <1>13, <1>14 DEF InitializeErr
<1>15. ASSUME NEW staged \in ProvisionSet, CommitRefused(staged) PROVE CountInv'
  BY <1>13, <1>15 DEF CommitRefused
<1>16. CASE InitializeAllDone
  <2>1. /\ UNCHANGED <<graph, calls, cancels, pending>> /\ stage = "Initializing" /\ at > N
        /\ stage' = "Starting" /\ at' = 1 /\ ~pending
    BY <1>1, <1>16 DEF InitializeAllDone, TypeInv, WalkInv
  <2>2. StartupCounts'
    BY <1>1, <2>1, SameCounts DEF CountInv, StartupCounts
  <2>3. QED
    BY <2>1, <2>2, SameCounts DEF CountInv, CleanupCounts, WalkCounts, CleanupStages, Cleaning
<1>17. CASE CallStartHook
  <2>1. /\ UNCHANGED <<graph, at, stage, cancels>> /\ stage = "Starting"
        /\ phase = "Start" /\ ~pending /\ pending' = TRUE /\ at \in Positions
    BY <1>1, <1>17 DEF CallStartHook, CallHook, TypeInv, WalkInv
  <2>2. /\ \A i \in Positions, f \in Phases :
             C(i, f)' = IF i = at /\ f = phase THEN C(i, f) + 1 ELSE C(i, f)
        /\ StrangersInv'
    BY <1>17, <2>1, HookCounts DEF CallStartHook, CountInv
  <2>3. Positions' = Positions
    BY <2>1 DEF Positions, N
  <2>4. StartupCounts'
    BY <1>1, <1>3, <2>1, <2>2, <2>3 DEF CountInv, StartupCounts, CleanupPhases
  <2>5. QED
    BY <2>1, <2>2, <2>4 DEF CountInv, CleanupCounts, WalkCounts, CleanupStages, Cleaning
<1>18. CASE StartOk
  <2>1. /\ UNCHANGED <<graph, stage, calls, cancels>> /\ stage = "Starting"
        /\ pending /\ pending' = FALSE /\ at' = at + 1
    BY <1>18 DEF StartOk
  <2>2. StartupCounts'
    BY <1>1, <2>1, SameCounts DEF CountInv, StartupCounts
  <2>3. QED
    BY <2>1, <2>2, SameCounts DEF CountInv, CleanupCounts, WalkCounts, CleanupStages, Cleaning
<1>19. ASSUME NEW tag \in HookErrors, StartErr(tag) PROVE CountInv'
  <2>1. /\ UNCHANGED <<graph, calls, cancels>> /\ stage' = "RollingBack" /\ pending' = FALSE
        /\ stage = "Starting" /\ pending
        /\ phase' = "Quiesce" /\ at' = reach'["Quiesce"]
        /\ reach' = [f \in CleanupPhases |-> IF f = "Dispose" THEN N ELSE at]
        /\ at \in Positions
    BY <1>19 DEF StartErr, RollbackStartReach, TypeInv, WalkInv
  <2>2. /\ reach'["Dispose"] = N /\ reach'["Quiesce"] = at /\ reach'["Stop"] = at
        /\ reach' \in [CleanupPhases -> 0..N]
    BY <1>1, <2>1 DEF CleanupPhases
  <2>3. \A i \in Positions :
          /\ C(i, "Initialize") = IF i <= N THEN 1 ELSE 0
          /\ C(i, "Start") = IF i <= at THEN 1 ELSE 0
    BY <1>1, <2>1 DEF CountInv, StartupCounts
  <2>4. QED
    BY <2>1, <2>2, <2>3, RollbackBegins
<1>20. CASE StartAllDone
  <2>1. /\ UNCHANGED <<graph, calls, cancels>> /\ stage = "Starting" /\ at > N
        /\ stage' = "Running"
    BY <1>20 DEF StartAllDone
  <2>2. StartupCounts'
    BY <1>1, <2>1, SameCounts DEF CountInv, StartupCounts
  <2>3. QED
    BY <2>1, <2>2, SameCounts DEF CountInv, CleanupCounts, WalkCounts, CleanupStages, Cleaning
<1>21. CASE CallCleanup
  BY <1>21, CallCleanupCounts
<1>22. ASSUME UNCHANGED <<graph, calls, stage, reach, cancels, phase>>, Cleaning,
              pending, pending' = FALSE, at' = at - 1
       PROVE  CountInv'
  <2>1. \A i \in Positions, f \in CleanupPhases : Done(i, f)' <=> Done(i, f)
    <3>1. at \in 1..N
      BY <1>1, <1>22 DEF TypeInv, WalkInv
    <3>2. \A i \in Positions : i > at - 1 <=> i > at \/ i = at
      BY <1>1, <3>1
    <3>3. QED
      BY <1>22, <3>2 DEF Done
  <2>2. QED
    BY <1>22, <2>1, SameWalkCounts
<1>23. CASE CleanupOk
  BY <1>22, <1>23 DEF CleanupOk
<1>24. ASSUME NEW tag \in HookErrors, CleanupErr(tag) PROVE CountInv'
  BY <1>22, <1>24 DEF CleanupErr
<1>25. CASE NextCleanupPhase
  <2>1. /\ UNCHANGED <<graph, calls, stage, reach, cancels, pending>> /\ Cleaning
        /\ at = 0 /\ phase # "Dispose" /\ phase' = NextPhase(phase) /\ at' = reach[phase']
        /\ phase \in CleanupPhases /\ ~pending
    BY <1>1, <1>25 DEF NextCleanupPhase, TypeInv, WalkInv, Cleaning
  <2>2. \A i \in Positions, f \in CleanupPhases : Due(i, f) => (Done(i, f)' <=> Done(i, f))
    BY <1>1, <1>4, <2>1 DEF Due, Done, Rank, NextPhase, CleanupPhases
  <2>3. QED
    BY <2>1, <2>2, SameWalkCounts
<1>26. ASSUME UNCHANGED <<graph, calls, reach, cancels>>, Cleaning, at = 0, phase = "Dispose",
              \/ stage = "RollingBack" /\ stage' = "Failed"
              \/ stage = "ShuttingDown" /\ stage' = "Stopped"
       PROVE  CountInv'
  <2>1. /\ \A i, f : C(i, f)' = C(i, f) /\ Due(i, f)' = Due(i, f)
        /\ StrangersInv' /\ Positions' = Positions /\ N' = N
    BY <1>26, SameCounts DEF CountInv, Due
  <2>2. \A i \in Positions, f \in CleanupPhases : Done(i, f)
    BY <1>1, <1>26 DEF Done, Rank, CleanupPhases
  <2>3. StartupCounts'
    BY <1>26 DEF StartupCounts
  <2>4. CleanupCounts'
    BY <1>26, <2>1 DEF CountInv, CleanupCounts, CleanupStages, Precedes
  <2>5. WalkCounts'
    BY <1>26, <2>1, <2>2 DEF CountInv, WalkCounts, Cleaning
  <2>6. QED
    BY <2>1, <2>3, <2>4, <2>5 DEF CountInv
<1>27. CASE RollbackDone
  BY <1>26, <1>27 DEF RollbackDone, Cleaning
<1>28. CASE ShutdownDone
  BY <1>26, <1>28 DEF ShutdownDone, Cleaning
<1>29. CASE CallShutdown
  <2>1. /\ UNCHANGED <<graph, calls, cancels, pending>> /\ stage' = "ShuttingDown"
        /\ stage \in {"Running", "Interrupted"}
        /\ reach' = [f \in CleanupPhases |-> N] /\ phase' = "Quiesce" /\ at' = N /\ ~pending
    BY <1>29 DEF CallShutdown, ShutdownReach, ReportInv, TypeInv, WalkInv, CleanupPhases
  <2>2. \A i, f : C(i, f)' = C(i, f)
    BY <2>1, SameCounts
  <2>3. \A i \in Positions : C(i, "Initialize") = 1 /\ C(i, "Start") = 1
    BY <1>1, <2>1 DEF CountInv, StartupCounts, CleanupCounts, WalkCounts, CleanupStages, Due,
                      CleanupPhases
  <2>4. \A i \in Positions, f \in CleanupPhases : C(i, f) <= cancels
    BY <1>1, <2>1 DEF CountInv, StartupCounts, WalkCounts
  <2>5. ASSUME NEW i \in Positions, NEW j \in Positions,
               NEW f \in CleanupPhases, NEW g \in CleanupPhases, Precedes(i, f, j, g)
        PROVE  C(j, g) <= C(i, f)
    <3>1. CASE stage = "Running"
      BY <3>1 DEF CountInv, StartupCounts
    <3>2. CASE stage = "Interrupted"
      <4>1. Due(i, f) /\ Due(j, g)
        BY <1>1, <3>2 DEF CountInv, WalkCounts, Due
      <4>2. QED
        BY <2>5, <3>2, <4>1 DEF CountInv, CleanupCounts, CleanupStages
    <3>3. QED
      BY <2>1, <3>1, <3>2
  <2>6. /\ Positions' = Positions /\ N' = N
        /\ \A i \in Positions, f \in CleanupPhases : Due(i, f)'
    BY <1>1, <2>1, SameCounts DEF Due
  <2>7. /\ reach'["Stop"] = reach'["Quiesce"] /\ reach'["Dispose"] = N
    BY <2>1 DEF CleanupPhases
  <2>8. CleanupCounts'
    BY <2>1, <2>2, <2>3, <2>5, <2>6, <2>7 DEF CleanupCounts, Precedes, CleanupPhases
  <2>9. \A i \in Positions, f \in CleanupPhases : ~Done(i, f)'
    BY <1>1, <2>1 DEF Done, Rank, CleanupPhases
  <2>10. QED
    BY <2>1, <2>4, <2>8, <2>9, WalkBegins
<1>30. CASE DropShutdownFuture
  <2>1. /\ UNCHANGED <<graph, calls, reach>> /\ stage = "ShuttingDown" /\ stage' = "Interrupted"
        /\ cancels' = cancels + 1
    BY <1>30 DEF DropShutdownFuture
  <2>2. /\ \A i, f : C(i, f)' = C(i, f) /\ Due(i, f)' = Due(i, f)
        /\ StrangersInv' /\ Positions' = Positions /\ N' = N
    BY <2>1, SameCounts DEF CountInv, Due
  <2>3. ASSUME NEW i \in Positions, NEW f \in CleanupPhases PROVE C(i, f) <= cancels + 1
    <3>1. Due(i, f)
      BY <1>1, <2>1 DEF CountInv, WalkCounts, Due
    <3>2. C(i, f) \in Nat
      BY <1>2, <1>3
    <3>3. C(i, f) \in 1..(1 + cancels) \/ C(i, f) <= cancels
      BY <3>1, <2>1 DEF CountInv, WalkCounts, Cleaning
    <3>4. QED
      BY <3>2, <3>3, <1>1
  <2>4. CleanupCounts'
    BY <2>1, <2>2 DEF CountInv, CleanupCounts, CleanupStages, Precedes
  <2>5. WalkCounts' /\ StartupCounts'
    BY <2>1, <2>2, <2>3 DEF CountInv, WalkCounts, StartupCounts, Cleaning
  <2>6. QED
    BY <2>2, <2>4, <2>5 DEF CountInv
<1>31. CASE DropStartFuture \/ DropApp
  <2>1. UNCHANGED <<graph, calls>> /\ stage' = "Dropped"
    BY <1>31 DEF DropStartFuture, DropApp
  <2>2. QED
    BY <2>1, SameCounts
    DEF CountInv, StartupCounts, CleanupCounts, WalkCounts, CleanupStages, Cleaning
<1>32. CASE UNCHANGED vars
  <2>1. \A i, f : C(i, f)' = C(i, f) /\ Due(i, f)' = Due(i, f) /\ (Done(i, f)' <=> Done(i, f))
    BY <1>32 DEF vars, C, Due, Done
  <2>2. StrangersInv' /\ Positions' = Positions /\ N' = N
    BY <1>32, SameCounts DEF vars, CountInv
  <2>3. StartupCounts' /\ CleanupCounts'
    BY <1>32, <2>1, <2>2 DEF vars, CountInv, StartupCounts, CleanupCounts, Precedes
  <2>4. WalkCounts'
    BY <1>32, <2>1, <2>2 DEF vars, CountInv, WalkCounts, Cleaning
  <2>5. QED
    BY <2>2, <2>3, <2>4 DEF CountInv
<1>40. QED
  BY <1>10, <1>11, <1>12, <1>14, <1>15, <1>16, <1>17, <1>18, <1>19, <1>20, <1>21, <1>23,
     <1>24, <1>25, <1>27, <1>28, <1>29, <1>30, <1>31, <1>32
  DEF Next, Executor, HookReturns, Caller, Ended, CallShutdownAgain

-----------------------------------------------------------------------------
(* What the counts say about order and completeness. *)

\* Outside a dropped application the counts imply the ordering properties.
LEMMA CountsAreOrdered ==
    TypeInv /\ CountInv /\ stage # "Dropped" => DependencyOrder /\ PhaseBarriers
<1> SUFFICES ASSUME TypeInv, CountInv, stage # "Dropped" PROVE DependencyOrder /\ PhaseBarriers
  OBVIOUS
<1>1. /\ N \in Nat /\ Positions = 1..N /\ cancels \in Nat
      /\ \A e \in graph.edges : \E i, j \in Positions :
           i < j /\ graph.order[i] = e.provider /\ graph.order[j] = e.consumer
  BY GraphFacts, CancelsAssumption DEF TypeInv, TypeOK, AppOK, Positions
<1>2. \A i \in Positions, f \in Phases : C(i, f) \in Nat
  BY CountType
<1>3. CleanupPhases \subseteq Phases /\ StartupPhases \subseteq Phases
  BY DEF Phases
<1>4. \/ stage \in CleanupStages
      \/ stage \in {"Resolved", "Initializing", "Starting", "Running"}
  BY DEF TypeInv, TypeOK, PositionOK, Stages, CleanupStages
<1>5. reach \in [CleanupPhases -> 0..N]
  BY DEF TypeInv, TypeOK, PositionOK
<1>6. ASSUME NEW i \in Positions, NEW j \in Positions, i < j
      PROVE  /\ \A f \in StartupPhases : C(j, f) <= C(i, f)
             /\ C(j, "Start") > 0 => \A f \in {"Quiesce", "Stop"} : C(i, f) <= C(j, f)
             /\ C(j, "Initialize") > 0 => C(i, "Dispose") <= C(j, "Dispose")
  <2>1. CASE stage \in CleanupStages
    <3>1. \A f \in CleanupPhases : Due(j, f) => Due(i, f) /\ C(i, f) <= C(j, f)
      BY <1>1, <1>5, <1>6, <2>1 DEF CountInv, CleanupCounts, Due, Precedes
    <3>2. C(j, "Start") > 0 => Due(j, "Quiesce") /\ Due(j, "Stop")
      BY <2>1 DEF CountInv, CleanupCounts, Due
    <3>3. C(j, "Initialize") > 0 => Due(j, "Dispose")
      BY <2>1 DEF CountInv, CleanupCounts
    <3>4. \A f \in StartupPhases : C(j, f) <= C(i, f)
      BY <2>1, <3>1 DEF CountInv, CleanupCounts, StartupPhases, CleanupPhases
    <3>5. QED
      BY <3>1, <3>2, <3>3, <3>4 DEF CleanupPhases
  <2>2. CASE stage \in {"Resolved", "Initializing", "Starting", "Running"}
    <3>1. at \in Nat
      BY DEF TypeInv, TypeOK, PositionOK
    <3>2. QED
      BY <1>1, <1>6, <2>2, <3>1 DEF CountInv, StartupCounts, StartupPhases, CleanupPhases
  <2>3. QED
    BY <1>4, <2>1, <2>2
<1>7. DependencyOrder
  <2> SUFFICES ASSUME NEW e \in graph.edges
               PROVE  /\ \A f \in StartupPhases : calls[e.consumer][f] <= calls[e.provider][f]
                      /\ calls[e.consumer]["Start"] > 0 => \A f \in {"Quiesce", "Stop"} :
                           calls[e.provider][f] <= calls[e.consumer][f]
                      /\ calls[e.consumer]["Initialize"] > 0 =>
                           calls[e.provider]["Dispose"] <= calls[e.consumer]["Dispose"]
    BY DEF DependencyOrder
  <2>1. PICK i \in Positions, j \in Positions :
          i < j /\ graph.order[i] = e.provider /\ graph.order[j] = e.consumer
    BY <1>1
  <2>2. QED
    BY <1>6, <2>1 DEF C
<1>8. ASSUME NEW i \in Positions, NEW j \in Positions
      PROVE  /\ C(i, "Start") <= C(j, "Initialize")
             /\ C(j, "Start") > 0 => /\ C(i, "Stop") <= C(j, "Quiesce")
                                     /\ C(i, "Dispose") <= C(j, "Stop")
  <2>1. CASE stage \in CleanupStages
    <3>1. C(i, "Start") <= C(j, "Initialize")
      BY <1>1, <1>5, <2>1 DEF CountInv, CleanupCounts, Due, CleanupPhases
    <3>2. ASSUME C(j, "Start") > 0
          PROVE  C(i, "Stop") <= C(j, "Quiesce") /\ C(i, "Dispose") <= C(j, "Stop")
      <4>1. Due(j, "Quiesce") /\ Due(j, "Stop")
        BY <2>1, <3>2 DEF CountInv, CleanupCounts, Due
      <4>2. /\ Precedes(j, "Quiesce", i, "Stop") /\ Precedes(j, "Stop", i, "Dispose")
        BY DEF Precedes, Rank
      <4>3. C(i, "Stop") <= C(j, "Quiesce")
        BY <1>2, <1>3, <2>1, <4>1, <4>2 DEF CountInv, CleanupCounts, CleanupPhases
      <4>4. C(i, "Dispose") <= C(j, "Stop")
        BY <1>2, <1>3, <2>1, <4>1, <4>2 DEF CountInv, CleanupCounts, CleanupPhases
      <4>5. QED
        BY <4>3, <4>4
    <3>3. QED
      BY <3>1, <3>2
  <2>2. CASE stage \in {"Resolved", "Initializing", "Starting", "Running"}
    BY <1>1, <2>2 DEF CountInv, StartupCounts, CleanupPhases
  <2>3. QED
    BY <1>4, <2>1, <2>2
<1>9. PhaseBarriers
  <2> SUFFICES ASSUME NEW p \in Members, NEW q \in Members
               PROVE  /\ calls[p]["Start"] <= calls[q]["Initialize"]
                      /\ calls[q]["Start"] > 0 => /\ calls[p]["Stop"] <= calls[q]["Quiesce"]
                                                  /\ calls[p]["Dispose"] <= calls[q]["Stop"]
    BY DEF PhaseBarriers
  <2>1. PICK i \in Positions, j \in Positions : p = graph.order[i] /\ q = graph.order[j]
    BY DEF Members, Positions
  <2>2. QED
    BY <1>8, <2>1 DEF C
<1>10. QED
  BY <1>7, <1>9

\* The initial states satisfy the inductive invariant.
LEMMA InitIInv == Init => IInv
<1> SUFFICES ASSUME Init PROVE IInv
  OBVIOUS
<1>1. TypeInv /\ CountInv /\ ScopeInv /\ ReportInv /\ RegistryInv
  BY InitTypeInv, InitCountInv, InitOwnInv
<1>2. stage # "Dropped"
  BY DEF Init
<1>3. QED
  BY <1>1, <1>2, CountsAreOrdered DEF IInv, TypeInv

\* Every step preserves the inductive invariant.
LEMMA NextIInv == IInv /\ [Next]_vars => IInv'
<1> SUFFICES ASSUME IInv, [Next]_vars PROVE IInv'
  OBVIOUS
<1>1. TypeInv /\ TypeInv'
  BY NextTypeInv DEF IInv, TypeInv
<1>2. ScopeInv' /\ ReportInv' /\ RegistryInv' /\ CountInv'
  BY <1>1, NextScopeInv, NextRegistryInv, NextCountInv DEF IInv
<1>3. CASE stage' # "Dropped"
  <2>1. (TypeInv /\ CountInv /\ stage # "Dropped" => DependencyOrder /\ PhaseBarriers)'
    BY CountsAreOrdered, PTL
  <2>2. QED
    BY <1>1, <1>2, <1>3, <2>1 DEF IInv, TypeInv
<1>4. CASE stage' = "Dropped"
  <2>1. UNCHANGED <<graph, calls>>
    BY <1>4
    DEF Next, Executor, HookReturns, Caller, Ended, CallStart, CallInitialize, InitializeOk,
        InitializeErr, CommitRefused, RollbackInitialize, InitializeAllDone, CallStartHook,
        StartOk, StartErr, StartAllDone, CallCleanup, CleanupOk, CleanupErr, Cleaning,
        NextCleanupPhase, RollbackDone, CallShutdown, ShutdownDone, CallShutdownAgain,
        DropShutdownFuture, DropStartFuture, DropApp, vars
  <2>2. DependencyOrder' /\ PhaseBarriers'
    BY <2>1 DEF IInv, DependencyOrder, PhaseBarriers, Members, N
  <2>3. QED
    BY <1>1, <1>2, <2>2 DEF IInv, TypeInv
<1>5. QED
  BY <1>3, <1>4

-----------------------------------------------------------------------------
(* The theorems. *)

\* The inductive invariant holds in every reachable state.
THEOREM Invariance == Spec => []IInv
BY InitIInv, NextIInv, PTL DEF Spec

\* On the way up no consumer's hook runs ahead of its providers', on the way
\* down no provider's ahead of its consumers', whatever fails and however often
\* a shutdown() is dropped and repeated.
THEOREM DependencyOrderHolds == Spec => []DependencyOrder
<1>1. IInv => DependencyOrder
  BY DEF IInv
<1>2. QED
  BY <1>1, Invariance, PTL

\* No plugin is stopped before every started plugin was quiesced, nor disposed
\* before every started plugin was stopped, in any attempt.
THEOREM PhaseBarriersHold == Spec => []PhaseBarriers
<1>1. IInv => PhaseBarriers
  BY DEF IInv
<1>2. QED
  BY <1>1, Invariance, PTL

\* A start() that fails has undone exactly what it had begun.
THEOREM FailedStartUndone == Spec => []FailedStartIsUndone
<1>1. IInv => FailedStartIsUndone
  <2> SUFFICES ASSUME IInv, stage = "Failed", NEW p \in Plugins
               PROVE  /\ calls[p]["Initialize"] <= 1
                      /\ calls[p]["Dispose"] = calls[p]["Initialize"]
                      /\ calls[p]["Quiesce"] = calls[p]["Start"]
                      /\ calls[p]["Stop"] = calls[p]["Start"]
    BY DEF FailedStartIsUndone
  <2>1. CASE p \notin Members
    BY <2>1 DEF IInv, CountInv, StrangersInv, Phases, StartupPhases, CleanupPhases
  <2>2. CASE p \in Members
    <3>1. PICK i \in Positions : p = graph.order[i]
      BY <2>2 DEF Members, Positions
    <3>2. /\ cancels = 0 /\ reach["Stop"] = reach["Quiesce"]
          /\ C(i, "Initialize") = IF Due(i, "Dispose") THEN 1 ELSE 0
          /\ C(i, "Start") = IF Due(i, "Quiesce") THEN 1 ELSE 0
          /\ \A f \in CleanupPhases : /\ ~Due(i, f) => C(i, f) = 0
                                      /\ Due(i, f) => C(i, f) \in 1..(1 + cancels)
      BY <3>1 DEF IInv, CountInv, CleanupCounts, WalkCounts, CleanupStages
    <3>3. \A f \in CleanupPhases : C(i, f) = IF Due(i, f) THEN 1 ELSE 0
      BY <3>2
    <3>4. QED
      BY <3>1, <3>2, <3>3 DEF C, Due, CleanupPhases
  <2>3. QED
    BY <2>1, <2>2
<1>2. QED
  BY <1>1, Invariance, PTL

\* A shutdown() that completes has run every cleanup hook of every plugin, at
\* most once more than shutdown() futures were dropped.
THEOREM ShutdownComplete == Spec => []ShutdownIsComplete
<1>1. IInv => ShutdownIsComplete
  <2> SUFFICES ASSUME IInv, stage = "Stopped", NEW p \in Members
               PROVE  /\ calls[p]["Initialize"] = 1 /\ calls[p]["Start"] = 1
                      /\ \A f \in CleanupPhases : calls[p][f] \in 1..(1 + cancels)
    BY DEF ShutdownIsComplete
  <2>1. PICK i \in Positions : p = graph.order[i]
    BY DEF Members, Positions
  <2>2. N \in Nat
    BY GraphFacts DEF IInv, TypeOK, AppOK
  <2>3. \A f \in CleanupPhases : Due(i, f)
    BY <2>1, <2>2 DEF IInv, CountInv, WalkCounts, Due, Positions
  <2>4. QED
    BY <2>1, <2>3 DEF IInv, CountInv, CleanupCounts, WalkCounts, CleanupStages, C, CleanupPhases
<1>2. QED
  BY <1>1, Invariance, PTL

\* While an initialize or start hook runs, what the plugin depends on is
\* published at the offered version by a provider that was not disposed.
THEOREM DependenciesAvailableHolds == Spec => []DependenciesAvailable
<1>1. IInv => DependenciesAvailable
  <2> SUFFICES ASSUME IInv, pending, phase \in StartupPhases,
                      NEW e \in graph.edges, e.consumer = Current
               PROVE  /\ \A m \in Markers :
                           Get(registry, e.provider, e.capability, m) # "MissingProvision"
                      /\ registry[e.provider][e.capability].version
                           = graph.offers[e.provider][e.capability]
                      /\ calls[e.provider]["Dispose"] = 0
    BY DEF DependenciesAvailable
  <2>1. /\ N \in Nat /\ Positions = 1..N
        /\ \A i, j \in Positions : graph.order[i] = graph.order[j] => i = j
        /\ e.capability \in DOMAIN graph.offers[e.provider]
    BY GraphFacts DEF IInv, TypeOK, AppOK, Positions
  <2>2. PICK i \in Positions, j \in Positions :
          i < j /\ graph.order[i] = e.provider /\ graph.order[j] = e.consumer
    BY GraphFacts DEF IInv, TypeOK, AppOK
  <2>3. /\ stage \in {"Initializing", "Starting"} /\ at \in Positions
    BY DEF IInv, WalkInv, Cleaning, StartupPhases, CleanupPhases
  <2>4. j = at
    BY <2>1, <2>2, <2>3 DEF Current
  <2>5. Published(i)
    BY <2>2, <2>3, <2>4 DEF IInv, RegistryInv
  <2>6. C(i, "Dispose") = 0
    BY <2>3 DEF IInv, CountInv, StartupCounts, CleanupPhases
  <2>7. QED
    BY <2>1, <2>2, <2>5, <2>6 DEF Published, C, Get
<1>2. QED
  BY <1>1, Invariance, PTL

\* Startup hooks see an open scope, cleanup hooks a closing one, and the scope is
\* closed only when start() or shutdown() is done.
THEOREM HooksSeeScopeHolds == Spec => []HooksSeeScope
<1>1. IInv => HooksSeeScope
  BY DEF IInv, TypeOK, PositionOK, WalkInv, ScopeInv, HooksSeeScope, Cleaning, Stages,
         StartupPhases, CleanupPhases
<1>2. QED
  BY <1>1, Invariance, PTL

\* After shutdown() has stored its report, nothing changes any more: neither the
\* report nor, by another hook call, the plugins.
THEOREM ReportFinal == Spec => ReportIsFinal
<1>1. IInv /\ [Next]_vars =>
        [terminal # << >> => UNCHANGED <<terminal, calls, registry, observations>>]_vars
  <2> SUFFICES ASSUME IInv, [Next]_vars, terminal # << >>
               PROVE  UNCHANGED <<terminal, calls, registry, observations>>
    OBVIOUS
  <2>1. stage = "Stopped" /\ ~pending
    BY DEF IInv, ReportInv, WalkInv
  <2>2. QED
    BY <2>1
    DEF Next, Executor, HookReturns, Caller, Ended, CallStart, CallInitialize, InitializeOk,
        InitializeErr, CommitRefused, RollbackInitialize, InitializeAllDone, CallStartHook,
        StartOk, StartErr, StartAllDone, CallCleanup, CleanupOk, CleanupErr, Cleaning,
        NextCleanupPhase, RollbackDone, CallShutdown, ShutdownDone, CallShutdownAgain,
        DropShutdownFuture, DropStartFuture, DropApp, vars
<1>2. QED
  BY <1>1, Invariance, PTL DEF Spec, ReportIsFinal

-----------------------------------------------------------------------------
(* Root access. *)

\* As long as the application scope is Open no cleanup hook was called.
OpenInv ==
    scope = "Open" => \A p \in Plugins, f \in CleanupPhases : calls[p][f] = 0

\* Every step keeps cleanup hooks behind the closing of the scope.
LEMMA NextOpenInv == IInv /\ OpenInv /\ [Next]_vars => OpenInv'
<1> SUFFICES ASSUME IInv, OpenInv, [Next]_vars PROVE OpenInv'
  OBVIOUS
<1> USE DEF OpenInv
<1>1. ASSUME CallHook, UNCHANGED <<scope, graph>>, phase \in StartupPhases PROVE OpenInv'
  <2>1. \A p \in Plugins, f \in Phases : (p # Current \/ f # phase) => calls'[p][f] = calls[p][f]
    BY <1>1 DEF CallHook, IInv, TypeOK, HistoryOK
  <2>2. \A f \in CleanupPhases : f \in Phases /\ f # phase
    BY <1>1 DEF Phases, StartupPhases, CleanupPhases
  <2>3. QED
    BY <1>1, <2>1, <2>2
<1>2. CASE CallInitialize \/ CallStartHook
  BY <1>1, <1>2 DEF CallInitialize, CallStartHook, IInv, WalkInv, StartupPhases
<1>3. CASE CallCleanup
  BY <1>3 DEF CallCleanup, Cleaning, IInv, ScopeInv
<1>4. ASSUME UNCHANGED calls, scope' = "Open" => scope = "Open" PROVE OpenInv'
  BY <1>4
<1>5. CASE CallStart \/ InitializeAllDone \/ StartAllDone \/ StartOk \/ CleanupOk \/ NextCleanupPhase
  BY <1>4, <1>5 DEF CallStart, InitializeAllDone, StartAllDone, StartOk, CleanupOk, NextCleanupPhase
<1>6. CASE RollbackDone \/ ShutdownDone \/ CallShutdown
  BY <1>4, <1>6 DEF RollbackDone, ShutdownDone, CallShutdown, FinishClose, BeginClose
<1>7. CASE DropShutdownFuture \/ DropStartFuture \/ DropApp \/ UNCHANGED vars
  BY <1>4, <1>7 DEF DropShutdownFuture, DropStartFuture, DropApp, vars
<1>8. ASSUME NEW staged \in ProvisionSet, InitializeOk(staged) PROVE OpenInv'
  BY <1>4, <1>8 DEF InitializeOk
<1>9. ASSUME NEW tag, RollbackInitialize(tag) \/ StartErr(tag) \/ CleanupErr(tag) PROVE OpenInv'
  BY <1>4, <1>9 DEF RollbackInitialize, StartErr, CleanupErr, BeginClose
<1>10. QED
  BY <1>2, <1>3, <1>5, <1>6, <1>7, <1>8, <1>9
  DEF Next, Executor, HookReturns, Caller, Ended, CallShutdownAgain, InitializeErr, CommitRefused

\* The root exports of a running application are there, and from its first
\* cleanup hook on every lookup is refused (RootAccessBoundary), also while a
\* dropped shutdown() has left the application half closed.
THEOREM RootAccessBoundaryHolds == Spec => []RootAccessBoundary
<1>1. Init => OpenInv
  BY DEF Init, OpenInv, Phases
<1>2. IInv /\ OpenInv => RootAccessBoundary
  <2> SUFFICES ASSUME IInv, OpenInv,
                      NEW p \in Members, NEW c \in DOMAIN graph.offers[p], NEW m \in Markers
               PROVE  /\ stage = "Running" =>
                           CapabilityFrom(p, c, m) \notin {"ApplicationUnavailable", "MissingProvision"}
                      /\ (\E q \in Plugins, f \in CleanupPhases : calls[q][f] > 0) =>
                           CapabilityFrom(p, c, m) = "ApplicationUnavailable"
    BY DEF RootAccessBoundary
  <2>1. PICK i \in Positions : p = graph.order[i]
    BY DEF Members, Positions
  <2>2. ASSUME stage = "Running"
        PROVE  CapabilityFrom(p, c, m) \notin {"ApplicationUnavailable", "MissingProvision"}
    <3>1. terminal = << >> /\ scope = "Open"
      BY <2>2 DEF IInv, ScopeInv, ReportInv
    <3>2. c \in DOMAIN registry[p]
      BY <2>1, <2>2 DEF IInv, RegistryInv, Published
    <3>3. QED
      BY <3>1, <3>2 DEF CapabilityFrom, Get
  <2>3. ASSUME NEW q \in Plugins, NEW f \in CleanupPhases, calls[q][f] > 0
        PROVE  CapabilityFrom(p, c, m) = "ApplicationUnavailable"
    <3>1. scope # "Open"
      BY <2>3 DEF OpenInv
    <3>2. QED
      BY <3>1 DEF CapabilityFrom
  <2>4. QED
    BY <2>2, <2>3
<1>3. QED
  BY <1>1, <1>2, NextOpenInv, Invariance, PTL DEF Spec

-----------------------------------------------------------------------------
(* Failures. *)

\* The failed observations are finitely many, and an earlier one has a smaller
\* rank among them.
LEMMA FailedFinite ==
    ASSUME NEW obs \in Seq(Observation), NEW from \in 0..Len(obs)
    PROVE  /\ IsFiniteSet(FailedSince(obs, from)) /\ Cardinality(FailedSince(obs, from)) \in Nat
           /\ \A i \in FailedSince(obs, from) :
                Cardinality(FailedUpTo(obs, from, i)) \in 1..Cardinality(FailedSince(obs, from))
<1> DEFINE F == FailedSince(obs, from)
<1>1. Len(obs) \in Nat
  BY LenProperties
<1>2. IsFiniteSet((from + 1)..Len(obs))
  BY <1>1, FS_Interval
<1>3. F \subseteq (from + 1)..Len(obs)
  BY DEF FailedSince
<1>4. IsFiniteSet(F) /\ Cardinality(F) \in Nat
  <2> HIDE DEF F
  <2> QED  BY <1>2, <1>3, FS_Subset, FS_CardinalityType
<1>5. ASSUME NEW i \in F PROVE Cardinality(FailedUpTo(obs, from, i)) \in 1..Cardinality(F)
  <2> DEFINE U == FailedUpTo(obs, from, i)
  <2>1. U \subseteq F /\ i \in U
    BY <1>1, <1>5 DEF FailedUpTo, FailedSince
  <2> HIDE DEF F, U
  <2>2. IsFiniteSet(U) /\ Cardinality(U) \in Nat /\ Cardinality(U) <= Cardinality(F)
    BY <1>4, <2>1, FS_Subset, FS_CardinalityType
  <2>3. Cardinality(U) # 0
    BY <2>1, <2>2, FS_EmptySet
  <2>4. QED
    BY <1>4, <2>2, <2>3 DEF U
<1>6. QED
  BY <1>4, <1>5

\* A hook that succeeded adds nothing to report.
LEMMA ReportsSucceeded ==
    ASSUME NEW obs \in Seq(Observation), NEW o \in Observation, NEW from \in 0..Len(obs), NEW list,
           ~Failed(o), Reports(list, obs, from)
    PROVE  Reports(list, Append(obs, o), from)
<1> DEFINE more == Append(obs, o)
<1>1. /\ Len(obs) \in Nat /\ Len(more) = Len(obs) + 1 /\ more[Len(obs) + 1] = o
      /\ \A i \in 1..Len(obs) : more[i] = obs[i]
  BY LenProperties, AppendProperties
<1> HIDE DEF more
<1>2. FailedSince(more, from) = FailedSince(obs, from)
  BY <1>1 DEF FailedSince
<1>3. \A i : FailedUpTo(more, from, i) = FailedUpTo(obs, from, i)
  BY <1>2 DEF FailedUpTo
<1>4. \A i \in FailedSince(obs, from) : more[i] = obs[i]
  BY <1>1 DEF FailedSince
<1>5. Reports(list, more, from)
  BY <1>2, <1>3, <1>4 DEF Reports
<1>6. QED
  BY <1>5 DEF more

\* A hook that failed adds its record at the end of the list.
LEMMA ReportsFailed ==
    ASSUME NEW obs \in Seq(Observation), NEW o \in Observation, NEW from \in 0..Len(obs),
           NEW list \in Seq(FailureRecord), AsRecord(o) \in FailureRecord,
           Failed(o), Reports(list, obs, from)
    PROVE  Reports(Append(list, AsRecord(o)), Append(obs, o), from)
<1> DEFINE more == Append(obs, o)
           longer == Append(list, AsRecord(o))
           n == Len(obs) + 1
           F == FailedSince(obs, from)
<1>1. /\ Len(obs) \in Nat /\ Len(more) = n /\ more[n] = o
      /\ \A i \in 1..Len(obs) : more[i] = obs[i]
  BY LenProperties, AppendProperties
<1>2. /\ Len(longer) = Len(list) + 1 /\ longer[Len(list) + 1] = AsRecord(o)
      /\ \A i \in 1..Len(list) : longer[i] = list[i]
  BY LenProperties, AppendProperties
<1>3. /\ IsFiniteSet(F) /\ Cardinality(F) \in Nat /\ Len(list) = Cardinality(F)
      /\ \A i \in F : /\ Cardinality(FailedUpTo(obs, from, i)) \in 1..Len(list)
                      /\ list[Cardinality(FailedUpTo(obs, from, i))] = AsRecord(obs[i])
  BY FailedFinite DEF Reports
<1> HIDE DEF more, longer
<1>4. FailedSince(more, from) = F \cup {n} /\ n \notin F
  BY <1>1 DEF FailedSince
<1>5. Cardinality(F \cup {n}) = Cardinality(F) + 1
  <2> HIDE DEF F, n
  <2> QED  BY <1>3, <1>4, FS_AddElement
<1>6. FailedUpTo(more, from, n) = F \cup {n}
  BY <1>1, <1>4 DEF FailedUpTo, FailedSince
<1>7. \A i \in F : FailedUpTo(more, from, i) = FailedUpTo(obs, from, i) /\ more[i] = obs[i]
  BY <1>1, <1>4 DEF FailedUpTo, FailedSince
<1>8. Reports(longer, more, from)
  <2> HIDE DEF F, n
  <2>1. Len(longer) = Cardinality(FailedSince(more, from))
    BY <1>2, <1>3, <1>4, <1>5
  <2>2. ASSUME NEW i \in F
        PROVE  longer[Cardinality(FailedUpTo(more, from, i))] = AsRecord(more[i])
    BY <1>2, <1>3, <1>7
  <2>3. longer[Cardinality(FailedUpTo(more, from, n))] = AsRecord(more[n])
    BY <1>1, <1>2, <1>3, <1>5, <1>6
  <2>4. QED
    BY <1>4, <2>1, <2>2, <2>3 DEF Reports
<1>9. QED
  BY <1>8 DEF more, longer

\* A call that begins has nothing to report.
LEMMA ReportsNothing ==
    ASSUME NEW obs \in Seq(Observation) PROVE Reports(<< >>, obs, Len(obs))
<1>1. Len(obs) \in Nat
  BY LenProperties
<1>2. FailedSince(obs, Len(obs)) = {}
  BY <1>1 DEF FailedSince
<1>3. QED
  BY <1>2, FS_EmptySet DEF Reports

\* What the current call has to tell is the list of what it observed to fail.
FailureInv ==
    /\ stage \in {"Resolved", "Initializing", "Starting", "Running"} =>
         primary = << >> /\ failures = << >> /\ Reports(<< >>, observations, 0)
    /\ stage \in {"RollingBack", "Failed"} => Reports(primary \o failures, observations, 0)
    /\ stage = "ShuttingDown" => Reports(failures, observations, since)
    /\ stage = "Stopped" => Len(terminal) = 1 /\ Reports(terminal[1], observations, since)

\* A hook's failure is observed and recorded alike, with a tag that is not
\* success (safe_tag, emit_observation).
LEMMA FailureObserved ==
    ASSUME IInv, at \in Positions, NEW tag \in Tags, Observe(tag)
    PROVE  /\ Record(tag) \in FailureRecord
           /\ \E o \in Observation :
                Failed(o) /\ AsRecord(o) = Record(tag) /\ observations' = Append(observations, o)
<1>1. Current \in Plugins /\ phase \in Phases
  BY GraphFacts DEF IInv, TypeOK, AppOK, PositionOK, Current
<1>2. tag # "Succeeded"
  BY TagsAssumption DEF Tags, CommitTags, InvalidTag
<1> DEFINE o == [phase |-> phase, plugin |-> Current, outcome |-> tag]
<1>3. o \in Observation /\ Failed(o) /\ AsRecord(o) = Record(tag)
  BY <1>1, <1>2 DEF Observation, Failed, AsRecord, Record
<1>4. QED
  BY <1>1, <1>3 DEF Observe, Record, FailureRecord

\* A hook's success is observed as one.
LEMMA SuccessObserved ==
    ASSUME IInv, at \in Positions, Observe("Succeeded")
    PROVE  \E o \in Observation : ~Failed(o) /\ observations' = Append(observations, o)
<1>1. Current \in Plugins /\ phase \in Phases
  BY GraphFacts DEF IInv, TypeOK, AppOK, PositionOK, Current
<1> DEFINE o == [phase |-> phase, plugin |-> Current, outcome |-> "Succeeded"]
<1>2. o \in Observation /\ ~Failed(o)
  BY <1>1 DEF Observation, Failed
<1>3. QED
  BY <1>2 DEF Observe

\* The failure that begins a rollback is the first thing to report.
LEMMA RollbackReports ==
    ASSUME IInv, FailureInv, stage \in {"Initializing", "Starting"}, pending,
           NEW tag \in Tags, Observe(tag), primary' = <<Record(tag)>>, UNCHANGED failures
    PROVE  Reports(primary' \o failures', observations', 0)
<1>1. at \in Positions
  BY DEF IInv, WalkInv
<1>2. /\ observations \in Seq(Observation) /\ 0 \in 0..Len(observations)
      /\ failures = << >> /\ Reports(<< >>, observations, 0)
  BY LenProperties DEF IInv, TypeOK, ReportsOK, FailureInv
<1>3. PICK o \in Observation :
        Failed(o) /\ AsRecord(o) = Record(tag) /\ observations' = Append(observations, o)
  BY <1>1, FailureObserved
<1>4. Record(tag) \in FailureRecord
  BY <1>1, FailureObserved
<1>5. << >> \in Seq(FailureRecord) /\ Append(<< >>, Record(tag)) = <<Record(tag)>>
  BY <1>4
<1>6. Reports(<<Record(tag)>>, observations', 0)
  BY <1>2, <1>3, <1>4, <1>5, ReportsFailed
<1>7. <<Record(tag)>> \o << >> = <<Record(tag)>>
  BY <1>4, ConcatEmptySeq
<1>8. QED
  BY <1>2, <1>6, <1>7

\* Every step keeps what is told in agreement with what was observed.
LEMMA NextFailureInv == IInv /\ FailureInv /\ [Next]_vars => FailureInv'
<1> SUFFICES ASSUME IInv, FailureInv, [Next]_vars PROVE FailureInv'
  OBVIOUS
<1>1. /\ observations \in Seq(Observation) /\ Len(observations) \in Nat
      /\ since \in 0..Len(observations) /\ 0 \in 0..Len(observations)
      /\ primary \in Seq(FailureRecord) /\ failures \in Seq(FailureRecord)
  BY LenProperties DEF IInv, TypeOK, ReportsOK
<1>2. pending => at \in Positions
  BY DEF IInv, WalkInv
<1>3. ASSUME pending, stage \in {"Initializing", "Starting", "RollingBack", "ShuttingDown"},
             Observe("Succeeded"), UNCHANGED <<stage, primary, failures, terminal, since>>
      PROVE  FailureInv'
  <2>1. PICK o \in Observation : ~Failed(o) /\ observations' = Append(observations, o)
    BY <1>2, <1>3, SuccessObserved
  <2>2. \A list : \A from \in 0..Len(observations) :
          Reports(list, observations, from) => Reports(list, observations', from)
    BY <1>1, <2>1, ReportsSucceeded
  <2>3. QED
    BY <1>1, <1>3, <2>2 DEF FailureInv
<1>4. ASSUME NEW tag \in HookErrors, CleanupErr(tag) PROVE FailureInv'
  <2>1. /\ pending /\ at \in Positions /\ stage \in {"RollingBack", "ShuttingDown"}
        /\ SafeTag(tag) \in Tags /\ Observe(SafeTag(tag))
        /\ failures' = Append(failures, Record(SafeTag(tag)))
        /\ UNCHANGED <<stage, primary, terminal, since>>
    BY <1>2, <1>4, SafeTagType DEF CleanupErr, Cleaning
  <2>2. PICK o \in Observation : /\ Failed(o) /\ AsRecord(o) = Record(SafeTag(tag))
                                 /\ observations' = Append(observations, o)
    BY <2>1, FailureObserved
  <2>3. Record(SafeTag(tag)) \in FailureRecord
    BY <2>1, FailureObserved
  <2>4. \A list \in Seq(FailureRecord) : \A from \in 0..Len(observations) :
          Reports(list, observations, from) =>
            Reports(Append(list, Record(SafeTag(tag))), observations', from)
    BY <1>1, <2>2, <2>3, ReportsFailed
  <2>5. /\ primary \o failures \in Seq(FailureRecord)
        /\ Append(primary \o failures, Record(SafeTag(tag)))
             = primary \o Append(failures, Record(SafeTag(tag)))
    <3>1. ASSUME NEW r \in FailureRecord
          PROVE  /\ primary \o failures \in Seq(FailureRecord)
                 /\ Append(primary \o failures, r) = primary \o Append(failures, r)
      <4> primary \in Seq(FailureRecord) /\ failures \in Seq(FailureRecord)
        BY <1>1
      <4>1. primary \o failures \in Seq(FailureRecord)
        BY ConcatProperties
      <4>2. Append(primary \o failures, r) = primary \o Append(failures, r)
        OBVIOUS
      <4>3. QED
        BY <4>1, <4>2
    <3>2. QED
      BY <2>3, <3>1
  <2>6. CASE stage = "RollingBack"
    BY <1>1, <2>1, <2>4, <2>5, <2>6 DEF FailureInv
  <2>7. CASE stage = "ShuttingDown"
    BY <1>1, <2>1, <2>4, <2>7 DEF FailureInv
  <2>8. QED
    BY <2>1, <2>6, <2>7
<1>5. ASSUME NEW tag \in Tags, stage = "Initializing", pending, RollbackInitialize(tag)
      PROVE  FailureInv'
  BY <1>5, RollbackReports DEF RollbackInitialize, FailureInv
<1>6. ASSUME NEW tag \in HookErrors, StartErr(tag) PROVE FailureInv'
  BY <1>6, RollbackReports, SafeTagType DEF StartErr, FailureInv
<1>7. CASE CallShutdown
  BY <1>1, <1>7, ReportsNothing DEF CallShutdown, FailureInv
<1>8. CASE ShutdownDone
  BY <1>8 DEF ShutdownDone, FailureInv
<1>9. CASE CallStart \/ InitializeAllDone \/ StartAllDone \/ NextCleanupPhase \/ RollbackDone
  BY <1>9 DEF CallStart, InitializeAllDone, StartAllDone, NextCleanupPhase, RollbackDone, FailureInv, Cleaning
<1>10. CASE CallInitialize \/ CallStartHook \/ CallCleanup
  BY <1>10 DEF CallInitialize, CallStartHook, CallCleanup, FailureInv
<1>11. CASE DropShutdownFuture \/ DropStartFuture \/ DropApp
  BY <1>11 DEF DropShutdownFuture, DropStartFuture, DropApp, FailureInv
<1>12. CASE UNCHANGED vars
  BY <1>12 DEF vars, FailureInv
<1>13. ASSUME NEW staged \in ProvisionSet, InitializeOk(staged) PROVE FailureInv'
  BY <1>3, <1>13 DEF InitializeOk
<1>14. CASE StartOk \/ CleanupOk
  BY <1>3, <1>14 DEF StartOk, CleanupOk, Cleaning
<1>15. ASSUME NEW staged \in ProvisionSet, CommitRefused(staged) PROVE FailureInv'
  BY <1>5, <1>15, CommitErrorTags DEF CommitRefused
<1>16. ASSUME NEW tag \in HookErrors, InitializeErr(tag) PROVE FailureInv'
  BY <1>5, <1>16, SafeTagType DEF InitializeErr
<1>17. QED
  BY <1>4, <1>6, <1>7, <1>8, <1>9, <1>10, <1>11, <1>12, <1>13, <1>14, <1>15, <1>16
  DEF Next, Executor, HookReturns, Caller, Ended, CallShutdownAgain

\* A LifecycleFailure carries the primary and every cleanup failure, and a
\* shutdown report every failure of the call that completed, each once and in the
\* order the sink observed them (FailuresAccounted).
THEOREM FailuresAccountedHolds == Spec => []FailuresAccounted
<1>1. Init => FailureInv
  <2> SUFFICES ASSUME Init PROVE FailureInv
    OBVIOUS
  <2>1. observations = << >> /\ Len(observations) = 0 /\ observations \in Seq(Observation)
    BY DEF Init
  <2>2. Reports(<< >>, observations, 0)
    BY <2>1, ReportsNothing
  <2>3. QED
    BY <2>2 DEF Init, FailureInv
<1>2. FailureInv => FailuresAccounted
  BY DEF FailureInv, FailuresAccounted
<1>3. QED
  BY <1>1, <1>2, NextFailureInv, Invariance, PTL DEF Spec

-----------------------------------------------------------------------------
(* The documented state machine. *)

\* The hook of the i-th plugin that was called last, by the counts.
LastHook(i) ==
    IF C(i, "Dispose") > 0 THEN "Dispose"
    ELSE IF C(i, "Stop") > 0 THEN "Stop"
    ELSE IF C(i, "Quiesce") > 0 THEN "Quiesce"
    ELSE IF C(i, "Start") > 0 THEN "Start"
    ELSE IF C(i, "Initialize") > 0 THEN "Initialize"
    ELSE "None"

\* Until a shutdown() future is dropped, no plugin goes back to an earlier hook.
LastInv == cancels = 0 => \A i \in Positions : last[graph.order[i]] = LastHook(i)

\* What a cleanup walk has called when no shutdown() future was dropped.
LEMMA WalkedOnce ==
    ASSUME IInv, Cleaning, cancels = 0, NEW i \in Positions
    PROVE  /\ \A f \in CleanupPhases : C(i, f) = IF Due(i, f) /\ Done(i, f) THEN 1 ELSE 0
           /\ C(i, "Initialize") = IF Due(i, "Dispose") THEN 1 ELSE 0
           /\ C(i, "Start") = IF Due(i, "Quiesce") THEN 1 ELSE 0
           /\ Due(i, "Stop") <=> Due(i, "Quiesce")
           /\ Due(i, "Quiesce") => Due(i, "Dispose")
<1>1. stage \in CleanupStages
  BY DEF Cleaning, CleanupStages
<1>2. CountInv /\ TypeInv /\ N \in Nat /\ i \in 1..N /\ reach \in [CleanupPhases -> 0..N]
  BY GraphFacts DEF IInv, TypeInv, TypeOK, AppOK, PositionOK, Positions
<1>3. /\ C(i, "Initialize") = IF Due(i, "Dispose") THEN 1 ELSE 0
      /\ C(i, "Start") = IF Due(i, "Quiesce") THEN 1 ELSE 0
      /\ reach["Stop"] = reach["Quiesce"]
      /\ reach["Quiesce"] > 0 => reach["Dispose"] = N
  BY <1>1, <1>2 DEF CountInv, CleanupCounts
<1>4. /\ Due(i, "Stop") <=> Due(i, "Quiesce")
      /\ Due(i, "Quiesce") => Due(i, "Dispose")
  BY <1>2, <1>3 DEF Due, CleanupPhases
<1>5. ASSUME NEW f \in CleanupPhases PROVE C(i, f) = IF Due(i, f) /\ Done(i, f) THEN 1 ELSE 0
  <2>1. C(i, f) \in Nat
    BY <1>2, CountType DEF Phases
  <2>2. ~Due(i, f) => C(i, f) = 0
    BY <1>1, <1>2 DEF CountInv, CleanupCounts
  <2>3. /\ Due(i, f) /\ Done(i, f) => C(i, f) \in 1..(1 + cancels)
        /\ ~Done(i, f) => C(i, f) <= cancels
    BY <1>2 DEF CountInv, WalkCounts
  <2>4. QED
    BY <2>1, <2>2, <2>3
<1>6. QED
  BY <1>3, <1>4, <1>5

\* Calling hook f of the plugin at `at`, when no later hook of it was called,
\* makes it that plugin's last.
LEMMA CallKeepsLast ==
    ASSUME IInv, LastInv, CallHook, at \in Positions, UNCHANGED <<graph, phase, cancels>>,
           cancels = 0 => \A f \in CleanupPhases :
             C(at, f) > 0 => phase \in CleanupPhases /\ Rank(f) <= Rank(phase),
           cancels = 0 => (phase = "Initialize" => C(at, "Start") = 0)
    PROVE  LastInv'
<1> SUFFICES ASSUME cancels' = 0 PROVE \A i \in Positions' : (last[graph.order[i]] = LastHook(i))'
  BY DEF LastInv
<1>1. /\ TypeInv /\ cancels = 0 /\ Positions' = Positions /\ phase \in Phases
      /\ graph.order \in [Positions -> Plugins]
      /\ \A i, j \in Positions : graph.order[i] = graph.order[j] => i = j
      /\ last \in [Plugins -> Phases \cup {"None"}]
  BY GraphFacts DEF IInv, TypeInv, TypeOK, AppOK, PositionOK, HistoryOK, Positions, N
<1>2. \A i \in Positions, f \in Phases :
        C(i, f)' = IF i = at /\ f = phase THEN C(i, f) + 1 ELSE C(i, f)
  BY <1>1, HookCounts
<1>3. \A i \in Positions, f \in Phases : C(i, f) \in Nat
  BY <1>1, CountType
<1>4. \A i \in Positions : last'[graph.order[i]] = IF i = at THEN phase ELSE last[graph.order[i]]
  BY <1>1 DEF CallHook, Current
<1>5. ASSUME NEW i \in Positions, i # at PROVE (last[graph.order[i]] = LastHook(i))'
  <2>1. \A f \in Phases : C(i, f)' = C(i, f)
    BY <1>2, <1>5
  <2>2. LastHook(i)' = LastHook(i)
    BY <2>1 DEF LastHook, Phases, StartupPhases, CleanupPhases
  <2>3. QED
    BY <1>1, <1>4, <1>5, <2>2 DEF LastInv
<1>6. ASSUME NEW i \in Positions, i = at PROVE (last[graph.order[i]] = LastHook(i))'
  <2>1. C(i, phase)' > 0 /\ \A f \in Phases \ {phase} : C(i, f)' = C(i, f)
    BY <1>1, <1>2, <1>3, <1>6
  <2>2. \A f \in CleanupPhases \ {phase} : C(i, f)' > 0 =>
          phase \in CleanupPhases /\ Rank(f) <= Rank(phase)
    BY <1>1, <1>6, <2>1 DEF Phases
  <2>3. phase = "Initialize" => C(i, "Start")' = 0
    BY <1>1, <1>6, <2>1 DEF Phases, StartupPhases
  <2>4. LastHook(i)' = phase
    <3>1. \A f \in Phases : C(i, f)' \in Nat
      BY <1>2, <1>3, <1>6
    <3>2. QED
      BY <1>1, <2>1, <2>2, <2>3, <3>1 DEF LastHook, Phases, StartupPhases, CleanupPhases, Rank
  <2>5. QED
    BY <1>1, <1>4, <1>6, <2>4
<1>7. QED
  BY <1>1, <1>5, <1>6

\* Every step keeps it.
LEMMA NextLastInv == IInv /\ LastInv /\ [Next]_vars => LastInv'
<1> SUFFICES ASSUME IInv, LastInv, [Next]_vars PROVE LastInv'
  OBVIOUS
<1>1. /\ TypeInv /\ CountInv /\ N \in Nat /\ Positions = 1..N /\ cancels \in Nat
      /\ at \in 0..(N + 1) /\ reach \in [CleanupPhases -> 0..N]
  BY GraphFacts, CancelsAssumption
  DEF IInv, TypeInv, TypeOK, AppOK, PositionOK, Positions
<1>2. CASE CallInitialize
  <2>1. at \in Positions /\ phase = "Initialize" /\ stage = "Initializing" /\ ~pending
    BY <1>1, <1>2 DEF CallInitialize, CallHook, TypeInv, WalkInv
  <2>2. C(at, "Start") = 0 /\ \A f \in CleanupPhases : C(at, f) = 0
    BY <1>1, <2>1 DEF CountInv, StartupCounts
  <2>3. QED
    BY <1>2, <2>1, <2>2, CallKeepsLast DEF CallInitialize
<1>3. CASE CallStartHook
  <2>1. at \in Positions /\ phase = "Start" /\ stage = "Starting"
    BY <1>1, <1>3 DEF CallStartHook, CallHook, TypeInv, WalkInv
  <2>2. \A f \in CleanupPhases : C(at, f) = 0
    BY <1>1, <2>1 DEF CountInv, StartupCounts
  <2>3. QED
    BY <1>3, <2>1, <2>2, CallKeepsLast DEF CallStartHook
<1>4. CASE CallCleanup
  <2>1. at \in Positions /\ phase \in CleanupPhases /\ Cleaning /\ at > 0
    BY <1>1, <1>4 DEF CallCleanup, TypeInv, WalkInv
  <2>2. cancels = 0 => \A f \in CleanupPhases : C(at, f) > 0 => Done(at, f)
    BY <2>1, WalkedOnce
  <2>3. \A f \in CleanupPhases : Done(at, f) => Rank(f) <= Rank(phase)
    BY <1>1, <2>1 DEF Done, Rank
  <2>4. phase # "Initialize"
    BY <2>1 DEF CleanupPhases
  <2>5. QED
    BY <1>4, <2>1, <2>2, <2>3, <2>4, CallKeepsLast DEF CallCleanup
<1>5. ASSUME UNCHANGED <<graph, calls, last>>, cancels' = 0 => cancels = 0 PROVE LastInv'
  <2>1. Positions' = Positions /\ \A i : LastHook(i)' = LastHook(i)
    BY <1>5 DEF Positions, N, LastHook, C
  <2>2. QED
    BY <1>5, <2>1 DEF LastInv
<1>6. CASE CallStart \/ InitializeAllDone \/ StartAllDone \/ StartOk \/ CleanupOk \/ NextCleanupPhase
  BY <1>5, <1>6 DEF CallStart, InitializeAllDone, StartAllDone, StartOk, CleanupOk, NextCleanupPhase
<1>7. CASE RollbackDone \/ ShutdownDone \/ CallShutdown
  BY <1>5, <1>7 DEF RollbackDone, ShutdownDone, CallShutdown
<1>8. CASE DropShutdownFuture
  BY <1>1, <1>5, <1>8 DEF DropShutdownFuture
<1>9. CASE DropStartFuture \/ DropApp \/ UNCHANGED vars
  BY <1>5, <1>9 DEF DropStartFuture, DropApp, vars
<1>10. ASSUME NEW staged \in ProvisionSet, InitializeOk(staged) PROVE LastInv'
  BY <1>5, <1>10 DEF InitializeOk
<1>11. ASSUME NEW tag, RollbackInitialize(tag) \/ StartErr(tag) \/ CleanupErr(tag) PROVE LastInv'
  BY <1>5, <1>11 DEF RollbackInitialize, StartErr, CleanupErr
<1>12. QED
  BY <1>2, <1>3, <1>4, <1>6, <1>7, <1>8, <1>9, <1>10, <1>11
  DEF Next, Executor, HookReturns, Caller, Ended, CallShutdownAgain, InitializeErr, CommitRefused

\* Of a consumer and its provider, the provider comes first in the order.
LEMMA NeedsAreOrdered ==
    ASSUME IInv, NEW p, NEW q, <<p, q>> \in Needs
    PROVE  \E i, j \in Positions : i < j /\ graph.order[i] = q /\ graph.order[j] = p
<1>1. PICK e \in graph.edges : <<p, q>> = <<e.consumer, e.provider>>
  BY DEF Needs
<1>2. e.consumer = p /\ e.provider = q
  BY <1>1
<1>3. QED
  BY <1>2, GraphFacts DEF IInv, TypeOK, AppOK

\* The executor begins where the contract does.
LEMMA InitContract == Init => Contracted!CInit
<1> SUFFICES ASSUME Init PROVE Contracted!CInit
  OBVIOUS
<1>1. IInv
  BY InitIInv
<1>2. graph.order \in [Positions -> Plugins]
  BY <1>1, GraphFacts DEF IInv, TypeOK, AppOK
<1>3. Members \subseteq Plugins
  BY <1>2 DEF Members, Positions
<1>4. Needs \subseteq Members \X Members
  <2> SUFFICES ASSUME NEW e \in graph.edges PROVE e.consumer \in Members /\ e.provider \in Members
    BY DEF Needs
  <2>1. <<e.consumer, e.provider>> \in Needs
    BY DEF Needs
  <2>2. QED
    BY <1>1, <2>1, NeedsAreOrdered DEF Members, Positions
<1>5. AppState = "resolved" /\ last = [p \in Plugins |-> "None"]
  BY DEF Init, AppState
<1>6. QED
  BY <1>3, <1>4, <1>5 DEF Contracted!CInit

\* Calling a hook is, for the contract, that hook of that plugin.
LEMMA CallIsRun ==
    ASSUME IInv, CallHook, at \in Positions, UNCHANGED <<graph, stage>>
    PROVE  /\ Current \in Members
           /\ Contracted!Run(Current, phase)
<1>1. Current \in Members
  BY DEF Current, Members, Positions
<1>2. UNCHANGED <<Members, Needs, AppState>>
  BY DEF Members, N, Needs, AppState
<1>3. QED
  BY <1>1, <1>2 DEF Contracted!Run, CallHook

\* initialize is called on a plugin whose providers are initialized.
LEMMA InitializeAllowed ==
    ASSUME IInv, LastInv, cancels = 0, CallInitialize PROVE Contracted!CNext
<1>1. /\ N \in Nat /\ Positions = 1..N /\ at \in Positions /\ phase = "Initialize" /\ CountInv
      /\ stage = "Initializing" /\ ~pending /\ CallHook /\ UNCHANGED <<graph, stage>>
      /\ \A i, j \in Positions : graph.order[i] = graph.order[j] => i = j
  BY GraphFacts DEF IInv, TypeOK, AppOK, PositionOK, WalkInv, Positions, CallInitialize, CallHook
<1>2. \A i \in Positions : last[graph.order[i]] = IF i < at THEN "Initialize" ELSE "None"
  <2> SUFFICES ASSUME NEW i \in Positions
               PROVE  last[graph.order[i]] = IF i < at THEN "Initialize" ELSE "None"
    OBVIOUS
  <2>1. /\ C(i, "Initialize") = IF i < at THEN 1 ELSE 0
        /\ C(i, "Start") = 0 /\ C(i, "Quiesce") = 0 /\ C(i, "Stop") = 0 /\ C(i, "Dispose") = 0
    BY <1>1 DEF CountInv, StartupCounts, CleanupPhases
  <2>2. last[graph.order[i]] = LastHook(i)
    BY DEF LastInv
  <2>3. QED
    BY <2>1, <2>2 DEF LastHook
<1>3. last[Current] = "None"
  BY <1>1, <1>2 DEF Current
<1>4. Contracted!Providers(Current) \subseteq Contracted!At({"Initialize"})
  <2> SUFFICES ASSUME NEW q \in Members, <<Current, q>> \in Needs PROVE last[q] = "Initialize"
    BY DEF Contracted!Providers, Contracted!At
  <2>1. PICK i, j \in Positions : i < j /\ graph.order[i] = q /\ graph.order[j] = Current
    BY NeedsAreOrdered
  <2>2. i < at
    BY <1>1, <2>1 DEF Current
  <2>3. QED
    BY <1>2, <2>1, <2>2
<1>5. AppState = "initializing"
  BY <1>1 DEF AppState
<1>6. Contracted!Run(Current, "Initialize") /\ Current \in Members
  BY <1>1, CallIsRun
<1>7. Contracted!Initialize(Current)
  BY <1>3, <1>4, <1>5, <1>6 DEF Contracted!Initialize
<1>8. QED
  BY <1>6, <1>7 DEF Contracted!CNext, Contracted!Progress

\* start is called on a plugin whose providers are started.
LEMMA StartAllowed ==
    ASSUME IInv, LastInv, cancels = 0, CallStartHook PROVE Contracted!CNext
<1>1. /\ N \in Nat /\ Positions = 1..N /\ at \in Positions /\ phase = "Start" /\ CountInv
      /\ stage = "Starting" /\ ~pending /\ CallHook /\ UNCHANGED <<graph, stage>>
      /\ \A i, j \in Positions : graph.order[i] = graph.order[j] => i = j
  BY GraphFacts DEF IInv, TypeOK, AppOK, PositionOK, WalkInv, Positions, CallStartHook, CallHook
<1>2. \A i \in Positions : last[graph.order[i]] = IF i < at THEN "Start" ELSE "Initialize"
  <2> SUFFICES ASSUME NEW i \in Positions
               PROVE  last[graph.order[i]] = IF i < at THEN "Start" ELSE "Initialize"
    OBVIOUS
  <2>1. /\ C(i, "Initialize") = 1 /\ C(i, "Start") = IF i < at THEN 1 ELSE 0
        /\ C(i, "Quiesce") = 0 /\ C(i, "Stop") = 0 /\ C(i, "Dispose") = 0
    BY <1>1 DEF CountInv, StartupCounts, CleanupPhases
  <2>2. last[graph.order[i]] = LastHook(i)
    BY DEF LastInv
  <2>3. QED
    BY <2>1, <2>2 DEF LastHook
<1>3. last[Current] = "Initialize"
  BY <1>1, <1>2 DEF Current
<1>4. Contracted!Providers(Current) \subseteq Contracted!At({"Start"})
  <2> SUFFICES ASSUME NEW q \in Members, <<Current, q>> \in Needs PROVE last[q] = "Start"
    BY DEF Contracted!Providers, Contracted!At
  <2>1. PICK i, j \in Positions : i < j /\ graph.order[i] = q /\ graph.order[j] = Current
    BY NeedsAreOrdered
  <2>2. i < at
    BY <1>1, <2>1 DEF Current
  <2>3. QED
    BY <1>2, <2>1, <2>2
<1>5. AppState = "starting"
  BY <1>1 DEF AppState
<1>6. Contracted!Run(Current, "Start") /\ Current \in Members
  BY <1>1, CallIsRun
<1>7. Contracted!Start(Current)
  BY <1>3, <1>4, <1>5, <1>6 DEF Contracted!Start
<1>8. QED
  BY <1>6, <1>7 DEF Contracted!CNext, Contracted!Progress

\* A cleanup hook is called on a plugin whose consumers are past it, and no phase
\* begins before the one before it is over.
LEMMA CleanupAllowed ==
    ASSUME IInv, LastInv, cancels = 0, CallCleanup PROVE Contracted!CNext
<1>1. /\ N \in Nat /\ Positions = 1..N /\ at \in Positions /\ phase \in CleanupPhases
      /\ Cleaning /\ ~pending /\ CallHook /\ UNCHANGED <<graph, stage>> /\ Due(at, phase)
      /\ \A i, j \in Positions : graph.order[i] = graph.order[j] => i = j
  BY GraphFacts
  DEF IInv, TypeOK, AppOK, PositionOK, WalkInv, Positions, CallCleanup, CallHook, Due
<1>2. \A i \in Positions :
        /\ last[graph.order[i]] = LastHook(i)
        /\ C(i, "Quiesce") = IF Due(i, "Quiesce") /\ Done(i, "Quiesce") THEN 1 ELSE 0
        /\ C(i, "Stop") = IF Due(i, "Stop") /\ Done(i, "Stop") THEN 1 ELSE 0
        /\ C(i, "Dispose") = IF Due(i, "Dispose") /\ Done(i, "Dispose") THEN 1 ELSE 0
        /\ C(i, "Initialize") = IF Due(i, "Dispose") THEN 1 ELSE 0
        /\ C(i, "Start") = IF Due(i, "Quiesce") THEN 1 ELSE 0
        /\ Due(i, "Stop") <=> Due(i, "Quiesce")
        /\ Due(i, "Quiesce") => Due(i, "Dispose")
  BY <1>1, WalkedOnce DEF LastInv, CleanupPhases
<1>3. ASSUME NEW q \in Members, <<q, Current>> \in Needs
      PROVE  \E j \in Positions : at < j /\ graph.order[j] = q
  <2>1. PICK i, j \in Positions : i < j /\ graph.order[i] = Current /\ graph.order[j] = q
    BY <1>3, NeedsAreOrdered
  <2>2. QED
    BY <1>1, <2>1 DEF Current
<1>4. Contracted!Run(Current, phase) /\ Current \in Members /\ Contracted!Closing
  BY <1>1, CallIsRun DEF Contracted!Closing, AppState, Cleaning
<1>5. CASE phase = "Quiesce"
  <2>1. \A i \in Positions : (Done(i, "Quiesce") <=> i > at) /\ ~Done(i, "Stop") /\ ~Done(i, "Dispose")
    BY <1>1, <1>5 DEF Done, Rank
  <2>2. \A i \in Positions : last[graph.order[i]] =
          IF Due(i, "Quiesce") THEN IF i > at THEN "Quiesce" ELSE "Start"
          ELSE IF Due(i, "Dispose") THEN "Initialize" ELSE "None"
    BY <1>2, <2>1 DEF LastHook
  <2>3. last[Current] = "Start"
    BY <1>1, <1>5, <2>2 DEF Current
  <2>4. Contracted!Consumers(Current) \cap Contracted!At({"Start"}) = {}
    BY <1>1, <1>3, <2>2 DEF Contracted!Consumers, Contracted!At
  <2>5. Contracted!Quiesce(Current)
    BY <1>4, <1>5, <2>3, <2>4 DEF Contracted!Quiesce
  <2>6. QED
    BY <1>4, <2>5 DEF Contracted!CNext, Contracted!Progress
<1>6. CASE phase = "Stop"
  <2>1. \A i \in Positions : Done(i, "Quiesce") /\ (Done(i, "Stop") <=> i > at) /\ ~Done(i, "Dispose")
    BY <1>1, <1>6 DEF Done, Rank
  <2>2. \A i \in Positions : last[graph.order[i]] =
          IF Due(i, "Quiesce") THEN IF i > at THEN "Stop" ELSE "Quiesce"
          ELSE IF Due(i, "Dispose") THEN "Initialize" ELSE "None"
    BY <1>2, <2>1 DEF LastHook
  <2>3. last[Current] = "Quiesce"
    BY <1>1, <1>2, <1>6, <2>2 DEF Current
  <2>4. Contracted!Consumers(Current) \cap Contracted!At({"Quiesce"}) = {}
    BY <1>1, <1>3, <2>2 DEF Contracted!Consumers, Contracted!At
  <2>5. Contracted!At({"Start"}) = {}
    BY <2>2 DEF Contracted!At, Members, Positions
  <2>6. Contracted!Stop(Current)
    BY <1>4, <1>6, <2>3, <2>4, <2>5 DEF Contracted!Stop
  <2>7. QED
    BY <1>4, <2>6 DEF Contracted!CNext, Contracted!Progress
<1>7. CASE phase = "Dispose"
  <2>1. \A i \in Positions : Done(i, "Quiesce") /\ Done(i, "Stop") /\ (Done(i, "Dispose") <=> i > at)
    BY <1>1, <1>7 DEF Done, Rank
  <2>2. \A i \in Positions : last[graph.order[i]] =
          IF Due(i, "Dispose") /\ i > at THEN "Dispose"
          ELSE IF Due(i, "Quiesce") THEN "Stop"
          ELSE IF Due(i, "Dispose") THEN "Initialize" ELSE "None"
    BY <1>2, <2>1 DEF LastHook
  <2>3. last[Current] \in {"Initialize", "Stop"}
    BY <1>1, <1>7, <2>2 DEF Current
  <2>4. Contracted!Consumers(Current) \subseteq Contracted!At({"None", "Dispose"})
    BY <1>1, <1>2, <1>3, <2>2 DEF Contracted!Consumers, Contracted!At
  <2>5. Contracted!At({"Start", "Quiesce"}) = {}
    BY <2>2 DEF Contracted!At, Members, Positions
  <2>6. Contracted!Dispose(Current)
    BY <1>4, <1>7, <2>3, <2>4, <2>5 DEF Contracted!Dispose
  <2>7. QED
    BY <1>4, <2>6 DEF Contracted!CNext, Contracted!Progress
<1>8. QED
  BY <1>1, <1>5, <1>6, <1>7 DEF CleanupPhases

\* A step that calls no hook and keeps the graph is a move of the application.
LEMMA StageMoves ==
    ASSUME UNCHANGED <<graph, last>>, NEW from, NEW to, AppState = from, AppState' = to
    PROVE  Contracted!Move(from, to)
BY DEF Contracted!Move, Members, N, Needs

\* Every step of the executor and its caller that is not one of the contract's
\* leaves the contract's state alone.
LEMMA NextContract ==
    ASSUME IInv, LastInv, [Next]_vars, cancels' = 0
    PROVE  Contracted!CNext \/ UNCHANGED Contracted!cvars
<1>1. /\ cancels \in Nat /\ N \in Nat /\ Positions = 1..N /\ CountInv /\ at \in 0..(N + 1)
  BY GraphFacts, CancelsAssumption DEF IInv, TypeOK, AppOK, PositionOK, Positions
<1>2. ASSUME UNCHANGED <<graph, stage, last>> PROVE UNCHANGED Contracted!cvars
  BY <1>2 DEF Contracted!cvars, Members, N, Needs, AppState
<1>3. CASE CallInitialize \/ CallStartHook \/ CallCleanup
  BY <1>3, InitializeAllowed, StartAllowed, CleanupAllowed
  DEF CallInitialize, CallStartHook, CallCleanup
<1>4. CASE CallStart
  <2>1. Contracted!Move("resolved", "initializing")
    BY <1>4, StageMoves DEF CallStart, AppState
  <2>2. QED
    BY <2>1 DEF Contracted!CNext, Contracted!Owner
<1>5. CASE InitializeAllDone
  <2>1. ASSUME NEW i \in Positions PROVE last[graph.order[i]] = "Initialize"
    <3>1. /\ C(i, "Initialize") = 1 /\ C(i, "Start") = 0
          /\ C(i, "Quiesce") = 0 /\ C(i, "Stop") = 0 /\ C(i, "Dispose") = 0
      BY <1>1, <1>5 DEF InitializeAllDone, CountInv, StartupCounts, CleanupPhases
    <3>2. QED
      BY <1>5, <3>1 DEF InitializeAllDone, LastInv, LastHook
  <2>2. Contracted!At({"Initialize"}) = Members
    BY <2>1 DEF Contracted!At, Members, Positions
  <2>3. Contracted!Move("initializing", "starting")
    BY <1>5, StageMoves DEF InitializeAllDone, AppState
  <2>4. QED
    BY <2>2, <2>3 DEF Contracted!CNext, Contracted!Progress
<1>6. CASE StartAllDone
  <2>1. ASSUME NEW i \in Positions PROVE last[graph.order[i]] = "Start"
    <3>1. /\ C(i, "Start") = 1
          /\ C(i, "Quiesce") = 0 /\ C(i, "Stop") = 0 /\ C(i, "Dispose") = 0
      BY <1>1, <1>6 DEF StartAllDone, CountInv, StartupCounts, CleanupPhases
    <3>2. QED
      BY <1>6, <3>1 DEF StartAllDone, LastInv, LastHook
  <2>2. Contracted!At({"Start"}) = Members
    BY <2>1 DEF Contracted!At, Members, Positions
  <2>3. Contracted!Move("starting", "ready")
    BY <1>6, StageMoves DEF StartAllDone, AppState
  <2>4. QED
    BY <2>2, <2>3 DEF Contracted!CNext, Contracted!Progress
<1>7. ASSUME NEW tag, stage = "Initializing", RollbackInitialize(tag) PROVE Contracted!CNext
  <2>1. Contracted!Move("initializing", "rolling-back")
    BY <1>7, StageMoves DEF RollbackInitialize, AppState
  <2>2. QED
    BY <2>1 DEF Contracted!CNext, Contracted!Progress
<1>8. ASSUME NEW tag, StartErr(tag) PROVE Contracted!CNext
  <2>1. Contracted!Move("starting", "rolling-back")
    BY <1>8, StageMoves DEF StartErr, AppState
  <2>2. QED
    BY <2>1 DEF Contracted!CNext, Contracted!Progress
<1>9. CASE RollbackDone \/ ShutdownDone
  <2>1. Cleaning /\ at = 0 /\ phase = "Dispose" /\ cancels = 0 /\ UNCHANGED <<graph, last>>
    BY <1>9 DEF RollbackDone, ShutdownDone, Cleaning
  <2>2. ASSUME NEW i \in Positions PROVE last[graph.order[i]] \in {"None", "Dispose"}
    <3>1. Done(i, "Dispose")
      BY <1>1, <2>1 DEF Done
    <3>2. Due(i, "Dispose") => C(i, "Dispose") = 1
      BY <2>1, <3>1, WalkedOnce DEF CleanupPhases
    <3>3. ~Due(i, "Dispose") => /\ C(i, "Initialize") = 0 /\ C(i, "Start") = 0 /\ C(i, "Quiesce") = 0
                                /\ C(i, "Stop") = 0 /\ C(i, "Dispose") = 0
      BY <2>1, WalkedOnce DEF CleanupPhases
    <3>4. QED
      BY <2>1, <3>2, <3>3 DEF LastInv, LastHook
  <2>3. Contracted!At(Contracted!Hooks \ {"None", "Dispose"}) = {}
    BY <2>2 DEF Contracted!At, Members, Positions
  <2>4. CASE RollbackDone
    <3>1. Contracted!Move("rolling-back", "disposed-with-failure")
      BY <2>1, <2>4, StageMoves DEF RollbackDone, AppState
    <3>2. QED
      BY <2>3, <3>1 DEF Contracted!CNext, Contracted!Progress, Contracted!Finish
  <2>5. CASE ShutdownDone
    <3>1. Contracted!Move("closing", "disposed")
      BY <2>1, <2>5, StageMoves DEF ShutdownDone, AppState
    <3>2. QED
      BY <2>3, <3>1 DEF Contracted!CNext, Contracted!Progress, Contracted!Finish
  <2>6. QED
    BY <1>9, <2>4, <2>5
<1>10. CASE CallShutdown
  <2>1. CASE stage = "Running"
    <3>1. Contracted!Move("ready", "closing")
      BY <1>10, <2>1, StageMoves DEF CallShutdown, AppState
    <3>2. QED
      BY <3>1 DEF Contracted!CNext, Contracted!Owner
  <2>2. CASE stage = "Interrupted"
    BY <1>10, <2>2 DEF CallShutdown, Contracted!cvars, Members, N, Needs, AppState
  <2>3. stage # "Stopped"
    BY <1>10 DEF CallShutdown, IInv, ReportInv
  <2>4. QED
    BY <1>10, <2>1, <2>2, <2>3 DEF CallShutdown
<1>11. CASE DropShutdownFuture
  BY <1>1, <1>11 DEF DropShutdownFuture
<1>12. CASE DropStartFuture \/ DropApp
  <2>1. /\ stage \in {"Resolved", "Initializing", "Starting", "Running", "RollingBack", "Interrupted"}
        /\ stage' = "Dropped" /\ UNCHANGED <<graph, last>>
    BY <1>12 DEF DropStartFuture, DropApp
  <2>2. /\ AppState \in {"resolved", "initializing", "starting", "ready", "closing", "rolling-back"}
        /\ AppState' = "dropped"
    BY <2>1 DEF AppState
  <2>3. Contracted!Move(AppState, "dropped")
    BY <2>1, <2>2 DEF Contracted!Move, Members, N, Needs
  <2>4. QED
    BY <2>2, <2>3 DEF Contracted!CNext, Contracted!Owner
<1>13. CASE StartOk \/ CleanupOk \/ NextCleanupPhase \/ UNCHANGED vars
  BY <1>2, <1>13 DEF StartOk, CleanupOk, NextCleanupPhase, vars
<1>14. ASSUME NEW staged, InitializeOk(staged) PROVE UNCHANGED Contracted!cvars
  BY <1>2, <1>14 DEF InitializeOk
<1>15. ASSUME NEW tag, CleanupErr(tag) PROVE UNCHANGED Contracted!cvars
  BY <1>2, <1>15 DEF CleanupErr
<1>16. QED
  BY <1>3, <1>4, <1>5, <1>6, <1>7, <1>8, <1>9, <1>10, <1>11, <1>12, <1>13, <1>14, <1>15
  DEF Next, Executor, HookReturns, Caller, Ended, CallShutdownAgain, InitializeErr, CommitRefused

\* The executor refines the documented state machine: it begins where the
\* contract begins and, until a shutdown() future is dropped, each of its steps
\* is a step of the contract or a stutter (ContractSteps, the safety part of
\* ImplementsContract).
THEOREM StepsAreContracted == Spec => ContractSteps
<1>1. Init => LastInv
  <2> SUFFICES ASSUME Init PROVE LastInv
    OBVIOUS
  <2>1. graph.order \in [Positions -> Plugins]
    BY GraphFacts DEF Init
  <2>2. \A i \in Positions, f \in Phases : C(i, f) = 0
    BY <2>1 DEF Init, C
  <2>3. \A i \in Positions : LastHook(i) = "None"
    BY <2>2 DEF LastHook, Phases, StartupPhases, CleanupPhases
  <2>4. QED
    BY <2>1, <2>3 DEF Init, LastInv
<1>2. IInv /\ LastInv /\ [Next]_vars => [cancels' = 0 => Contracted!CNext]_Contracted!cvars
  BY NextContract
<1>3. QED
  BY <1>1, <1>2, InitContract, NextLastInv, Invariance, PTL DEF Spec, ContractSteps

-----------------------------------------------------------------------------
(* The test kit's oracle.  The invariant is that of an executor whose hooks  *)
(* do what the plan says: which plugins have passed, what the recorder has   *)
(* seen and which cleanup failures were collected.                           *)

\* The hook f of plugin p fails: as planned, or at its commit.
Fails(p, f) == plan[p][f] # << >> \/ (f = "Initialize" /\ DOMAIN graph.offers[p] # {})

\* The plugin whose hook f is the i-th to run, and where its observation is.
Nth(f, i) == IF f \in StartupPhases THEN graph.order[i] ELSE graph.order[N + 1 - i]
Base(f) ==
    CASE f = "Initialize" -> 0
      [] f = "Start" -> N
      [] f = "Quiesce" -> N + N
      [] f = "Stop" -> N + N + N
      [] f = "Dispose" -> N + N + N + N

\* The first n hooks f did not fail; the first n were recorded.
Passed(f, n) == \A i \in 1..n : ~Fails(Nth(f, i), f)
Seen(f, n) ==
    \A i \in 1..n :
        LET o == observations[Base(f) + i]
        IN  /\ o.phase = f /\ o.plugin = Nth(f, i)
            /\ plan[Nth(f, i)][f] = << >> => o.outcome = "Succeeded"

\* How many hooks f the shutdown walk has run, and which of them failed.
Walked(f) == IF Rank(f) < Rank(phase) THEN N ELSE IF f = phase THEN N - at ELSE 0
Met(f) == {p \in Members : plan[p][f] # << >> /\ \E i \in 1..Walked(f) : p = Nth(f, i)}
Blamed(f) == {failures[k].plugin : k \in {j \in 1..Len(failures) : failures[j].phase = f}}

ProbeInv ==
    /\ graph \in Graphs
    /\ DOMAIN source = Members
    /\ \A p \in Members :
         source[p] = << >> \/ (source[p] = <<source[p][1]>> /\ source[p][1].repository \in BOOLEAN)
    /\ failures \in Seq(FailureRecord) /\ observations \in Seq(Observation)
    /\ stage \in {"Resolved", "Initializing", "Starting", "Running",
                  "RollingBack", "Failed", "ShuttingDown", "Stopped"}
    /\ pending \in BOOLEAN

\* No plugin has failed so far.
GoingUp ==
    /\ stage \in {"Resolved", "Initializing", "Starting", "Running"} =>
         failures = << >> /\ terminal = << >>
    /\ stage = "Resolved" => phase = "Initialize" /\ at = 1 /\ ~pending /\ observations = << >>
    /\ stage = "Initializing" =>
         /\ phase = "Initialize" /\ at \in 1..(N + 1) /\ (pending => at <= N)
         /\ Passed("Initialize", at - 1)
         /\ Len(observations) = at - 1 /\ Seen("Initialize", at - 1)
    /\ stage = "Starting" =>
         /\ phase = "Start" /\ at \in 1..(N + 1) /\ (pending => at <= N)
         /\ Passed("Initialize", N) /\ Passed("Start", at - 1)
         /\ Len(observations) = N + (at - 1) /\ Seen("Initialize", N) /\ Seen("Start", at - 1)
    /\ stage = "Running" =>
         /\ ~pending
         /\ Passed("Initialize", N) /\ Passed("Start", N)
         /\ Len(observations) = N + N /\ Seen("Initialize", N) /\ Seen("Start", N)

\* A plugin has failed, and it was to.
RollingDown ==
    stage \in {"RollingBack", "Failed"} =>
        /\ primary[1].plugin \in StartsFail
        /\ phase \in CleanupPhases /\ reach \in [CleanupPhases -> 0..N]
        /\ at \in 0..N /\ (pending => at > 0)
        /\ \A i \in 1..Len(failures) : failures[i].plugin \in Planned(failures[i].phase)

\* Every cleanup failure so far was planned, every planned one was collected.
ShuttingInv ==
    stage \in {"ShuttingDown", "Stopped"} =>
        /\ Passed("Initialize", N) /\ Passed("Start", N)
        /\ phase \in CleanupPhases /\ reach = [f \in CleanupPhases |-> N]
        /\ at \in 0..N /\ (pending => at > 0)
        /\ terminal = IF stage = "Stopped" THEN <<failures>> ELSE << >>
        /\ stage = "Stopped" => phase = "Dispose" /\ at = 0
        /\ Len(observations) = Base(phase) + (N - at)
        /\ Seen("Initialize", N) /\ Seen("Start", N)
        /\ \A f \in CleanupPhases : Seen(f, Walked(f)) /\ Met(f) = Blamed(f)
        /\ Len(failures) = Cardinality(Met("Quiesce")) + Cardinality(Met("Stop"))
                           + Cardinality(Met("Dispose"))

OracleInv ==
    /\ oracle.tag = "None" => stage = "Resolved"
    /\ oracle.tag = "Running" =>
         Attributed(source) /\ Cardinality(oracle.packages) = Cardinality(Members)
    /\ OracleIsRight

ConformanceInv == ProbeInv /\ GoingUp /\ RollingDown /\ ShuttingInv /\ OracleInv

\* The graph of a probe application.
LEMMA ProbeGraph ==
    ASSUME graph \in Graphs
    PROVE  /\ N \in Nat /\ graph.order \in Seq(Plugins) /\ graph.order \in [1..N -> Plugins]
           /\ \A i, j \in 1..N : graph.order[i] = graph.order[j] => i = j
           /\ Members \subseteq Plugins /\ IsFiniteSet(Members)
           /\ \A f, i : i \in 1..N => Nth(f, i) \in Members
           /\ \A p \in Members : \A f : \E i \in 1..N : p = Nth(f, i)
<1>1. graph.order \in Seq(Plugins) /\ \A i, j \in 1..N : graph.order[i] = graph.order[j] => i = j
  BY GraphsAssumption DEF IsResolvedGraph, N
<1>2. N \in Nat /\ graph.order \in [1..N -> Plugins]
  BY <1>1 DEF N
<1>3. Members \subseteq Plugins
  BY <1>2 DEF Members
<1>4. IsFiniteSet(Members)
  <2> DEFINE image == {graph.order[i] : i \in 1..N}
  <2>1. IsFiniteSet(1..N)
    BY <1>2, FS_Interval
  <2>2. [i \in 1..N |-> graph.order[i]] \in Surjection(1..N, image)
    BY DEF Surjection
  <2> HIDE DEF image
  <2>3. IsFiniteSet(image)
    BY <2>1, <2>2, FS_Surjection
  <2> QED  BY <2>3 DEF Members, image
<1>5. ASSUME NEW f, NEW i, i \in 1..N PROVE Nth(f, i) \in Members
  <2>1. N + 1 - i \in 1..N
    BY <1>2, <1>5
  <2> QED  BY <1>5, <2>1 DEF Nth, Members
<1>6. ASSUME NEW p \in Members, NEW f PROVE \E i \in 1..N : p = Nth(f, i)
  <2>1. PICK i \in 1..N : p = graph.order[i]
    BY DEF Members
  <2>2. N + 1 - i \in 1..N /\ N + 1 - (N + 1 - i) = i
    BY <1>2
  <2> QED  BY <2>1, <2>2 DEF Nth
<1> QED  BY <1>1, <1>2, <1>3, <1>4, <1>5, <1>6

\* Nothing a probe does at its startup hooks fails when every hook has passed.
LEMMA AllPassed ==
    ASSUME graph \in Graphs
    PROVE  Passed("Initialize", N) /\ Passed("Start", N) <=> StartsFail = {}
<1>1. /\ \A f, i : i \in 1..N => Nth(f, i) \in Members
      /\ \A p \in Members : \A f : \E i \in 1..N : p = Nth(f, i)
  BY ProbeGraph
<1>2. StartsFail = {} <=> \A p \in Members : ~Fails(p, "Initialize") /\ ~Fails(p, "Start")
  BY DEF StartsFail, Planned, Fails
<1> QED  BY <1>1, <1>2 DEF Passed

\* Operators that read what a step leaves alone.
LEMMA SameProbes ==
    ASSUME UNCHANGED <<graph, plan>>
    PROVE  /\ N' = N /\ Members' = Members /\ StartsFail' = StartsFail
           /\ \A f : Planned(f)' = Planned(f) /\ Base(f)' = Base(f)
           /\ \A f, n : Passed(f, n)' <=> Passed(f, n)
           /\ \A f, i : Nth(f, i)' = Nth(f, i)
           /\ \A p, f : Fails(p, f)' <=> Fails(p, f)
<1>1. N' = N
  BY DEF N
<1>2. Members' = Members
  BY <1>1 DEF Members
<1>3. \A f : Planned(f)' = Planned(f) /\ Base(f)' = Base(f)
  BY <1>1, <1>2 DEF Planned, Base
<1>4. StartsFail' = StartsFail
  BY <1>2, <1>3 DEF StartsFail
<1>5. \A f, i : Nth(f, i)' = Nth(f, i)
  BY <1>1 DEF Nth
<1>6. \A p, f : Fails(p, f)' <=> Fails(p, f)
  BY DEF Fails
<1>7. \A f, n : Passed(f, n)' <=> Passed(f, n)
  BY <1>5, <1>6 DEF Passed
<1> QED  BY <1>1, <1>2, <1>3, <1>4, <1>5, <1>6, <1>7

\* The recorder keeps what it has seen.
LEMMA SeenBefore ==
    ASSUME graph \in Graphs, UNCHANGED <<graph, plan>>, observations \in Seq(Observation),
           \/ observations' = observations
           \/ \E o \in Observation : observations' = Append(observations, o),
           NEW f \in Phases, NEW n \in Nat, Base(f) + n <= Len(observations), Seen(f, n)
    PROVE  Seen(f, n)'
<1>1. Len(observations) \in Nat /\ N \in Nat
  BY ProbeGraph
<1>2. Base(f) \in Nat
  BY <1>1 DEF Base, Phases, StartupPhases, CleanupPhases
<1>3. \A k \in 1..Len(observations) : observations'[k] = observations[k]
  OBVIOUS
<1>4. \A i \in 1..n : Base(f) + i \in 1..Len(observations)
  BY <1>1, <1>2
<1>5. Base(f)' = Base(f) /\ \A i : Nth(f, i)' = Nth(f, i)
  BY SameProbes
<1> QED  BY <1>3, <1>4, <1>5 DEF Seen

\* One more observation.
LEMMA Observed ==
    ASSUME graph \in Graphs, UNCHANGED <<graph, plan>>, observations \in Seq(Observation),
           at \in 1..N, phase \in Phases, NEW x \in Tags \cup {"Succeeded"}, Observe(x)
    PROVE  /\ observations' \in Seq(Observation) /\ Len(observations') = Len(observations) + 1
           /\ \E o \in Observation : observations' = Append(observations, o)
           /\ LET o == observations'[Len(observations) + 1]
              IN  o.phase = phase /\ o.plugin = Current /\ o.outcome = x
<1> DEFINE o == [phase |-> phase, plugin |-> Current, outcome |-> x]
<1>1. observations' = Append(observations, o)
  BY DEF Observe
<1>2. o \in Observation
  BY ProbeGraph DEF Observation, Current
<1>3. o.phase = phase /\ o.plugin = Current /\ o.outcome = x
  OBVIOUS
<1> HIDE DEF o
<1>4. Len(observations') = Len(observations) + 1 /\ observations'[Len(observations) + 1] = o
      /\ observations' \in Seq(Observation)
  BY <1>1, <1>2
<1> QED  BY <1>1, <1>2, <1>3, <1>4

\* The recorder sees the next hook.
LEMMA SeenNext ==
    ASSUME graph \in Graphs, UNCHANGED <<graph, plan>>, observations \in Seq(Observation),
           at \in 1..N, phase \in Phases, NEW x \in Tags \cup {"Succeeded"}, Observe(x),
           NEW n \in Nat, Base(phase) + n = Len(observations), Nth(phase, n + 1) = Current,
           plan[Current][phase] = << >> => x = "Succeeded", NEW f \in Phases, f = phase, Seen(f, n)
    PROVE  Seen(f, n + 1)'
<1>1. Len(observations) \in Nat /\ N \in Nat
  BY ProbeGraph
<1>2. Base(f) \in Nat
  BY <1>1 DEF Base, Phases, StartupPhases, CleanupPhases
<1>3. /\ \E o \in Observation : observations' = Append(observations, o)
      /\ LET o == observations'[Len(observations) + 1]
         IN  o.phase = phase /\ o.plugin = Current /\ o.outcome = x
  BY Observed
<1>4. Seen(f, n)'
  BY <1>2, <1>3, SeenBefore
<1>5. Base(f)' = Base(f) /\ \A i : Nth(f, i)' = Nth(f, i)
  BY SameProbes
<1>6. Base(f) + (n + 1) = Len(observations) + 1
  BY <1>1, <1>2
<1>7. \A i \in 1..(n + 1) : i \in 1..n \/ i = n + 1
  OBVIOUS
<1>8. LET o == observations'[Base(f)' + (n + 1)]
      IN  /\ o.phase = f /\ o.plugin = Nth(f, n + 1)'
          /\ plan'[Nth(f, n + 1)'][f] = << >> => o.outcome = "Succeeded"
  BY <1>3, <1>5, <1>6
<1> QED  BY <1>4, <1>7, <1>8 DEF Seen

AppInv == ProbeInv /\ GoingUp /\ RollingDown /\ ShuttingInv

\* The parts of the invariant that most steps leave alone.
LEMMA ProbeKept ==
    ASSUME ProbeInv, UNCHANGED <<graph, plan, source>>, failures' \in Seq(FailureRecord),
           observations' \in Seq(Observation), pending' \in BOOLEAN,
           stage' \in {"Resolved", "Initializing", "Starting", "Running",
                       "RollingBack", "Failed", "ShuttingDown", "Stopped"}
    PROVE  ProbeInv'
<1>1. Members' = Members
  BY SameProbes
<1> QED  BY <1>1 DEF ProbeInv

\* While the oracle runs it has judged nothing.
LEMMA OracleRuns ==
    ASSUME OracleInv, oracle.tag = "Running", UNCHANGED <<graph, oracleVars>>
    PROVE  OracleInv'
<1>1. UNCHANGED <<graph, plan, source, oracle>>
  BY DEF oracleVars
<1>2. Members' = Members
  BY <1>1, SameProbes
<1>3. OracleIsRight'
  BY <1>1 DEF OracleIsRight, Judged
<1>4. Attributed(source)' <=> Attributed(source)
  BY <1>1
<1> QED  BY <1>1, <1>2, <1>3, <1>4 DEF OracleInv

\* A walk that stands still has met what it had.
LEMMA SameWalk ==
    ASSUME UNCHANGED <<graph, plan, phase, at>>
    PROVE  \A f : Walked(f)' = Walked(f) /\ Met(f)' = Met(f)
<1>1. N' = N /\ Members' = Members /\ \A f, i : Nth(f, i)' = Nth(f, i)
  BY SameProbes
<1>2. \A f : Walked(f)' = Walked(f)
  BY <1>1 DEF Walked
<1> QED  BY <1>1, <1>2 DEF Met

\* A list that does not grow blames whom it did.
LEMMA SameBlame == ASSUME UNCHANGED failures PROVE \A f : Blamed(f)' = Blamed(f)
  BY DEF Blamed

\* A step that changes nothing the invariant reads, but `pending` of a walk that
\* is at a plugin.
LEMMA StandingStep ==
    ASSUME AppInv, UNCHANGED <<graph, plan, source, stage, phase, at, reach, primary, failures,
                               terminal, observations>>,
           \/ UNCHANGED pending
           \/ /\ pending' = TRUE /\ at > 0 /\ stage \in {"Initializing", "Starting", "RollingBack", "ShuttingDown"}
              /\ stage \in {"Initializing", "Starting"} => at <= N
    PROVE  AppInv'
<1>1. /\ N' = N /\ StartsFail' = StartsFail /\ \A f : Planned(f)' = Planned(f) /\ Base(f)' = Base(f)
      /\ \A f, n : Passed(f, n)' <=> Passed(f, n)
      /\ \A f, i : Nth(f, i)' = Nth(f, i)
  BY SameProbes
<1>2. \A f, n : Seen(f, n)' <=> Seen(f, n)
  BY <1>1 DEF Seen
<1>3. \A f : Walked(f)' = Walked(f) /\ Met(f)' = Met(f) /\ Blamed(f)' = Blamed(f)
  BY SameWalk, SameBlame
<1>4. ProbeInv'
  BY ProbeKept DEF AppInv, ProbeInv
<1>5. GoingUp'
  BY <1>1, <1>2 DEF AppInv, GoingUp
<1>6. RollingDown'
  BY <1>1 DEF AppInv, RollingDown
<1>7. ShuttingInv'
  BY <1>1, <1>2, <1>3 DEF AppInv, ShuttingInv
<1> QED  BY <1>4, <1>5, <1>6, <1>7 DEF AppInv

\* A startup hook succeeds.
LEMMA PassedNext ==
    ASSUME graph \in Graphs, UNCHANGED <<graph, plan>>, NEW f \in StartupPhases, NEW n \in Nat,
           Passed(f, n), ~Fails(Nth(f, n + 1), f)
    PROVE  Passed(f, n + 1)'
<1>1. Passed(f, n + 1)
  <2>1. \A i \in 1..(n + 1) : i \in 1..n \/ i = n + 1
    OBVIOUS
  <2> QED  BY <2>1 DEF Passed
<1> QED  BY <1>1, SameProbes

\* initialize succeeded.
LEMMA InitializeOkStep ==
    ASSUME AppInv, UNCHANGED <<plan, source>>, pending, plan[Current][phase] = << >>,
           InitializeOk(NoProvisions)
    PROVE  AppInv'
<1> USE DEF AppInv
<1>1. /\ stage = "Initializing" /\ stage' = "Initializing" /\ phase = "Initialize" /\ phase' = phase
      /\ Observe("Succeeded") /\ pending' = FALSE /\ at' = at + 1
      /\ UNCHANGED <<graph, failures, terminal>>
  BY DEF InitializeOk, GoingUp
<1>2. /\ graph \in Graphs /\ N \in Nat /\ at \in 1..N /\ observations \in Seq(Observation)
      /\ Passed("Initialize", at - 1) /\ Seen("Initialize", at - 1) /\ Len(observations) = at - 1
      /\ N' = N
  BY <1>1, ProbeGraph, SameProbes DEF GoingUp, ProbeInv
<1>3. PICK n \in Nat : n = at - 1
  BY <1>2
<1>4. Nth("Initialize", n + 1) = Current /\ Base("Initialize") = 0
  BY <1>2, <1>3 DEF Nth, Current, StartupPhases, Base
<1>5. DOMAIN graph.offers[Current] = {}
  BY DEF InitializeOk, CommitErrors, Undeclared, VersionMismatch, Missing, NoProvisions
<1>6. Passed("Initialize", n + 1)'
  <2>1. ~Fails(Nth("Initialize", n + 1), "Initialize")
    BY <1>1, <1>4, <1>5 DEF Fails
  <2>2. Passed("Initialize", n) /\ "Initialize" \in StartupPhases
    BY <1>2, <1>3 DEF StartupPhases
  <2> QED  BY <1>1, <1>2, <1>3, <2>1, <2>2, PassedNext
<1>7. Seen("Initialize", n + 1)'
  <2>1. Seen("Initialize", n) /\ phase \in Phases /\ Base(phase) + n = Len(observations)
    BY <1>1, <1>2, <1>3, <1>4 DEF Phases, StartupPhases
  <2> QED  BY <1>1, <1>2, <1>3, <1>4, <2>1, SeenNext
<1>8. observations' \in Seq(Observation) /\ Len(observations') = n + 1
  BY <1>1, <1>2, <1>3, Observed DEF Phases, StartupPhases
<1>9. at' - 1 = n + 1 /\ at' \in 1..(N' + 1) /\ Len(observations') = at' - 1
  BY <1>1, <1>2, <1>3, <1>8
<1>10. GoingUp'
  <2>1. Passed("Initialize", at - 1)' /\ Seen("Initialize", at - 1)'
    BY <1>6, <1>7, <1>9 DEF Passed, Seen
  <2> QED  BY <1>1, <1>2, <1>9, <2>1 DEF GoingUp
<1>11. ProbeInv'
  BY <1>1, <1>8, ProbeKept DEF ProbeInv
<1> QED  BY <1>1, <1>10, <1>11 DEF RollingDown, ShuttingInv

\* start succeeded.
LEMMA StartOkStep ==
    ASSUME AppInv, UNCHANGED <<plan, source>>, pending, plan[Current][phase] = << >>, StartOk
    PROVE  AppInv'
<1> USE DEF AppInv
<1>1. /\ stage = "Starting" /\ stage' = "Starting" /\ phase = "Start" /\ phase' = phase
      /\ Observe("Succeeded") /\ pending' = FALSE /\ at' = at + 1
      /\ UNCHANGED <<graph, failures, terminal>>
  BY DEF StartOk, GoingUp
<1>2. /\ graph \in Graphs /\ N \in Nat /\ at \in 1..N /\ observations \in Seq(Observation)
      /\ Passed("Start", at - 1) /\ Seen("Start", at - 1) /\ Len(observations) = N + (at - 1)
      /\ Passed("Initialize", N) /\ Seen("Initialize", N) /\ N' = N
  BY <1>1, ProbeGraph, SameProbes DEF GoingUp, ProbeInv
<1>3. PICK n \in Nat : n = at - 1
  BY <1>2
<1>4. Nth("Start", n + 1) = Current /\ Base("Start") = N /\ Base("Initialize") = 0
  BY <1>2, <1>3 DEF Nth, Current, StartupPhases, Base
<1>5. Passed("Start", n + 1)'
  <2>1. ~Fails(Nth("Start", n + 1), "Start")
    BY <1>1, <1>4 DEF Fails
  <2>2. Passed("Start", n) /\ "Start" \in StartupPhases
    BY <1>2, <1>3 DEF StartupPhases
  <2> QED  BY <1>1, <1>2, <1>3, <2>1, <2>2, PassedNext
<1>6. Seen("Start", n + 1)'
  <2>1. Seen("Start", n) /\ phase \in Phases /\ Base(phase) + n = Len(observations)
    BY <1>1, <1>2, <1>3, <1>4 DEF Phases, StartupPhases
  <2> QED  BY <1>1, <1>2, <1>3, <1>4, <2>1, SeenNext
<1>7. /\ observations' \in Seq(Observation) /\ Len(observations') = N + (n + 1)
      /\ \E o \in Observation : observations' = Append(observations, o)
  BY <1>1, <1>2, <1>3, Observed DEF Phases, StartupPhases
<1>8. PICK m \in Nat : m = N
  BY <1>2
<1>9. Seen("Initialize", m)' /\ Passed("Initialize", m)'
  <2>1. "Initialize" \in Phases /\ Base("Initialize") + m <= Len(observations)
    BY <1>2, <1>3, <1>4, <1>8 DEF Phases, StartupPhases
  <2>2. Seen("Initialize", m) /\ Passed("Initialize", m)
    BY <1>2, <1>8
  <2> QED  BY <1>1, <1>2, <1>7, <2>1, <2>2, SeenBefore, SameProbes
<1>10. at' - 1 = n + 1 /\ at' \in 1..(N' + 1) /\ Len(observations') = N' + (at' - 1) /\ N' = m
  BY <1>1, <1>2, <1>3, <1>7, <1>8
<1>11. GoingUp'
  <2>1. Passed("Start", at - 1)' /\ Seen("Start", at - 1)'
    BY <1>5, <1>6, <1>10 DEF Passed, Seen
  <2>2. Passed("Initialize", N)' /\ Seen("Initialize", N)'
    BY <1>9, <1>10 DEF Passed, Seen
  <2> QED  BY <1>1, <1>2, <1>10, <2>1, <2>2 DEF GoingUp
<1>12. ProbeInv'
  BY <1>1, <1>7, ProbeKept DEF ProbeInv
<1> QED  BY <1>1, <1>11, <1>12 DEF RollingDown, ShuttingInv

\* A loop over the startup order is over.
LEMMA StartupPhaseStep ==
    ASSUME AppInv, UNCHANGED <<plan, source>>, InitializeAllDone \/ StartAllDone
    PROVE  AppInv'
<1> USE DEF AppInv
<1>1. /\ UNCHANGED <<graph, failures, terminal, observations, pending>>
      /\ stage' \in {"Starting", "Running"}
  BY DEF InitializeAllDone, StartAllDone
<1>2. /\ N' = N /\ N \in Nat /\ \A f, n : Passed(f, n)' <=> Passed(f, n)
      /\ \A f : Base(f)' = Base(f) /\ \A i : Nth(f, i)' = Nth(f, i)
  BY <1>1, ProbeGraph, SameProbes DEF ProbeInv
<1>3. \A f, n : Seen(f, n)' <=> Seen(f, n)
  BY <1>1, <1>2 DEF Seen
<1>4. ProbeInv'
  BY <1>1, ProbeKept DEF ProbeInv
<1>5. RollingDown' /\ ShuttingInv'
  BY <1>1 DEF RollingDown, ShuttingInv
<1>6. CASE InitializeAllDone
  <2>1. /\ stage = "Initializing" /\ stage' = "Starting" /\ phase' = "Start" /\ at' = 1
        /\ at = N + 1 /\ ~pending
    BY <1>2, <1>6 DEF InitializeAllDone, GoingUp
  <2>2. /\ Passed("Initialize", N) /\ Seen("Initialize", N) /\ Len(observations) = N
    BY <1>2, <2>1 DEF GoingUp
  <2>3. Passed("Start", 0) /\ Seen("Start", 0)
    BY DEF Passed, Seen
  <2>4. at' - 1 = 0
    BY <2>1
  <2> QED  BY <1>1, <1>2, <1>3, <1>4, <1>5, <2>1, <2>2, <2>3, <2>4 DEF GoingUp
<1>7. CASE StartAllDone
  <2>1. stage = "Starting" /\ stage' = "Running" /\ at = N + 1 /\ ~pending
    BY <1>2, <1>7 DEF StartAllDone, GoingUp
  <2>2. /\ Passed("Initialize", N) /\ Seen("Initialize", N) /\ Passed("Start", N) /\ Seen("Start", N)
        /\ Len(observations) = N + N /\ failures = << >> /\ terminal = << >>
    BY <1>2, <2>1 DEF GoingUp
  <2> QED  BY <1>1, <1>2, <1>3, <1>4, <1>5, <2>1, <2>2 DEF GoingUp
<1> QED  BY <1>6, <1>7

\* A startup hook fails, or what it staged is refused: it was to.
LEMMA StartupFails ==
    ASSUME AppInv, UNCHANGED <<plan, source>>, pending,
           \/ plan[Current][phase] = << >> /\ CommitRefused(NoProvisions)
           \/ plan[Current][phase] # << >> /\ \E tag : InitializeErr(tag) \/ StartErr(tag)
    PROVE  AppInv'
<1> USE DEF AppInv
<1>1. PICK tag \in Tags :
        /\ primary' = <<Record(tag)>> /\ Observe(tag) /\ stage' = "RollingBack" /\ pending' = FALSE
        /\ \/ stage = "Initializing" /\ reach' = RollbackInitializeReach /\ phase' = "Dispose" /\ at' = reach'["Dispose"]
           \/ stage = "Starting" /\ reach' = RollbackStartReach /\ phase' = "Quiesce" /\ at' = reach'["Quiesce"]
        /\ UNCHANGED <<graph, failures, terminal>>
  <2>1. \A t : SafeTag(t) \in Tags
    BY DEF SafeTag, Tags
  <2>2. \A offers, staged : CommitErrors(offers, staged) \subseteq Tags
    BY DEF CommitErrors, Tags, CommitTags
  <2>3. CASE CommitRefused(NoProvisions)
    BY <2>2, <2>3 DEF CommitRefused, RollbackInitialize
  <2>4. CASE \E t : InitializeErr(t)
    BY <2>1, <2>4 DEF InitializeErr, RollbackInitialize
  <2>5. CASE \E t : StartErr(t)
    BY <2>1, <2>5 DEF StartErr
  <2> QED  BY <2>3, <2>4, <2>5
<1>2. /\ graph \in Graphs /\ N \in Nat /\ at \in 1..N /\ observations \in Seq(Observation)
      /\ phase \in StartupPhases /\ N' = N /\ StartsFail' = StartsFail /\ failures = << >>
  BY <1>1, ProbeGraph, SameProbes DEF GoingUp, ProbeInv, StartupPhases
<1>3. Current \in Members /\ Current \in StartsFail
  <2>1. Current \in Members
    BY <1>2 DEF Current, Members
  <2>2. CASE plan[Current][phase] # << >>
    BY <1>2, <2>1, <2>2 DEF StartsFail, Planned, StartupPhases
  <2>3. CASE CommitRefused(NoProvisions)
    <3>1. CommitErrors(graph.offers[Current], NoProvisions) # {}
      BY <2>3 DEF CommitRefused
    <3>2. DOMAIN graph.offers[Current] # {}
      BY <3>1 DEF CommitErrors, Undeclared, VersionMismatch, Missing, NoProvisions
    <3> QED  BY <2>1, <3>2 DEF StartsFail
  <2> QED  BY <2>1, <2>2, <2>3
<1>4. primary'[1].plugin = Current
  BY <1>1 DEF Record
<1>5. reach' \in [CleanupPhases -> 0..N] /\ at' \in 0..N /\ phase' \in CleanupPhases
  BY <1>1, <1>2 DEF RollbackInitializeReach, RollbackStartReach, CleanupPhases
<1>6. RollingDown'
  BY <1>1, <1>2, <1>3, <1>4, <1>5 DEF RollingDown
<1>7. observations' \in Seq(Observation)
  BY <1>1, <1>2, Observed DEF Phases
<1>8. ProbeInv'
  BY <1>1, <1>7, ProbeKept DEF ProbeInv
<1> QED  BY <1>1, <1>6, <1>8 DEF GoingUp, ShuttingInv

\* Where the observations of the phases are.
LEMMA BaseFacts ==
    ASSUME graph \in Graphs
    PROVE  /\ \A f \in Phases : Base(f) \in Nat
           /\ Base("Initialize") + N <= Base("Quiesce") /\ Base("Start") + N <= Base("Quiesce")
           /\ \A f, g \in CleanupPhases : Rank(f) < Rank(g) => Base(f) + N <= Base(g)
           /\ \A g \in CleanupPhases : Base("Quiesce") <= Base(g)
           /\ \A f, g \in CleanupPhases : Rank(f) = Rank(g) => f = g
           /\ \A f \in CleanupPhases : Rank(f) \in 1..3
<1>1. N \in Nat
  BY ProbeGraph
<1>2. \A f \in Phases : Base(f) \in Nat
  BY <1>1 DEF Base, Phases, StartupPhases, CleanupPhases
<1>3. /\ Base("Initialize") = 0 /\ Base("Start") = N /\ Base("Quiesce") = N + N
      /\ Base("Stop") = N + N + N /\ Base("Dispose") = N + N + N + N
  BY DEF Base
<1>4. Rank("Quiesce") = 1 /\ Rank("Stop") = 2 /\ Rank("Dispose") = 3
  BY DEF Rank
<1> QED  BY <1>1, <1>2, <1>3, <1>4 DEF CleanupPhases

\* The shutdown walk runs one more hook.
LEMMA WalkStep ==
    ASSUME AppInv, stage = "ShuttingDown", pending, UNCHANGED <<graph, plan, source, phase>>,
           at' = at - 1, NEW x \in Tags \cup {"Succeeded"}, Observe(x),
           plan[Current][phase] = << >> => x = "Succeeded"
    PROVE  /\ Current \in Members /\ Current \notin Met(phase)
           /\ observations' \in Seq(Observation)
           /\ Len(observations') = Base(phase)' + (N' - at')
           /\ Seen("Initialize", N)' /\ Seen("Start", N)'
           /\ \A f \in CleanupPhases : Seen(f, Walked(f))'
           /\ \A f \in CleanupPhases : f # phase => Met(f)' = Met(f)
           /\ plan[Current][phase] = << >> => Met(phase)' = Met(phase)
           /\ plan[Current][phase] # << >> => Met(phase)' = Met(phase) \cup {Current}
<1> USE DEF AppInv
<1>1. /\ graph \in Graphs /\ N \in Nat /\ at \in 1..N /\ observations \in Seq(Observation)
      /\ phase \in CleanupPhases /\ phase \in Phases /\ N' = N
      /\ Len(observations) = Base(phase) + (N - at) /\ Len(observations) \in Nat
      /\ Seen("Initialize", N) /\ Seen("Start", N)
      /\ \A f \in CleanupPhases : Seen(f, Walked(f))
  BY ProbeGraph, SameProbes DEF ShuttingInv, ProbeInv, Phases
<1>2. PICK m \in Nat, n \in Nat, g \in CleanupPhases : m = N /\ n = N - at /\ g = phase
  BY <1>1
<1>3. Nth(g, n + 1) = Current /\ Base(g) + n = Len(observations) /\ Walked(g) = n
  <2>1. N + 1 - (n + 1) = at
    BY <1>1, <1>2
  <2>2. g \notin StartupPhases
    BY DEF CleanupPhases, StartupPhases
  <2>3. Nth(g, n + 1) = Current
    BY <2>1, <2>2 DEF Nth, Current
  <2>4. ~(Rank(g) < Rank(g))
    BY <1>1, BaseFacts
  <2>5. Walked(g) = n
    BY <1>2, <2>4 DEF Walked
  <2> QED  BY <1>1, <1>2, <2>3, <2>5
<1>4. /\ observations' \in Seq(Observation) /\ Len(observations') = Len(observations) + 1
      /\ \E o \in Observation : observations' = Append(observations, o)
  BY <1>1, Observed
<1>5. Base(phase)' = Base(phase) /\ Base(phase) \in Nat
  BY <1>1, <1>2, SameProbes, BaseFacts
<1>6. Len(observations') = Base(phase)' + (N' - at')
  BY <1>1, <1>4, <1>5
<1>7. Seen(g, n + 1)'
  BY <1>1, <1>2, <1>3, SeenNext
<1>8. ASSUME NEW f \in Phases, Base(f) + m <= Len(observations), Seen(f, m) PROVE Seen(f, m)'
  BY <1>1, <1>4, <1>8, SeenBefore
<1>9. Base("Initialize") + m <= Len(observations) /\ Base("Start") + m <= Len(observations)
  <2>1. Base("Quiesce") <= Base(phase) /\ Base("Initialize") \in Nat /\ Base("Start") \in Nat /\ Base("Quiesce") \in Nat
    BY <1>1, BaseFacts DEF Phases, StartupPhases, CleanupPhases
  <2>2. Base("Initialize") + N <= Base("Quiesce") /\ Base("Start") + N <= Base("Quiesce")
    BY <1>1, BaseFacts
  <2>3. Len(observations) = Base(phase) + n /\ Base(phase) \in Nat /\ m = N /\ N \in Nat
    BY <1>1, <1>2, <1>5
  <2> QED  BY <2>1, <2>2, <2>3
<1>10. Seen("Initialize", m)' /\ Seen("Start", m)'
  <2>1. Seen("Initialize", m) /\ Seen("Start", m) /\ "Initialize" \in Phases /\ "Start" \in Phases
    BY <1>1, <1>2 DEF Phases, StartupPhases
  <2> QED  BY <1>8, <1>9, <2>1
<1>11. Seen("Initialize", N)' /\ Seen("Start", N)'
  BY <1>1, <1>2, <1>10 DEF Seen
<1>12. ASSUME NEW f \in CleanupPhases
       PROVE  /\ f = g => Walked(f)' = n + 1
              /\ Rank(f) < Rank(g) => Walked(f)' = m /\ Walked(f) = m
              /\ f # g /\ ~(Rank(f) < Rank(g)) => Walked(f)' = 0 /\ Walked(f) = 0
  <2>1. ~(Rank(g) < Rank(g)) /\ (Rank(f) < Rank(g) => f # g)
    BY <1>1, BaseFacts
  <2>2. N' - at' = n + 1 /\ phase' = g /\ N' = m
    BY <1>1, <1>2
  <2>3. Walked(f)' = IF Rank(f) < Rank(g) THEN m ELSE IF f = g THEN n + 1 ELSE 0
    BY <2>2 DEF Walked, Rank
  <2>4. Walked(f) = IF Rank(f) < Rank(g) THEN m ELSE IF f = g THEN n ELSE 0
    BY <1>2 DEF Walked
  <2> QED  BY <2>1, <2>3, <2>4
<1>13. ASSUME NEW f \in CleanupPhases PROVE Seen(f, Walked(f))'
  <2>1. CASE f = g
    BY <1>7, <1>12, <2>1 DEF Seen
  <2>2. CASE Rank(f) < Rank(g)
    <3>1. f \in Phases /\ Base(f) + m <= Len(observations)
      <4>1. Base(f) + N <= Base(phase) /\ Base(f) \in Nat
        BY <1>1, <1>2, <2>2, BaseFacts DEF Phases
      <4> QED  BY <1>1, <1>2, <1>5, <4>1 DEF Phases
    <3>2. Seen(f, m)
      BY <1>1, <1>12, <2>2
    <3>3. Seen(f, m)'
      BY <1>8, <3>1, <3>2
    <3> QED  BY <1>12, <2>2, <3>3 DEF Seen
  <2>3. CASE f # g /\ ~(Rank(f) < Rank(g))
    BY <1>12, <2>3 DEF Seen
  <2> QED  BY <2>1, <2>2, <2>3
<1>14. Current \in Members
  BY <1>1 DEF Current, Members
<1>15. Members' = Members /\ \A f, i : Nth(f, i)' = Nth(f, i)
  BY SameProbes
<1>16. ASSUME NEW f \in CleanupPhases, f # phase PROVE Met(f)' = Met(f)
  <2>1. Walked(f)' = Walked(f)
    BY <1>2, <1>12, <1>16
  <2> QED  BY <1>15, <2>1 DEF Met
<1>17. \A i \in 1..(n + 1) : i \in 1..n \/ i = n + 1
  OBVIOUS
<1>18. \A i \in 1..n : i \in 1..(n + 1)
  OBVIOUS
<1>19. n + 1 \in 1..(n + 1)
  OBVIOUS
<1>20. Met(g)' = {p \in Members : plan[p][g] # << >> /\ (p = Current \/ \E i \in 1..n : p = Nth(g, i))}
  <2>1. Met(g)' = {p \in Members : plan[p][g] # << >> /\ \E i \in 1..(n + 1) : p = Nth(g, i)}
    BY <1>12, <1>15 DEF Met
  <2> QED  BY <1>3, <1>17, <1>18, <1>19, <2>1
<1>21. Met(g) = {p \in Members : plan[p][g] # << >> /\ \E i \in 1..n : p = Nth(g, i)}
  BY <1>3 DEF Met
<1>22. Current \notin Met(g)
  <2> SUFFICES ASSUME NEW i \in 1..n, Current = Nth(g, i) PROVE FALSE
    BY <1>21
  <2>1. graph.order[at] = graph.order[N + 1 - i]
    BY DEF Nth, Current, CleanupPhases, StartupPhases
  <2>2. N + 1 - i \in 1..N /\ N + 1 - i # at
    BY <1>1, <1>2
  <2> QED  BY <1>1, <2>1, <2>2, ProbeGraph
<1>23. /\ plan[Current][g] = << >> => Met(g)' = Met(g)
       /\ plan[Current][g] # << >> => Met(g)' = Met(g) \cup {Current}
  BY <1>14, <1>20, <1>21
<1>24. /\ Current \notin Met(phase)
       /\ plan[Current][phase] = << >> => Met(phase)' = Met(phase)
       /\ plan[Current][phase] # << >> => Met(phase)' = Met(phase) \cup {Current}
  <2>1. Met(phase) = Met(g) /\ Met(phase)' = Met(g)'
    BY <1>2 DEF Met, Walked, Nth
  <2> QED  BY <1>2, <1>22, <1>23, <2>1
<1> QED  BY <1>4, <1>6, <1>11, <1>13, <1>14, <1>16, <1>24

\* What was met is finite.
LEMMA MetFinite ==
    ASSUME graph \in Graphs
    PROVE  \A f : IsFiniteSet(Met(f)) /\ Cardinality(Met(f)) \in Nat
<1>1. \A f : Met(f) \subseteq Members
  BY DEF Met
<1> QED  BY <1>1, ProbeGraph, FS_Subset, FS_CardinalityType

\* A cleanup hook of shutdown() succeeds.
LEMMA ShutdownHookOk ==
    ASSUME AppInv, UNCHANGED <<plan, source>>, pending, plan[Current][phase] = << >>,
           stage = "ShuttingDown", CleanupOk
    PROVE  AppInv'
<1> USE DEF AppInv
<1>1. /\ Observe("Succeeded") /\ pending' = FALSE /\ at' = at - 1
      /\ UNCHANGED <<graph, stage, phase, reach, failures, terminal>>
  BY DEF CleanupOk
<1>2. /\ observations' \in Seq(Observation)
      /\ Len(observations') = Base(phase)' + (N' - at')
      /\ Seen("Initialize", N)' /\ Seen("Start", N)'
      /\ \A f \in CleanupPhases : Seen(f, Walked(f))'
      /\ \A f \in CleanupPhases : f # phase => Met(f)' = Met(f)
      /\ Met(phase)' = Met(phase)
  BY <1>1, WalkStep
<1>3. /\ N' = N /\ N \in Nat /\ graph \in Graphs
      /\ \A f, n : Passed(f, n)' <=> Passed(f, n)
      /\ \A f : Blamed(f)' = Blamed(f)
  BY <1>1, ProbeGraph, SameProbes, SameBlame DEF ProbeInv
<1>4. at' \in 0..N
  BY <1>1, <1>3 DEF ShuttingInv
<1>5. ASSUME NEW f \in CleanupPhases PROVE Met(f)' = Met(f)
  <2>1. CASE f = phase
    <3>1. Met(f) = Met(phase) /\ Met(f)' = Met(phase)'
      BY <1>1, <2>1 DEF Met, Walked, Nth
    <3> QED  BY <1>2, <3>1
  <2> QED  BY <1>2, <2>1
<1>6. /\ Met("Quiesce")' = Met("Quiesce") /\ Met("Stop")' = Met("Stop") /\ Met("Dispose")' = Met("Dispose")
  BY <1>5 DEF CleanupPhases
<1>7. ShuttingInv'
  <2>1. Passed("Initialize", N)' /\ Passed("Start", N)'
    BY <1>3 DEF ShuttingInv
  <2>2. \A f \in CleanupPhases : Met(f)' = Blamed(f)'
    BY <1>3, <1>5 DEF ShuttingInv
  <2>3. Len(failures') = Cardinality(Met("Quiesce")') + Cardinality(Met("Stop")')
                         + Cardinality(Met("Dispose")')
    BY <1>1, <1>6 DEF ShuttingInv
  <2> QED  BY <1>1, <1>2, <1>3, <1>4, <2>1, <2>2, <2>3 DEF ShuttingInv
<1>8. ProbeInv'
  BY <1>1, <1>2, ProbeKept DEF ProbeInv
<1> QED  BY <1>1, <1>7, <1>8 DEF GoingUp, RollingDown

\* One more failure is blamed on its plugin.
LEMMA BlamedNext ==
    ASSUME failures \in Seq(FailureRecord), NEW r \in FailureRecord, failures' = Append(failures, r)
    PROVE  \A f : Blamed(f)' = IF f = r.phase THEN Blamed(f) \cup {r.plugin} ELSE Blamed(f)
<1>1. /\ Len(failures) \in Nat /\ Len(failures') = Len(failures) + 1
      /\ failures'[Len(failures) + 1] = r
      /\ \A k \in 1..Len(failures) : failures'[k] = failures[k]
  OBVIOUS
<1>2. \A k : k \in 1..Len(failures') <=> k \in 1..Len(failures) \/ k = Len(failures) + 1
  BY <1>1
<1>3. \A k : k \in 1..Len(failures) => k # Len(failures) + 1
  BY <1>1
<1>4. \A f, p : p \in Blamed(f) <=>
        \E k \in 1..Len(failures) : failures[k].phase = f /\ failures[k].plugin = p
  BY DEF Blamed
<1>5. \A f, p : p \in Blamed(f)' <=>
        \E k \in 1..Len(failures') : failures'[k].phase = f /\ failures'[k].plugin = p
  BY DEF Blamed
<1>6. \A f, p : p \in Blamed(f)' <=> p \in Blamed(f) \/ (f = r.phase /\ p = r.plugin)
  BY <1>1, <1>2, <1>4, <1>5
<1>7. ASSUME NEW f
      PROVE  Blamed(f)' = IF f = r.phase THEN Blamed(f) \cup {r.plugin} ELSE Blamed(f)
  <2>1. \A p : p \in Blamed(f)' <=> p \in Blamed(f) \/ (f = r.phase /\ p = r.plugin)
    BY <1>6
  <2>2. CASE f = r.phase
    <3>1. \A p : p \in Blamed(f)' <=> p \in Blamed(f) \cup {r.plugin}
      BY <2>1, <2>2
    <3> QED  BY <2>2, <3>1, Zenon
  <2>3. CASE f # r.phase
    <3>1. \A p : p \in Blamed(f)' <=> p \in Blamed(f)
      BY <2>1, <2>3
    <3>2. Blamed(f)' = Blamed(f)
      BY <3>1 DEF Blamed
    <3> QED  BY <2>3, <3>2
  <2> QED  BY <2>2, <2>3
<1> QED  BY <1>7

\* A cleanup hook of shutdown() fails.
LEMMA ShutdownHookErr ==
    ASSUME AppInv, UNCHANGED <<plan, source>>, pending, plan[Current][phase] # << >>,
           stage = "ShuttingDown", NEW tag, CleanupErr(tag)
    PROVE  AppInv'
<1> USE DEF AppInv
<1>1. /\ Observe(SafeTag(tag)) /\ pending' = FALSE /\ at' = at - 1
      /\ failures' = Append(failures, Record(SafeTag(tag)))
      /\ UNCHANGED <<graph, stage, phase, reach, terminal>>
  BY DEF CleanupErr
<1>2. SafeTag(tag) \in Tags
  BY DEF SafeTag, Tags
<1>3. /\ observations' \in Seq(Observation)
      /\ Len(observations') = Base(phase)' + (N' - at')
      /\ Seen("Initialize", N)' /\ Seen("Start", N)'
      /\ \A f \in CleanupPhases : Seen(f, Walked(f))'
      /\ \A f \in CleanupPhases : f # phase => Met(f)' = Met(f)
      /\ Met(phase)' = Met(phase) \cup {Current}
      /\ Current \notin Met(phase) /\ Current \in Members
  BY <1>1, <1>2, WalkStep
<1>4. /\ N' = N /\ N \in Nat /\ graph \in Graphs /\ Members \subseteq Plugins
      /\ \A f, n : Passed(f, n)' <=> Passed(f, n)
      /\ phase \in CleanupPhases /\ failures \in Seq(FailureRecord)
  BY <1>1, ProbeGraph, SameProbes DEF ProbeInv, ShuttingInv
<1>5. at' \in 0..N
  BY <1>1, <1>4 DEF ShuttingInv
<1> DEFINE r == Record(SafeTag(tag))
<1>6. r \in FailureRecord /\ r.phase = phase /\ r.plugin = Current
  BY <1>2, <1>3, <1>4 DEF Record, FailureRecord, Phases
<1> HIDE DEF r
<1>7. failures' = Append(failures, r)
  BY <1>1 DEF r
<1>8. failures' \in Seq(FailureRecord) /\ Len(failures') = Len(failures) + 1
  BY <1>4, <1>6, <1>7
<1>9. \A f : Blamed(f)' = IF f = phase THEN Blamed(f) \cup {Current} ELSE Blamed(f)
  BY <1>4, <1>6, <1>7, BlamedNext
<1>10. PICK g \in CleanupPhases : g = phase
  BY <1>4
<1>11. Met(g)' = Met(g) \cup {Current} /\ Current \notin Met(g)
  <2>1. Met(g) = Met(phase) /\ Met(g)' = Met(phase)'
    BY <1>1, <1>10 DEF Met, Walked, Nth
  <2> QED  BY <1>3, <2>1
<1>12. \A f \in CleanupPhases : Met(f)' = IF f = g THEN Met(f) \cup {Current} ELSE Met(f)
  BY <1>3, <1>10, <1>11
<1>13. \A f \in CleanupPhases : Met(f)' = Blamed(f)'
  BY <1>9, <1>10, <1>12 DEF ShuttingInv
<1>14. Cardinality(Met(g)') = Cardinality(Met(g)) + 1
  <2>1. IsFiniteSet(Met(g))
    BY <1>4, MetFinite
  <2> QED  BY <1>11, <2>1, FS_AddElement
<1>15. /\ Cardinality(Met("Quiesce")) \in Nat /\ Cardinality(Met("Stop")) \in Nat
       /\ Cardinality(Met("Dispose")) \in Nat
  BY <1>4, MetFinite
<1>16. Len(failures) = Cardinality(Met("Quiesce")) + Cardinality(Met("Stop")) + Cardinality(Met("Dispose"))
  BY DEF ShuttingInv
<1>17. Len(failures') = Cardinality(Met("Quiesce")') + Cardinality(Met("Stop")') + Cardinality(Met("Dispose")')
  <2>1. CASE g = "Quiesce"
    <3>1. Met("Stop")' = Met("Stop") /\ Met("Dispose")' = Met("Dispose")
      BY <1>12, <2>1 DEF CleanupPhases
    <3> QED  BY <1>8, <1>14, <1>15, <1>16, <2>1, <3>1
  <2>2. CASE g = "Stop"
    <3>1. Met("Quiesce")' = Met("Quiesce") /\ Met("Dispose")' = Met("Dispose")
      BY <1>12, <2>2 DEF CleanupPhases
    <3> QED  BY <1>8, <1>14, <1>15, <1>16, <2>2, <3>1
  <2>3. CASE g = "Dispose"
    <3>1. Met("Quiesce")' = Met("Quiesce") /\ Met("Stop")' = Met("Stop")
      BY <1>12, <2>3 DEF CleanupPhases
    <3> QED  BY <1>8, <1>14, <1>15, <1>16, <2>3, <3>1
  <2> QED  BY <2>1, <2>2, <2>3 DEF CleanupPhases
<1>18. ShuttingInv'
  <2>1. Passed("Initialize", N)' /\ Passed("Start", N)'
    BY <1>4 DEF ShuttingInv
  <2> QED  BY <1>1, <1>3, <1>4, <1>5, <1>13, <1>17, <2>1 DEF ShuttingInv
<1>19. ProbeInv'
  BY <1>1, <1>3, <1>8, ProbeKept DEF ProbeInv
<1> QED  BY <1>1, <1>18, <1>19 DEF GoingUp, RollingDown

\* A cleanup hook of a rollback succeeds or fails.
LEMMA RollbackHook ==
    ASSUME AppInv, UNCHANGED <<plan, source>>, pending, stage = "RollingBack",
           \/ CleanupOk
           \/ plan[Current][phase] # << >> /\ \E tag : CleanupErr(tag)
    PROVE  AppInv'
<1> USE DEF AppInv
<1>1. /\ graph' = graph /\ N \in Nat /\ graph \in Graphs /\ at \in 1..N /\ phase \in CleanupPhases
      /\ phase \in Phases /\ observations \in Seq(Observation) /\ failures \in Seq(FailureRecord)
      /\ Members \subseteq Plugins /\ reach \in [CleanupPhases -> 0..N]
  BY ProbeGraph DEF ProbeInv, RollingDown, CleanupOk, CleanupErr, Phases
<1>2. /\ pending' = FALSE /\ at' = at - 1 /\ UNCHANGED <<graph, stage, phase, reach, primary, terminal>>
  BY DEF CleanupOk, CleanupErr
<1>3. N' = N /\ StartsFail' = StartsFail /\ \A f : Planned(f)' = Planned(f)
  BY <1>1, SameProbes
<1>4. observations' \in Seq(Observation)
  <2>1. \A t : SafeTag(t) \in Tags
    BY DEF SafeTag, Tags
  <2>2. \E x \in Tags \cup {"Succeeded"} : Observe(x)
    BY <2>1 DEF CleanupOk, CleanupErr
  <2> QED  BY <1>1, <2>2, Observed
<1>5. /\ failures' \in Seq(FailureRecord)
      /\ \A i \in 1..Len(failures') : failures'[i].plugin \in Planned(failures'[i].phase)
  <2>1. CASE CleanupOk
    BY <1>1, <2>1 DEF CleanupOk, RollingDown
  <2>2. CASE plan[Current][phase] # << >> /\ \E tag : CleanupErr(tag)
    <3>1. PICK tag : CleanupErr(tag)
      BY <2>2
    <3> DEFINE r == Record(SafeTag(tag))
    <3>2. Current \in Members
      BY <1>1 DEF Current, Members
    <3>3. r \in FailureRecord /\ r.plugin \in Planned(r.phase)
      <4>1. SafeTag(tag) \in Tags
        BY DEF SafeTag, Tags
      <4>2. r.phase = phase /\ r.plugin = Current /\ r \in FailureRecord
        BY <1>1, <3>2, <4>1 DEF Record, FailureRecord
      <4>3. Current \in Planned(phase)
        BY <2>2, <3>2 DEF Planned
      <4> HIDE DEF r
      <4> QED  BY <4>2, <4>3
    <3> HIDE DEF r
    <3>4. failures' = Append(failures, r)
      BY <3>1 DEF CleanupErr, r
    <3>5. /\ Len(failures) \in Nat /\ Len(failures') = Len(failures) + 1
          /\ failures'[Len(failures) + 1] = r /\ failures' \in Seq(FailureRecord)
          /\ \A k \in 1..Len(failures) : failures'[k] = failures[k]
      BY <1>1, <3>3, <3>4
    <3>6. \A k \in 1..Len(failures') : k \in 1..Len(failures) \/ k = Len(failures) + 1
      BY <3>5
    <3>7. \A k \in 1..Len(failures) : failures[k].plugin \in Planned(failures[k].phase)
      BY DEF RollingDown
    <3> QED  BY <3>3, <3>5, <3>6, <3>7
  <2> QED  BY <2>1, <2>2
<1>6. RollingDown'
  <2>1. at' \in 0..N
    BY <1>1, <1>2
  <2> QED  BY <1>1, <1>2, <1>3, <1>5, <2>1 DEF RollingDown
<1>7. ProbeInv'
  BY <1>1, <1>2, <1>4, <1>5, ProbeKept DEF ProbeInv
<1> QED  BY <1>2, <1>6, <1>7 DEF GoingUp, ShuttingInv

\* One cleanup phase is over and the next begins.
LEMMA NextPhaseStep ==
    ASSUME AppInv, UNCHANGED <<plan, source>>, NextCleanupPhase PROVE AppInv'
<1> USE DEF AppInv
<1>1. /\ stage \in {"RollingBack", "ShuttingDown"} /\ at = 0 /\ phase # "Dispose"
      /\ phase' = NextPhase(phase) /\ at' = reach[NextPhase(phase)]
      /\ UNCHANGED <<graph, stage, pending, reach, primary, failures, terminal, observations>>
  BY DEF NextCleanupPhase, Cleaning
<1>2. /\ N' = N /\ N \in Nat /\ graph \in Graphs /\ StartsFail' = StartsFail
      /\ \A f : Planned(f)' = Planned(f) /\ Base(f)' = Base(f)
      /\ \A f, n : Passed(f, n)' <=> Passed(f, n)
      /\ \A f, i : Nth(f, i)' = Nth(f, i)
      /\ \A f : Blamed(f)' = Blamed(f) /\ Members' = Members
  BY <1>1, ProbeGraph, SameProbes, SameBlame DEF ProbeInv
<1>3. \A f, n : Seen(f, n)' <=> Seen(f, n)
  BY <1>1, <1>2 DEF Seen
<1>4. phase \in {"Quiesce", "Stop"} /\ phase' \in CleanupPhases /\ ~pending
  BY <1>1 DEF NextPhase, CleanupPhases, RollingDown, ShuttingInv
<1>5. ProbeInv'
  BY <1>1, ProbeKept DEF ProbeInv
<1>6. RollingDown'
  <2>1. CASE stage = "RollingBack"
    <3>1. at' \in 0..N
      BY <1>1, <1>4, <2>1 DEF RollingDown
    <3> QED  BY <1>1, <1>2, <1>4, <2>1, <3>1 DEF RollingDown
  <2> QED  BY <1>1, <2>1 DEF RollingDown
<1>7. ASSUME stage = "ShuttingDown" PROVE ShuttingInv'
  <2>1. at' = N
    BY <1>1, <1>4, <1>7 DEF ShuttingInv
  <2>2. (phase = "Quiesce" /\ phase' = "Stop") \/ (phase = "Stop" /\ phase' = "Dispose")
    BY <1>1, <1>4 DEF NextPhase
  <2>3. ASSUME NEW f \in CleanupPhases PROVE Walked(f)' = Walked(f)
    BY <1>1, <1>2, <2>1, <2>2 DEF Walked, Rank, CleanupPhases
  <2>4. \A f \in CleanupPhases : Met(f)' = Met(f)
    BY <1>2, <2>3 DEF Met
  <2>5. \A f \in CleanupPhases : Met(f)' = Blamed(f)'
    BY <1>2, <1>7, <2>4 DEF ShuttingInv
  <2>6. \A f \in CleanupPhases : Seen(f, Walked(f))'
    <3>1. \A f \in CleanupPhases : Seen(f, Walked(f))
      BY <1>7 DEF ShuttingInv
    <3> QED  BY <1>3, <2>3, <3>1
  <2>7. Len(observations') = Base(phase)' + (N' - at')
    <3>1. Len(observations) = Base(phase) + (N - at)
      BY <1>7 DEF ShuttingInv
    <3>2. CASE phase = "Quiesce" /\ phase' = "Stop"
      BY <1>1, <1>2, <2>1, <3>1, <3>2 DEF Base
    <3>3. CASE phase = "Stop" /\ phase' = "Dispose"
      BY <1>1, <1>2, <2>1, <3>1, <3>3 DEF Base
    <3> QED  BY <2>2, <3>2, <3>3
  <2>8. Len(failures') = Cardinality(Met("Quiesce")') + Cardinality(Met("Stop")') + Cardinality(Met("Dispose")')
    BY <1>1, <1>7, <2>4 DEF ShuttingInv, CleanupPhases
  <2>9. Passed("Initialize", N)' /\ Passed("Start", N)' /\ Seen("Initialize", N)' /\ Seen("Start", N)'
    BY <1>2, <1>3, <1>7 DEF ShuttingInv
  <2>10. at' \in 0..N'
    BY <1>2, <2>1
  <2>11. reach' = [f \in CleanupPhases |-> N'] /\ terminal' = << >> /\ stage' = "ShuttingDown"
    BY <1>1, <1>2, <1>7 DEF ShuttingInv
  <2> QED  BY <1>1, <1>4, <1>7, <2>5, <2>6, <2>7, <2>8, <2>9, <2>10, <2>11 DEF ShuttingInv
<1>8. ShuttingInv'
  BY <1>1, <1>7 DEF ShuttingInv
<1> QED  BY <1>1, <1>5, <1>6, <1>8 DEF GoingUp

\* A set of identities that is not empty has a least one.
LEMMA LeastIdentity ==
    ASSUME NEW S \in SUBSET Nat, S # {}
    PROVE  \E p \in S : \A q \in S : p <= q
<1> DEFINE R == {x \in Nat \X Nat : x[1] < x[2]}
<1>1. IsWellFoundedOn(R, Nat)
  BY NatLessThanWellFounded DEF OpToRel
<1>2. PICK p \in S : \A q \in S : <<q, p>> \notin R
  <2> HIDE DEF R
  <2> QED  BY <1>1, WFMin
<1>3. \A q \in S : ~(q < p)
  BY <1>2
<1> QED  BY <1>3

\* The cleanup walk is over.
LEMMA WalkEnds ==
    ASSUME AppInv, UNCHANGED <<plan, source>>, RollbackDone \/ ShutdownDone PROVE AppInv'
<1> USE DEF AppInv
<1>1. /\ at = 0 /\ phase = "Dispose"
      /\ UNCHANGED <<graph, phase, at, pending, reach, primary, failures, observations>>
  BY DEF RollbackDone, ShutdownDone
<1>2. /\ N' = N /\ N \in Nat /\ graph \in Graphs /\ StartsFail' = StartsFail
      /\ \A f : Planned(f)' = Planned(f) /\ Base(f)' = Base(f)
      /\ \A f, n : Passed(f, n)' <=> Passed(f, n)
      /\ \A f, i : Nth(f, i)' = Nth(f, i)
  BY <1>1, ProbeGraph, SameProbes DEF ProbeInv
<1>3. \A f, n : Seen(f, n)' <=> Seen(f, n)
  BY <1>1, <1>2 DEF Seen
<1>4. \A f : Walked(f)' = Walked(f) /\ Met(f)' = Met(f) /\ Blamed(f)' = Blamed(f)
  BY <1>1, SameWalk, SameBlame
<1>5. stage' \in {"Failed", "Stopped"}
  BY DEF RollbackDone, ShutdownDone
<1>6. ProbeInv'
  BY <1>1, <1>5, ProbeKept DEF ProbeInv
<1>7. CASE RollbackDone
  <2>1. stage = "RollingBack" /\ stage' = "Failed"
    BY <1>7 DEF RollbackDone
  <2>2. RollingDown'
    BY <1>1, <1>2, <2>1 DEF RollingDown
  <2> QED  BY <1>6, <2>1, <2>2 DEF GoingUp, ShuttingInv
<1>8. CASE ShutdownDone
  <2>1. stage = "ShuttingDown" /\ stage' = "Stopped" /\ terminal' = <<failures>>
    BY <1>8 DEF ShutdownDone
  <2>2. ShuttingInv'
    BY <1>1, <1>2, <1>3, <1>4, <2>1 DEF ShuttingInv
  <2> QED  BY <1>6, <2>1, <2>2 DEF GoingUp, RollingDown
<1> QED  BY <1>7, <1>8

\* shutdown() is called.
LEMMA ShutdownBegins ==
    ASSUME AppInv, UNCHANGED <<plan, source>>, stage = "Running", CallShutdown PROVE AppInv'
<1> USE DEF AppInv
<1>1. /\ stage' = "ShuttingDown" /\ phase' = "Quiesce" /\ at' = N /\ failures' = << >>
      /\ reach' = [f \in CleanupPhases |-> N]
      /\ UNCHANGED <<graph, pending, primary, terminal, observations>>
  BY DEF CallShutdown, ShutdownReach, CleanupPhases
<1>2. /\ N' = N /\ N \in Nat /\ graph \in Graphs /\ Members' = Members
      /\ \A f : Base(f)' = Base(f)
      /\ \A f, n : Passed(f, n)' <=> Passed(f, n)
      /\ \A f, i : Nth(f, i)' = Nth(f, i)
  BY <1>1, ProbeGraph, SameProbes DEF ProbeInv
<1>3. \A f, n : Seen(f, n)' <=> Seen(f, n)
  BY <1>1, <1>2 DEF Seen
<1>4. /\ Passed("Initialize", N) /\ Passed("Start", N) /\ Seen("Initialize", N) /\ Seen("Start", N)
      /\ Len(observations) = N + N /\ ~pending /\ terminal = << >>
  BY DEF GoingUp
<1>5. \A f \in CleanupPhases : Walked(f)' = 0
  BY <1>1, <1>2 DEF Walked, Rank, CleanupPhases
<1>6. \A f \in CleanupPhases : Seen(f, Walked(f))'
  BY <1>5 DEF Seen
<1>7. \A f \in CleanupPhases : Met(f)' = {}
  BY <1>5 DEF Met
<1>8. \A f : Blamed(f)' = {}
  BY <1>1 DEF Blamed
<1>9. Len(failures') = Cardinality(Met("Quiesce")') + Cardinality(Met("Stop")') + Cardinality(Met("Dispose")')
  <2>1. Len(failures') = 0
    BY <1>1
  <2>2. Met("Quiesce")' = {} /\ Met("Stop")' = {} /\ Met("Dispose")' = {}
    BY <1>7 DEF CleanupPhases
  <2>3. Cardinality(Met("Quiesce")') = 0 /\ Cardinality(Met("Stop")') = 0 /\ Cardinality(Met("Dispose")') = 0
    BY <2>2, FS_EmptySet
  <2> QED  BY <2>1, <2>3
<1>10. Base(phase)' = N + N
  BY <1>1, <1>2 DEF Base
<1>11. ShuttingInv'
  <2>1. Passed("Initialize", N)' /\ Passed("Start", N)' /\ Seen("Initialize", N)' /\ Seen("Start", N)'
    BY <1>2, <1>3, <1>4
  <2>2. Len(observations') = Base(phase)' + (N' - at') /\ at' \in 0..N' /\ ~pending'
    BY <1>1, <1>2, <1>4, <1>10
  <2>3. reach' = [f \in CleanupPhases |-> N'] /\ phase' \in CleanupPhases /\ terminal' = << >>
    BY <1>1, <1>2, <1>4 DEF CleanupPhases
  <2> QED  BY <1>1, <1>6, <1>7, <1>8, <1>9, <2>1, <2>2, <2>3 DEF ShuttingInv
<1>12. ProbeInv'
  BY <1>1, ProbeKept DEF ProbeInv
<1> QED  BY <1>1, <1>11, <1>12 DEF GoingUp, RollingDown

\* verify_graph_attribution passes exactly the applications that are attributed,
\* and then finds as many packages as plugins.
LEMMA AttributionFacts ==
    ASSUME NEW s, DOMAIN s \in SUBSET Nat, IsFiniteSet(DOMAIN s),
           \A p \in DOMAIN s : s[p] = << >> \/ (s[p] = <<s[p][1]>> /\ s[p][1].repository \in BOOLEAN)
    PROVE  LET judged == VerifyGraphAttribution(s)
           IN  /\ judged.tag = "Ok" <=> Attributed(s)
               /\ judged.tag = "Ok" => Cardinality(judged.packages) = Cardinality(DOMAIN s)
               /\ judged.tag \notin {"Unused", "None", "Running"}
<1> DEFINE D == DOMAIN s
           faulty == {p \in D : Fault(s, p) # "None"}
           first == CHOOSE p \in faulty : \A q \in faulty : p <= q
           v == VerifyGraphAttribution(s)
           packages == {s[p][1].package : p \in D}
<1>1. v = IF Cardinality(D) < MINIMUM_VERIFIED_PLUGINS
          THEN [tag |-> "conformance.too-few-plugins", packages |-> {}]
          ELSE IF faulty # {} THEN [tag |-> Fault(s, first), packages |-> {}]
          ELSE [tag |-> "Ok", packages |-> packages]
  BY DEF VerifyGraphAttribution
<1>2. Cardinality(D) \in Nat /\ MINIMUM_VERIFIED_PLUGINS \in Nat
  BY FS_CardinalityType DEF MINIMUM_VERIFIED_PLUGINS
<1>3. \A p : Fault(s, p) \in {"conformance.missing-source", "conformance.duplicate-source-package", "None"}
  BY DEF Fault
<1>4. ASSUME NEW p \in D
      PROVE  /\ ~MissingSource(s, p) <=> Len(s[p]) = 1 /\ s[p][1].repository
             /\ ~MissingSource(s, p) => s[p] = <<s[p][1]>>
  <2>1. CASE s[p] = << >>
    BY <2>1 DEF MissingSource
  <2>2. CASE s[p] = <<s[p][1]>> /\ s[p][1].repository \in BOOLEAN
    <3>1. Len(s[p]) = 1 /\ s[p] # << >>
      <4>1. Len(<<s[p][1]>>) = 1 /\ Len(<< >>) = 0
        OBVIOUS
      <4> QED  BY <2>2, <4>1
    <3> QED  BY <2>2, <3>1 DEF MissingSource
  <2> QED  BY <2>1, <2>2
<1>5. \A p \in D : Fault(s, p) = "None" <=> ~MissingSource(s, p) /\ ~Repeated(s, p)
  BY DEF Fault
<1>6. faulty = {} <=> \A p \in D : ~MissingSource(s, p) /\ ~Repeated(s, p)
  BY <1>5
<1>7. ASSUME \A p \in D : ~MissingSource(s, p)
      PROVE  (\A p \in D : ~Repeated(s, p))
               <=> \A p, q \in D : p # q => s[p][1].package # s[q][1].package
  <2>1. ASSUME \A p \in D : ~Repeated(s, p), NEW p \in D, NEW q \in D, p # q
        PROVE  s[p][1].package # s[q][1].package
    <3>1. p < q \/ q < p
      BY <2>1
    <3> QED  BY <1>7, <2>1, <3>1 DEF Repeated
  <2>2. ASSUME \A p, q \in D : p # q => s[p][1].package # s[q][1].package, NEW p \in D
        PROVE  ~Repeated(s, p)
    <3>1. \A q \in D : q < p => q # p
      OBVIOUS
    <3> QED  BY <2>2, <3>1 DEF Repeated
  <2> QED  BY <2>1, <2>2
<1>8. Attributed(s) <=> Cardinality(D) >= MINIMUM_VERIFIED_PLUGINS /\ faulty = {}
  <2>1. Attributed(s) <=> /\ Cardinality(D) >= MINIMUM_VERIFIED_PLUGINS
                          /\ \A p \in D : ~MissingSource(s, p)
                          /\ \A p, q \in D : p # q => s[p][1].package # s[q][1].package
    BY <1>4 DEF Attributed
  <2> HIDE DEF faulty
  <2> QED  BY <1>6, <1>7, <2>1
<1>9. v.tag = "Ok" <=> Attributed(s)
  <2> HIDE DEF faulty, first, packages
  <2> QED  BY <1>1, <1>2, <1>3, <1>8
<1>10. v.tag \notin {"Unused", "None", "Running"}
  <2>1. ASSUME faulty # {} PROVE Fault(s, first) # "None"
    <3>1. faulty \in SUBSET Nat
      OBVIOUS
    <3> HIDE DEF faulty
    <3>2. \E p \in faulty : \A q \in faulty : p <= q
      BY <2>1, <3>1, LeastIdentity
    <3>3. first \in faulty
      BY <3>2
    <3> QED  BY <3>3 DEF faulty
  <2> HIDE DEF faulty, first, packages
  <2> QED  BY <1>1, <1>3, <2>1
<1>11. ASSUME v.tag = "Ok" PROVE Cardinality(v.packages) = Cardinality(D)
  <2>1. v.packages = packages
    <3> HIDE DEF faulty, first, packages
    <3> QED  BY <1>1, <1>3, <1>11
  <2> DEFINE f == [p \in D |-> s[p][1].package]
  <2>2. \A p, q \in D : p # q => s[p][1].package # s[q][1].package
    BY <1>9, <1>11 DEF Attributed
  <2>3. f \in Surjection(D, packages)
    BY DEF Surjection
  <2>4. f \in Injection(D, packages)
    BY <2>2 DEF Injection, IsInjective
  <2> HIDE DEF f, packages
  <2>5. Cardinality(packages) = Cardinality(D)
    BY <2>3, <2>4, FS_Surjection
  <2> QED  BY <2>1, <2>5
<1> QED  BY <1>9, <1>10, <1>11

\* The attribution of a probe application is judged right.
LEMMA ProbeAttribution ==
    ASSUME ProbeInv
    PROVE  LET judged == VerifyGraphAttribution(source)
           IN  /\ judged.tag = "Ok" <=> Attributed(source)
               /\ judged.tag = "Ok" => Cardinality(judged.packages) = Cardinality(Members)
               /\ judged.tag \notin {"Unused", "None", "Running"}
<1>1. Members \subseteq Plugins /\ IsFiniteSet(Members)
  BY ProbeGraph DEF ProbeInv
<1>2. DOMAIN source = Members /\ DOMAIN source \in SUBSET Nat /\ IsFiniteSet(DOMAIN source)
  BY <1>1, AttributionsAssumption DEF ProbeInv
<1>3. \A p \in DOMAIN source :
         source[p] = << >> \/ (source[p] = <<source[p][1]>> /\ source[p][1].repository \in BOOLEAN)
  BY <1>2 DEF ProbeInv
<1> QED  BY <1>2, <1>3, AttributionFacts

\* verify_application is called.
LEMMA VerifyStep == ConformanceInv /\ VerifyApplication => ConformanceInv'
<1> SUFFICES ASSUME ConformanceInv, VerifyApplication PROVE ConformanceInv'
  OBVIOUS
<1> DEFINE judged == VerifyGraphAttribution(source)
<1>1. AppInv /\ ProbeInv /\ OracleInv
  BY DEF ConformanceInv, AppInv
<1>2. /\ judged.tag = "Ok" <=> Attributed(source)
      /\ judged.tag = "Ok" => Cardinality(judged.packages) = Cardinality(Members)
      /\ judged.tag \notin {"Unused", "None", "Running"}
  BY <1>1, ProbeAttribution
<1>3. UNCHANGED <<plan, source>> /\ stage = "Resolved" /\ observations = << >>
  BY <1>1 DEF VerifyApplication, OracleInv, AppInv, GoingUp
<1>4. /\ judged.tag = "Ok" => oracle' = [tag |-> "Running", packages |-> judged.packages] /\ CallStart
      /\ judged.tag # "Ok" => oracle' = [tag |-> judged.tag] /\ UNCHANGED vars
  BY DEF VerifyApplication
<1> HIDE DEF judged
<1>5. CASE judged.tag = "Ok"
  <2>1. /\ stage' = "Initializing"
        /\ UNCHANGED <<graph, phase, at, pending, reach, primary, failures, terminal, observations>>
    BY <1>4, <1>5 DEF CallStart
  <2>2. N' = N /\ N \in Nat /\ Members' = Members
    BY <1>1, <2>1, <1>3, ProbeGraph, SameProbes DEF ProbeInv
  <2>3. ProbeInv'
    BY <1>1, <1>3, <2>1, ProbeKept DEF ProbeInv
  <2>4. GoingUp'
    <3>1. phase' = "Initialize" /\ at' = 1 /\ ~pending' /\ observations' = << >> /\ failures' = << >> /\ terminal' = << >>
      BY <1>1, <1>3, <2>1 DEF AppInv, GoingUp
    <3>2. at' - 1 = 0 /\ at' \in 1..(N' + 1) /\ Len(observations') = at' - 1
      BY <2>2, <3>1
    <3>3. Passed("Initialize", at - 1)' /\ Seen("Initialize", at - 1)'
      BY <3>2 DEF Passed, Seen
    <3> QED  BY <2>1, <3>1, <3>2, <3>3 DEF GoingUp
  <2>5. oracle'.tag = "Running" /\ oracle'.packages = judged.packages
    BY <1>4, <1>5
  <2>6. OracleInv'
    BY <1>2, <1>3, <1>5, <2>2, <2>5 DEF OracleInv, OracleIsRight, Judged
  <2> QED  BY <2>1, <2>3, <2>4, <2>6 DEF ConformanceInv, RollingDown, ShuttingInv
<1>6. CASE judged.tag # "Ok"
  <2>1. UNCHANGED vars /\ oracle' = [tag |-> judged.tag]
    BY <1>4, <1>6
  <2>2. UNCHANGED <<graph, stage, phase, at, pending, reach, primary, failures, terminal, observations>>
    BY <2>1 DEF vars
  <2>3. AppInv'
    BY <1>1, <1>3, <2>2, StandingStep
  <2>4. oracle'.tag = judged.tag /\ ~Attributed(source)
    BY <1>2, <1>6, <2>1
  <2>5. OracleInv'
    <3>1. OracleIsRight'
      BY <1>2, <1>3, <1>6, <2>2, <2>4 DEF OracleIsRight, Snapshot, judged
    <3> QED  BY <1>2, <2>4, <3>1 DEF OracleInv
  <2> QED  BY <2>3, <2>5 DEF ConformanceInv, AppInv
<1> QED  BY <1>5, <1>6

\* A hook of a probe returns.
LEMMA ProbeStep ==
    ASSUME AppInv, UNCHANGED <<plan, source>>, ProbeHookReturns PROVE AppInv'
<1>1. pending /\ Injected = plan[Current][phase]
  BY DEF ProbeHookReturns, Injected
<1>2. CASE Injected = << >>
  <2>1. InitializeOk(NoProvisions) \/ CommitRefused(NoProvisions) \/ StartOk \/ CleanupOk
    BY <1>2 DEF ProbeHookReturns
  <2>2. CASE CleanupOk
    <3>1. stage \in {"RollingBack", "ShuttingDown"}
      BY <2>2 DEF CleanupOk, Cleaning
    <3> QED  BY <1>1, <1>2, <2>2, <3>1, RollbackHook, ShutdownHookOk
  <2> QED  BY <1>1, <1>2, <2>1, <2>2, InitializeOkStep, StartOkStep, StartupFails
<1>3. CASE Injected # << >>
  <2>1. PICK tag : InitializeErr(tag) \/ StartErr(tag) \/ CleanupErr(tag)
    BY <1>3 DEF ProbeHookReturns
  <2>2. CASE CleanupErr(tag)
    <3>1. stage \in {"RollingBack", "ShuttingDown"}
      BY <2>2 DEF CleanupErr, Cleaning
    <3> QED  BY <1>1, <1>3, <2>2, <3>1, RollbackHook, ShutdownHookErr
  <2>3. CASE InitializeErr(tag) \/ StartErr(tag)
    BY <1>1, <1>3, <2>3, StartupFails
  <2> QED  BY <2>1, <2>2, <2>3
<1> QED  BY <1>2, <1>3

\* A step of the executor while the oracle runs.
LEMMA ExecutorAppStep == AppInv /\ ExecutorStep => AppInv'
<1> SUFFICES ASSUME AppInv, ExecutorStep PROVE AppInv'
  OBVIOUS
<1>1. UNCHANGED <<plan, source>>
  BY DEF ExecutorStep, oracleVars
<1>2. CASE CallInitialize \/ CallStartHook \/ CallCleanup
  <2>1. /\ UNCHANGED <<graph, stage, phase, at, reach, primary, failures, terminal, observations>>
        /\ pending' = TRUE
    BY <1>2 DEF CallInitialize, CallStartHook, CallCleanup, CallHook
  <2>2. /\ stage \in {"Initializing", "Starting", "RollingBack", "ShuttingDown"}
        /\ stage \in {"Initializing", "Starting"} => at <= N
        /\ at > 0
    BY <1>2 DEF CallInitialize, CallStartHook, CallCleanup, Cleaning, AppInv, GoingUp
  <2> QED  BY <1>1, <2>1, <2>2, StandingStep
<1> QED
  BY <1>1, <1>2, StartupPhaseStep, NextPhaseStep, WalkEnds, ProbeStep DEF ExecutorStep

\* start() has failed.
LEMMA StartFailedStep == ConformanceInv /\ StartFailed => ConformanceInv'
<1> SUFFICES ASSUME ConformanceInv, StartFailed PROVE ConformanceInv'
  OBVIOUS
<1>1. /\ AppInv /\ OracleInv /\ RollingDown /\ Attributed(source) /\ stage = "Failed"
      /\ UNCHANGED <<plan, source>> /\ UNCHANGED vars
      /\ oracle' = [tag |-> "conformance.lifecycle-failed", primary |-> primary[1], failures |-> failures]
  BY DEF ConformanceInv, AppInv, OracleInv, StartFailed
<1>2. UNCHANGED <<graph, stage, phase, at, pending, reach, primary, failures, terminal, observations>>
  BY <1>1 DEF vars
<1>3. AppInv'
  BY <1>1, <1>2, StandingStep
<1>4. StartsFail' = StartsFail /\ \A f : Planned(f)' = Planned(f)
  BY <1>1, <1>2, SameProbes
<1>5. /\ oracle'.tag = "conformance.lifecycle-failed" /\ oracle'.primary = primary[1]
      /\ oracle'.failures = failures
  BY <1>1
<1>6. /\ primary[1].plugin \in StartsFail
      /\ \A i \in 1..Len(failures) : failures[i].plugin \in Planned(failures[i].phase)
  BY <1>1 DEF RollingDown
<1>7. OracleIsRight'
  BY <1>1, <1>2, <1>4, <1>5, <1>6 DEF OracleIsRight
<1>8. OracleInv'
  BY <1>5, <1>7 DEF OracleInv
<1> QED  BY <1>3, <1>8 DEF ConformanceInv, AppInv

\* What the oracle reads once shutdown() has returned.
LEMMA StoppedFacts ==
    ASSUME AppInv, stage = "Stopped"
    PROVE  /\ graph \in Graphs /\ StartsFail = {} /\ terminal = <<failures>>
           /\ failures \in Seq(FailureRecord)
           /\ \A f \in CleanupPhases : Planned(f) = Blamed(f)
           /\ Len(failures) = Cardinality(Planned("Quiesce")) + Cardinality(Planned("Stop"))
                              + Cardinality(Planned("Dispose"))
           /\ failures = << >> <=> \A f \in CleanupPhases : Planned(f) = {}
           /\ Len(observations) = 5 * N
           /\ \A f \in Phases : Seen(f, N)
<1>1. /\ graph \in Graphs /\ failures \in Seq(FailureRecord) /\ N \in Nat
      /\ phase = "Dispose" /\ at = 0 /\ terminal = <<failures>>
  BY ProbeGraph DEF AppInv, ProbeInv, ShuttingInv
<1>2. StartsFail = {}
  BY <1>1, AllPassed DEF AppInv, ShuttingInv
<1>3. \A f \in CleanupPhases : Walked(f) = N
  BY <1>1 DEF Walked, Rank, CleanupPhases
<1>4. ASSUME NEW f \in CleanupPhases PROVE Met(f) = Planned(f)
  <2>1. \A p \in Members : \E i \in 1..N : p = Nth(f, i)
    BY <1>1, ProbeGraph
  <2> QED  BY <1>3, <2>1 DEF Met, Planned
<1>5. \A f \in CleanupPhases : Planned(f) = Blamed(f)
  BY <1>4 DEF AppInv, ShuttingInv
<1>6. Met("Quiesce") = Planned("Quiesce") /\ Met("Stop") = Planned("Stop") /\ Met("Dispose") = Planned("Dispose")
  BY <1>4 DEF CleanupPhases
<1>7. Len(failures) = Cardinality(Planned("Quiesce")) + Cardinality(Planned("Stop"))
                      + Cardinality(Planned("Dispose"))
  BY <1>6 DEF AppInv, ShuttingInv
<1>8. failures = << >> <=> \A f \in CleanupPhases : Planned(f) = {}
  <2>1. ASSUME failures = << >>, NEW f \in CleanupPhases PROVE Planned(f) = {}
    BY <1>5, <2>1 DEF Blamed
  <2>2. ASSUME \A f \in CleanupPhases : Planned(f) = {} PROVE failures = << >>
    <3>1. Planned("Quiesce") = {} /\ Planned("Stop") = {} /\ Planned("Dispose") = {}
      BY <2>2 DEF CleanupPhases
    <3>2. Len(failures) = 0
      <4>1. Cardinality(Planned("Quiesce")) = 0 /\ Cardinality(Planned("Stop")) = 0
            /\ Cardinality(Planned("Dispose")) = 0
        BY <3>1, FS_EmptySet
      <4> QED  BY <1>7, <4>1
    <3> QED  BY <1>1, <3>2, EmptySeq
  <2> QED  BY <2>1, <2>2
<1>9. Len(observations) = 5 * N
  <2>1. Len(observations) = Base(phase) + (N - at)
    BY DEF AppInv, ShuttingInv
  <2>2. Base(phase) = N + N + N + N
    BY <1>1 DEF Base
  <2> QED  BY <1>1, <2>1, <2>2
<1>10. \A f \in CleanupPhases : Seen(f, N)
  BY <1>3 DEF AppInv, ShuttingInv
<1>11. \A f \in StartupPhases : Seen(f, N)
  BY DEF AppInv, ShuttingInv, StartupPhases
<1> QED  BY <1>1, <1>2, <1>5, <1>7, <1>8, <1>9, <1>10, <1>11 DEF Phases

\* One observation of a run without failures.
LEMMA CleanObservation ==
    ASSUME AppInv, stage = "Stopped", NEW f \in Phases, Planned(f) = {}, NEW i \in 1..N
    PROVE  observations[Base(f) + i] =
             [phase |-> f, plugin |-> Nth(f, i), outcome |-> "Succeeded"]
<1>1. /\ graph \in Graphs /\ N \in Nat /\ Seen(f, N) /\ Len(observations) = 5 * N
      /\ observations \in Seq(Observation)
  BY StoppedFacts, ProbeGraph DEF AppInv, ProbeInv
<1>2. plan[Nth(f, i)][f] = << >>
  BY <1>1, ProbeGraph DEF Planned
<1>3. Base(f) + i \in 1..Len(observations)
  BY <1>1 DEF Base, Phases, StartupPhases, CleanupPhases
<1>4. observations[Base(f) + i] \in Observation
  <2> HIDE DEF Base
  <2> QED  BY <1>1, <1>3
<1>5. LET o == observations[Base(f) + i]
      IN  o.phase = f /\ o.plugin = Nth(f, i) /\ o.outcome = "Succeeded"
  BY <1>1, <1>2 DEF Seen
<1> QED  BY <1>4, <1>5 DEF Observation

\* The k-th phase of a run, where it starts and in which order it goes.
LEMMA PhaseFacts ==
    ASSUME graph \in Graphs, NEW k \in 1..5, NEW i \in 1..N
    PROVE  /\ PhaseOrder[k] \in Phases
           /\ Base(PhaseOrder[k]) = (k - 1) * N
           /\ Nth(PhaseOrder[k], i) = IF k <= 2 THEN graph.order[i] ELSE graph.order[N + 1 - i]
<1>1. N \in Nat
  BY ProbeGraph
<1>2. k = 1 \/ k = 2 \/ k = 3 \/ k = 4 \/ k = 5
  OBVIOUS
<1>3. CASE k = 1
  BY <1>1, <1>3 DEF PhaseOrder, Phases, StartupPhases, CleanupPhases, Base, Nth
<1>4. CASE k = 2
  BY <1>1, <1>4 DEF PhaseOrder, Phases, StartupPhases, CleanupPhases, Base, Nth
<1>5. CASE k = 3
  BY <1>1, <1>5 DEF PhaseOrder, Phases, StartupPhases, CleanupPhases, Base, Nth
<1>6. CASE k = 4
  BY <1>1, <1>6 DEF PhaseOrder, Phases, StartupPhases, CleanupPhases, Base, Nth
<1>7. CASE k = 5
  BY <1>1, <1>7 DEF PhaseOrder, Phases, StartupPhases, CleanupPhases, Base, Nth
<1> QED  BY <1>2, <1>3, <1>4, <1>5, <1>6, <1>7

\* shutdown() has returned its report.
LEMMA ShutdownReturnedStep == ConformanceInv /\ ShutdownReturned => ConformanceInv'
<1> SUFFICES ASSUME ConformanceInv, ShutdownReturned PROVE ConformanceInv'
  OBVIOUS
<1>1. /\ AppInv /\ OracleInv /\ Attributed(source) /\ stage = "Stopped"
      /\ Cardinality(oracle.packages) = Cardinality(Members)
      /\ UNCHANGED <<plan, source>> /\ UNCHANGED vars
  BY DEF ConformanceInv, AppInv, OracleInv, ShutdownReturned
<1>2. UNCHANGED <<graph, stage, phase, at, pending, reach, primary, failures, terminal, observations>>
  BY <1>1 DEF vars
<1>3. AppInv'
  BY <1>1, <1>2, StandingStep
<1>4. /\ N' = N /\ Members' = Members /\ StartsFail' = StartsFail
      /\ \A f : Planned(f)' = Planned(f)
  BY <1>1, <1>2, SameProbes
<1>5. /\ graph \in Graphs /\ StartsFail = {} /\ terminal = <<failures>>
      /\ failures \in Seq(FailureRecord)
      /\ \A f \in CleanupPhases : Planned(f) = Blamed(f)
      /\ Len(failures) = Cardinality(Planned("Quiesce")) + Cardinality(Planned("Stop"))
                         + Cardinality(Planned("Dispose"))
      /\ failures = << >> <=> \A f \in CleanupPhases : Planned(f) = {}
      /\ Len(observations) = 5 * N
  BY <1>1, StoppedFacts
<1>6. IsClean(terminal[1]) <=> failures = << >>
  <2>1. terminal[1] = failures
    BY <1>5
  <2> QED  BY <2>1 DEF IsClean
<1>7. CASE failures = << >>
  <2>1. oracle' = [tag |-> "Ok", plugin_count |-> Cardinality(Members),
                   source_packages |-> oracle.packages, startup |-> graph.order,
                   teardown |-> [i \in 1..N |-> graph.order[N + 1 - i]]]
    BY <1>6, <1>7 DEF ShutdownReturned
  <2>2. /\ oracle'.tag = "Ok" /\ oracle'.plugin_count = Cardinality(Members)
        /\ oracle'.source_packages = oracle.packages /\ oracle'.startup = graph.order
        /\ \A i \in 1..N : oracle'.teardown[i] = graph.order[N + 1 - i]
    BY <2>1
  <2>3. \A f \in Phases : Planned(f) = {}
    BY <1>5, <1>7 DEF Phases, StartupPhases, StartsFail
  <2>4. ASSUME NEW k \in 1..5, NEW i \in 1..N
        PROVE  observations[(k - 1) * N + i] =
                 [phase |-> PhaseOrder[k],
                  plugin |-> (IF k <= 2 THEN oracle'.startup ELSE oracle'.teardown)[i],
                  outcome |-> "Succeeded"]
    <3>1. /\ PhaseOrder[k] \in Phases /\ Base(PhaseOrder[k]) = (k - 1) * N
          /\ Nth(PhaseOrder[k], i) = IF k <= 2 THEN graph.order[i] ELSE graph.order[N + 1 - i]
      BY <1>5, PhaseFacts
    <3>2. observations[Base(PhaseOrder[k]) + i] =
            [phase |-> PhaseOrder[k], plugin |-> Nth(PhaseOrder[k], i), outcome |-> "Succeeded"]
      BY <1>1, <2>3, <3>1, CleanObservation
    <3>3. Nth(PhaseOrder[k], i) = (IF k <= 2 THEN oracle'.startup ELSE oracle'.teardown)[i]
      BY <2>2, <3>1
    <3> QED  BY <3>1, <3>2, <3>3
  <2>5. ~(\E f \in CleanupPhases : Planned(f)' # {}) /\ StartsFail' = {} /\ Attributed(source')
    BY <1>1, <1>4, <1>5, <1>7
  <2>6. /\ Cardinality(oracle'.source_packages) = oracle'.plugin_count
        /\ Len(Snapshot') = 5 * N'
    BY <1>1, <1>2, <1>4, <1>5, <2>2 DEF Snapshot
  <2>7. \A k \in 1..5, i \in 1..N' :
           Snapshot'[(k - 1) * N' + i] =
             [phase |-> PhaseOrder[k],
              plugin |-> (IF k <= 2 THEN oracle'.startup ELSE oracle'.teardown)[i],
              outcome |-> "Succeeded"]
    BY <1>2, <1>4, <2>4 DEF Snapshot
  <2>8. OracleIsRight'
    BY <2>2, <2>5, <2>6, <2>7 DEF OracleIsRight
  <2> QED  BY <1>3, <2>2, <2>8 DEF ConformanceInv, AppInv, OracleInv
<1>8. CASE failures # << >>
  <2>1. oracle' = [tag |-> "conformance.shutdown-failed", failures |-> terminal[1]]
    BY <1>6, <1>8 DEF ShutdownReturned
  <2>2. oracle'.tag = "conformance.shutdown-failed" /\ oracle'.failures = failures
    BY <1>5, <2>1
  <2>3. (\E f \in CleanupPhases : Planned(f)' # {}) /\ StartsFail' = {} /\ Attributed(source')
    BY <1>1, <1>4, <1>5, <1>8
  <2>4. \A f \in CleanupPhases : Planned(f)' =
           {oracle'.failures[i].plugin :
              i \in {j \in 1..Len(oracle'.failures) : oracle'.failures[j].phase = f}}
    BY <1>4, <1>5, <2>2 DEF Blamed
  <2>5. Len(oracle'.failures) = Cardinality(Planned("Quiesce")') + Cardinality(Planned("Stop")')
                                + Cardinality(Planned("Dispose")')
    BY <1>4, <1>5, <2>2
  <2>6. OracleIsRight'
    BY <2>2, <2>3, <2>4, <2>5 DEF OracleIsRight
  <2> QED  BY <1>3, <2>2, <2>6 DEF ConformanceInv, AppInv, OracleInv
<1> QED  BY <1>7, <1>8

\* A verdict stands.
LEMMA StandingVerdict ==
    ConformanceInv /\ UNCHANGED <<vars, oracleVars>> => ConformanceInv'
<1> SUFFICES ASSUME ConformanceInv, UNCHANGED <<vars, oracleVars>> PROVE ConformanceInv'
  OBVIOUS
<1>1. /\ UNCHANGED <<graph, stage, phase, at, pending, reach, primary, failures, terminal, observations>>
      /\ UNCHANGED <<plan, source, oracle>>
  BY DEF vars, oracleVars
<1>2. AppInv'
  BY <1>1, StandingStep DEF ConformanceInv, AppInv
<1>3. /\ N' = N /\ Members' = Members /\ StartsFail' = StartsFail
      /\ \A f : Planned(f)' = Planned(f)
  BY <1>1, SameProbes
<1>4. OracleIsRight'
  BY <1>1, <1>3 DEF ConformanceInv, OracleInv, OracleIsRight, Judged, Snapshot
<1>5. OracleInv'
  BY <1>1, <1>3, <1>4 DEF ConformanceInv, OracleInv
<1> QED  BY <1>2, <1>5 DEF ConformanceInv, AppInv

\* Every step of verify_application keeps the invariant.
LEMMA ConformanceStep == ConformanceInv /\ [ConformanceNext]_<<vars, oracleVars>> => ConformanceInv'
<1> SUFFICES ASSUME ConformanceInv, [ConformanceNext]_<<vars, oracleVars>> PROVE ConformanceInv'
  OBVIOUS
<1>1. AppInv /\ OracleInv
  BY DEF ConformanceInv, AppInv
<1>2. CASE ExecutorStep
  <2>1. AppInv'
    BY <1>1, <1>2, ExecutorAppStep
  <2>2. oracle.tag = "Running" /\ UNCHANGED oracleVars
    BY <1>2 DEF ExecutorStep
  <2>3. UNCHANGED graph
    <3>1. CASE ProbeHookReturns
      <4>1. \/ InitializeOk(NoProvisions) \/ CommitRefused(NoProvisions) \/ StartOk \/ CleanupOk
            \/ \E tag : InitializeErr(tag) \/ StartErr(tag) \/ CleanupErr(tag)
        BY <3>1 DEF ProbeHookReturns
      <4> QED  BY <4>1 DEF InitializeOk, CommitRefused, StartOk, CleanupOk, InitializeErr, StartErr,
                           CleanupErr, RollbackInitialize
    <3>2. CASE ~ProbeHookReturns
      BY <1>2, <3>2 DEF ExecutorStep, CallInitialize, CallStartHook, CallCleanup, CallHook,
                        InitializeAllDone, StartAllDone, NextCleanupPhase, RollbackDone, ShutdownDone
    <3> QED  BY <3>1, <3>2
  <2>4. OracleInv'
    BY <1>1, <2>2, <2>3, OracleRuns
  <2> QED  BY <2>1, <2>4 DEF ConformanceInv, AppInv
<1>3. CASE ThenShutdown
  <2>1. /\ oracle.tag = "Running" /\ stage = "Running" /\ CallShutdown
        /\ UNCHANGED oracleVars /\ UNCHANGED graph
    BY <1>3 DEF ThenShutdown, CallShutdown
  <2>2. AppInv'
    BY <1>1, <2>1, ShutdownBegins DEF oracleVars
  <2>3. OracleInv'
    BY <1>1, <2>1, OracleRuns
  <2> QED  BY <2>2, <2>3 DEF ConformanceInv, AppInv
<1>4. CASE ConformanceDone
  BY <1>4, StandingVerdict DEF ConformanceDone
<1> QED  BY <1>2, <1>3, <1>4, VerifyStep, StartFailedStep, ShutdownReturnedStep, StandingVerdict
         DEF ConformanceNext

\* The verdict of verify_application follows from the attribution, the offers and
\* the failure plan of the application it ran: no hook runs before attribution is
\* settled, a lifecycle failure names a plugin that was to fail, a shutdown
\* failure counts each planned cleanup failure once, and success comes with the
\* recorded five phases in the reported orders.
THEOREM OracleJudgesRight == ConformanceSpec => []OracleIsRight
<1>1. ConformanceInit => ConformanceInv
  <2> SUFFICES ASSUME ConformanceInit PROVE ConformanceInv
    OBVIOUS
  <2>1. /\ graph \in Graphs /\ stage = "Resolved" /\ phase = "Initialize" /\ at = 1 /\ pending = FALSE
        /\ failures = << >> /\ terminal = << >> /\ observations = << >> /\ oracle.tag = "None"
    BY DEF ConformanceInit, Init
  <2>2. PICK f \in Attributions : source = [p \in Members |-> f[p]]
    BY DEF ConformanceInit
  <2>3. Members \subseteq Plugins
    BY <2>1, ProbeGraph
  <2>4. ASSUME NEW p \in Members
        PROVE  source[p] = << >> \/ (source[p] = <<source[p][1]>> /\ source[p][1].repository \in BOOLEAN)
    BY <2>2, <2>3, AttributionsAssumption
  <2>5. ProbeInv
    <3>1. DOMAIN source = Members
      BY <2>2
    <3>2. failures \in Seq(FailureRecord) /\ observations \in Seq(Observation)
      BY <2>1
    <3>3. pending \in BOOLEAN
      BY <2>1
    <3> QED  BY <2>1, <2>4, <3>1, <3>2, <3>3 DEF ProbeInv
  <2>6. OracleInv
    BY <2>1 DEF OracleInv, OracleIsRight, Judged
  <2> QED  BY <2>1, <2>5, <2>6 DEF ConformanceInv, GoingUp, RollingDown, ShuttingInv
<1>2. ConformanceInv => OracleIsRight
  BY DEF ConformanceInv, OracleInv
<1> QED  BY <1>1, <1>2, ConformanceStep, PTL DEF ConformanceSpec
=============================================================================
