------------------------- MODULE LifecycleRefinement ------------------------
(* The executor of Lifecycle read as the documented state machine of        *)
(* LifecycleContract.                                                       *)
EXTENDS Lifecycle

AppState ==
    CASE stage = "Resolved" -> "resolved"
      [] stage = "Initializing" -> "initializing"
      [] stage = "Starting" -> "starting"
      [] stage = "Running" -> "ready"
      [] stage = "RollingBack" -> "rolling-back"
      [] stage = "Failed" -> "disposed-with-failure"
      [] stage \in {"ShuttingDown", "Interrupted"} -> "closing"
      [] stage = "Stopped" -> "disposed"
      [] stage = "Dropped" -> "dropped"

Needs == {<<e.consumer, e.provider>> : e \in graph.edges}

Contracted == INSTANCE LifecycleContract WITH
    members <- Members,
    needs <- Needs,
    app <- AppState,
    hook <- last

\* Until a shutdown() future is dropped, each step is one the contract allows.
ContractSteps ==
    /\ Contracted!CInit
    /\ [][cancels' = 0 => Contracted!CNext]_Contracted!cvars

\* Until a shutdown() future is dropped, the executor implements the documented
\* lifecycle: hooks obey the dependencies and phase barriers, only documented
\* transitions occur, and start() and shutdown() are carried through.
ImplementsContract ==
    /\ ContractSteps
    /\ Contracted!CarriedThrough \/ <>(cancels > 0)

\* The documented order "ready -> quiescing -> stopping -> disposed" read as a
\* step property, for the runs in which shutdown() is repeated after its future
\* was dropped.
DocumentedSteps == Contracted!CInit /\ [][Contracted!CNext]_Contracted!cvars
=============================================================================
