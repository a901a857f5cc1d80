-------------------------- MODULE LifecycleContract -------------------------
(***************************************************************************)
(* What the runtime promises of an application's lifecycle, without an     *)
(* executor: the state machine of the runtime contract                     *)
(*                                                                         *)
(*   resolved -> initializing -> starting -> ready -> closing -> disposed  *)
(*   initializing|starting -> rolling-back -> disposed-with-failure        *)
(*                                                                         *)
(* and, for each plugin, the hook it was last called with.  Hooks are      *)
(* constrained by the dependency relation alone: there is no startup order *)
(* here.  The documented quiescing and stopping states are the barriers    *)
(* between the hooks of the closing application.                           *)
(***************************************************************************)
CONSTANT Plugins

VARIABLES
    members,   \* the plugins of the application; constant after Init
    needs,     \* <<consumer, provider>> pairs; constant after Init
    app,       \* state of the application
    hook       \* the hook each plugin was last called with

cvars == <<members, needs, app, hook>>

Hooks == {"None", "Initialize", "Start", "Quiesce", "Stop", "Dispose"}
Final == {"disposed", "disposed-with-failure", "dropped"}

CInit ==
    /\ members \subseteq Plugins
    /\ needs \subseteq members \X members
    /\ app = "resolved"
    /\ hook = [p \in Plugins |-> "None"]

Providers(p) == {q \in members : <<p, q>> \in needs}
Consumers(p) == {q \in members : <<q, p>> \in needs}
At(hs) == {p \in members : hook[p] \in hs}

Move(from, to) == app = from /\ app' = to /\ UNCHANGED <<members, needs, hook>>

Run(p, h) == hook' = [hook EXCEPT ![p] = h] /\ UNCHANGED <<members, needs, app>>

\* A plugin comes up after the plugins it depends on, one phase at a time.
Initialize(p) ==
    /\ app = "initializing" /\ hook[p] = "None"
    /\ Providers(p) \subseteq At({"Initialize"})
    /\ Run(p, "Initialize")

Start(p) ==
    /\ app = "starting" /\ hook[p] = "Initialize"
    /\ Providers(p) \subseteq At({"Start"})
    /\ Run(p, "Start")

\* A plugin goes down before the plugins it depends on; nothing is stopped
\* while something is not quiesced, nor disposed while something is not stopped.
Closing == app \in {"closing", "rolling-back"}

Quiesce(p) ==
    /\ Closing /\ hook[p] = "Start"
    /\ Consumers(p) \cap At({"Start"}) = {}
    /\ Run(p, "Quiesce")

Stop(p) ==
    /\ Closing /\ hook[p] = "Quiesce"
    /\ At({"Start"}) = {} /\ Consumers(p) \cap At({"Quiesce"}) = {}
    /\ Run(p, "Stop")

Dispose(p) ==
    /\ Closing /\ hook[p] \in {"Initialize", "Stop"}
    /\ At({"Start", "Quiesce"}) = {}
    /\ Consumers(p) \subseteq At({"None", "Dispose"})
    /\ Run(p, "Dispose")

\* Cleanup is over only when whatever was called has been disposed.
Finish(from, to) == At(Hooks \ {"None", "Dispose"}) = {} /\ Move(from, to)

Progress ==
    \/ \E p \in members :
         Initialize(p) \/ Start(p) \/ Quiesce(p) \/ Stop(p) \/ Dispose(p)
    \/ At({"Initialize"}) = members /\ Move("initializing", "starting")
    \/ At({"Start"}) = members /\ Move("starting", "ready")
    \/ Move("initializing", "rolling-back")
    \/ Move("starting", "rolling-back")
    \/ Finish("closing", "disposed")
    \/ Finish("rolling-back", "disposed-with-failure")

\* The application's owner boots it, closes it, or lets go of it.
Owner ==
    \/ Move("resolved", "initializing")
    \/ Move("ready", "closing")
    \/ \E from \in {"resolved", "initializing", "starting", "ready", "closing", "rolling-back"} :
         Move(from, "dropped")

CNext == Progress \/ Owner

\* Whatever was begun is carried through unless the owner lets go of it.
CarriedThrough == WF_cvars(Progress)

CSpec == CInit /\ [][CNext]_cvars /\ CarriedThrough
=============================================================================
