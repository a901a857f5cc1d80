-------------------------- MODULE ResolverCallers ---------------------------
(***************************************************************************)
(* The two programs that resolve a composition: an application, through    *)
(* AppBuilder::resolve and on into initialization, and cargo kernox.  They *)
(* share the resolver and no state; a behaviour is a run of one of them.   *)
(***************************************************************************)
EXTENDS CapabilityAccess, CargoKernox

InApp == cli = "None"
InCli == boot = "None"

AppRunInit ==
    /\ AccessInit
    /\ command = "None" /\ file = "None" /\ cli = "None"
    /\ exit = 0 /\ output = [tag |-> "None"]

CliRunInit ==
    /\ CliInit
    /\ boot = "None" /\ turn = 1 /\ registry = Empty /\ access = << >>
    /\ app = "None" /\ plugin = 1 /\ index = 1 /\ supplied = Empty /\ instances = Empty
    /\ answer = "Pending"

AppRun == InApp /\ AccessNext /\ UNCHANGED cliVars
CliRun == InCli /\ CliNext /\ UNCHANGED <<appVars, accessVars>>

CallersNext == AppRun \/ CliRun
=============================================================================
