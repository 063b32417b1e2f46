---------------------------- MODULE MCOperations ----------------------------
(***************************************************************************)
(* The fleet of MCDeploy between deploys: day-2 commands on a job that is   *)
(* edited and removed; and a dry run before every deploy of a job that is   *)
(* edited and drained. The two are explored one at a time.                  *)
(***************************************************************************)
EXTENDS Operations, MCDeploy

VARIABLES
  scenario,  \* what the fleet is used for
  plan

(* No filter, or the first worker. *)
AllOrFirst == {{}, {"w1"}}

D == INSTANCE DryRun WITH
  Workspaces <- DrainWorkspaces, Faults <- StagingAndHealth, MaxCommands <- 6

-----------------------------------------------------------------------------
(* What is not in use stays in an initial state. *)
MCInit ==
  /\ scenario \in {"operations", "dry run"}
  /\ OpInit
  /\ D!DryInit

MCNext ==
  \/ /\ scenario = "operations" /\ OpNext
     /\ UNCHANGED <<scenario, plan>>
  \/ /\ scenario = "dry run" /\ D!DryNext
     /\ UNCHANGED <<scenario, opVars>>

MCSpec == MCInit /\ [][MCNext]_<<scenario, vars, opVars, plan>>

-----------------------------------------------------------------------------
(* Properties. *)

(* A deploy without failures leaves every active allocation of its jobs     *)
(* running the built tree and nothing of the others, whatever was drained,  *)
(* removed, started, stopped and forgotten before, but for what an operator *)
(* stopped or started by hand and what gc took too early (deployBucket).    *)
CleanRunConverges ==
  /\ scenario = "operations" => CleanRunStartsForgotten /\ CleanRunStopsAllButRevived
  /\ scenario = "dry run" => D!CleanRunRunsPlan /\ D!CleanRunStopsTheRest

(* What a dry run prints is what the deploy does: a lifecycle command runs  *)
(* for an allocation of the catalog only if the dry run announced it        *)
(* (PlanJobRollout).                                                        *)
Announced ==
  [][scenario = "dry run" => D!Announced]_<<scenario, vars, opVars, plan>>

=============================================================================
