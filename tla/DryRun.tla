------------------------------- MODULE DryRun -------------------------------
(***************************************************************************)
(* kive deploy --dry-run, and the preview that deploy --build makes.  Both *)
(* stage the jobs and work out, per allocation, what a deploy with the     *)
(* same options would do, by code of their own; the dry run rolls its      *)
(* transaction back, the preview commits the plan hashes.                  *)
(*                                                                         *)
(* Here a dry run precedes every deploy, and its plan is kept while the    *)
(* deploy runs, so that the two can be compared.                           *)
(***************************************************************************)
EXTENDS Deploy

VARIABLE plan   \* [Allocs -> what the dry run announced; "none" if nothing]

NoPlan == [a \in Allocs |-> "none"]

DryInit == Init /\ plan = NoPlan

(* Mutant: the update policy is not consulted. *)
PlanActiveRestarts(c, a, f) ==
  CASE ~HasHashRow(c, a) \/ ~AllocationWasDeployed(c, a) -> "start"
    [] AllocationWasDeployed(c, a) /\ (HashPending(c, a) \/ f \/ VersionPending(c, a)) -> "restart"
    [] OTHER -> "skip"

(* Never promoted: start.  Hash changed, forced or version pending: what   *)
(* the update policy says.                                                 *)
PlanActiveAllocation(c, a, f) ==
  CASE ~HasHashRow(c, a) \/ ~AllocationWasDeployed(c, a) -> "start"
    [] AllocationWasDeployed(c, a) /\ (HashPending(c, a) \/ f \/ VersionPending(c, a)) ->
         ResolveUpdateAction(
           RestartPolicy[a[1]], RestartGlobs[a[1]], ReloadGlobs[a[1]], HookPaths,
           AppliedManifest(c, a), Manifest[c.pending[a]],
           HashPending(c, a), ~HashPending(c, a) /\ ~f, c.appliedFiles[a] = NoHash)
    [] OTHER -> "skip"

(* A disabled allocation is always stopped; it may be promoted as well. *)
PlanDisabledAllocation(c, a, f) ==
  IF HashPending(c, a) \/ VersionPending(c, a) \/ (f /\ AllocationWasDeployed(c, a))
  THEN "stop+promote"
  ELSE "stop"

PlanJobRollout(c, jobs, f) ==
  [a \in Allocs |->
     CASE a[1] \notin jobs \/ a \notin NonRemoved(c) -> "none"
       [] a[1] \in jobs /\ a \in NonRemoved(c) /\ a \in c.disabled -> PlanDisabledAllocation(c, a, f)
       [] OTHER -> PlanActiveAllocation(c, a, f)]

(* The dry run refreshes the plan hashes of the selected jobs and fails    *)
(* when one of them cannot be staged.                                      *)
DryRunPlan(c, F, f, bad) ==
  LET jobs == SelectJobsForDeploy(c, F)
  IN  IF bad # {} THEN NoPlan
      ELSE PlanJobRollout(
             UpdateAllocationPlan(c, {a \in NonRemoved(c) : a[1] \in jobs}), jobs, f)

(* The preview stages every job and commits the hashes, without touching a *)
(* worker.  It fails, and changes nothing, if a job cannot be staged.      *)
PreviewPendingRollout ==
  /\ pc = "idle" /\ result = "build"
  /\ db' = UpdateAllocationPlan(db, {a \in NonRemoved(db) : a[1] \in GetDeployableJobs(db)})
  /\ tx' = db'
  /\ UNCHANGED <<hostVars, argVars, recVars, jobVars, runVars, cmdVars>>

DryDeploy ==
  \E F \in Filters, f \in Forces, bad \in SUBSET Jobs, planned \in SUBSET Allocs :
    /\ StartDeploy(F, f, bad, planned)
    /\ plan' = DryRunPlan(db, F, f, bad)

DryNext ==
  \/ PreviewPendingRollout /\ UNCHANGED plan
  \/ DryDeploy
  \/ Next /\ pc' # "predeploy" /\ UNCHANGED plan

DrySpec == DryInit /\ [][DryNext]_<<vars, plan>>

-----------------------------------------------------------------------------
(* What a dry run prints is what the deploy does.  Whenever a lifecycle    *)
(* command runs for an allocation that is in the catalog, the dry run has  *)
(* announced that command for it; so an allocation announced as skip or    *)
(* sync is never started, reloaded, restarted or stopped.  The one         *)
(* exception is --force, under which an allocation announced as start is   *)
(* started and then restarted (or reloaded) too.  The deploy asks its own  *)
(* questions, of a catalog that its batches and health gates change as it  *)
(* goes.                                                                   *)
Announced ==
  \A a \in Allocs :
    /\ plan # NoPlan /\ a \in NonRemoved(tx)
    /\ step[a] = "cmd" /\ step'[a] # "cmd"
    => \/ plan[a] = phase
       \/ plan[a] = "stop+promote" /\ phase = "stop"
       \/ force /\ plan[a] = "start" /\ phase \in {"reload", "restart"}

=============================================================================
