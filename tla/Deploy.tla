------------------------------- MODULE Deploy -------------------------------
(***************************************************************************)
(* kive build and kive deploy over a fleet of workers.                     *)
(*                                                                         *)
(* A deploy is one SQLite transaction (tx, against the committed db) and   *)
(* a long sequence of SSH and rsync calls that no rollback undoes.  The    *)
(* actions below follow execute() from the generation bump to the commit:  *)
(* plan hashes, pre_deploy hooks, reconcile of removed and disabled        *)
(* allocations, batched rollout of each job, final metadata sync, commit.  *)
(* Within a batch each worker takes its own steps, as its goroutine does.  *)
(* A force quit may come between any two steps.                            *)
(***************************************************************************)
EXTENDS Placement, UpdatePolicy, WorkerHost

CONSTANTS
  Rank,                   \* [Jobs -> Nat], deployment order
  RestartPolicy,          \* [Jobs -> RestartPolicies]
  RestartGlobs,           \* [Jobs -> sets of paths]
  ReloadGlobs,            \* [Jobs -> sets of paths]
  HookPaths,              \* the paths under _hooks/
  Manifest,               \* [Contents -> file manifests]
  MaxConcurrentStarts,    \* [Jobs -> Nat], 0 = no limit
  MaxConcurrentRestarts,  \* [Jobs -> Nat]
  MaxConcurrentStops,     \* [Jobs -> Nat], 0 = no limit
  HardCap,                \* deploy.max_concurrent_syncs
  Filters,                \* the --jobs arguments used; Jobs = no filter
  Forces,                 \* the values of --force used
  Faults,                 \* what may go wrong, a subset of FaultKinds
  MaxCommands             \* bound on the number of kive commands

FaultKinds == {"prepare", "hook", "health", "rsync", "command", "crash"}

ASSUME DeployAssumption ==
  /\ Rank \in [Jobs -> Nat]
  /\ RestartPolicy \in [Jobs -> RestartPolicies]
  /\ Filters \subseteq SUBSET Jobs
  /\ Forces \subseteq BOOLEAN
  /\ Faults \subseteq FaultKinds
  /\ MaxCommands \in Nat

VARIABLES
  db,        \* the committed catalog
  tx,        \* the catalog inside the running transaction
  tree,      \* job tree on the worker of each allocation
  proc,      \* process of each allocation
  listed,    \* allocations named by their worker's jobs.json
  runner,    \* workers with bin/ and jobs.json installed
  stamp,     \* generation in each worker.json, 0 = no file
  pc,        \* where execute() is
  filter,    \* --jobs
  force,     \* --force
  sel,       \* the deployable jobs of this run
  outcome,   \* outcome of each job in this run
  failed,    \* something was appended to deployFailures
  groups,    \* jobs whose stopped allocations still await reconcile
  offcat,    \* off-catalog workers whose bucket directory goes
  cur,       \* the job being worked on
  phase,     \* the lifecycle command of the current batches
  todo,      \* allocations of the phase not yet through a batch
  step,      \* progress of each allocation in the current batch
  restarts,  \* allocations to restart once the reloads are through
  cleanup,   \* removed allocations whose artifacts are still in place
  result,    \* how the last command ended
  cmds       \* number of commands started

catVars  == <<db, tx>>
hostVars == <<tree, proc, listed, runner, stamp>>
argVars  == <<filter, force, sel>>
recVars  == <<groups, offcat>>
jobVars  == <<cur, phase, todo, step, restarts, cleanup>>
runVars  == <<pc, outcome, failed>>
cmdVars  == <<result, cmds>>
vars     == <<catVars, hostVars, argVars, recVars, jobVars, runVars, cmdVars>>

PCs == {"idle", "predeploy", "reconcile", "pick", "batch", "gate", "cleanup",
        "rollout", "finish", "commit"}

(* "unstaged" is the outcome of a job in prepareFailed; history shows it as *)
(* failed too.                                                              *)
Outcomes == {"none", "unstaged", "failed", "deployed", "skipped"}

Steps == {"out", "sync", "cmd", "done", "failed"}

NoStep == [a \in Allocs |-> "out"]

Batch == {a \in Allocs : step[a] # "out"}

TypeOK ==
  /\ db \in CatalogType /\ tx \in CatalogType
  /\ tree \in [Allocs -> Trees] /\ proc \in [Allocs -> Procs]
  /\ listed \subseteq Allocs /\ runner \subseteq Workers
  /\ stamp \in [Workers -> Nat]
  /\ pc \in PCs /\ outcome \in [Jobs -> Outcomes] /\ failed \in BOOLEAN
  /\ filter \subseteq Jobs /\ force \in BOOLEAN /\ sel \subseteq Jobs
  /\ groups \subseteq Jobs /\ offcat \subseteq Workers
  /\ cur \in Jobs /\ phase \in Lifecycle
  /\ todo \subseteq Allocs /\ step \in [Allocs -> Steps]
  /\ restarts \subseteq Allocs /\ cleanup \subseteq Allocs
  /\ result \in {"none", "build", "running", "ok", "failed", "killed"} /\ cmds \in Nat

Init ==
  /\ db = EmptyCatalog([j \in Jobs |-> CHOOSE c \in Contents : TRUE])
  /\ tx = db
  /\ tree = [a \in Allocs |-> NoTree] /\ proc = [a \in Allocs |-> Stopped]
  /\ listed = {} /\ runner = {} /\ stamp = [w \in Workers |-> 0]
  /\ pc = "idle" /\ outcome = [j \in Jobs |-> "none"] /\ failed = FALSE
  /\ filter = {} /\ force = FALSE /\ sel = {}
  /\ groups = {} /\ offcat = {}
  /\ cur = (CHOOSE j \in Jobs : TRUE) /\ phase = "stop"
  /\ todo = {} /\ step = NoStep /\ restarts = {} /\ cleanup = {}
  /\ result = "none" /\ cmds = 0

-----------------------------------------------------------------------------
(* kive build: one transaction on the CLI host; a build that fails rolls    *)
(* back and changes nothing.                                                *)
Build(ws) ==
  /\ pc = "idle" /\ cmds < MaxCommands
  /\ db' = BuildCatalog(db, ws)
  /\ tx' = db'
  /\ result' = "build" /\ cmds' = cmds + 1
  /\ UNCHANGED <<hostVars, argVars, recVars, jobVars, runVars>>

-----------------------------------------------------------------------------
(* kive deploy. *)

(* Mutant: --jobs is ignored when the deployable jobs are listed. *)
SelectJobsIgnoringFilter(c, F) == GetDeployableJobs(c)

SelectJobsForDeploy(c, F) == GetDeployableJobs(c) \cap F

(* Bump the generation, stage every deployable job and record its plan      *)
(* hash.  A job whose staging fails keeps the hashes it has; a failure      *)
(* while hashing leaves some of its allocations planned.                    *)
StartDeploy(F, f, bad, planned) ==
  LET jobs == SelectJobsForDeploy(db, F)
      plan == {a \in NonRemoved(db) : a[1] \in jobs /\ (a[1] \in bad => a \in planned)}
  IN  /\ pc = "idle" /\ cmds < MaxCommands
      /\ bad \subseteq jobs
      /\ bad # {} => "prepare" \in Faults
      /\ planned \subseteq {a \in NonRemoved(db) : a[1] \in bad}
      /\ tx' = UpdateAllocationPlan(BumpGeneration(db), plan)
      /\ filter' = F /\ force' = f /\ sel' = jobs
      /\ outcome' = [j \in Jobs |-> IF j \in bad THEN "unstaged" ELSE "none"]
      /\ failed' = (bad # {})
      /\ pc' = "predeploy"
      /\ result' = "running" /\ cmds' = cmds + 1
      /\ UNCHANGED <<db, hostVars, recVars, jobVars>>

(* Workers outside the catalog that still hold a deployed allocation. *)
OffCatalogWorkers(c, F) ==
  {w \in Workers \ c.workers :
     \E j \in F : <<j, w>> \in c.removed /\ AllocationWasDeployed(c, <<j, w>>)}

(* Mutant: reconcile does not look at --jobs. *)
PreDeployReconcileAll ==
  /\ pc = "predeploy" /\ pc' = "reconcile"
  /\ groups' = {j \in Jobs : AllocationsOf(j) \cap ListStoppedAllocations(tx) # {}}
  /\ offcat' = OffCatalogWorkers(tx, Jobs)
  /\ UNCHANGED <<catVars, hostVars, argVars, jobVars, outcome, failed, cmdVars>>

(* pre_deploy hooks; then reconcile lists what must be stopped. *)
PreDeploy ==
  /\ pc = "predeploy"
  /\ \/ /\ pc' = "reconcile"
        /\ groups' = {j \in filter : AllocationsOf(j) \cap ListStoppedAllocations(tx) # {}}
        /\ offcat' = OffCatalogWorkers(tx, filter)
        /\ UNCHANGED failed
     \/ /\ "hook" \in Faults /\ sel # {}
        /\ pc' = "finish"
        /\ failed' = TRUE
        /\ UNCHANGED recVars
  /\ UNCHANGED <<catVars, hostVars, argVars, jobVars, outcome, cmdVars>>

(* The run stops working on jobs and goes straight to its final sync.       *)
Abort ==
  /\ pc' = "finish"
  /\ failed' = TRUE
  /\ outcome' = IF phase = "stop" THEN outcome ELSE [outcome EXCEPT ![cur] = "failed"]
  /\ groups' = {} /\ offcat' = {}
  /\ todo' = {} /\ step' = NoStep /\ restarts' = {} /\ cleanup' = {}
  /\ UNCHANGED <<cur, phase>>

-----------------------------------------------------------------------------
(* Batches: what the reconcile and the rollouts have in common. *)

(* Batch width the manifest asks for; 0 = everyone. *)
RequestedBatchSize(c, j, ph) ==
  CASE ph = "start" -> MaxConcurrentStarts[j]
    [] ph \in {"reload", "restart"} ->
         IF MaxConcurrentRestarts[j] < 1 THEN 1 ELSE MaxConcurrentRestarts[j]
    [] ph = "stop" -> IF j \in c.jobs THEN MaxConcurrentStops[j] ELSE 0

(* The next workers in rollout order.  The order is settled by hooks and    *)
(* the KV, so any selection of the right size may come next.  The pre-batch *)
(* health gate has let it through.                                          *)
PickBatch ==
  /\ pc = "pick"
  /\ \E B \in SUBSET todo :
       /\ B # {}
       /\ Cardinality(B) = EffectiveBatchSize(RequestedBatchSize(tx, cur, phase),
                                              Cardinality(todo), HardCap)
       /\ step' = [a \in Allocs |-> IF a \notin B THEN "out"
                                    ELSE IF phase = "stop" THEN "cmd" ELSE "sync"]
  /\ pc' = "batch"
  /\ UNCHANGED <<catVars, hostVars, argVars, recVars, cur, phase, todo, restarts,
                 cleanup, outcome, failed, cmdVars>>

(* The pre-batch gate fails, or is cancelled while waiting. *)
PreBatchHealthFails ==
  /\ pc = "pick" /\ todo # {}
  /\ "health" \in Faults /\ ~force
  /\ GetDeployedActiveAllocations(tx, cur) # {}
  /\ Abort
  /\ UNCHANGED <<catVars, hostVars, argVars, cmdVars>>

(* What this run staged for an allocation.  Removed allocations are not     *)
(* staged, and a job whose staging failed may be staged in part.            *)
StagedTrees(a) ==
  CASE a \in tx.removed                             -> {BareTree}
    [] a \notin tx.removed /\ outcome[a[1]] = "unstaged" ->
         {tx.content[a[1]], TornTree, BareTree}
    [] a \notin tx.removed /\ outcome[a[1]] # "unstaged" -> {tx.content[a[1]]}

(* jobs.json as staged for a worker: its non-removed allocations. *)
StagedJobsOn(W) == {a \in NonRemoved(tx) : a[2] \in W}

(* bin/ and jobs.json reach the workers W. *)
InstallMetadata(W) ==
  /\ listed' = {a \in listed : a[2] \notin W} \cup StagedJobsOn(W)
  /\ runner' = runner \cup W

(* In the stop phase the sync follows the command and ends the worker's     *)
(* turn; in the others the lifecycle command comes after it.                *)
AfterSync == IF phase = "stop" THEN "done" ELSE "cmd"

SyncWorkerFiles(a) ==
  /\ pc = "batch" /\ step[a] = "sync"
  /\ \E t \in StagedTrees(a) : tree' = [tree EXCEPT ![a] = t]
  /\ InstallMetadata({a[2]})
  /\ step' = [step EXCEPT ![a] = AfterSync]
  /\ UNCHANGED <<catVars, proc, stamp, argVars, recVars, cur, phase, todo, restarts,
                 cleanup, runVars, cmdVars>>

(* Mutant: the error of a broken rsync is dropped and the command runs.     *)
SyncFailsSilently(a) ==
  /\ pc = "batch" /\ step[a] = "sync" /\ "rsync" \in Faults
  /\ \E t \in {tree[a], TornTree} : tree' = [tree EXCEPT ![a] = t]
  /\ InstallMetadata({a[2]})
  /\ step' = [step EXCEPT ![a] = AfterSync]
  /\ UNCHANGED <<catVars, proc, stamp, argVars, recVars, cur, phase, todo, restarts,
                 cleanup, runVars, cmdVars>>

(* mkdir or rsync breaks off: the tree is the old one, a bare directory,    *)
(* half written or complete.                                                *)
SyncFails(a) ==
  /\ pc = "batch" /\ step[a] = "sync" /\ "rsync" \in Faults
  /\ \E t \in {tree[a], TornTree} \cup StagedTrees(a)
              \cup (IF tree[a] = NoTree THEN {BareTree} ELSE {}) :
       tree' = [tree EXCEPT ![a] = t]
  /\ InstallMetadata({a[2]}) \/ UNCHANGED <<listed, runner>>
  /\ step' = [step EXCEPT ![a] = "failed"]
  /\ UNCHANGED <<catVars, proc, stamp, argVars, recVars, cur, phase, todo, restarts,
                 cleanup, runVars, cmdVars>>

(* A stop that is not assumed dead is followed by a sync. *)
AfterCommand(a) ==
  IF phase = "stop" /\ ~StoppedAllocationAssumeDead(tx, a) THEN "sync" ELSE "done"

RunWorkerCommand(a) ==
  /\ pc = "batch" /\ step[a] = "cmd"
  /\ \E p \in RunnerSucceeds(phase, a[2] \in runner, a \in listed, tree[a], proc[a]) :
       proc' = [proc EXCEPT ![a] = p]
  /\ step' = [step EXCEPT ![a] = AfterCommand(a)]
  /\ UNCHANGED <<catVars, tree, listed, runner, stamp, argVars, recVars, cur, phase, todo,
                 restarts, cleanup, runVars, cmdVars>>

(* make or SSH fails; a worker that left the catalog is assumed dead.       *)
CommandFails(a) ==
  /\ pc = "batch" /\ step[a] = "cmd"
  /\ \/ "command" \in Faults
     \/ RunnerSucceeds(phase, a[2] \in runner, a \in listed, tree[a], proc[a]) = {}
  /\ \E p \in RunnerFails(phase, a[2] \in runner, a \in listed, tree[a], proc[a]) :
       proc' = [proc EXCEPT ![a] = p]
  /\ step' = [step EXCEPT ![a] = IF AfterCommand(a) = "done" /\ phase = "stop"
                                 THEN "done" ELSE "failed"]
  /\ UNCHANGED <<catVars, tree, listed, runner, stamp, argVars, recVars, cur, phase, todo,
                 restarts, cleanup, runVars, cmdVars>>

(* Every goroutine of the batch has returned. *)
BatchSettled == \A a \in Allocs : step[a] \notin {"sync", "cmd"}

(* A worker failed, or the after_allocation hook did. *)
BatchFails ==
  /\ pc = "batch" /\ BatchSettled
  /\ "hook" \in Faults \/ \E a \in Allocs : step[a] = "failed"
  /\ Abort
  /\ UNCHANGED <<catVars, hostVars, argVars, cmdVars>>

(* The batch is promoted before its health gate; a stop does not promote    *)
(* disabled allocations.                                                    *)
PromoteBatch ==
  /\ pc = "batch" /\ BatchSettled
  /\ \A a \in Allocs : step[a] # "failed"
  /\ tx' = PromoteAllocationState(tx, IF phase = "stop" THEN Batch \ tx.disabled ELSE Batch)
  /\ pc' = "gate"
  /\ UNCHANGED <<db, hostVars, argVars, recVars, jobVars, outcome, failed, cmdVars>>

(* Mutant: the loop does not advance past the batch. *)
PostBatchHealthPassesAgain ==
  /\ pc = "gate"
  /\ step' = NoStep
  /\ pc' = "pick"
  /\ UNCHANGED <<catVars, hostVars, argVars, recVars, cur, phase, todo, restarts, cleanup,
                 outcome, failed, cmdVars>>

PostBatchHealthPasses ==
  /\ pc = "gate"
  /\ todo' = todo \ Batch /\ step' = NoStep
  /\ pc' = "pick"
  /\ UNCHANGED <<catVars, hostVars, argVars, recVars, cur, phase, restarts, cleanup,
                 outcome, failed, cmdVars>>

(* Mutant: a failed gate condemns every allocation of the job. *)
PostBatchHealthFailsWholeJob ==
  /\ pc = "gate" /\ "health" \in Faults
  /\ GetDeployedActiveAllocations(tx, cur) # {}
  /\ tx' = MarkAllocationHealthFailed(tx, AllocationsOf(cur))
  /\ Abort
  /\ UNCHANGED <<db, hostVars, argVars, cmdVars>>

(* The gate fails or is cancelled: a rollout batch is marked health_failed. *)
PostBatchHealthFails ==
  /\ pc = "gate" /\ "health" \in Faults
  /\ GetDeployedActiveAllocations(tx, cur) # {}
  /\ tx' = IF phase = "stop" THEN tx ELSE MarkAllocationHealthFailed(tx, Batch)
  /\ Abort
  /\ UNCHANGED <<db, hostVars, argVars, cmdVars>>

-----------------------------------------------------------------------------
(* Reconcile: stop what is removed or disabled, job by job in any order.    *)

(* Removed allocations that were never promoted only lose their hash row.   *)
ReconcileStoppedAllocationsForJob(j) ==
  LET items == AllocationsOf(j) \cap ListStoppedAllocations(tx)
      stop  == {a \in items : a \in tx.disabled \/ AllocationWasDeployed(tx, a)}
  IN  /\ pc = "reconcile" /\ j \in groups
      /\ groups' = groups \ {j}
      /\ tx' = RemoveAllocationHash(tx, (items \ stop) \cap tx.removed)
      /\ cur' = j /\ phase' = "stop"
      /\ todo' = stop
      /\ cleanup' = stop \cap tx.removed
      /\ pc' = "pick"
      /\ UNCHANGED <<db, hostVars, argVars, offcat, step, restarts, outcome, failed, cmdVars>>

EndStops ==
  /\ pc = "pick" /\ phase = "stop" /\ todo = {}
  /\ pc' = "cleanup"
  /\ UNCHANGED <<catVars, hostVars, argVars, recVars, jobVars, outcome, failed, cmdVars>>

(* Remove the deployed files and the hash row of a removed allocation.  A   *)
(* worker that left the catalog may be out of reach.                        *)
RemoveJobDeployArtifacts(a) ==
  /\ pc = "cleanup" /\ a \in cleanup
  /\ \/ tree' = [tree EXCEPT ![a] = CleanupDeployArtifacts(@)]
     \/ /\ "command" \in Faults /\ StoppedAllocationAssumeDead(tx, a)
        /\ UNCHANGED tree
  /\ tx' = RemoveAllocationHash(tx, {a})
  /\ cleanup' = cleanup \ {a}
  /\ UNCHANGED <<db, proc, listed, runner, stamp, argVars, recVars, cur, phase, todo, step,
                 restarts, runVars, cmdVars>>

CleanupFails(a) ==
  /\ pc = "cleanup" /\ a \in cleanup
  /\ "command" \in Faults /\ ~StoppedAllocationAssumeDead(tx, a)
  /\ \E t \in {tree[a], TornTree, CleanupDeployArtifacts(tree[a])} :
       tree' = [tree EXCEPT ![a] = t]
  /\ Abort
  /\ UNCHANGED <<catVars, proc, listed, runner, stamp, argVars, cmdVars>>

EndCleanup ==
  /\ pc = "cleanup" /\ cleanup = {}
  /\ pc' = "reconcile"
  /\ UNCHANGED <<catVars, hostVars, argVars, recVars, jobVars, outcome, failed, cmdVars>>

(* Off-catalog workers lose their bucket directory, if they can be reached. *)
RemoveWorkerBuckets ==
  /\ pc = "reconcile" /\ groups = {}
  /\ \E gone \in SUBSET offcat :
       /\ "command" \notin Faults => gone = offcat
       /\ tree' = [a \in Allocs |-> IF a[2] \in gone THEN NoTree ELSE tree[a]]
       /\ listed' = {a \in listed : a[2] \notin gone}
       /\ runner' = runner \ gone
       /\ stamp' = [w \in Workers |-> IF w \in gone THEN 0 ELSE stamp[w]]
  /\ offcat' = {}
  /\ pc' = "rollout"
  /\ UNCHANGED <<catVars, proc, argVars, groups, jobVars, outcome, failed, cmdVars>>

-----------------------------------------------------------------------------
(* Rollout of one job: start the new allocations, then reload, then restart *)
(* the updated ones, then promote what is left.                             *)

JobsLeft == {j \in sel : outcome[j] = "none"}

(* Mutant: jobs are rolled out in any order. *)
DeployJobUnordered(j) ==
  /\ pc = "rollout" /\ j \in JobsLeft
  /\ cur' = j /\ phase' = "start"
  /\ todo' = GetNewAllocations(tx, j)
  /\ pc' = "pick"
  /\ UNCHANGED <<catVars, hostVars, argVars, recVars, step, restarts, cleanup, outcome,
                 failed, cmdVars>>

(* Jobs are taken in deployment order; one that needs no rollout is         *)
(* skipped unless --force.                                                  *)
DeployJob(j) ==
  /\ pc = "rollout" /\ j \in JobsLeft
  /\ \A k \in JobsLeft : Rank[j] <= Rank[k]
  /\ \/ /\ force \/ JobNeedsRollout(tx, j)
        /\ cur' = j /\ phase' = "start"
        /\ todo' = GetNewAllocations(tx, j)
        /\ pc' = "pick"
        /\ UNCHANGED outcome
     \/ /\ ~(force \/ JobNeedsRollout(tx, j))
        /\ outcome' = [outcome EXCEPT ![j] = "skipped"]
        /\ UNCHANGED <<pc, cur, phase, todo>>
  /\ UNCHANGED <<catVars, hostVars, argVars, recVars, step, restarts, cleanup, failed, cmdVars>>

(* Asked again after the starts, so that with --force the allocations that  *)
(* were just started are in it.                                             *)
AllocationsNeedingRestart(c, j, f) ==
  (IF f THEN ActiveAllocations(c, j)
        ELSE GetUpdatedAllocations(c, j) \cup GetVersionPendingAllocations(c, j))
    \ GetNewAllocations(c, j)

(* The per-file digests on record; an allocation promoted before they were  *)
(* kept has none.                                                           *)
AppliedManifest(c, a) ==
  IF c.appliedFiles[a] = NoHash THEN <<>> ELSE Manifest[c.appliedFiles[a]]

UpdateAction(c, a) ==
  LET hashChanged == HashPending(c, a)
  IN  ResolveUpdateAction(
        RestartPolicy[a[1]], RestartGlobs[a[1]], ReloadGlobs[a[1]], HookPaths,
        AppliedManifest(c, a), Manifest[c.pending[a]],
        hashChanged, VersionPending(c, a) /\ ~hashChanged, c.appliedFiles[a] = NoHash)

(* Sort the updated allocations by action.  Those that only need their      *)
(* files get no batch at all.                                               *)
HandleUpdatedAllocations ==
  LET updated == AllocationsNeedingRestart(tx, cur, force)
  IN  /\ pc = "pick" /\ phase = "start" /\ todo = {}
      /\ phase' = "reload"
      /\ todo' = {a \in updated : UpdateAction(tx, a) = "reload"}
      /\ restarts' = {a \in updated : UpdateAction(tx, a) = "restart"}
      /\ UNCHANGED <<catVars, hostVars, argVars, recVars, cur, step, cleanup, runVars, cmdVars>>

EndReloads ==
  /\ pc = "pick" /\ phase = "reload" /\ todo = {}
  /\ phase' = "restart"
  /\ todo' = restarts /\ restarts' = {}
  /\ UNCHANGED <<catVars, hostVars, argVars, recVars, cur, step, cleanup, runVars, cmdVars>>

(* Promote every non-removed allocation of the job, disabled ones included. *)
FinalizeJobDeploy ==
  /\ pc = "pick" /\ phase = "restart" /\ todo = {}
  /\ tx' = PromoteAllocationState(tx, AllocationsOf(cur) \cap NonRemoved(tx))
  /\ outcome' = [outcome EXCEPT ![cur] = "deployed"]
  /\ pc' = "rollout"
  /\ UNCHANGED <<db, hostVars, argVars, recVars, jobVars, failed, cmdVars>>

EndRollout ==
  /\ pc = "rollout" /\ JobsLeft = {}
  /\ pc' = "finish"
  /\ UNCHANGED <<catVars, hostVars, argVars, recVars, jobVars, outcome, failed, cmdVars>>

-----------------------------------------------------------------------------
(* The end of every run that got as far as bumping the generation. *)

AllJobsDeployedOrSkipped == \A j \in sel : outcome[j] \in {"deployed", "skipped"}

(* Refresh jobs.json and bin/ on the workers W that can be reached;         *)
(* worker.json goes with them only after a clean run.                       *)
FinalSyncWorkerMetadata(W) ==
  /\ pc = "finish"
  /\ W \subseteq tx.workers
  /\ "rsync" \notin Faults => W = tx.workers
  /\ InstallMetadata(W)
  /\ stamp' = [w \in Workers |-> IF w \in W /\ AllJobsDeployedOrSkipped
                                 THEN tx.gen ELSE stamp[w]]
  /\ failed' = (failed \/ W # tx.workers)
  /\ pc' = "commit"
  /\ UNCHANGED <<catVars, tree, proc, argVars, recVars, jobVars, outcome, cmdVars>>

(* Mutant: the bumped generation is never kept. *)
CommitReverted ==
  /\ pc = "commit"
  /\ db' = [tx EXCEPT !.gen = db.gen]
  /\ tx' = db'
  /\ result' = IF failed THEN "failed" ELSE "ok"
  /\ pc' = "idle"
  /\ UNCHANGED <<hostVars, argVars, recVars, jobVars, outcome, failed, cmds>>

(* post_deploy hooks can fail the command but nothing else.  The bump of    *)
(* the generation stays only after a clean run; everything else commits.    *)
Commit ==
  /\ pc = "commit"
  /\ db' = IF AllJobsDeployedOrSkipped THEN tx ELSE [tx EXCEPT !.gen = db.gen]
  /\ tx' = db'
  /\ \/ result' = IF failed THEN "failed" ELSE "ok"
     \/ "hook" \in Faults /\ result' = "failed"
  /\ pc' = "idle"
  /\ UNCHANGED <<hostVars, argVars, recVars, jobVars, outcome, failed, cmds>>

(* A second interrupt, or a power cut: the transaction is rolled back and   *)
(* the workers stay as they are.                                            *)
Crash ==
  /\ pc # "idle" /\ "crash" \in Faults
  /\ tx' = db
  /\ pc' = "idle"
  /\ result' = "killed"
  /\ groups' = {} /\ offcat' = {}
  /\ todo' = {} /\ step' = NoStep /\ restarts' = {} /\ cleanup' = {}
  /\ UNCHANGED <<db, hostVars, argVars, cur, phase, outcome, failed, cmds>>

-----------------------------------------------------------------------------
(* Steps of a running deploy. *)
RunStep ==
  \/ PreDeploy
  \/ \E j \in Jobs : ReconcileStoppedAllocationsForJob(j)
  \/ EndStops
  \/ \E a \in Allocs : RemoveJobDeployArtifacts(a)
  \/ \E a \in Allocs : CleanupFails(a)
  \/ EndCleanup
  \/ RemoveWorkerBuckets
  \/ \E j \in Jobs : DeployJob(j)
  \/ PreBatchHealthFails
  \/ PickBatch
  \/ \E a \in Allocs : SyncWorkerFiles(a)
  \/ \E a \in Allocs : SyncFails(a)
  \/ \E a \in Allocs : RunWorkerCommand(a)
  \/ \E a \in Allocs : CommandFails(a)
  \/ BatchFails
  \/ PromoteBatch
  \/ PostBatchHealthPasses
  \/ PostBatchHealthFails
  \/ HandleUpdatedAllocations
  \/ EndReloads
  \/ FinalizeJobDeploy
  \/ EndRollout
  \/ \E W \in SUBSET Workers : FinalSyncWorkerMetadata(W)
  \/ Commit

Deploy ==
  \E F \in Filters, f \in Forces, bad \in SUBSET Jobs :
    \E planned \in SUBSET (bad \X Workers) : StartDeploy(F, f, bad, planned)

Next ==
  \/ \E ws \in Workspaces : Build(ws)
  \/ Deploy
  \/ RunStep
  \/ Crash

Spec == Init /\ [][Next]_vars

(* A deploy that is running goes on: no step waits for an operator, SSH     *)
(* commands, rsync and health gates time out, and hooks return.             *)
FairSpec == Spec /\ WF_vars(RunStep)

-----------------------------------------------------------------------------
(* Properties. *)

(* A catalog row agrees with the last build: the plan is the built tree,    *)
(* and plan and version are promoted.                                       *)
Converged(c, a) ==
  /\ c.pending[a] = c.content[a[1]]
  /\ c.applied[a] = c.pending[a]
  /\ c.appliedVersion[a] = c.target[a]

(* When a run reports a job as deployed or skipped ("deploy_complete"),     *)
(* every active allocation of it is promoted to the tree and version of     *)
(* the last build, and stays so for the rest of the run and in what it      *)
(* commits, whatever happens to the other jobs.                             *)
DeployedJobsConverged ==
  pc # "idle" \/ result \in {"ok", "failed"} =>
    \A j \in Jobs : outcome[j] \in {"deployed", "skipped"} =>
      \A a \in ActiveAllocations(tx, j) : Converged(tx, a)

InRollout == pc \in {"pick", "batch", "gate"} /\ phase # "stop"

(* At a post-batch health gate of a rollout the health check sees what was  *)
(* promoted: each allocation of the batch has the built tree on disk, that  *)
(* hash as applied, and runs it; only a reload may find nothing running.    *)
PromotedBatchRunsPlan ==
  InRollout /\ pc = "gate" =>
    \A a \in Batch :
      /\ Converged(tx, a)
      /\ tree[a] = tx.content[a[1]]
      /\ proc[a] = tree[a] \/ (phase = "reload" /\ proc[a] = Stopped)

(* worker.json is never more than one generation ahead of kive.db, and only *)
(* a run killed before its commit can leave it ahead at all; after a        *)
(* deploy without failures every worker carries the committed generation.   *)
GenerationStamp ==
  /\ tx.gen \in {db.gen, db.gen + 1}
  /\ \A w \in Workers : stamp[w] <= db.gen + 1
  /\ pc = "idle" /\ "crash" \notin Faults => \A w \in Workers : stamp[w] <= db.gen
  /\ pc = "idle" /\ result = "ok" => \A w \in db.workers : stamp[w] = db.gen

(* No command of a deploy, failed ones included, brings up a process of an  *)
(* allocation that is removed or disabled.                                  *)
NeverStartsInactive ==
  [][\A a \in Allocs : proc'[a] \notin {proc[a], Stopped} => IsActiveAllocation(tx, a)]_vars

(* Inside a run an allocation loses its live state only by being in the     *)
(* batch whose health gate failed, or by being removed: "earlier batches    *)
(* that already passed health stay promoted".                               *)
OnlyFailedBatchDemoted ==
  [][pc # "idle" /\ result' # "killed" =>
       \A a \in Allocs : AllocationLive(tx, a) /\ ~AllocationLive(tx', a) =>
         \/ a \in tx.removed
         \/ pc = "gate" /\ a \in Batch]_vars

(* The hash rows of jobs outside --jobs are those of the committed catalog  *)
(* throughout the run.                                                      *)
FilterConfinesTransaction ==
  pc # "idle" =>
    \A a \in Allocs : a[1] \notin filter =>
      /\ tx.pending[a] = db.pending[a] /\ tx.applied[a] = db.applied[a]
      /\ tx.appliedVersion[a] = db.appliedVersion[a]

(* A run leaves the processes of jobs outside --jobs alone. *)
FilterConfinesLifecycle ==
  [][\A a \in Allocs : proc'[a] # proc[a] => a[1] \in filter]_vars

(* While a job is rolled out, every job before it in the deployment order   *)
(* is done, or could not be staged; none has failed in its rollout.         *)
DependencyOrder ==
  InRollout =>
    \A k \in sel : Rank[k] < Rank[cur] => outcome[k] \in {"deployed", "skipped", "unstaged"}

(* After a deploy without failures every active allocation of the selected  *)
(* jobs has the built tree on disk and runs it.                             *)
CleanRunRunsPlan ==
  pc = "idle" /\ result = "ok" =>
    \A j \in sel : \A a \in ActiveAllocations(db, j) :
      proc[a] = db.content[j] /\ tree[a] = db.content[j]

(* After a deploy without failures no removed or disabled allocation of the *)
(* selected jobs runs.                                                      *)
CleanRunStopsTheRest ==
  pc = "idle" /\ result = "ok" =>
    \A a \in db.rows \cap (db.removed \cup db.disabled) : a[1] \in filter => proc[a] = Stopped

(* Every deploy comes to an end: no batch, gate or reconcile step can go    *)
(* round for ever or wait for something that never comes.                   *)
RunTerminates == pc # "idle" ~> pc = "idle"

-----------------------------------------------------------------------------
(* The inductive invariant: what the properties above rest on. *)

InBatches == pc \in {"pick", "batch", "gate"}

(* A run changes hash rows and the generation; rows, flags and contents     *)
(* change only in a build.                                                  *)
TransactionScope ==
  /\ pc = "idle" => tx = db
  /\ pc # "idle" => tx.gen = db.gen + 1
  /\ tx.workers = db.workers /\ tx.jobs = db.jobs /\ tx.content = db.content
  /\ tx.rows = db.rows /\ tx.removed = db.removed /\ tx.disabled = db.disabled
  /\ tx.target = db.target

(* Which allocations the current batches may hold. *)
BatchScope ==
  /\ ~InBatches \/ pc = "pick" => step = NoStep
  /\ \A a \in Allocs : step[a] # "out" => a \in todo
  /\ InBatches /\ phase = "stop" =>
       todo \subseteq AllocationsOf(cur) \cap ListStoppedAllocations(tx)
  /\ InRollout => todo \subseteq ActiveAllocations(tx, cur)
  /\ restarts # {} => /\ InRollout /\ phase = "reload"
                      /\ restarts \subseteq ActiveAllocations(tx, cur)
  /\ cleanup # {} => /\ InBatches \/ pc = "cleanup"
                     /\ phase = "stop" /\ cleanup \subseteq tx.removed
  /\ InRollout => cur \in sel /\ outcome[cur] = "none"

(* Everything a run works on is in --jobs. *)
FilterScope ==
  /\ groups # {} => pc \in {"reconcile", "cleanup"} \/ (InBatches /\ phase = "stop")
  /\ pc # "idle" => /\ sel \subseteq filter /\ groups \subseteq filter
                    /\ InBatches => cur \in filter
                    /\ \A a \in cleanup : a[1] \in filter

(* Outcomes: a failure of any kind is on record in failed, and a rollout    *)
(* that failed ends the job loop.                                           *)
OutcomeScope ==
  pc # "idle" =>
    /\ \A j \in sel : outcome[j] \in {"unstaged", "failed"} => failed
    /\ pc \notin {"finish", "commit"} => \A j \in sel : outcome[j] # "failed"
    /\ pc \in {"finish", "commit"} /\ ~failed => AllJobsDeployedOrSkipped

(* The plan of every staged job is the built tree. *)
PlanFresh ==
  pc # "idle" =>
    \A a \in NonRemoved(tx) : a[1] \in sel /\ outcome[a[1]] # "unstaged" =>
      tx.pending[a] = tx.content[a[1]]

(* worker.json is written between the final sync and the commit only. *)
StampScope ==
  /\ \A w \in Workers : stamp[w] <= db.gen + 1
  /\ "crash" \notin Faults /\ ~(pc = "commit" /\ AllJobsDeployedOrSkipped) =>
       \A w \in Workers : stamp[w] <= db.gen
  /\ pc = "commit" /\ ~failed => \A w \in tx.workers : stamp[w] = tx.gen
  /\ pc = "idle" /\ result = "ok" => \A w \in db.workers : stamp[w] = db.gen

(* A rollout command runs on a synced tree that jobs.json lists. *)
BatchProgress ==
  InRollout =>
    \A a \in Allocs :
      /\ step[a] \in {"cmd", "done"} =>
           tree[a] = tx.content[a[1]] /\ a \in listed /\ a[2] \in runner
      /\ step[a] = "done" => proc[a] = tree[a] \/ (phase = "reload" /\ proc[a] = Stopped)
      /\ pc = "gate" /\ step[a] # "out" => step[a] = "done" /\ Converged(tx, a)

-----------------------------------------------------------------------------
(* What the manuals and comments promise and the code does not keep. *)

(* "kive build - clears disabled = 0 and marks the allocation for rollout   *)
(* on the next deploy": a build that re-enables an allocation leaves it     *)
(* without a live applied hash.                                             *)
EnablingMarksForRollout ==
  [][\A a \in Allocs :
       a \in db.disabled /\ IsActiveAllocation(db', a) => ~AllocationLive(db', a)]_vars

(* restart_policy never: "Rsync and promote only - no Makefile lifecycle":  *)
(* after a clean deploy the promoted tree is on the worker.                 *)
NeverPolicySyncs ==
  pc = "idle" /\ result = "ok" =>
    \A j \in sel : RestartPolicy[j] = "never" =>
      \A a \in ActiveAllocations(db, j) : tree[a] = db.applied[a]

=============================================================================
