---------------------------- MODULE DeployProofs ----------------------------
(***************************************************************************)
(* Theorems about Deploy for every fleet, every set of jobs, every         *)
(* workspace and every combination of faults.                              *)
(***************************************************************************)
EXTENDS DeployPlans

(* A rollout command runs on a synced tree, and a batch at its gate runs what *)
(* was promoted.                                                             *)
LEMMA BatchProgressStep ==
  ASSUME TypeOK, TransactionScope, BatchScope, PlanFresh, BatchProgress, [Next]_vars
  PROVE  BatchProgress'
<1> USE DEF catVars, hostVars, argVars, recVars, jobVars, runVars, cmdVars
<1>0. ASSUME UNCHANGED <<tx, tree, proc, listed, runner, pc, phase, step>>
      PROVE  BatchProgress'
  BY <1>0 DEF BatchProgress, Converged, InRollout
<1>1. ASSUME NEW ws \in Workspaces, Build(ws) PROVE BatchProgress'
  BY <1>1 DEF Build, BatchProgress, Converged, InRollout
<1>2. ASSUME NEW F \in Filters, NEW f \in Forces, NEW bad \in SUBSET Jobs,
             NEW planned \in SUBSET (bad \X Workers), StartDeploy(F, f, bad, planned)
      PROVE  BatchProgress'
  BY <1>2 DEF StartDeploy, BatchProgress, Converged, InRollout
<1>3. CASE PreDeploy
  BY <1>3 DEF PreDeploy, BatchProgress, Converged, InRollout
<1>4. ASSUME NEW j \in Jobs, ReconcileStoppedAllocationsForJob(j) PROVE BatchProgress'
  BY <1>4
     DEF ReconcileStoppedAllocationsForJob, BatchProgress, Converged, InRollout,
         BatchScope, NoStep
<1>5. CASE EndStops
  BY <1>5 DEF EndStops, BatchProgress, Converged, InRollout
<1>6. ASSUME NEW a \in Allocs, RemoveJobDeployArtifacts(a) PROVE BatchProgress'
  BY <1>6 DEF RemoveJobDeployArtifacts, BatchProgress, Converged, InRollout
<1>7. ASSUME NEW a \in Allocs, CleanupFails(a) PROVE BatchProgress'
  BY <1>7 DEF CleanupFails, Abort, BatchProgress, Converged, InRollout
<1>8. CASE EndCleanup
  BY <1>8 DEF EndCleanup, BatchProgress, Converged, InRollout
<1>9. CASE RemoveWorkerBuckets
  BY <1>9 DEF RemoveWorkerBuckets, BatchProgress, Converged, InRollout
<1>10. ASSUME NEW j \in Jobs, DeployJob(j) PROVE BatchProgress'
  BY <1>10
     DEF DeployJob, BatchProgress, Converged, InRollout, BatchScope, InBatches, NoStep
<1>11. CASE PreBatchHealthFails
  BY <1>11 DEF PreBatchHealthFails, Abort, BatchProgress, Converged, InRollout
<1>12. CASE PickBatch
  BY <1>12, TypeFacts DEF PickBatch, BatchProgress, Converged, InRollout
<1>13. ASSUME NEW a \in Allocs, SyncWorkerFiles(a) PROVE BatchProgress'
  <2> SUFFICES ASSUME InRollout PROVE BatchProgress'
    BY <1>13 DEF SyncWorkerFiles, BatchProgress, Converged, InRollout
  <2>1. /\ todo \subseteq NonRemoved(tx) /\ \A b \in todo : b[1] = cur
        /\ outcome[cur] = "none" /\ a \in todo
    BY <1>13 DEF SyncWorkerFiles, BatchScope, InRollout, ActiveAllocations, IsActiveAllocation,
              AllocationsOf, NonRemoved
  <2>2. StagedTrees(a) = {tx.content[a[1]]}
    BY <2>1 DEF StagedTrees, NonRemoved
  <2>3. /\ tree' = [tree EXCEPT ![a] = tx.content[a[1]]]
        /\ step' = [step EXCEPT ![a] = "cmd"] /\ pc = "batch"
        /\ UNCHANGED <<proc, tx, pc, phase>>
    BY <1>13, <2>2 DEF SyncWorkerFiles, AfterSync, InRollout
  <2>4. runner \subseteq runner' /\ a[2] \in runner' /\ a \in listed'
    BY <1>13, <2>1 DEF SyncWorkerFiles, InstallMetadata, StagedJobsOn
  <2>5. \A b \in todo : b \in listed => b \in listed'
    BY <1>13, <2>1 DEF SyncWorkerFiles, InstallMetadata, StagedJobsOn
  <2> QED BY <2>3, <2>4, <2>5, TypeFacts DEF BatchScope, BatchProgress, Converged, InRollout
<1>14. ASSUME NEW a \in Allocs, SyncFails(a) PROVE BatchProgress'
  <2> SUFFICES ASSUME InRollout PROVE BatchProgress'
    BY <1>14 DEF SyncFails, BatchProgress, Converged, InRollout
  <2>1. todo \subseteq NonRemoved(tx)
    BY DEF BatchScope, InRollout, ActiveAllocations, IsActiveAllocation, NonRemoved
  <2>2. /\ \A b \in Allocs \ {a} : tree'[b] = tree[b] /\ step'[b] = step[b]
        /\ step'[a] = "failed" /\ UNCHANGED <<proc, tx, pc, phase>> /\ pc = "batch"
    BY <1>14, TypeFacts DEF SyncFails
  <2>3. runner \subseteq runner' /\ \A b \in todo : b \in listed => b \in listed'
    BY <1>14, <2>1 DEF SyncFails, InstallMetadata, StagedJobsOn
  <2> QED BY <2>2, <2>3 DEF BatchScope, BatchProgress, Converged, InRollout
<1>15. ASSUME NEW a \in Allocs, RunWorkerCommand(a) PROVE BatchProgress'
  <2> SUFFICES ASSUME InRollout PROVE BatchProgress'
    BY <1>15 DEF RunWorkerCommand, BatchProgress, Converged, InRollout
  <2>1. /\ tree[a] \in Contents /\ a \in listed /\ a[2] \in runner
    BY <1>15, TypeFacts, CatalogFacts DEF RunWorkerCommand, BatchProgress, InRollout, Allocs
  <2>2. RunnerSucceeds(phase, a[2] \in runner, a \in listed, tree[a], proc[a])
          = {AfterMake(phase, tree[a], proc[a])}
    BY <2>1, HostAssumption DEF RunnerSucceeds
  <2>3. /\ AfterMake(phase, tree[a], proc[a]) \in {tree[a], Stopped}
        /\ AfterMake(phase, tree[a], proc[a]) # tree[a] => phase = "reload"
    BY TypeFacts DEF AfterMake, InRollout, Lifecycle
  <2>4. /\ proc' = [proc EXCEPT ![a] = AfterMake(phase, tree[a], proc[a])]
        /\ step' = [step EXCEPT ![a] = "done"] /\ pc = "batch"
        /\ UNCHANGED <<tree, listed, runner, tx, pc, phase>>
    BY <1>15, <2>2 DEF RunWorkerCommand, AfterCommand, InRollout
  <2> QED BY <1>15, <2>3, <2>4, TypeFacts
             DEF RunWorkerCommand, BatchProgress, Converged, InRollout
<1>16. ASSUME NEW a \in Allocs, CommandFails(a) PROVE BatchProgress'
  <2> SUFFICES ASSUME InRollout PROVE BatchProgress'
    BY <1>16 DEF CommandFails, BatchProgress, Converged, InRollout
  <2>1. /\ \A b \in Allocs \ {a} : proc'[b] = proc[b] /\ step'[b] = step[b]
        /\ step'[a] = "failed" /\ pc = "batch"
        /\ UNCHANGED <<tree, listed, runner, tx, pc, phase>>
    BY <1>16, TypeFacts DEF CommandFails, InRollout
  <2> QED BY <2>1 DEF BatchProgress, Converged, InRollout
<1>17. CASE BatchFails
  BY <1>17 DEF BatchFails, Abort, BatchProgress, Converged, InRollout
<1>18. CASE PromoteBatch
  <2> SUFFICES ASSUME phase # "stop" PROVE BatchProgress'
    BY <1>18 DEF PromoteBatch, BatchProgress, Converged, InRollout
  <2>1. /\ SamePlacement(tx, tx') /\ tx'.pending = tx.pending
        /\ \A a \in Batch : tx.pending[a] # NoHash =>
             tx'.applied[a] = tx.pending[a] /\ tx'.appliedVersion[a] = tx.target[a]
    BY <1>18, PromoteBatchEffect
  <2>2. /\ pc = "batch" /\ \A a \in Batch : step[a] = "done"
        /\ UNCHANGED <<tree, proc, listed, runner, phase, step>>
    BY <1>18, TypeFacts DEF PromoteBatch, BatchSettled, Batch, Steps
  <2>3. \A a \in Batch : tx.pending[a] = tx.content[a[1]] /\ tx.pending[a] # NoHash
    BY <2>2, CatalogAssumption, TypeFacts, CatalogFacts
       DEF Batch, BatchScope, InRollout, PlanFresh, ActiveAllocations,
           IsActiveAllocation, AllocationsOf, NonRemoved
  <2>4. \A a \in Batch : Converged(tx', a)
    BY <2>1, <2>3 DEF SamePlacement, BatchProgress, Converged, InRollout
  <2> QED BY <2>1, <2>2, <2>4 DEF Batch, SamePlacement, BatchProgress, Converged, InRollout
<1>19. CASE PostBatchHealthPasses
  BY <1>19 DEF PostBatchHealthPasses, BatchProgress, Converged, InRollout, NoStep
<1>20. CASE PostBatchHealthFails
  BY <1>20 DEF PostBatchHealthFails, Abort, BatchProgress, Converged, InRollout
<1>21. CASE HandleUpdatedAllocations
  BY <1>21
     DEF HandleUpdatedAllocations, BatchProgress, Converged, InRollout, BatchScope,
         NoStep
<1>22. CASE EndReloads
  BY <1>22 DEF EndReloads, BatchProgress, Converged, InRollout, BatchScope, NoStep
<1>23. CASE FinalizeJobDeploy
  BY <1>23 DEF FinalizeJobDeploy, BatchProgress, Converged, InRollout
<1>24. CASE EndRollout
  BY <1>24 DEF EndRollout, BatchProgress, Converged, InRollout
<1>25. ASSUME NEW W \in SUBSET Workers, FinalSyncWorkerMetadata(W) PROVE BatchProgress'
  BY <1>25 DEF FinalSyncWorkerMetadata, BatchProgress, Converged, InRollout
<1>26. CASE Commit
  BY <1>26 DEF Commit, BatchProgress, Converged, InRollout
<1>27. CASE Crash
  BY <1>27 DEF Crash, BatchProgress, Converged, InRollout
<1>28. CASE UNCHANGED vars
  BY <1>28 DEF BatchProgress, Converged, InRollout, vars
<1> QED BY <1>1, <1>2, <1>3, <1>4, <1>5, <1>6, <1>7, <1>8, <1>9, <1>10, <1>11, <1>12,
           <1>13, <1>14, <1>15, <1>16, <1>17, <1>18, <1>19, <1>20, <1>21, <1>22, <1>23,
           <1>24, <1>25, <1>26, <1>27, <1>28, Zenon
        DEF Next, RunStep, Deploy

-----------------------------------------------------------------------------
(* The inductive invariant. *)
IInv ==
  /\ TypeOK /\ TransactionScope /\ BatchScope /\ FilterScope /\ OutcomeScope
  /\ PlanFresh /\ StampScope /\ BatchProgress
  /\ DeployedJobsConverged /\ FilterConfinesTransaction /\ DependencyOrder

(* A new bucket, before its first build, satisfies it. *)
LEMMA InitIInv == Init => IInv
<1> SUFFICES ASSUME Init PROVE IInv
  OBVIOUS
<1>1. /\ (CHOOSE j \in Jobs : TRUE) \in Jobs
      /\ [j \in Jobs |-> CHOOSE c \in Contents : TRUE] \in [Jobs -> Contents]
  BY CatalogAssumption
<1>2. db \in CatalogType /\ tx = db /\ db.workers = {} /\ db.gen = 0
  BY <1>1, EmptyCatalogType DEF Init, EmptyCatalog
<1>3. TypeOK
  BY <1>1, <1>2 DEF Init, TypeOK, Trees, Procs, PCs, Outcomes, Lifecycle, NoStep, Steps
<1>4. TransactionScope /\ StampScope
  <2>1. pc = "idle" /\ result = "none" /\ \A w \in Workers : stamp[w] = 0
    BY DEF Init
  <2> QED BY <1>2, <2>1 DEF TransactionScope, StampScope
<1>5. BatchScope /\ FilterScope /\ OutcomeScope /\ PlanFresh /\ BatchProgress
  BY DEF Init, BatchScope, FilterScope, OutcomeScope, PlanFresh, BatchProgress, InBatches,
         InRollout, NoStep
<1>6. DeployedJobsConverged /\ FilterConfinesTransaction /\ DependencyOrder
  BY DEF Init, DeployedJobsConverged, FilterConfinesTransaction, DependencyOrder, InRollout
<1> QED BY <1>3, <1>4, <1>5, <1>6 DEF IInv

(* Every step of a build or deploy keeps it. *)
LEMMA NextIInv == IInv /\ [Next]_vars => IInv'
  BY TypeStep, TransactionScopeStep, BatchScopeStep, FilterScopeStep, OutcomeScopeStep,
     PlanFreshStep, StampScopeStep, BatchProgressStep, DeployedJobsConvergedStep,
     FilterConfinesTransactionStep, DependencyOrderStep
     DEF IInv

(* Every reachable state satisfies the inductive invariant. *)
THEOREM Invariance == Spec => []IInv
<1>1. Init => IInv
  BY InitIInv
<1>2. IInv /\ [Next]_vars => IInv'
  BY NextIInv
<1> QED BY <1>1, <1>2, PTL DEF Spec

(* Type correctness. *)
THEOREM TypeCorrect == Spec => []TypeOK
<1>1. IInv => TypeOK
  BY DEF IInv
<1> QED BY <1>1, Invariance, PTL

(* A job reported as deployed or skipped is promoted to the last build.     *)
THEOREM ReportedJobsConverged == Spec => []DeployedJobsConverged
<1>1. IInv => DeployedJobsConverged
  BY DEF IInv
<1> QED BY <1>1, Invariance, PTL

(* At a post-batch health gate the batch runs what was promoted. *)
THEOREM GateSeesPlan == Spec => []PromotedBatchRunsPlan
<1>1. IInv => PromotedBatchRunsPlan
  BY DEF IInv, BatchProgress, PromotedBatchRunsPlan, Batch
<1> QED BY <1>1, Invariance, PTL

(* worker.json is at most one generation ahead of the catalog, and never    *)
(* ahead of it unless a run was killed before its commit.                   *)
THEOREM StampFollowsCommit == Spec => []GenerationStamp
<1>1. IInv => GenerationStamp
  BY DEF IInv, StampScope, TransactionScope, GenerationStamp
<1> QED BY <1>1, Invariance, PTL

(* --jobs confines what the transaction writes. *)
THEOREM FilteredTransaction == Spec => []FilterConfinesTransaction
<1>1. IInv => FilterConfinesTransaction
  BY DEF IInv
<1> QED BY <1>1, Invariance, PTL

(* Jobs are rolled out in deployment order. *)
THEOREM RolloutOrder == Spec => []DependencyOrder
<1>1. IInv => DependencyOrder
  BY DEF IInv
<1> QED BY <1>1, Invariance, PTL

-----------------------------------------------------------------------------
(* What no step does. *)

(* Lifecycle commands are the only steps that touch processes, and each     *)
(* touches the one of the allocation it runs for.                           *)
LEMMA ProcessSteps ==
  ASSUME TypeOK, [Next]_vars, NEW a \in Allocs, proc'[a] # proc[a]
  PROVE  RunWorkerCommand(a) \/ CommandFails(a)
<1> USE DEF catVars, hostVars, argVars, recVars, jobVars, runVars, cmdVars
<1>1. ASSUME NEW b \in Allocs, RunWorkerCommand(b) \/ CommandFails(b) PROVE a = b
  BY <1>1, TypeFacts DEF RunWorkerCommand, CommandFails
<1>2. CASE \/ \E ws \in Workspaces : Build(ws)
           \/ Deploy \/ PreDeploy \/ EndStops \/ EndCleanup \/ RemoveWorkerBuckets
           \/ \E j \in Jobs : ReconcileStoppedAllocationsForJob(j) \/ DeployJob(j)
           \/ \E b \in Allocs : RemoveJobDeployArtifacts(b) \/ CleanupFails(b)
  BY <1>2 DEF Build, Deploy, StartDeploy, PreDeploy, ReconcileStoppedAllocationsForJob,
     EndStops, RemoveJobDeployArtifacts, CleanupFails, EndCleanup, RemoveWorkerBuckets,
     DeployJob
<1>3. CASE \/ PreBatchHealthFails \/ PickBatch \/ BatchFails \/ PromoteBatch
           \/ PostBatchHealthPasses \/ PostBatchHealthFails
           \/ \E b \in Allocs : SyncWorkerFiles(b) \/ SyncFails(b)
  BY <1>3 DEF PreBatchHealthFails, PickBatch, SyncWorkerFiles, SyncFails, BatchFails,
     PromoteBatch, PostBatchHealthPasses, PostBatchHealthFails
<1>4. CASE \/ HandleUpdatedAllocations \/ EndReloads \/ FinalizeJobDeploy \/ EndRollout
           \/ Commit \/ Crash \/ UNCHANGED vars
           \/ \E W \in SUBSET Workers : FinalSyncWorkerMetadata(W)
  BY <1>4 DEF HandleUpdatedAllocations, EndReloads, FinalizeJobDeploy, EndRollout,
     FinalSyncWorkerMetadata, Commit, Crash, vars
<1> QED BY <1>1, <1>2, <1>3, <1>4 DEF Next, RunStep

(* No command brings up a process of a removed or disabled allocation. *)
THEOREM InactiveStayDown == Spec => NeverStartsInactive
<1>1. ASSUME IInv, [Next]_vars, NEW a \in Allocs, proc'[a] \notin {proc[a], Stopped}
      PROVE  IsActiveAllocation(tx, a)
  <2>1. /\ pc = "batch" /\ step[a] = "cmd"
        /\ proc'[a] \in RunnerSucceeds(phase, a[2] \in runner, a \in listed, tree[a], proc[a])
             \cup RunnerFails(phase, a[2] \in runner, a \in listed, tree[a], proc[a])
    BY <1>1, ProcessSteps, TypeFacts DEF IInv, RunWorkerCommand, CommandFails
  <2>2. phase # "stop"
    BY <1>1, <2>1 DEF RunnerSucceeds, RunnerFails, AfterMake
  <2> QED BY <1>1, <2>1, <2>2 DEF IInv, BatchScope, InRollout, ActiveAllocations
<1>2. IInv /\ [Next]_vars =>
        [\A a \in Allocs : proc'[a] \notin {proc[a], Stopped} => IsActiveAllocation(tx, a)]_vars
  BY <1>1
<1> QED BY <1>2, Invariance, PTL DEF Spec, NeverStartsInactive

(* A run leaves the processes of jobs outside --jobs alone. *)
THEOREM FilteredLifecycle == Spec => FilterConfinesLifecycle
<1>1. ASSUME IInv, [Next]_vars, NEW a \in Allocs, proc'[a] # proc[a]
      PROVE  a[1] \in filter
  <2>1. pc = "batch" /\ step[a] = "cmd"
    BY <1>1, ProcessSteps DEF IInv, RunWorkerCommand, CommandFails
  <2> QED BY <1>1, <2>1 DEF IInv, BatchScope, FilterScope, InBatches, InRollout,
             ActiveAllocations, AllocationsOf
<1>2. IInv /\ [Next]_vars => [\A a \in Allocs : proc'[a] # proc[a] => a[1] \in filter]_vars
  BY <1>1
<1> QED BY <1>2, Invariance, PTL DEF Spec, FilterConfinesLifecycle

(* Inside a run only a failed gate or a removal takes an allocation's live  *)
(* state away.                                                              *)
LEMMA DemotionSteps ==
  ASSUME TypeOK, BatchScope, [Next]_vars, pc # "idle", result' # "killed",
         NEW a \in Allocs, AllocationLive(tx, a), a \notin tx.removed,
         ~(pc = "gate" /\ a \in Batch)
  PROVE  AllocationLive(tx', a)
<1> USE DEF catVars, hostVars, argVars, recVars, jobVars, runVars, cmdVars, AllocationLive,
            AllocationWasDeployed
<1>1. ASSUME NEW j \in Jobs, ReconcileStoppedAllocationsForJob(j) PROVE AllocationLive(tx', a)
  BY <1>1, ReconcileEffect DEF SameHashRow
<1>2. ASSUME NEW b \in Allocs, RemoveJobDeployArtifacts(b) PROVE AllocationLive(tx', a)
  <2>1. b # a
    BY <1>2 DEF RemoveJobDeployArtifacts, BatchScope
  <2> QED BY <1>2, <2>1, ArtifactsEffect DEF SameHashRow
<1>3. CASE PromoteBatch \/ FinalizeJobDeploy
  <2>1. tx'.applied[a] \in {tx.applied[a], tx.pending[a]} \ {NoHash}
    BY <1>3, PromoteBatchEffect, FinalizeEffect DEF SameHashRow
  <2>2. tx.pending[a] \in Contents \cup {NoHash}
    BY TypeFacts, CatalogFacts
  <2>3. HealthFailed \notin Contents \cup {NoHash}
    BY CatalogAssumption
  <2> QED BY <2>1, <2>2, <2>3
<1>4. CASE PostBatchHealthFails
  <2>1. a \notin Batch
    BY <1>4 DEF PostBatchHealthFails
  <2> QED BY <1>4, <2>1, HealthFailsEffect
<1>5. CASE Commit
  BY <1>5, TypeFacts, CatalogFacts DEF Commit
<1>6. CASE \/ \E ws \in Workspaces : Build(ws)
           \/ Deploy \/ PreDeploy \/ EndStops \/ EndCleanup \/ RemoveWorkerBuckets
           \/ \E j \in Jobs : DeployJob(j)
           \/ \E b \in Allocs : CleanupFails(b)
  BY <1>6 DEF Build, Deploy, StartDeploy, PreDeploy, EndStops, CleanupFails, EndCleanup,
     RemoveWorkerBuckets, DeployJob
<1>7. CASE \/ PreBatchHealthFails \/ PickBatch \/ BatchFails \/ PostBatchHealthPasses
           \/ \E b \in Allocs : \/ SyncWorkerFiles(b) \/ SyncFails(b)
                                \/ RunWorkerCommand(b) \/ CommandFails(b)
  BY <1>7 DEF PreBatchHealthFails, PickBatch, SyncWorkerFiles, SyncFails, RunWorkerCommand,
     CommandFails, BatchFails, PostBatchHealthPasses
<1>8. CASE \/ HandleUpdatedAllocations \/ EndReloads \/ EndRollout \/ Crash \/ UNCHANGED vars
           \/ \E W \in SUBSET Workers : FinalSyncWorkerMetadata(W)
  BY <1>8 DEF HandleUpdatedAllocations, EndReloads, EndRollout, FinalSyncWorkerMetadata,
     Crash, vars
<1> QED BY <1>1, <1>2, <1>3, <1>4, <1>5, <1>6, <1>7, <1>8 DEF Next, RunStep

(* Earlier batches that passed health stay promoted, whatever fails later.  *)
THEOREM EarlierBatchesStayPromoted == Spec => OnlyFailedBatchDemoted
<1>1. IInv /\ [Next]_vars =>
        [pc # "idle" /\ result' # "killed" =>
           \A a \in Allocs : AllocationLive(tx, a) /\ ~AllocationLive(tx', a) =>
             \/ a \in tx.removed
             \/ pc = "gate" /\ a \in Batch]_vars
  BY DemotionSteps DEF IInv
<1> QED BY <1>1, Invariance, PTL DEF Spec, OnlyFailedBatchDemoted

=============================================================================
