---------------------------- MODULE DeployScopes ----------------------------
(***************************************************************************)
(* What each catalog update leaves alone and what it writes; then the steps *)
(* of Deploy: types, and what a run may touch.  Each step lemma shows that  *)
(* one conjunct of the inductive invariant survives every action.          *)
(***************************************************************************)
EXTENDS Deploy, TLAPS

-----------------------------------------------------------------------------
(* Catalog updates, for every catalog and every set of allocations *)

(* The columns no hash update touches: rows, flags, targets, contents.      *)
SamePlacement(c, d) ==
  /\ d.workers = c.workers /\ d.jobs = c.jobs /\ d.content = c.content
  /\ d.rows = c.rows /\ d.removed = c.removed /\ d.disabled = c.disabled
  /\ d.target = c.target

(* The hash row of one allocation. *)
SameHashRow(c, d, a) ==
  /\ d.pending[a] = c.pending[a] /\ d.applied[a] = c.applied[a]
  /\ d.appliedVersion[a] = c.appliedVersion[a]

(* The empty database of a new bucket is a catalog (schema defaults). *)
LEMMA EmptyCatalogType ==
  ASSUME NEW k \in [Jobs -> Contents]
  PROVE  EmptyCatalog(k) \in CatalogType
  BY CatalogAssumption DEF EmptyCatalog, CatalogType, AppliedHashes

(* Columns of a catalog. *)
LEMMA CatalogFacts ==
  ASSUME NEW c \in CatalogType
  PROVE  /\ c.rows \subseteq Allocs /\ c.jobs \subseteq Jobs /\ c.workers \subseteq Workers
         /\ c.content \in [Jobs -> Contents]
         /\ c.pending \in [Allocs -> Contents \cup {NoHash}]
         /\ c.gen \in Nat
  BY DEF CatalogType

(* Putting the generation back touches nothing else. *)
LEMMA GenerationUpdateType ==
  ASSUME NEW c \in CatalogType, NEW g \in Nat
  PROVE  /\ [c EXCEPT !.gen = g] \in CatalogType
         /\ SamePlacement(c, [c EXCEPT !.gen = g])
         /\ [c EXCEPT !.gen = g].gen = g
         /\ [c EXCEPT !.gen = g].pending = c.pending
         /\ [c EXCEPT !.gen = g].applied = c.applied
         /\ [c EXCEPT !.gen = g].appliedVersion = c.appliedVersion
  BY DEF CatalogType, SamePlacement

(* Deleting hash rows yields a catalog, and touches only those rows. *)
LEMMA RemoveAllocationHashType ==
  ASSUME NEW c \in CatalogType, NEW A
  PROVE  /\ RemoveAllocationHash(c, A) \in CatalogType
         /\ SamePlacement(c, RemoveAllocationHash(c, A))
         /\ RemoveAllocationHash(c, A).gen = c.gen
         /\ \A a \in Allocs \ A :
              /\ RemoveAllocationHash(c, A).pending[a] = c.pending[a]
              /\ RemoveAllocationHash(c, A).applied[a] = c.applied[a]
              /\ RemoveAllocationHash(c, A).appliedVersion[a] = c.appliedVersion[a]
  BY CatalogAssumption DEF RemoveAllocationHash, CatalogType, AppliedHashes, SamePlacement

(* Planning writes pending hashes only. *)
LEMMA UpdateAllocationPlanType ==
  ASSUME NEW c \in CatalogType, NEW A \in SUBSET Allocs
  PROVE  /\ UpdateAllocationPlan(c, A) \in CatalogType
         /\ SamePlacement(c, UpdateAllocationPlan(c, A))
         /\ UpdateAllocationPlan(c, A).gen = c.gen
         /\ UpdateAllocationPlan(c, A).applied = c.applied
         /\ UpdateAllocationPlan(c, A).appliedVersion = c.appliedVersion
         /\ \A a \in Allocs : UpdateAllocationPlan(c, A).pending[a] =
              IF a \in A THEN c.content[a[1]] ELSE c.pending[a]
  BY CatalogAssumption
     DEF UpdateAllocationPlan, CatalogType, AppliedHashes, SamePlacement, Allocs

(* A promote copies plan to applied for the allocations that have a row. *)
LEMMA PromoteAllocationStateType ==
  ASSUME NEW c \in CatalogType, NEW A
  PROVE  /\ PromoteAllocationState(c, A) \in CatalogType
         /\ SamePlacement(c, PromoteAllocationState(c, A))
         /\ PromoteAllocationState(c, A).gen = c.gen
         /\ PromoteAllocationState(c, A).pending = c.pending
         /\ \A a \in Allocs :
              IF a \in A /\ c.pending[a] # NoHash
              THEN /\ PromoteAllocationState(c, A).applied[a] = c.pending[a]
                   /\ PromoteAllocationState(c, A).appliedVersion[a] = c.target[a]
              ELSE /\ PromoteAllocationState(c, A).applied[a] = c.applied[a]
                   /\ PromoteAllocationState(c, A).appliedVersion[a] = c.appliedVersion[a]
  BY CatalogAssumption
     DEF PromoteAllocationState, CatalogType, AppliedHashes, SamePlacement, HasHashRow

(* A failed gate overwrites applied hashes of the batch only. *)
LEMMA MarkAllocationHealthFailedType ==
  ASSUME NEW c \in CatalogType, NEW A
  PROVE  /\ MarkAllocationHealthFailed(c, A) \in CatalogType
         /\ SamePlacement(c, MarkAllocationHealthFailed(c, A))
         /\ MarkAllocationHealthFailed(c, A).gen = c.gen
         /\ MarkAllocationHealthFailed(c, A).pending = c.pending
         /\ MarkAllocationHealthFailed(c, A).appliedVersion = c.appliedVersion
         /\ \A a \in Allocs \ A : MarkAllocationHealthFailed(c, A).applied[a] = c.applied[a]
  BY CatalogAssumption
     DEF MarkAllocationHealthFailed, CatalogType, AppliedHashes, SamePlacement, HasHashRow

(* Forgetting the applied state yields a catalog. *)
LEMMA MarkAllocationStartPendingType ==
  ASSUME NEW c \in CatalogType, NEW A
  PROVE  /\ MarkAllocationStartPending(c, A) \in CatalogType
         /\ SamePlacement(c, MarkAllocationStartPending(c, A))
         /\ MarkAllocationStartPending(c, A).gen = c.gen
  BY CatalogAssumption
     DEF MarkAllocationStartPending, CatalogType, AppliedHashes, SamePlacement

(* The bump of the generation touches nothing else. *)
LEMMA BumpGenerationType ==
  ASSUME NEW c \in CatalogType
  PROVE  /\ BumpGeneration(c) \in CatalogType
         /\ SamePlacement(c, BumpGeneration(c))
         /\ BumpGeneration(c).gen = c.gen + 1
         /\ BumpGeneration(c).pending = c.pending
         /\ BumpGeneration(c).applied = c.applied
         /\ BumpGeneration(c).appliedVersion = c.appliedVersion
  BY DEF BumpGeneration, CatalogType, SamePlacement

(* A build of a well-formed workspace yields a catalog. *)
LEMMA BuildCatalogType ==
  ASSUME NEW c \in CatalogType, NEW ws \in Workspaces
  PROVE  /\ BuildCatalog(c, ws) \in CatalogType
         /\ BuildCatalog(c, ws).gen = c.gen
         /\ BuildCatalog(c, ws).workers = ws.workers
<1> DEFINE c1 == [c EXCEPT !.workers = ws.workers,
                           !.jobs    = ws.jobs,
                           !.content = [j \in Jobs |-> IF j \in ws.jobs THEN ws.content[j]
                                                                       ELSE @[j]]]
           match == MatchingAllocations(ws)
           rows  == c1.rows \cup match
           c2 == [c1 EXCEPT
                   !.rows     = rows,
                   !.removed  = rows \ match,
                   !.disabled = (@ \ match) \cup (DisabledBy(ws) \cap rows),
                   !.target   = [a \in Allocs |-> IF a \in match
                                                  THEN VersionOf[ws.content[a[1]]] ELSE @[a]]]
<1>1. /\ c1 \in CatalogType /\ c1.gen = c.gen /\ c1.workers = ws.workers
  BY WorkspaceAssumption DEF CatalogType
<1>2. match \subseteq Allocs
  BY WorkspaceAssumption DEF MatchingAllocations, Allocs
<1>3. /\ c2 \in CatalogType /\ c2.gen = c1.gen /\ c2.workers = c1.workers
  <2> HIDE DEF c1, match
  <2>1. \A a \in Allocs : VersionOf[ws.content[a[1]]] \in Versions
    BY WorkspaceAssumption, CatalogAssumption DEF Allocs
  <2> QED BY <1>1, <1>2, <2>1 DEF CatalogType
<1>4. BuildCatalog(c, ws) = MarkReenabledAllocations(c2, LoadDisabledAllocations(c1))
  BY DEF BuildCatalog, BuildAllocations
<1> HIDE DEF c1, c2
<1>5. \A A : /\ MarkAllocationStartPending(c2, A) \in CatalogType
            /\ MarkAllocationStartPending(c2, A).gen = c2.gen
            /\ MarkAllocationStartPending(c2, A).workers = c2.workers
  BY <1>3, MarkAllocationStartPendingType DEF SamePlacement
<1> QED BY <1>1, <1>3, <1>4, <1>5 DEF MarkReenabledAllocations

-----------------------------------------------------------------------------
(* Steps of Deploy *)

(* Every step of a build or deploy keeps the variables within their types. *)
LEMMA TypeStep ==
  ASSUME TypeOK, [Next]_vars
  PROVE  TypeOK'
<1> USE DEF TypeOK, catVars, hostVars, argVars, recVars, jobVars, runVars, cmdVars
<1>1. ASSUME NEW ws \in Workspaces, Build(ws) PROVE TypeOK'
  BY <1>1, BuildCatalogType DEF Build
<1>2. ASSUME NEW F \in Filters, NEW f \in Forces, NEW bad \in SUBSET Jobs,
             NEW planned \in SUBSET (bad \X Workers), StartDeploy(F, f, bad, planned)
      PROVE  TypeOK'
  <2> DEFINE jobs == SelectJobsForDeploy(db, F)
             plan == {a \in NonRemoved(db) : a[1] \in jobs /\ (a[1] \in bad => a \in planned)}
  <2>1. plan \in SUBSET Allocs /\ jobs \subseteq Jobs
    BY DEF NonRemoved, TypeOK, CatalogType, SelectJobsForDeploy, GetDeployableJobs
  <2>2. tx' \in CatalogType
    BY <1>2, <2>1, BumpGenerationType, UpdateAllocationPlanType
       DEF StartDeploy, TypeOK
  <2> QED BY <1>2, <2>1, <2>2, DeployAssumption
          DEF StartDeploy, TypeOK, hostVars, recVars, jobVars, Outcomes, PCs
<1>3. CASE PreDeploy
  BY <1>3 DEF PreDeploy, PCs, OffCatalogWorkers
<1>4. ASSUME NEW j \in Jobs, ReconcileStoppedAllocationsForJob(j) PROVE TypeOK'
  BY <1>4, RemoveAllocationHashType
     DEF ReconcileStoppedAllocationsForJob, PCs, ListStoppedAllocations, AllocationsOf,
         Allocs, Lifecycle
<1>5. CASE EndStops
  BY <1>5 DEF EndStops, PCs
<1>6. ASSUME NEW a \in Allocs, RemoveJobDeployArtifacts(a) PROVE TypeOK'
  BY <1>6, RemoveAllocationHashType
     DEF RemoveJobDeployArtifacts, CleanupDeployArtifacts, Trees
<1>7. ASSUME NEW a \in Allocs, CleanupFails(a) PROVE TypeOK'
  BY <1>7
     DEF CleanupFails, Abort, CleanupDeployArtifacts, Trees, PCs, Outcomes, NoStep,
         Steps
<1>8. CASE EndCleanup
  BY <1>8 DEF EndCleanup, PCs
<1>9. CASE RemoveWorkerBuckets
  BY <1>9 DEF RemoveWorkerBuckets, PCs, Trees
<1>10. ASSUME NEW j \in Jobs, DeployJob(j) PROVE TypeOK'
  BY <1>10
     DEF DeployJob, PCs, Lifecycle, Outcomes, GetNewAllocations, ActiveAllocations,
         AllocationsOf, Allocs
<1>11. CASE PreBatchHealthFails
  BY <1>11 DEF PreBatchHealthFails, Abort, PCs, Outcomes, NoStep, Steps
<1>12. CASE PickBatch
  BY <1>12 DEF PickBatch, PCs, Steps
<1>13. ASSUME NEW a \in Allocs, SyncWorkerFiles(a) PROVE TypeOK'
  BY <1>13
     DEF SyncWorkerFiles, Steps, AfterSync, InstallMetadata, StagedJobsOn, NonRemoved,
         CatalogType, StagedTrees, Trees, Allocs
<1>14. ASSUME NEW a \in Allocs, SyncFails(a) PROVE TypeOK'
  BY <1>14
     DEF SyncFails, Steps, InstallMetadata, StagedJobsOn, NonRemoved, CatalogType,
         StagedTrees, Trees, Allocs
<1>15. ASSUME NEW a \in Allocs, RunWorkerCommand(a) PROVE TypeOK'
  BY <1>15
     DEF RunWorkerCommand, Steps, AfterCommand, RunnerSucceeds, AfterMake, Procs, Trees,
         Lifecycle
<1>16. ASSUME NEW a \in Allocs, CommandFails(a) PROVE TypeOK'
  BY <1>16 DEF CommandFails, Steps, RunnerFails, AfterMake, Procs, Trees, Lifecycle
<1>17. CASE BatchFails
  BY <1>17 DEF BatchFails, Abort, PCs, Outcomes, NoStep, Steps
<1>18. CASE PromoteBatch
  BY <1>18, PromoteAllocationStateType DEF PromoteBatch, PCs
<1>19. CASE PostBatchHealthPasses
  BY <1>19 DEF PostBatchHealthPasses, PCs, NoStep, Steps
<1>20. CASE PostBatchHealthFails
  BY <1>20, MarkAllocationHealthFailedType
     DEF PostBatchHealthFails, Abort, PCs, Outcomes, NoStep, Steps
<1>21. CASE HandleUpdatedAllocations
  BY <1>21
     DEF HandleUpdatedAllocations, Lifecycle, AllocationsNeedingRestart,
         ActiveAllocations, AllocationsOf, GetUpdatedAllocations,
         GetVersionPendingAllocations, Allocs
<1>22. CASE EndReloads
  BY <1>22 DEF EndReloads, Lifecycle
<1>23. CASE FinalizeJobDeploy
  BY <1>23, PromoteAllocationStateType DEF FinalizeJobDeploy, PCs, Outcomes
<1>24. CASE EndRollout
  BY <1>24 DEF EndRollout, PCs
<1>25. ASSUME NEW W \in SUBSET Workers, FinalSyncWorkerMetadata(W) PROVE TypeOK'
  BY <1>25
     DEF FinalSyncWorkerMetadata, PCs, InstallMetadata, StagedJobsOn, NonRemoved,
         CatalogType, Allocs
<1>26. CASE Commit
  BY <1>26 DEF Commit, PCs, CatalogType
<1>27. CASE Crash
  BY <1>27 DEF Crash, PCs, NoStep, Steps
<1>28. CASE UNCHANGED vars
  BY <1>28 DEF vars
<1> QED BY <1>1, <1>2, <1>3, <1>4, <1>5, <1>6, <1>7, <1>8, <1>9, <1>10, <1>11, <1>12,
           <1>13, <1>14, <1>15, <1>16, <1>17, <1>18, <1>19, <1>20, <1>21, <1>22, <1>23,
           <1>24, <1>25, <1>26, <1>27, <1>28, Zenon
        DEF Next, RunStep, Deploy

(* What the other lemmas use of the types. *)
LEMMA TypeFacts ==
  ASSUME TypeOK
  PROVE  /\ db \in CatalogType /\ tx \in CatalogType
         /\ outcome \in [Jobs -> Outcomes] /\ sel \subseteq Jobs /\ cur \in Jobs
         /\ failed \in BOOLEAN
         /\ step \in [Allocs -> Steps] /\ todo \subseteq Allocs /\ phase \in Lifecycle
         /\ stamp \in [Workers -> Nat]
         /\ tree \in [Allocs -> Trees] /\ proc \in [Allocs -> Procs]
  BY DEF TypeOK

(* The rows a run plans: those of the selected jobs, less what a failed     *)
(* prepare did not reach.                                                   *)
PlannedFor(F, bad, planned) ==
  {a \in NonRemoved(db) :
     a[1] \in SelectJobsForDeploy(db, F) /\ (a[1] \in bad => a \in planned)}

(* A run starts from the committed rows, replans the selected allocations   *)
(* and bumps the generation.                                                *)
LEMMA StartDeployEffect ==
  ASSUME TypeOK, NEW F \in Filters, NEW f \in Forces, NEW bad \in SUBSET Jobs,
         NEW planned \in SUBSET (bad \X Workers), StartDeploy(F, f, bad, planned)
  PROVE  /\ SamePlacement(db, tx') /\ tx'.gen = db.gen + 1
         /\ tx'.applied = db.applied /\ tx'.appliedVersion = db.appliedVersion
         /\ \A a \in Allocs : tx'.pending[a] =
              IF a \in PlannedFor(F, bad, planned) THEN db.content[a[1]] ELSE db.pending[a]
<1>1. PlannedFor(F, bad, planned) \in SUBSET Allocs
  BY TypeFacts, CatalogFacts DEF PlannedFor, NonRemoved
<1>2. tx' = UpdateAllocationPlan(BumpGeneration(db), PlannedFor(F, bad, planned))
  BY DEF StartDeploy, PlannedFor
<1>3. /\ BumpGeneration(db) \in CatalogType /\ SamePlacement(db, BumpGeneration(db))
      /\ BumpGeneration(db).gen = db.gen + 1
      /\ BumpGeneration(db).pending = db.pending
      /\ BumpGeneration(db).applied = db.applied
      /\ BumpGeneration(db).appliedVersion = db.appliedVersion
  BY BumpGenerationType, TypeFacts
<1>4. /\ SamePlacement(BumpGeneration(db), tx')
      /\ tx'.gen = BumpGeneration(db).gen
      /\ tx'.applied = BumpGeneration(db).applied
      /\ tx'.appliedVersion = BumpGeneration(db).appliedVersion
  BY <1>1, <1>2, <1>3, UpdateAllocationPlanType
<1>5. \A a \in Allocs : tx'.pending[a] =
        IF a \in PlannedFor(F, bad, planned)
        THEN BumpGeneration(db).content[a[1]] ELSE BumpGeneration(db).pending[a]
  BY <1>1, <1>2, <1>3, UpdateAllocationPlanType
<1> QED BY <1>3, <1>4, <1>5 DEF SamePlacement

(* Reconcile deletes hash rows of removed allocations of its job only. *)
LEMMA ReconcileEffect ==
  ASSUME TypeOK, NEW j \in Jobs, ReconcileStoppedAllocationsForJob(j)
  PROVE  /\ SamePlacement(tx, tx') /\ tx'.gen = tx.gen
         /\ \A a \in Allocs : a \notin tx.removed \/ a \notin AllocationsOf(j)
              => SameHashRow(tx, tx', a)
<1>1. PICK A \in SUBSET (tx.removed \cap AllocationsOf(j)) : tx' = RemoveAllocationHash(tx, A)
  BY DEF ReconcileStoppedAllocationsForJob
<1> QED BY <1>1, RemoveAllocationHashType, TypeFacts DEF SameHashRow

(* The cleanup of a removed allocation deletes its hash row only. *)
LEMMA ArtifactsEffect ==
  ASSUME TypeOK, NEW a \in Allocs, RemoveJobDeployArtifacts(a)
  PROVE  /\ SamePlacement(tx, tx') /\ tx'.gen = tx.gen
         /\ \A b \in Allocs \ {a} : SameHashRow(tx, tx', b)
<1>1. tx' = RemoveAllocationHash(tx, {a})
  BY DEF RemoveJobDeployArtifacts
<1> QED BY <1>1, RemoveAllocationHashType, TypeFacts DEF SameHashRow

(* What a promote of the rows A does to the transaction. *)
LEMMA PromoteEffect ==
  ASSUME TypeOK, NEW A, tx' = PromoteAllocationState(tx, A)
  PROVE  /\ SamePlacement(tx, tx') /\ tx'.gen = tx.gen /\ tx'.pending = tx.pending
         /\ \A a \in Allocs :
              IF a \in A /\ tx.pending[a] # NoHash
              THEN tx'.applied[a] = tx.pending[a] /\ tx'.appliedVersion[a] = tx.target[a]
              ELSE SameHashRow(tx, tx', a)
<1>1. tx \in CatalogType
  BY TypeFacts
<1> QED BY <1>1, PromoteAllocationStateType DEF SameHashRow

(* A batch's promote. *)
LEMMA PromoteBatchEffect ==
  ASSUME TypeOK, PromoteBatch
  PROVE  /\ SamePlacement(tx, tx') /\ tx'.gen = tx.gen /\ tx'.pending = tx.pending
         /\ \A a \in Allocs :
              \/ SameHashRow(tx, tx', a)
              \/ /\ a \in Batch /\ tx.pending[a] # NoHash
                 /\ tx'.applied[a] = tx.pending[a] /\ tx'.appliedVersion[a] = tx.target[a]
         /\ phase # "stop" => \A a \in Batch : tx.pending[a] # NoHash =>
              tx'.applied[a] = tx.pending[a] /\ tx'.appliedVersion[a] = tx.target[a]
<1> DEFINE A == IF phase = "stop" THEN Batch \ tx.disabled ELSE Batch
<1>1. tx' = PromoteAllocationState(tx, A)
  BY DEF PromoteBatch
<1>2. A \subseteq Batch /\ Batch \subseteq Allocs /\ (phase # "stop" => A = Batch)
  BY DEF Batch
<1> HIDE DEF A
<1>3. /\ SamePlacement(tx, tx') /\ tx'.gen = tx.gen /\ tx'.pending = tx.pending
      /\ \A a \in Allocs :
           IF a \in A /\ tx.pending[a] # NoHash
           THEN tx'.applied[a] = tx.pending[a] /\ tx'.appliedVersion[a] = tx.target[a]
           ELSE SameHashRow(tx, tx', a)
  BY <1>1, PromoteEffect
<1> QED BY <1>2, <1>3

(* The promote of the whole job at the end of its rollout. *)
LEMMA FinalizeEffect ==
  ASSUME TypeOK, FinalizeJobDeploy
  PROVE  /\ SamePlacement(tx, tx') /\ tx'.gen = tx.gen /\ tx'.pending = tx.pending
         /\ \A a \in Allocs :
              IF a \in AllocationsOf(cur) \cap NonRemoved(tx) /\ tx.pending[a] # NoHash
              THEN tx'.applied[a] = tx.pending[a] /\ tx'.appliedVersion[a] = tx.target[a]
              ELSE SameHashRow(tx, tx', a)
<1>1. tx' = PromoteAllocationState(tx, AllocationsOf(cur) \cap NonRemoved(tx))
  BY DEF FinalizeJobDeploy
<1> QED BY <1>1, PromoteEffect

(* A failed gate demotes the batch, or nothing while stopping. *)
LEMMA HealthFailsEffect ==
  ASSUME TypeOK, PostBatchHealthFails
  PROVE  /\ SamePlacement(tx, tx') /\ tx'.gen = tx.gen /\ tx'.pending = tx.pending
         /\ tx'.appliedVersion = tx.appliedVersion
         /\ \A a \in Allocs \ Batch : tx'.applied[a] = tx.applied[a]
<1>1. CASE phase = "stop"
  <2>1. tx' = tx
    BY <1>1 DEF PostBatchHealthFails
  <2> QED BY <2>1 DEF SamePlacement
<1>2. CASE phase # "stop"
  <2>1. tx' = MarkAllocationHealthFailed(tx, Batch)
    BY <1>2 DEF PostBatchHealthFails
  <2>2. tx \in CatalogType
    BY TypeFacts
  <2> QED BY <2>1, <2>2, MarkAllocationHealthFailedType
<1> QED BY <1>1, <1>2

(* Steps that move a run along without touching the catalog, the outcomes   *)
(* or worker.json.                                                          *)
QuietStep ==
  \/ EndStops \/ EndCleanup \/ PickBatch \/ PostBatchHealthPasses
  \/ HandleUpdatedAllocations \/ EndReloads
  \/ \E a \in Allocs : \/ SyncWorkerFiles(a) \/ SyncFails(a)
                       \/ RunWorkerCommand(a) \/ CommandFails(a)

(* What they leave alone. *)
LEMMA QuietStepFrame ==
  ASSUME QuietStep
  PROVE  /\ UNCHANGED <<db, tx, stamp, filter, sel, outcome, failed, cur>>
         /\ {pc, pc'} \cap {"idle", "finish", "commit"} = {}
         /\ InRollout' => InRollout
<1> USE DEF catVars, hostVars, argVars, recVars, jobVars, runVars, cmdVars, InRollout
<1>1. CASE EndStops \/ EndCleanup
  BY <1>1 DEF EndStops, EndCleanup
<1>2. CASE PickBatch \/ PostBatchHealthPasses
  BY <1>2 DEF PickBatch, PostBatchHealthPasses
<1>3. CASE HandleUpdatedAllocations \/ EndReloads
  BY <1>3 DEF HandleUpdatedAllocations, EndReloads
<1>4. CASE \E a \in Allocs : SyncWorkerFiles(a) \/ SyncFails(a)
  BY <1>4 DEF SyncWorkerFiles, SyncFails
<1>5. CASE \E a \in Allocs : RunWorkerCommand(a) \/ CommandFails(a)
  BY <1>5 DEF RunWorkerCommand, CommandFails
<1> QED BY <1>1, <1>2, <1>3, <1>4, <1>5 DEF QuietStep

(* Steps that only abort the run. *)
AbortStep ==
  \/ PreBatchHealthFails \/ BatchFails
  \/ \E a \in Allocs : CleanupFails(a)

(* The catalog stays as it is. *)
LEMMA AbortStepFrame ==
  ASSUME AbortStep
  PROVE  /\ UNCHANGED <<db, tx, stamp, filter, sel>>
         /\ pc \notin {"idle", "finish", "commit"} /\ pc' = "finish" /\ failed'
<1> USE DEF hostVars, argVars, catVars, Abort
<1>1. CASE PreBatchHealthFails
  BY <1>1 DEF PreBatchHealthFails
<1>2. CASE BatchFails
  BY <1>2 DEF BatchFails
<1>3. CASE \E a \in Allocs : CleanupFails(a)
  BY <1>3 DEF CleanupFails
<1> QED BY <1>1, <1>2, <1>3 DEF AbortStep

(* Only the job being rolled out fails with the run. *)
LEMMA AbortStepOutcome ==
  ASSUME TypeOK, BatchScope, AbortStep
  PROVE  \A j \in Jobs : \/ outcome'[j] = outcome[j]
                         \/ outcome[j] = "none" /\ outcome'[j] = "failed"
<1>1. Abort /\ (phase = "stop" \/ InRollout)
  BY DEF AbortStep, PreBatchHealthFails, BatchFails, CleanupFails, BatchScope, InRollout
<1> QED BY <1>1, TypeFacts DEF Abort, BatchScope

(* A run changes hash rows and the generation only, and each command starts *)
(* from the committed catalog.                                              *)
LEMMA TransactionScopeStep ==
  ASSUME TypeOK, TransactionScope, [Next]_vars
  PROVE  TransactionScope'
<1> USE DEF catVars, hostVars, argVars, recVars, jobVars, runVars, cmdVars
<1>0. ASSUME UNCHANGED <<db, tx>>, pc # "idle", pc' # "idle"
      PROVE  TransactionScope'
  BY <1>0 DEF TransactionScope
<1>1. ASSUME NEW ws \in Workspaces, Build(ws) PROVE TransactionScope'
  BY <1>1, BuildCatalogType DEF Build, TransactionScope
<1>2. ASSUME NEW F \in Filters, NEW f \in Forces, NEW bad \in SUBSET Jobs,
             NEW planned \in SUBSET (bad \X Workers), StartDeploy(F, f, bad, planned)
      PROVE  TransactionScope'
  BY <1>2, StartDeployEffect DEF StartDeploy, TransactionScope, SamePlacement
<1>3. CASE PreDeploy
  BY <1>3, <1>0 DEF PreDeploy
<1>4. ASSUME NEW j \in Jobs, ReconcileStoppedAllocationsForJob(j) PROVE TransactionScope'
  BY <1>4, ReconcileEffect
     DEF ReconcileStoppedAllocationsForJob, TransactionScope, SamePlacement
<1>5. ASSUME NEW a \in Allocs, RemoveJobDeployArtifacts(a) PROVE TransactionScope'
  BY <1>5, ArtifactsEffect DEF RemoveJobDeployArtifacts, TransactionScope, SamePlacement
<1>6. CASE RemoveWorkerBuckets
  BY <1>6, <1>0 DEF RemoveWorkerBuckets
<1>7. ASSUME NEW j \in Jobs, DeployJob(j) PROVE TransactionScope'
  BY <1>7, <1>0 DEF DeployJob
<1>8. CASE QuietStep
  BY <1>8, QuietStepFrame, <1>0
<1>9. CASE AbortStep
  BY <1>9, AbortStepFrame, <1>0
<1>10. CASE PromoteBatch
  BY <1>10, PromoteBatchEffect DEF PromoteBatch, TransactionScope, SamePlacement
<1>11. CASE PostBatchHealthFails
  BY <1>11, HealthFailsEffect
     DEF PostBatchHealthFails, Abort, TransactionScope, SamePlacement
<1>12. CASE FinalizeJobDeploy
  BY <1>12, FinalizeEffect DEF FinalizeJobDeploy, TransactionScope, SamePlacement
<1>13. CASE EndRollout
  BY <1>13, <1>0 DEF EndRollout
<1>14. ASSUME NEW W \in SUBSET Workers, FinalSyncWorkerMetadata(W) PROVE TransactionScope'
  BY <1>14, <1>0 DEF FinalSyncWorkerMetadata
<1>15. CASE Commit
  BY <1>15, CatalogFacts DEF Commit, TransactionScope
<1>16. CASE Crash
  BY <1>16 DEF Crash, TransactionScope
<1>17. CASE UNCHANGED vars
  BY <1>17 DEF TransactionScope, vars
<1> QED BY <1>1, <1>2, <1>3, <1>4, <1>5, <1>6, <1>7, <1>8, <1>9, <1>10, <1>11, <1>12,
           <1>13, <1>14, <1>15, <1>16, <1>17, Zenon
        DEF Next, RunStep, Deploy, QuietStep, AbortStep

(* Batches hold allocations of the current job only: active ones in a       *)
(* rollout, removed or disabled ones in a reconcile.                        *)
LEMMA BatchScopeStep ==
  ASSUME TypeOK, TransactionScope, BatchScope, [Next]_vars
  PROVE  BatchScope'
<1> USE DEF catVars, hostVars, argVars, recVars, jobVars, runVars, cmdVars
<1>0. ASSUME UNCHANGED <<tx, sel, outcome, pc, cur, phase, todo, step, restarts, cleanup>>
      PROVE  BatchScope'
  BY <1>0 DEF BatchScope, InBatches, InRollout
<1>1. ASSUME NEW ws \in Workspaces, Build(ws) PROVE BatchScope'
  BY <1>1 DEF Build, BatchScope, InBatches, InRollout
<1>2. ASSUME NEW F \in Filters, NEW f \in Forces, NEW bad \in SUBSET Jobs,
             NEW planned \in SUBSET (bad \X Workers), StartDeploy(F, f, bad, planned)
      PROVE  BatchScope'
  BY <1>2 DEF StartDeploy, BatchScope, InBatches, InRollout
<1>3. CASE PreDeploy
  BY <1>3 DEF PreDeploy, BatchScope, InBatches, InRollout
<1>4. ASSUME NEW j \in Jobs, ReconcileStoppedAllocationsForJob(j) PROVE BatchScope'
  <2> DEFINE items == AllocationsOf(j) \cap ListStoppedAllocations(tx)
             stop == {a \in items : a \in tx.disabled \/ AllocationWasDeployed(tx, a)}
  <2>1. /\ pc = "reconcile" /\ pc' = "pick" /\ phase' = "stop" /\ cur' = j
        /\ step = NoStep /\ step' = step /\ restarts = {} /\ restarts' = restarts
        /\ todo' = stop /\ cleanup' = stop \cap tx.removed
    BY <1>4 DEF ReconcileStoppedAllocationsForJob, BatchScope, InBatches, InRollout
  <2>2. SamePlacement(tx, tx')
    BY <1>4, ReconcileEffect
  <2>3. todo' \subseteq AllocationsOf(cur') \cap ListStoppedAllocations(tx')
    BY <2>1, <2>2 DEF SamePlacement, ListStoppedAllocations
  <2>4. cleanup' \subseteq tx'.removed
    BY <2>1, <2>2 DEF SamePlacement
  <2> QED BY <2>1, <2>3, <2>4 DEF BatchScope, InBatches, InRollout, NoStep
<1>5. CASE EndStops
  BY <1>5 DEF EndStops, BatchScope, InBatches, InRollout
<1>6. ASSUME NEW a \in Allocs, RemoveJobDeployArtifacts(a) PROVE BatchScope'
  BY <1>6, ArtifactsEffect
     DEF RemoveJobDeployArtifacts, BatchScope, InBatches, InRollout, SamePlacement,
         ListStoppedAllocations, ActiveAllocations, IsActiveAllocation
<1>7. ASSUME NEW a \in Allocs, CleanupFails(a) PROVE BatchScope'
  BY <1>7 DEF CleanupFails, Abort, BatchScope, InBatches, InRollout, NoStep
<1>8. CASE EndCleanup
  BY <1>8 DEF EndCleanup, BatchScope, InBatches, InRollout
<1>9. CASE RemoveWorkerBuckets
  BY <1>9 DEF RemoveWorkerBuckets, BatchScope, InBatches, InRollout
<1>10. ASSUME NEW j \in Jobs, DeployJob(j) PROVE BatchScope'
  BY <1>10
     DEF DeployJob, BatchScope, InBatches, InRollout, JobsLeft, GetNewAllocations,
         NoStep
<1>11. CASE PreBatchHealthFails
  BY <1>11 DEF PreBatchHealthFails, Abort, BatchScope, InBatches, InRollout, NoStep
<1>12. CASE PickBatch
  BY <1>12 DEF PickBatch, BatchScope, InBatches, InRollout, NoStep
<1>13. ASSUME NEW a \in Allocs, SyncWorkerFiles(a) PROVE BatchScope'
  BY <1>13 DEF SyncWorkerFiles, BatchScope, InBatches, InRollout
<1>14. ASSUME NEW a \in Allocs, SyncFails(a) PROVE BatchScope'
  BY <1>14 DEF SyncFails, BatchScope, InBatches, InRollout
<1>15. ASSUME NEW a \in Allocs, RunWorkerCommand(a) PROVE BatchScope'
  BY <1>15 DEF RunWorkerCommand, BatchScope, InBatches, InRollout
<1>16. ASSUME NEW a \in Allocs, CommandFails(a) PROVE BatchScope'
  BY <1>16 DEF CommandFails, BatchScope, InBatches, InRollout
<1>17. CASE BatchFails
  BY <1>17 DEF BatchFails, Abort, BatchScope, InBatches, InRollout, NoStep
<1>18. CASE PromoteBatch
  BY <1>18, PromoteBatchEffect
     DEF PromoteBatch, BatchScope, InBatches, InRollout, SamePlacement,
         ListStoppedAllocations, ActiveAllocations, IsActiveAllocation
<1>19. CASE PostBatchHealthPasses
  BY <1>19 DEF PostBatchHealthPasses, BatchScope, InBatches, InRollout, NoStep
<1>20. CASE PostBatchHealthFails
  BY <1>20 DEF PostBatchHealthFails, Abort, BatchScope, InBatches, InRollout, NoStep
<1>21. CASE HandleUpdatedAllocations
  BY <1>21
     DEF HandleUpdatedAllocations, BatchScope, InBatches, InRollout,
         AllocationsNeedingRestart, GetUpdatedAllocations, GetVersionPendingAllocations
<1>22. CASE EndReloads
  BY <1>22 DEF EndReloads, BatchScope, InBatches, InRollout
<1>23. CASE FinalizeJobDeploy
  BY <1>23 DEF FinalizeJobDeploy, BatchScope, InBatches, InRollout, NoStep
<1>24. CASE EndRollout
  BY <1>24 DEF EndRollout, BatchScope, InBatches, InRollout
<1>25. ASSUME NEW W \in SUBSET Workers, FinalSyncWorkerMetadata(W) PROVE BatchScope'
  BY <1>25 DEF FinalSyncWorkerMetadata, BatchScope, InBatches, InRollout
<1>26. CASE Commit
  BY <1>26 DEF Commit, BatchScope, InBatches, InRollout, NoStep
<1>27. CASE Crash
  BY <1>27 DEF Crash, BatchScope, InBatches, InRollout, NoStep
<1>28. CASE UNCHANGED vars
  BY <1>28 DEF BatchScope, InBatches, InRollout, vars
<1> QED BY <1>1, <1>2, <1>3, <1>4, <1>5, <1>6, <1>7, <1>8, <1>9, <1>10, <1>11, <1>12,
           <1>13, <1>14, <1>15, <1>16, <1>17, <1>18, <1>19, <1>20, <1>21, <1>22, <1>23,
           <1>24, <1>25, <1>26, <1>27, <1>28, Zenon
        DEF Next, RunStep, Deploy

(* A run works only on jobs that --jobs names. *)
LEMMA FilterScopeStep ==
  ASSUME TypeOK, BatchScope, FilterScope, [Next]_vars
  PROVE  FilterScope'
<1> USE DEF catVars, hostVars, argVars, recVars, jobVars, runVars, cmdVars
<1>0. ASSUME UNCHANGED <<filter, sel, groups, pc, cur, phase, cleanup>>
      PROVE  FilterScope'
  BY <1>0 DEF FilterScope, InBatches
<1>1. ASSUME NEW ws \in Workspaces, Build(ws) PROVE FilterScope'
  BY <1>1 DEF Build, FilterScope, InBatches
<1>2. ASSUME NEW F \in Filters, NEW f \in Forces, NEW bad \in SUBSET Jobs,
             NEW planned \in SUBSET (bad \X Workers), StartDeploy(F, f, bad, planned)
      PROVE  FilterScope'
  BY <1>2 DEF StartDeploy, FilterScope, InBatches, SelectJobsForDeploy, BatchScope
<1>3. CASE PreDeploy
  BY <1>3 DEF PreDeploy, FilterScope, InBatches
<1>4. ASSUME NEW j \in Jobs, ReconcileStoppedAllocationsForJob(j) PROVE FilterScope'
  BY <1>4 DEF ReconcileStoppedAllocationsForJob, FilterScope, InBatches, AllocationsOf
<1>5. CASE EndStops
  BY <1>5 DEF EndStops, FilterScope, InBatches, BatchScope, InRollout
<1>6. ASSUME NEW a \in Allocs, RemoveJobDeployArtifacts(a) PROVE FilterScope'
  BY <1>6 DEF RemoveJobDeployArtifacts, FilterScope, InBatches
<1>7. ASSUME NEW a \in Allocs, CleanupFails(a) PROVE FilterScope'
  BY <1>7 DEF CleanupFails, Abort, FilterScope, InBatches
<1>8. CASE EndCleanup
  BY <1>8 DEF EndCleanup, FilterScope, InBatches
<1>9. CASE RemoveWorkerBuckets
  BY <1>9 DEF RemoveWorkerBuckets, FilterScope, InBatches
<1>10. ASSUME NEW j \in Jobs, DeployJob(j) PROVE FilterScope'
  BY <1>10 DEF DeployJob, FilterScope, InBatches, JobsLeft, BatchScope, InRollout
<1>11. CASE PreBatchHealthFails
  BY <1>11 DEF PreBatchHealthFails, Abort, FilterScope, InBatches
<1>12. CASE PickBatch
  BY <1>12 DEF PickBatch, FilterScope, InBatches
<1>13. ASSUME NEW a \in Allocs, SyncWorkerFiles(a) PROVE FilterScope'
  BY <1>13, <1>0 DEF SyncWorkerFiles
<1>14. ASSUME NEW a \in Allocs, SyncFails(a) PROVE FilterScope'
  BY <1>14, <1>0 DEF SyncFails
<1>15. ASSUME NEW a \in Allocs, RunWorkerCommand(a) PROVE FilterScope'
  BY <1>15, <1>0 DEF RunWorkerCommand
<1>16. ASSUME NEW a \in Allocs, CommandFails(a) PROVE FilterScope'
  BY <1>16, <1>0 DEF CommandFails
<1>17. CASE BatchFails
  BY <1>17 DEF BatchFails, Abort, FilterScope, InBatches
<1>18. CASE PromoteBatch
  BY <1>18 DEF PromoteBatch, FilterScope, InBatches
<1>19. CASE PostBatchHealthPasses
  BY <1>19 DEF PostBatchHealthPasses, FilterScope, InBatches
<1>20. CASE PostBatchHealthFails
  BY <1>20 DEF PostBatchHealthFails, Abort, FilterScope, InBatches
<1>21. CASE HandleUpdatedAllocations
  BY <1>21 DEF HandleUpdatedAllocations, FilterScope, InBatches, BatchScope, InRollout
<1>22. CASE EndReloads
  BY <1>22 DEF EndReloads, FilterScope, InBatches, BatchScope, InRollout
<1>23. CASE FinalizeJobDeploy
  BY <1>23 DEF FinalizeJobDeploy, FilterScope, InBatches, BatchScope, InRollout
<1>24. CASE EndRollout
  BY <1>24 DEF EndRollout, FilterScope, InBatches
<1>25. ASSUME NEW W \in SUBSET Workers, FinalSyncWorkerMetadata(W) PROVE FilterScope'
  BY <1>25 DEF FinalSyncWorkerMetadata, FilterScope, InBatches
<1>26. CASE Commit
  BY <1>26 DEF Commit, FilterScope, InBatches
<1>27. CASE Crash
  BY <1>27 DEF Crash, FilterScope, InBatches
<1>28. CASE UNCHANGED vars
  BY <1>28 DEF FilterScope, InBatches, vars
<1> QED BY <1>1, <1>2, <1>3, <1>4, <1>5, <1>6, <1>7, <1>8, <1>9, <1>10, <1>11, <1>12,
           <1>13, <1>14, <1>15, <1>16, <1>17, <1>18, <1>19, <1>20, <1>21, <1>22, <1>23,
           <1>24, <1>25, <1>26, <1>27, <1>28, Zenon
        DEF Next, RunStep, Deploy

(* Failures are on record, and a failed rollout ends the job loop. *)
LEMMA OutcomeScopeStep ==
  ASSUME TypeOK, BatchScope, OutcomeScope, [Next]_vars
  PROVE  OutcomeScope'
<1> USE DEF catVars, hostVars, argVars, recVars, jobVars, runVars, cmdVars
<1>0. ASSUME UNCHANGED <<sel, outcome, failed>>,
             pc \notin {"idle", "finish", "commit"}, pc' \notin {"finish", "commit"}
      PROVE  OutcomeScope'
  BY <1>0 DEF OutcomeScope, AllJobsDeployedOrSkipped
<1>1. ASSUME NEW ws \in Workspaces, Build(ws) PROVE OutcomeScope'
  BY <1>1 DEF Build, OutcomeScope, AllJobsDeployedOrSkipped
<1>2. ASSUME NEW F \in Filters, NEW f \in Forces, NEW bad \in SUBSET Jobs,
             NEW planned \in SUBSET (bad \X Workers), StartDeploy(F, f, bad, planned)
      PROVE  OutcomeScope'
  <2>1. /\ pc' = "predeploy" /\ sel' \subseteq Jobs
        /\ \A j \in Jobs : outcome'[j] = IF j \in bad THEN "unstaged" ELSE "none"
    BY <1>2, TypeFacts, CatalogFacts DEF StartDeploy, SelectJobsForDeploy, GetDeployableJobs
  <2>2. bad # {} => failed'
    BY <1>2, Zenon DEF StartDeploy
  <2> QED BY <2>1, <2>2 DEF OutcomeScope, AllJobsDeployedOrSkipped
<1>3. CASE PreDeploy
  BY <1>3 DEF PreDeploy, OutcomeScope, AllJobsDeployedOrSkipped
<1>4. ASSUME NEW j \in Jobs, ReconcileStoppedAllocationsForJob(j) PROVE OutcomeScope'
  BY <1>4, <1>0 DEF ReconcileStoppedAllocationsForJob
<1>5. ASSUME NEW a \in Allocs, RemoveJobDeployArtifacts(a) PROVE OutcomeScope'
  BY <1>5, <1>0 DEF RemoveJobDeployArtifacts
<1>6. CASE RemoveWorkerBuckets
  BY <1>6, <1>0 DEF RemoveWorkerBuckets
<1>7. ASSUME NEW j \in Jobs, DeployJob(j) PROVE OutcomeScope'
  BY <1>7, TypeFacts
     DEF DeployJob, OutcomeScope, AllJobsDeployedOrSkipped, JobsLeft, Outcomes
<1>8. CASE QuietStep
  BY <1>8, QuietStepFrame, <1>0
<1>9. CASE AbortStep
  BY <1>9, AbortStepFrame, AbortStepOutcome, TypeFacts
     DEF OutcomeScope, AllJobsDeployedOrSkipped
<1>10. CASE PromoteBatch
  BY <1>10, <1>0 DEF PromoteBatch
<1>11. CASE PostBatchHealthFails
  BY <1>11 DEF PostBatchHealthFails, Abort, OutcomeScope, AllJobsDeployedOrSkipped
<1>12. CASE FinalizeJobDeploy
  <2>1. /\ pc = "pick" /\ pc' = "rollout" /\ sel' = sel /\ failed' = failed
        /\ outcome' = [outcome EXCEPT ![cur] = "deployed"]
    BY <1>12 DEF FinalizeJobDeploy
  <2>2. \A j \in sel : outcome'[j] \in {outcome[j], "deployed"}
    BY <2>1, TypeFacts
  <2> QED BY <2>1, <2>2 DEF OutcomeScope
<1>13. CASE EndRollout
  BY <1>13, TypeFacts
     DEF EndRollout, OutcomeScope, AllJobsDeployedOrSkipped, JobsLeft, Outcomes
<1>14. ASSUME NEW W \in SUBSET Workers, FinalSyncWorkerMetadata(W) PROVE OutcomeScope'
  BY <1>14 DEF FinalSyncWorkerMetadata, OutcomeScope, AllJobsDeployedOrSkipped
<1>15. CASE Commit
  BY <1>15 DEF Commit, OutcomeScope, AllJobsDeployedOrSkipped
<1>16. CASE Crash
  BY <1>16 DEF Crash, OutcomeScope, AllJobsDeployedOrSkipped
<1>17. CASE UNCHANGED vars
  BY <1>17 DEF OutcomeScope, AllJobsDeployedOrSkipped, vars
<1> QED BY <1>1, <1>2, <1>3, <1>4, <1>5, <1>6, <1>7, <1>8, <1>9, <1>10, <1>11, <1>12,
           <1>13, <1>14, <1>15, <1>16, <1>17, Zenon
        DEF Next, RunStep, Deploy, QuietStep, AbortStep

=============================================================================
