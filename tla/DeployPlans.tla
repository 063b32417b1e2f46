---------------------------- MODULE DeployPlans -----------------------------
(***************************************************************************)
(* Steps of Deploy: plans, promotes and the generation stamp.              *)
(***************************************************************************)
EXTENDS DeployScopes

(* The plan of every staged job stays the built tree. *)
LEMMA PlanFreshStep ==
  ASSUME TypeOK, TransactionScope, BatchScope, PlanFresh, [Next]_vars
  PROVE  PlanFresh'
<1> USE DEF catVars, hostVars, argVars, recVars, jobVars, runVars, cmdVars
<1>0. ASSUME UNCHANGED <<tx, sel, outcome>>, pc # "idle"
      PROVE  PlanFresh'
  BY <1>0 DEF PlanFresh, NonRemoved
<1>1. ASSUME NEW ws \in Workspaces, Build(ws) PROVE PlanFresh'
  BY <1>1 DEF Build, PlanFresh, NonRemoved
<1>2. ASSUME NEW F \in Filters, NEW f \in Forces, NEW bad \in SUBSET Jobs,
             NEW planned \in SUBSET (bad \X Workers), StartDeploy(F, f, bad, planned)
      PROVE  PlanFresh'
  <2>1. NonRemoved(db) \subseteq Allocs
    BY TypeFacts, CatalogFacts DEF NonRemoved
  <2>2. /\ SamePlacement(db, tx')
        /\ \A a \in PlannedFor(F, bad, planned) : tx'.pending[a] = db.content[a[1]]
    BY <1>2, <2>1, StartDeployEffect DEF PlannedFor
  <2>3. \A a \in NonRemoved(db) : a[1] \in sel' /\ outcome'[a[1]] # "unstaged"
          => a \in PlannedFor(F, bad, planned)
    BY <1>2, <2>1 DEF StartDeploy, Allocs, PlannedFor
  <2> QED BY <1>2, <2>2, <2>3 DEF StartDeploy, PlanFresh, NonRemoved, SamePlacement
<1>3. CASE PreDeploy
  BY <1>3, <1>0 DEF PreDeploy
<1>4. ASSUME NEW j \in Jobs, ReconcileStoppedAllocationsForJob(j) PROVE PlanFresh'
  <2>1. /\ SamePlacement(tx, tx')
        /\ \A a \in NonRemoved(tx) : tx'.pending[a] = tx.pending[a]
    BY <1>4, ReconcileEffect, TypeFacts, CatalogFacts DEF NonRemoved, SameHashRow
  <2> QED BY <1>4, <2>1
             DEF ReconcileStoppedAllocationsForJob, PlanFresh, SamePlacement,
                 NonRemoved, argVars
<1>5. ASSUME NEW a \in Allocs, RemoveJobDeployArtifacts(a) PROVE PlanFresh'
  <2>1. /\ SamePlacement(tx, tx')
        /\ \A b \in NonRemoved(tx) : tx'.pending[b] = tx.pending[b]
    BY <1>5, ArtifactsEffect, TypeFacts, CatalogFacts
       DEF RemoveJobDeployArtifacts, BatchScope, NonRemoved, SameHashRow
  <2> QED BY <1>5, <2>1 DEF RemoveJobDeployArtifacts, PlanFresh, NonRemoved, SamePlacement
<1>6. CASE RemoveWorkerBuckets
  BY <1>6, <1>0 DEF RemoveWorkerBuckets
<1>7. ASSUME NEW j \in Jobs, DeployJob(j) PROVE PlanFresh'
  BY <1>7, TypeFacts, CatalogFacts DEF DeployJob, PlanFresh, NonRemoved, JobsLeft, Allocs
<1>8. CASE QuietStep
  BY <1>8, QuietStepFrame, <1>0
<1>9. CASE AbortStep
  BY <1>9, AbortStepFrame, AbortStepOutcome, TypeFacts, CatalogFacts
     DEF PlanFresh, NonRemoved, Allocs
<1>10. CASE PromoteBatch
  BY <1>10, PromoteBatchEffect DEF PromoteBatch, PlanFresh, NonRemoved, SamePlacement
<1>11. CASE PostBatchHealthFails
  <2>1. SamePlacement(tx, tx') /\ tx'.pending = tx.pending
    BY <1>11, HealthFailsEffect
  <2>2. \A j \in sel : outcome[j] = "unstaged" => outcome'[j] = "unstaged"
    BY <1>11, TypeFacts DEF PostBatchHealthFails, Abort, BatchScope, InRollout
  <2> QED BY <1>11, <2>1, <2>2
             DEF PostBatchHealthFails, Abort, PlanFresh, SamePlacement, NonRemoved,
                 argVars
<1>12. CASE FinalizeJobDeploy
  <2>1. SamePlacement(tx, tx') /\ tx'.pending = tx.pending
    BY <1>12, FinalizeEffect
  <2>2. \A j \in sel : outcome[j] = "unstaged" => outcome'[j] = "unstaged"
    BY <1>12, TypeFacts DEF FinalizeJobDeploy, BatchScope, InRollout
  <2> QED BY <1>12, <2>1, <2>2
             DEF FinalizeJobDeploy, PlanFresh, SamePlacement, NonRemoved, argVars
<1>13. CASE EndRollout
  BY <1>13, <1>0 DEF EndRollout
<1>14. ASSUME NEW W \in SUBSET Workers, FinalSyncWorkerMetadata(W) PROVE PlanFresh'
  BY <1>14, <1>0 DEF FinalSyncWorkerMetadata
<1>15. CASE Commit
  BY <1>15, TypeFacts, CatalogFacts DEF Commit, PlanFresh, NonRemoved
<1>16. CASE Crash
  BY <1>16 DEF Crash, PlanFresh, NonRemoved
<1>17. CASE UNCHANGED vars
  BY <1>17 DEF PlanFresh, NonRemoved, vars
<1> QED BY <1>1, <1>2, <1>3, <1>4, <1>5, <1>6, <1>7, <1>8, <1>9, <1>10, <1>11, <1>12,
           <1>13, <1>14, <1>15, <1>16, <1>17, Zenon
        DEF Next, RunStep, Deploy, QuietStep, AbortStep

(* A job reported as deployed or skipped stays converged for the rest of the *)
(* run: later batches, gates and reconciles touch other jobs only.           *)
LEMMA DeployedJobsConvergedStep ==
  ASSUME TypeOK, TransactionScope, BatchScope, PlanFresh, DeployedJobsConverged, [Next]_vars
  PROVE  DeployedJobsConverged'
<1> USE DEF catVars, hostVars, argVars, recVars, jobVars, runVars, cmdVars
<1>0. ASSUME UNCHANGED <<tx, outcome>>, pc # "idle"
      PROVE  DeployedJobsConverged'
  BY <1>0 DEF DeployedJobsConverged, Converged, ActiveAllocations, IsActiveAllocation
<1>1. ASSUME NEW ws \in Workspaces, Build(ws) PROVE DeployedJobsConverged'
  BY <1>1 DEF Build, DeployedJobsConverged, Converged
<1>2. ASSUME NEW F \in Filters, NEW f \in Forces, NEW bad \in SUBSET Jobs,
             NEW planned \in SUBSET (bad \X Workers), StartDeploy(F, f, bad, planned)
      PROVE  DeployedJobsConverged'
  <2>1. \A j \in Jobs : outcome'[j] \in {"none", "unstaged"}
    BY <1>2 DEF StartDeploy
  <2> QED BY <2>1 DEF DeployedJobsConverged, Converged
<1>3. CASE PreDeploy
  BY <1>3, <1>0 DEF PreDeploy
<1>4. ASSUME NEW j \in Jobs, ReconcileStoppedAllocationsForJob(j)
      PROVE  DeployedJobsConverged'
  <2>1. /\ SamePlacement(tx, tx')
        /\ \A a \in NonRemoved(tx) : SameHashRow(tx, tx', a)
    BY <1>4, ReconcileEffect, TypeFacts, CatalogFacts DEF NonRemoved
  <2>2. pc # "idle" /\ outcome' = outcome
    BY <1>4 DEF ReconcileStoppedAllocationsForJob
  <2> QED BY <2>1, <2>2
             DEF SamePlacement, SameHashRow, NonRemoved, ActiveAllocations,
                 IsActiveAllocation, DeployedJobsConverged, Converged
<1>5. ASSUME NEW a \in Allocs, RemoveJobDeployArtifacts(a) PROVE DeployedJobsConverged'
  <2>1. /\ SamePlacement(tx, tx')
        /\ \A b \in NonRemoved(tx) : SameHashRow(tx, tx', b)
    BY <1>5, ArtifactsEffect, TypeFacts, CatalogFacts
       DEF RemoveJobDeployArtifacts, BatchScope, NonRemoved
  <2>2. pc # "idle" /\ outcome' = outcome
    BY <1>5 DEF RemoveJobDeployArtifacts
  <2> QED BY <2>1, <2>2
             DEF SamePlacement, SameHashRow, NonRemoved, ActiveAllocations,
                 IsActiveAllocation, DeployedJobsConverged, Converged
<1>6. CASE RemoveWorkerBuckets
  BY <1>6, <1>0 DEF RemoveWorkerBuckets
<1>7. ASSUME NEW j \in Jobs, DeployJob(j) PROVE DeployedJobsConverged'
  <2>1. CASE outcome' = outcome
    BY <1>7, <2>1 DEF DeployJob, DeployedJobsConverged, Converged
  <2>2. CASE outcome' = [outcome EXCEPT ![j] = "skipped"] /\ ~JobNeedsRollout(tx, j)
    <3>1. \A a \in ActiveAllocations(tx, j) : Converged(tx, a)
      <4> SUFFICES ASSUME NEW a \in ActiveAllocations(tx, j) PROVE Converged(tx, a)
        OBVIOUS
      <4>1. a \in AllocationsOf(j) \cap NonRemoved(tx)
        BY DEF ActiveAllocations, IsActiveAllocation, NonRemoved
      <4>2. /\ HasHashRow(tx, a) /\ ~HashPending(tx, a) /\ ~VersionPending(tx, a)
            /\ a \notin GetNewAllocations(tx, j)
        BY <2>2, <4>1 DEF JobNeedsRollout
      <4>3. tx.applied[a] = tx.pending[a] /\ tx.appliedVersion[a] = tx.target[a]
        BY <4>2 DEF GetNewAllocations, HashPending, VersionPending, AllocationWasDeployed
      <4>4. a[1] = j /\ j \in sel /\ outcome[j] = "none" /\ pc # "idle"
        BY <1>7, <4>1 DEF AllocationsOf, DeployJob, JobsLeft
      <4>5. tx.pending[a] = tx.content[a[1]]
        BY <4>1, <4>4 DEF PlanFresh
      <4> QED BY <4>3, <4>5 DEF Converged
    <3> QED BY <1>7, <2>2, <3>1, TypeFacts DEF DeployJob, DeployedJobsConverged, Converged
  <2> QED BY <1>7, <2>1, <2>2 DEF DeployJob, DeployedJobsConverged, Converged
<1>8. CASE QuietStep
  BY <1>8, QuietStepFrame, <1>0
<1>9. CASE AbortStep
  BY <1>9, AbortStepFrame, AbortStepOutcome, TypeFacts
     DEF DeployedJobsConverged, Converged, ActiveAllocations, IsActiveAllocation,
         NonRemoved
<1>10. CASE PromoteBatch
  <2>1. /\ SamePlacement(tx, tx') /\ tx'.pending = tx.pending
        /\ \A a \in Allocs :
             \/ /\ tx'.applied[a] = tx.pending[a]
                /\ tx'.appliedVersion[a] = tx.target[a]
             \/ /\ tx'.applied[a] = tx.applied[a]
                /\ tx'.appliedVersion[a] = tx.appliedVersion[a]
    BY <1>10, PromoteBatchEffect DEF SameHashRow
  <2>2. \A j \in Jobs : /\ ActiveAllocations(tx', j) = ActiveAllocations(tx, j)
                        /\ ActiveAllocations(tx, j) \subseteq Allocs
    BY <2>1 DEF SamePlacement, ActiveAllocations, IsActiveAllocation, AllocationsOf, Allocs
  <2>3. pc # "idle" /\ outcome' = outcome
    BY <1>10 DEF PromoteBatch
  <2> QED BY <2>1, <2>2, <2>3 DEF SamePlacement, DeployedJobsConverged, Converged
<1>11. CASE PostBatchHealthFails
  <2>1. CASE phase = "stop"
    BY <1>11, <2>1 DEF PostBatchHealthFails, Abort, DeployedJobsConverged, Converged
  <2>2. CASE phase # "stop"
    <3>1. Batch \subseteq AllocationsOf(cur)
      BY <1>11, <2>2 DEF PostBatchHealthFails, Batch, BatchScope, InRollout, ActiveAllocations
    <3>2. /\ SamePlacement(tx, tx') /\ tx'.pending = tx.pending
          /\ tx'.appliedVersion = tx.appliedVersion
          /\ \A a \in Allocs \ Batch : tx'.applied[a] = tx.applied[a]
      BY <1>11, HealthFailsEffect
    <3>3. \A j \in Jobs \ {cur} : /\ ActiveAllocations(tx', j) = ActiveAllocations(tx, j)
                                  /\ ActiveAllocations(tx, j) \subseteq Allocs \ Batch
      BY <3>1, <3>2
         DEF SamePlacement, ActiveAllocations, IsActiveAllocation, AllocationsOf, Allocs
    <3>4. pc # "idle" /\ outcome' = [outcome EXCEPT ![cur] = "failed"]
      BY <1>11, <2>2 DEF PostBatchHealthFails, Abort
    <3> QED BY <3>2, <3>3, <3>4, TypeFacts
               DEF SamePlacement, DeployedJobsConverged, Converged
  <2> QED BY <2>1, <2>2 DEF DeployedJobsConverged, Converged
<1>12. CASE FinalizeJobDeploy
  <2>1. /\ SamePlacement(tx, tx') /\ tx'.pending = tx.pending
        /\ \A a \in Allocs :
             IF a \in AllocationsOf(cur) \cap NonRemoved(tx) /\ tx.pending[a] # NoHash
             THEN tx'.applied[a] = tx.pending[a] /\ tx'.appliedVersion[a] = tx.target[a]
             ELSE tx'.applied[a] = tx.applied[a] /\ tx'.appliedVersion[a] = tx.appliedVersion[a]
    BY <1>12, FinalizeEffect DEF SameHashRow
  <2>2. \A j \in Jobs : /\ ActiveAllocations(tx', j) = ActiveAllocations(tx, j)
                        /\ ActiveAllocations(tx, j)
                             \subseteq Allocs \cap AllocationsOf(j) \cap NonRemoved(tx)
    BY <2>1 DEF SamePlacement, ActiveAllocations, IsActiveAllocation, AllocationsOf, Allocs,
                NonRemoved
  <2>3. /\ pc = "pick" /\ pc' = "rollout" /\ outcome' = [outcome EXCEPT ![cur] = "deployed"]
        /\ cur \in sel /\ outcome[cur] = "none"
    BY <1>12 DEF FinalizeJobDeploy, BatchScope, InRollout
  <2>4. \A a \in ActiveAllocations(tx, cur) :
          tx.pending[a] = tx.content[a[1]] /\ tx.pending[a] # NoHash
    <3> SUFFICES ASSUME NEW a \in ActiveAllocations(tx, cur)
                 PROVE  tx.pending[a] = tx.content[a[1]] /\ tx.pending[a] # NoHash
      OBVIOUS
    <3>1. a \in NonRemoved(tx) /\ a[1] = cur /\ cur \in Jobs
      BY <2>2, TypeFacts DEF AllocationsOf
    <3>2. tx.pending[a] = tx.content[a[1]]
      BY <2>3, <3>1 DEF PlanFresh
    <3>3. tx.content[cur] \in Contents /\ NoHash \notin Contents
      BY <3>1, CatalogAssumption, TypeFacts, CatalogFacts
    <3> QED BY <3>1, <3>2, <3>3
  <2>5. \A a \in ActiveAllocations(tx, cur) : Converged(tx', a)
    <3> SUFFICES ASSUME NEW a \in ActiveAllocations(tx, cur) PROVE Converged(tx', a)
      OBVIOUS
    <3>1. a \in Allocs /\ a \in AllocationsOf(cur) \cap NonRemoved(tx)
      BY <2>2, TypeFacts
    <3>2. /\ tx'.pending[a] = tx.pending[a] /\ tx'.applied[a] = tx.pending[a]
          /\ tx'.appliedVersion[a] = tx.target[a]
      BY <2>1, <2>4, <3>1
    <3>3. tx'.content = tx.content /\ tx'.target = tx.target
      BY <2>1 DEF SamePlacement
    <3> QED BY <2>4, <3>1, <3>2, <3>3 DEF Converged
  <2>6. ASSUME NEW j \in Jobs \ {cur}, NEW a \in ActiveAllocations(tx, j), Converged(tx, a)
        PROVE  Converged(tx', a)
    BY <2>1, <2>2, <2>6 DEF SamePlacement, AllocationsOf, DeployedJobsConverged, Converged
  <2> QED BY <2>2, <2>3, <2>5, <2>6, TypeFacts DEF DeployedJobsConverged, Converged
<1>13. CASE EndRollout
  BY <1>13, <1>0 DEF EndRollout
<1>14. ASSUME NEW W \in SUBSET Workers, FinalSyncWorkerMetadata(W)
      PROVE  DeployedJobsConverged'
  BY <1>14, <1>0 DEF FinalSyncWorkerMetadata
<1>15. CASE Commit
  BY <1>15, TypeFacts, CatalogFacts
     DEF Commit, DeployedJobsConverged, Converged, ActiveAllocations,
         IsActiveAllocation, NonRemoved
<1>16. CASE Crash
  BY <1>16 DEF Crash, DeployedJobsConverged, Converged
<1>17. CASE UNCHANGED vars
  BY <1>17 DEF DeployedJobsConverged, Converged, vars
<1> QED BY <1>1, <1>2, <1>3, <1>4, <1>5, <1>6, <1>7, <1>8, <1>9, <1>10, <1>11, <1>12,
           <1>13, <1>14, <1>15, <1>16, <1>17, Zenon
        DEF Next, RunStep, Deploy, QuietStep, AbortStep

(* worker.json is written by the final sync only, and the commit catches up. *)
LEMMA StampScopeStep ==
  ASSUME TypeOK, TransactionScope, OutcomeScope, StampScope, [Next]_vars
  PROVE  StampScope'
<1> USE DEF catVars, hostVars, argVars, recVars, jobVars, runVars, cmdVars
<1>0. ASSUME UNCHANGED <<db, stamp>>, pc \notin {"idle", "commit"},
             pc' \notin {"idle", "commit"}
      PROVE  StampScope'
  BY <1>0 DEF StampScope
<1>1. ASSUME NEW ws \in Workspaces, Build(ws) PROVE StampScope'
  BY <1>1, BuildCatalogType, TypeFacts DEF Build, StampScope, AllJobsDeployedOrSkipped
<1>2. ASSUME NEW F \in Filters, NEW f \in Forces, NEW bad \in SUBSET Jobs,
             NEW planned \in SUBSET (bad \X Workers), StartDeploy(F, f, bad, planned)
      PROVE  StampScope'
  BY <1>2 DEF StartDeploy, StampScope, AllJobsDeployedOrSkipped
<1>3. CASE PreDeploy
  BY <1>3, <1>0 DEF PreDeploy
<1>4. ASSUME NEW j \in Jobs, ReconcileStoppedAllocationsForJob(j) PROVE StampScope'
  BY <1>4, <1>0 DEF ReconcileStoppedAllocationsForJob
<1>5. ASSUME NEW a \in Allocs, RemoveJobDeployArtifacts(a) PROVE StampScope'
  BY <1>5, <1>0 DEF RemoveJobDeployArtifacts
<1>6. CASE RemoveWorkerBuckets
  <2>1. db' = db /\ pc = "reconcile" /\ pc' = "rollout"
    BY <1>6 DEF RemoveWorkerBuckets
  <2>2. \A w \in Workers : stamp'[w] \in {0, stamp[w]}
    BY <1>6 DEF RemoveWorkerBuckets
  <2>3. db.gen \in Nat /\ stamp \in [Workers -> Nat]
    BY TypeFacts, CatalogFacts
  <2>4. /\ \A w \in Workers : stamp[w] <= db.gen + 1
        /\ "crash" \notin Faults => \A w \in Workers : stamp[w] <= db.gen
    BY <2>1 DEF StampScope
  <2>5. /\ \A w \in Workers : stamp'[w] <= db.gen + 1
        /\ "crash" \notin Faults => \A w \in Workers : stamp'[w] <= db.gen
    BY <2>2, <2>3, <2>4
  <2> QED BY <2>1, <2>5 DEF StampScope
<1>7. ASSUME NEW j \in Jobs, DeployJob(j) PROVE StampScope'
  BY <1>7, <1>0 DEF DeployJob
<1>8. CASE QuietStep
  BY <1>8, QuietStepFrame, <1>0
<1>9. CASE AbortStep
  BY <1>9, AbortStepFrame, <1>0
<1>10. CASE PromoteBatch
  BY <1>10, <1>0 DEF PromoteBatch
<1>11. CASE PostBatchHealthFails
  BY <1>11, <1>0 DEF PostBatchHealthFails, Abort
<1>12. CASE FinalizeJobDeploy
  BY <1>12, <1>0 DEF FinalizeJobDeploy
<1>13. CASE EndRollout
  BY <1>13, <1>0 DEF EndRollout
<1>14. ASSUME NEW W \in SUBSET Workers, FinalSyncWorkerMetadata(W) PROVE StampScope'
  <2>1. CASE AllJobsDeployedOrSkipped
    <3>1. /\ \A w \in Workers : stamp'[w] = IF w \in W THEN tx.gen ELSE stamp[w]
          /\ pc = "finish" /\ pc' = "commit" /\ UNCHANGED <<db, tx, sel, outcome>>
      BY <1>14, <2>1 DEF FinalSyncWorkerMetadata
    <3>2. ~failed' => W = tx.workers
      BY <1>14, Zenon DEF FinalSyncWorkerMetadata
    <3>3. db.gen \in Nat /\ tx.gen = db.gen + 1 /\ stamp \in [Workers -> Nat]
          /\ tx.workers \subseteq Workers
      BY <3>1, TypeFacts, CatalogFacts DEF TransactionScope
    <3>4. \A w \in Workers : stamp'[w] <= db.gen + 1
      BY <3>1, <3>3 DEF StampScope
    <3>5. ~failed' => \A w \in tx.workers : stamp'[w] = tx.gen
      BY <3>1, <3>2, <3>3
    <3>6. AllJobsDeployedOrSkipped'
      BY <2>1, <3>1 DEF AllJobsDeployedOrSkipped
    <3> QED BY <3>1, <3>4, <3>5, <3>6 DEF StampScope
  <2>2. CASE ~AllJobsDeployedOrSkipped
    <3>1. /\ \A w \in Workers : stamp'[w] = stamp[w]
          /\ pc = "finish" /\ pc' = "commit" /\ UNCHANGED <<db, sel, outcome>>
      BY <1>14, <2>2 DEF FinalSyncWorkerMetadata
    <3>2. failed
      BY <2>2, <3>1 DEF OutcomeScope
    <3>3. failed'
      BY <1>14, <3>2, Zenon DEF FinalSyncWorkerMetadata
    <3> QED BY <2>2, <3>1, <3>3 DEF StampScope, AllJobsDeployedOrSkipped
  <2> QED BY <2>1, <2>2 DEF StampScope, AllJobsDeployedOrSkipped
<1>15. CASE Commit
  BY <1>15, TypeFacts, CatalogFacts
     DEF Commit, StampScope, AllJobsDeployedOrSkipped, TransactionScope, OutcomeScope
<1>16. CASE Crash
  BY <1>16 DEF Crash, StampScope, AllJobsDeployedOrSkipped
<1>17. CASE UNCHANGED vars
  BY <1>17 DEF StampScope, AllJobsDeployedOrSkipped, vars
<1> QED BY <1>1, <1>2, <1>3, <1>4, <1>5, <1>6, <1>7, <1>8, <1>9, <1>10, <1>11, <1>12,
           <1>13, <1>14, <1>15, <1>16, <1>17, Zenon
        DEF Next, RunStep, Deploy, QuietStep, AbortStep

(* The plan of a deploy writes no hash row of a job outside --jobs. *)
LEMMA PlanIsFiltered ==
  ASSUME TypeOK, NEW F \in Filters, NEW f \in Forces, NEW bad \in SUBSET Jobs,
         NEW planned \in SUBSET (bad \X Workers), StartDeploy(F, f, bad, planned)
  PROVE  \A a \in Allocs : a[1] \notin F => SameHashRow(db, tx', a)
<1>1. /\ tx'.applied = db.applied /\ tx'.appliedVersion = db.appliedVersion
      /\ \A a \in Allocs : tx'.pending[a] =
           IF a \in PlannedFor(F, bad, planned) THEN db.content[a[1]] ELSE db.pending[a]
  BY StartDeployEffect
<1>2. \A a \in PlannedFor(F, bad, planned) : a[1] \in F
  BY DEF PlannedFor, SelectJobsForDeploy
<1> QED BY <1>1, <1>2 DEF SameHashRow

(* The hash rows of jobs outside --jobs are never written. *)
LEMMA FilterConfinesTransactionStep ==
  ASSUME TypeOK, TransactionScope, BatchScope, FilterScope, FilterConfinesTransaction,
         [Next]_vars
  PROVE  FilterConfinesTransaction'
<1> USE DEF catVars, hostVars, argVars, recVars, jobVars, runVars, cmdVars
<1>0. ASSUME UNCHANGED <<db, tx, filter>>, pc # "idle"
      PROVE  FilterConfinesTransaction'
  BY <1>0 DEF FilterConfinesTransaction
<1>1. ASSUME NEW ws \in Workspaces, Build(ws) PROVE FilterConfinesTransaction'
  BY <1>1 DEF Build, FilterConfinesTransaction
<1>2. ASSUME NEW F \in Filters, NEW f \in Forces, NEW bad \in SUBSET Jobs,
             NEW planned \in SUBSET (bad \X Workers), StartDeploy(F, f, bad, planned)
      PROVE  FilterConfinesTransaction'
  <2>1. \A a \in Allocs : a[1] \notin F => SameHashRow(db, tx', a)
    BY <1>2, PlanIsFiltered
  <2>2. filter' = F /\ db' = db
    BY <1>2 DEF StartDeploy
  <2> QED BY <2>1, <2>2 DEF FilterConfinesTransaction, SameHashRow
<1>3. CASE PreDeploy
  BY <1>3, <1>0 DEF PreDeploy
<1>4. ASSUME NEW j \in Jobs, ReconcileStoppedAllocationsForJob(j)
      PROVE  FilterConfinesTransaction'
  <2>1. \A a \in Allocs : a[1] \notin filter => SameHashRow(tx, tx', a)
    BY <1>4, ReconcileEffect DEF ReconcileStoppedAllocationsForJob, FilterScope, AllocationsOf
  <2>2. pc # "idle" /\ UNCHANGED <<db, filter>>
    BY <1>4 DEF ReconcileStoppedAllocationsForJob
  <2> QED BY <2>1, <2>2 DEF FilterConfinesTransaction, SameHashRow
<1>5. ASSUME NEW a \in Allocs, RemoveJobDeployArtifacts(a)
      PROVE  FilterConfinesTransaction'
  <2>1. a[1] \in filter /\ pc # "idle" /\ UNCHANGED <<db, filter>>
    BY <1>5 DEF RemoveJobDeployArtifacts, FilterScope
  <2>2. \A b \in Allocs : b[1] \notin filter => SameHashRow(tx, tx', b)
    BY <1>5, <2>1, ArtifactsEffect
  <2> QED BY <2>1, <2>2 DEF FilterConfinesTransaction, SameHashRow
<1>6. CASE RemoveWorkerBuckets
  BY <1>6, <1>0 DEF RemoveWorkerBuckets
<1>7. ASSUME NEW j \in Jobs, DeployJob(j) PROVE FilterConfinesTransaction'
  BY <1>7, <1>0 DEF DeployJob
<1>8. CASE QuietStep
  BY <1>8, QuietStepFrame, <1>0
<1>9. CASE AbortStep
  BY <1>9, AbortStepFrame, <1>0
<1>10. CASE PromoteBatch
  <2>1. \A a \in Batch : a[1] \in filter
    BY <1>10 DEF PromoteBatch, Batch, BatchScope, FilterScope, InBatches, InRollout,
              AllocationsOf, ActiveAllocations
  <2>2. pc # "idle" /\ UNCHANGED <<db, filter>>
    BY <1>10 DEF PromoteBatch
  <2> QED BY <1>10, <2>1, <2>2, PromoteBatchEffect DEF FilterConfinesTransaction, SameHashRow
<1>11. CASE PostBatchHealthFails
  <2>1. \A a \in Batch : a[1] \in filter
    BY <1>11 DEF PostBatchHealthFails, Batch, BatchScope, FilterScope, InBatches, InRollout,
              AllocationsOf, ActiveAllocations
  <2>2. pc # "idle" /\ UNCHANGED <<db, filter>>
    BY <1>11 DEF PostBatchHealthFails
  <2> QED BY <1>11, <2>1, <2>2, HealthFailsEffect DEF FilterConfinesTransaction
<1>12. CASE FinalizeJobDeploy
  <2>1. \A a \in AllocationsOf(cur) : a[1] \in filter
    BY <1>12 DEF FinalizeJobDeploy, FilterScope, InBatches, AllocationsOf
  <2>2. pc # "idle" /\ UNCHANGED <<db, filter>>
    BY <1>12 DEF FinalizeJobDeploy
  <2> QED BY <1>12, <2>1, <2>2, FinalizeEffect DEF FilterConfinesTransaction, SameHashRow
<1>13. CASE EndRollout
  BY <1>13, <1>0 DEF EndRollout
<1>14. ASSUME NEW W \in SUBSET Workers, FinalSyncWorkerMetadata(W)
      PROVE  FilterConfinesTransaction'
  BY <1>14, <1>0 DEF FinalSyncWorkerMetadata
<1>15. CASE Commit
  BY <1>15 DEF Commit, FilterConfinesTransaction
<1>16. CASE Crash
  BY <1>16 DEF Crash, FilterConfinesTransaction
<1>17. CASE UNCHANGED vars
  BY <1>17 DEF FilterConfinesTransaction, vars
<1> QED BY <1>1, <1>2, <1>3, <1>4, <1>5, <1>6, <1>7, <1>8, <1>9, <1>10, <1>11, <1>12,
           <1>13, <1>14, <1>15, <1>16, <1>17, Zenon
        DEF Next, RunStep, Deploy, QuietStep, AbortStep

(* Jobs are rolled out in deployment order. *)
LEMMA DependencyOrderStep ==
  ASSUME TypeOK, BatchScope, OutcomeScope, DependencyOrder, [Next]_vars
  PROVE  DependencyOrder'
<1> USE DEF catVars, hostVars, argVars, recVars, jobVars, runVars, cmdVars
<1>0. ASSUME UNCHANGED <<sel, outcome, cur>>, InRollout' => InRollout
      PROVE  DependencyOrder'
  BY <1>0 DEF DependencyOrder
<1>1. ASSUME NEW ws \in Workspaces, Build(ws) PROVE DependencyOrder'
  BY <1>1 DEF Build, DependencyOrder, InRollout
<1>2. ASSUME NEW F \in Filters, NEW f \in Forces, NEW bad \in SUBSET Jobs,
             NEW planned \in SUBSET (bad \X Workers), StartDeploy(F, f, bad, planned)
      PROVE  DependencyOrder'
  BY <1>2 DEF StartDeploy, DependencyOrder, InRollout
<1>3. CASE PreDeploy
  BY <1>3, <1>0 DEF PreDeploy, InRollout
<1>4. ASSUME NEW j \in Jobs, ReconcileStoppedAllocationsForJob(j) PROVE DependencyOrder'
  BY <1>4 DEF ReconcileStoppedAllocationsForJob, DependencyOrder, InRollout
<1>5. ASSUME NEW a \in Allocs, RemoveJobDeployArtifacts(a) PROVE DependencyOrder'
  BY <1>5, <1>0 DEF RemoveJobDeployArtifacts, InRollout
<1>6. CASE RemoveWorkerBuckets
  BY <1>6, <1>0 DEF RemoveWorkerBuckets, InRollout
<1>7. ASSUME NEW j \in Jobs, DeployJob(j) PROVE DependencyOrder'
  <2>1. CASE pc' = "rollout"
    BY <2>1 DEF DependencyOrder, InRollout
  <2>2. CASE cur' = j /\ outcome' = outcome
    <3>1. sel' = sel /\ pc = "rollout" /\ \A k \in JobsLeft : Rank[j] <= Rank[k]
      BY <1>7 DEF DeployJob
    <3>2. ASSUME NEW k \in sel, Rank[k] < Rank[j]
          PROVE  outcome[k] \in {"deployed", "skipped", "unstaged"}
      <4>1. Rank[k] \in Nat /\ Rank[j] \in Nat
        BY DeployAssumption, TypeFacts
      <4>2. k \notin JobsLeft
        BY <3>1, <3>2, <4>1
      <4>3. outcome[k] \in Outcomes /\ outcome[k] # "none" /\ outcome[k] # "failed"
        BY <3>1, <4>2, TypeFacts DEF JobsLeft, OutcomeScope
      <4> QED BY <4>3 DEF Outcomes
    <3> QED BY <2>2, <3>1, <3>2 DEF DependencyOrder
  <2> QED BY <1>7, <2>1, <2>2 DEF DeployJob
<1>8. CASE QuietStep
  BY <1>8, QuietStepFrame, <1>0 DEF InRollout
<1>9. CASE AbortStep
  BY <1>9, AbortStepFrame, AbortStepOutcome DEF DependencyOrder, InRollout
<1>10. CASE PromoteBatch
  BY <1>10, <1>0 DEF PromoteBatch, InRollout
<1>11. CASE PostBatchHealthFails
  BY <1>11 DEF PostBatchHealthFails, Abort, DependencyOrder, InRollout
<1>12. CASE FinalizeJobDeploy
  BY <1>12 DEF FinalizeJobDeploy, DependencyOrder, InRollout
<1>13. CASE EndRollout
  BY <1>13, <1>0 DEF EndRollout, InRollout
<1>14. ASSUME NEW W \in SUBSET Workers, FinalSyncWorkerMetadata(W) PROVE DependencyOrder'
  BY <1>14, <1>0 DEF FinalSyncWorkerMetadata, InRollout
<1>15. CASE Commit
  BY <1>15 DEF Commit, DependencyOrder, InRollout
<1>16. CASE Crash
  BY <1>16 DEF Crash, DependencyOrder, InRollout
<1>17. CASE UNCHANGED vars
  BY <1>17 DEF DependencyOrder, InRollout, vars
<1> QED BY <1>1, <1>2, <1>3, <1>4, <1>5, <1>6, <1>7, <1>8, <1>9, <1>10, <1>11, <1>12,
           <1>13, <1>14, <1>15, <1>16, <1>17, Zenon
        DEF Next, RunStep, Deploy, QuietStep, AbortStep

=============================================================================
