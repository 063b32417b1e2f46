-------------------------------- MODULE JobKv --------------------------------
(***************************************************************************)
(* The key-value namespaces kive build derives from the catalog - one per  *)
(* worker, job and allocation and two for the bucket - beside the ones     *)
(* hooks write, over builds with changing workspaces and gc.  A namespace  *)
(* is the value its keys were derived from; Empty stands for no keys.      *)
(***************************************************************************)
EXTENDS FiniteSets

CONSTANTS
  Workers, Jobs,   \* all that ever appear in the workspace
  Matching,        \* the pairs of Jobs \X Workers that selectors may match
  Empty            \* the content of a namespace without keys

Pairs == Jobs \X Workers

VARIABLES
  workers,   \* workers of the catalog
  jobs,      \* jobs of the catalog
  alloc,     \* allocation rows: "none", "active", "disabled" or "removed"
  kvWorker,  \* kive/worker/<ip>
  kvTags,    \* kive/worker/<ip>/tags
  kvShared,  \* kive/worker
  kvJob,     \* kive/job/<job> and vars/bucket/job/<job>
  kvHook,    \* vars/job/<job> and secrets/job/<job>, written by hooks
  kvMeta,    \* kive/job/<job>/worker/<ip>, the keys outside certs/
  kvCerts,   \* kive/job/<job>/worker/<ip>, the keys under certs/
  kvBucket   \* kive/bucket

kvVars == <<workers, jobs, alloc, kvWorker, kvTags, kvShared, kvJob, kvHook, kvMeta, kvCerts,
            kvBucket>>

JobKvInit ==
  /\ workers = {} /\ jobs = {}
  /\ alloc = [p \in Pairs |-> "none"]
  /\ kvWorker = [w \in Workers |-> Empty] /\ kvTags = [w \in Workers |-> Empty]
  /\ kvJob = [j \in Jobs |-> Empty] /\ kvHook = [j \in Jobs |-> Empty]
  /\ kvMeta = [p \in Pairs |-> Empty] /\ kvCerts = [p \in Pairs |-> Empty]
  /\ kvShared = Empty /\ kvBucket = Empty

-----------------------------------------------------------------------------
(* Queries of allocations, given its rows. *)
GetAllocatedWorkers(rows, j) == {w \in Workers : rows[<<j, w>>] # "none"}

GetAllocatedJobs(rows, w) == {j \in Jobs : rows[<<j, w>>] # "none"}

GetActiveAllocations(rows, j) == {w \in Workers : rows[<<j, w>>] = "active"}

GetActiveAllocatedJobs(rows, w) == {j \in Jobs : rows[<<j, w>>] = "active"}

GetNonRemovedAllocations(rows, j) == {w \in Workers : rows[<<j, w>>] \in {"active", "disabled"}}

(* Rows after a build: what the workspace no longer places is removed, not  *)
(* deleted.                                                                 *)
BuildAllocations(placed, disabled) ==
  [p \in Pairs |-> IF p \in placed THEN IF p \in disabled THEN "disabled" ELSE "active"
                   ELSE IF alloc[p] = "none" THEN "none" ELSE "removed"]

(* Jobs without rows and jobs that are only disabled keep their keys. *)
JobShouldPurgeBuildKV(rows, j) ==
  GetAllocatedWorkers(rows, j) # {} /\ GetNonRemovedAllocations(rows, j) = {}

-----------------------------------------------------------------------------
(* A worker's keys name its labels, its peers and the jobs active on it; a  *)
(* worker that left the workspace keeps only its tags.                      *)
BuildWorkerVariables(ws, rows) ==
  /\ kvWorker' = [w \in Workers |->
       IF w \in ws THEN [peers |-> ws \ {w}, jobs |-> GetActiveAllocatedJobs(rows, w)]
       ELSE IF w \in workers THEN Empty ELSE kvWorker[w]]
  /\ kvTags' = [w \in Workers |-> IF w \in ws THEN "tags" ELSE kvTags[w]]

(* A job's keys name the workers it is active on.  What hooks wrote goes    *)
(* with the job, or on demand when the job is active nowhere.               *)
BuildJobVariables(js, rows, deleteSecretsKV) ==
  LET removedJobs == jobs \ js
  IN  /\ kvJob' = [j \in Jobs |->
            IF j \in js
              THEN IF JobShouldPurgeBuildKV(rows, j) THEN Empty
                   ELSE [workers |-> GetActiveAllocations(rows, j)]
            ELSE IF j \in removedJobs THEN Empty ELSE kvJob[j]]
      /\ kvHook' = [j \in Jobs |->
            IF \/ j \in removedJobs
               \/ j \in js /\ deleteSecretsKV /\ GetActiveAllocations(rows, j) = {}
              THEN Empty ELSE kvHook[j]]

BuildSharedWorkerVariables(ws) == kvShared' = [workers |-> ws]

(* Ports of jobs with an allocation, disabled ones included; jobs; active   *)
(* jobs.                                                                    *)
BuildBucketVariables(js, rows) ==
  kvBucket' = [jobs |-> js,
               active |-> {j \in js : GetActiveAllocations(rows, j) # {}},
               ports |-> {j \in js : GetNonRemovedAllocations(rows, j) # {}}]

-----------------------------------------------------------------------------
(* Namespaces of an allocation that a build clears before it writes: of     *)
(* workers and jobs that left, and of jobs with removed rows only.          *)
ClearedAllocations(ws, js, rows) ==
  {p \in Pairs :
     rows[p] # "none" /\ (\/ p[2] \in workers \ ws
                          \/ p[1] \in jobs \ js
                          \/ p[1] \in js /\ JobShouldPurgeBuildKV(rows, p[1]))}

(* Certificates of every allocation that is not removed; syncCertKeyValues  *)
(* touches no other keys and only allocated jobs are looked at.             *)
BuildCerts(ws, js, rows, certJobs) ==
  LET kept == [p \in Pairs |-> IF p \in ClearedAllocations(ws, js, rows) THEN Empty ELSE kvCerts[p]]
      synced == [p \in Pairs |->
         IF GetAllocatedWorkers(rows, p[1]) = {} THEN kept[p]
         ELSE IF p[1] \notin certJobs \/ GetNonRemovedAllocations(rows, p[1]) = {}
           THEN IF rows[p] # "none" THEN Empty ELSE kept[p]
         ELSE IF rows[p] \in {"active", "disabled"} THEN "certs" ELSE kept[p]]
      purged == {p \in Pairs : rows[p] = "removed" /\ (p[1] \in js \/ p[1] \in jobs \ js)}
  IN  kvCerts' = [p \in Pairs |-> IF p \in purged THEN Empty ELSE synced[p]]

(* Mutant: a removed allocation keeps its keys. *)
BuildJobAllocationVariablesNoPurge(ws, js, rows) ==
  LET cleared == ClearedAllocations(ws, js, rows)
  IN  kvMeta' = [p \in Pairs |->
        IF p[1] \in js /\ rows[p] \in {"active", "disabled"}
          THEN [peers |-> GetNonRemovedAllocations(rows, p[1]) \ {p[2]}]
        ELSE IF p \in cleared THEN Empty ELSE kvMeta[p]]

(* Index, peers and id of every allocation that is not removed; the whole   *)
(* namespace of a removed one goes.                                         *)
BuildJobAllocationVariables(ws, js, rows) ==
  LET cleared == ClearedAllocations(ws, js, rows)
      purged == {p \in Pairs : rows[p] = "removed" /\ (p[1] \in js \/ p[1] \in jobs \ js)}
  IN  kvMeta' = [p \in Pairs |->
        IF p[1] \in js /\ rows[p] \in {"active", "disabled"}
          THEN [peers |-> GetNonRemovedAllocations(rows, p[1]) \ {p[2]}]
        ELSE IF p \in cleared \cup purged THEN Empty ELSE kvMeta[p]]

-----------------------------------------------------------------------------
(* A build that commits; one that fails leaves the catalog and the keys as  *)
(* they are.                                                                *)
Build(ws, js, placed, disabled, certJobs, deleteSecretsKV) ==
  LET rows == BuildAllocations(placed, disabled)
  IN  /\ placed \subseteq js \X ws /\ disabled \subseteq placed /\ certJobs \subseteq js
      /\ workers' = ws /\ jobs' = js /\ alloc' = rows
      /\ BuildWorkerVariables(ws, rows)
      /\ BuildJobVariables(js, rows, deleteSecretsKV)
      /\ BuildSharedWorkerVariables(ws)
      /\ BuildBucketVariables(js, rows)
      /\ BuildCerts(ws, js, rows, certJobs)
      /\ BuildJobAllocationVariables(ws, js, rows)

(* A hook of an allocated job stores something. *)
HookWrites(j) ==
  /\ GetNonRemovedAllocations(alloc, j) # {}
  /\ kvHook' = [kvHook EXCEPT ![j] = "written"]
  /\ UNCHANGED <<workers, jobs, alloc, kvWorker, kvTags, kvShared, kvJob, kvMeta, kvCerts, kvBucket>>

(* gc deletes the removed rows and what belongs to them: the namespace of   *)
(* the allocation, of a worker that left, and all namespaces of a job that  *)
(* has a removed row and is active nowhere.                                 *)
PurgeRemovedAllocationReferences ==
  LET gone == {p \in Pairs : alloc[p] = "removed"}
      off == {p[2] : p \in gone} \ workers
      idle == {j \in {p[1] : p \in gone} : GetActiveAllocations(alloc, j) = {}}
  IN  /\ gone # {}
      /\ alloc' = [p \in Pairs |-> IF p \in gone THEN "none" ELSE alloc[p]]
      /\ kvMeta' = [p \in Pairs |-> IF p \in gone THEN Empty ELSE kvMeta[p]]
      /\ kvCerts' = [p \in Pairs |-> IF p \in gone THEN Empty ELSE kvCerts[p]]
      /\ kvWorker' = [w \in Workers |-> IF w \in off THEN Empty ELSE kvWorker[w]]
      /\ kvTags' = [w \in Workers |-> IF w \in off THEN Empty ELSE kvTags[w]]
      /\ kvJob' = [j \in Jobs |-> IF j \in idle THEN Empty ELSE kvJob[j]]
      /\ kvHook' = [j \in Jobs |-> IF j \in idle THEN Empty ELSE kvHook[j]]
      /\ UNCHANGED <<workers, jobs, kvShared, kvBucket>>

JobKvNext ==
  \/ \E ws \in SUBSET Workers, js \in SUBSET Jobs :
       \E placed \in SUBSET (Matching \cap (js \X ws)), certJobs \in {{}, js}, del \in BOOLEAN :
         \E disabled \in SUBSET placed : Build(ws, js, placed, disabled, certJobs, del)
  \/ \E j \in Jobs : HookWrites(j)
  \/ PurgeRemovedAllocationReferences

JobKvSpec == JobKvInit /\ [][JobKvNext]_kvVars

-----------------------------------------------------------------------------
(* Properties. *)

(* At every moment, also after gc, a hook of an active allocation reads     *)
(* what the catalog says: its job's namespace names exactly the active      *)
(* workers, its own names exactly the peers that are not removed, and the   *)
(* worker's names exactly the jobs active there.                            *)
KvMatchesCatalog ==
  \A p \in Pairs : alloc[p] = "active" =>
    /\ kvJob[p[1]] = [workers |-> GetActiveAllocations(alloc, p[1])]
    /\ kvMeta[p] = [peers |-> GetNonRemovedAllocations(alloc, p[1]) \ {p[2]}]
    /\ kvWorker[p[2]] = [peers |-> workers \ {p[2]}, jobs |-> GetActiveAllocatedJobs(alloc, p[2])]
    /\ p[1] \in kvBucket.active \cap kvBucket.ports

(* Nothing outlives what it describes: no allocation namespace without an   *)
(* allocation that is not removed, no worker's keys without the worker, no  *)
(* job's keys without the job - in whatever order jobs and workers leave,   *)
(* come back and are collected.                                             *)
NothingStale ==
  /\ \A p \in Pairs : alloc[p] \in {"none", "removed"} => kvMeta[p] = Empty /\ kvCerts[p] = Empty
  /\ \A w \in Workers : w \notin workers => kvWorker[w] = Empty
  /\ \A j \in Jobs : j \notin jobs => kvJob[j] = Empty /\ kvHook[j] = Empty

(* What hooks stored survives as long as the job has an active allocation   *)
(* before and after the step.                                               *)
ActiveKeepsHookData ==
  \A j \in Jobs :
    /\ GetActiveAllocations(alloc, j) # {} /\ GetActiveAllocations(alloc', j) # {}
    /\ kvHook[j] # Empty
    => kvHook'[j] = kvHook[j]

=============================================================================
