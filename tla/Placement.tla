----------------------------- MODULE Placement -----------------------------
(***************************************************************************)
(* kive build, as far as placement goes: label matching turns a workspace  *)
(* into allocation rows, disabled.conf flags them, and rows that no longer *)
(* match are marked removed.                                               *)
(***************************************************************************)
EXTENDS Catalog

CONSTANT Workspaces   \* the workspaces an operator may hand to kive build

(***************************************************************************)
(* workers, labels       workers.conf                                      *)
(* jobs, selectors       the job folders and their manifests' selectors    *)
(* content               the tree of each job                              *)
(* disabledWorkers/Jobs/Allocs   disabled.conf                             *)
(***************************************************************************)
ASSUME WorkspaceAssumption ==
  \A ws \in Workspaces :
    /\ ws.workers \in SUBSET Workers
    /\ ws.jobs \in SUBSET Jobs
    /\ ws.content \in [Jobs -> Contents]
    /\ ws.disabledWorkers \in SUBSET Workers
    /\ ws.disabledJobs \in SUBSET Jobs
    /\ ws.disabledAllocs \in SUBSET Allocs

(* A job is placed on a worker that carries all of its selectors; a job     *)
(* without selectors is placed nowhere.                                     *)
MatchingAllocations(ws) ==
  {a \in ws.jobs \X ws.workers :
     ws.selectors[a[1]] # {} /\ ws.selectors[a[1]] \subseteq ws.labels[a[2]]}

DisabledBy(ws) ==
  {a \in Allocs : \/ a[2] \in ws.disabledWorkers
                  \/ a[1] \in ws.disabledJobs
                  \/ a \in ws.disabledAllocs}

LoadDisabledAllocations(c) == c.disabled \ c.removed

(* An allocation that was disabled before this build and is active after it *)
(* must be started again.                                                   *)
MarkReenabledAllocations(c, disabledBefore) ==
  MarkAllocationStartPending(c, {a \in disabledBefore : IsActiveAllocation(c, a)})

(* Matched rows are upserted as enabled and not removed, with the manifest's *)
(* version; every other row is removed and keeps its disabled flag.          *)
BuildAllocations(c, ws) ==
  LET match == MatchingAllocations(ws)
      rows  == c.rows \cup match
  IN  MarkReenabledAllocations(
        [c EXCEPT
          !.rows     = rows,
          !.removed  = rows \ match,
          !.disabled = (@ \ match) \cup (DisabledBy(ws) \cap rows),
          !.target   = [a \in Allocs |-> IF a \in match
                                         THEN VersionOf[ws.content[a[1]]] ELSE @[a]]],
        LoadDisabledAllocations(c))

(* The catalog part of one kive build. *)
BuildCatalog(c, ws) ==
  BuildAllocations(
    [c EXCEPT !.workers = ws.workers,
              !.jobs    = ws.jobs,
              !.content = [j \in Jobs |-> IF j \in ws.jobs THEN ws.content[j] ELSE @[j]]],
    ws)

=============================================================================
