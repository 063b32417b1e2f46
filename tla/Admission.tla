----------------------------- MODULE Admission -----------------------------
(***************************************************************************)
(* What kive build admits: workers with their capacity, jobs with what     *)
(* they request, and the allocations between them, each under a public id  *)
(* that is minted once.  The phases of a build work in one transaction and *)
(* read the workspace one after the other, so an edit may fall between two *)
(* of them; a phase that refuses its input, or a cancellation, rolls the   *)
(* transaction back.                                                       *)
(***************************************************************************)
EXTENDS Naturals, FiniteSets, FiniteSetsExt, Sequences, SequencesExt, Functions, TLC

CONSTANTS
  Workers, Jobs,
  Candidates,   \* [rows -> the ids tried, in order]
  WorkersConfs, \* contents of workers.conf: [some workers -> capacity]
  JobConfs,     \* sets of job manifests with the bucket's settings
  Placements,   \* sets of allocations the selectors may match
  DisableLists, \* sets of allocations disabled.conf may name
  Unset,        \* no setting in bucket.jobs.conf
  MaxBuilds     \* bound on the number of builds

Resources == {"memory", "cpu"}

VARIABLES
  admitted,  \* the committed catalog
  draft,     \* the catalog inside the build's transaction
  stage,     \* the next phase of the build
  tally      \* builds started

admVars == <<admitted, draft, stage, tally>>

(* workerId, jobId, allocId   the public ids, by row                       *)
(* available, current         capacity of a worker, request of a job       *)
(* removed, disabled          flags of the allocations                     *)
NoRows ==
  [workerId |-> <<>>, available |-> <<>>, jobId |-> <<>>, current |-> <<>>,
   allocId |-> <<>>, removed |-> {}, disabled |-> {}]

AdmissionInit ==
  /\ admitted = NoRows /\ draft = NoRows
  /\ stage = "idle" /\ tally = 0

-----------------------------------------------------------------------------
(* Public ids. *)

(* The first candidate no other row has; Unset when they are exhausted.    *)
MintUniquePublicID(ids, x) ==
  LET free == SelectSeq(Candidates[x], LAMBDA id : id \notin Range(ids))
  IN  IF free = <<>> THEN Unset ELSE free[1]

RowID(ids, x) == IF x \in DOMAIN ids THEN ids[x] ELSE MintUniquePublicID(ids, x)

(* INSERT OR REPLACE: a row under the same id goes. *)
Upsert(ids, x) ==
  LET id   == RowID(ids, x)
      kept == {y \in DOMAIN ids : ids[y] # id}
  IN  Restrict(ids, kept \ {x}) @@ (x :> id)

UpsertAll(ids, S) == FoldSet(LAMBDA x, acc : Upsert(acc, x), ids, S)

Minted(ids) == Unset \notin Range(ids)

-----------------------------------------------------------------------------
(* Phases. *)

BeginBuild ==
  /\ stage = "idle" /\ tally < MaxBuilds
  /\ draft' = admitted
  /\ stage' = "workers" /\ tally' = tally + 1
  /\ UNCHANGED admitted

(* The workers of workers.conf, and no others. *)
BuildWorkers(conf) ==
  LET ids == UpsertAll(draft.workerId, DOMAIN conf)
  IN  /\ stage = "workers" /\ Minted(ids)
      /\ draft' = [draft EXCEPT !.workerId  = Restrict(ids, DOMAIN conf \cap DOMAIN ids),
                                !.available = conf]
      /\ stage' = "jobs"
      /\ UNCHANGED <<admitted, tally>>

(* A minimum without a maximum is the maximum too. *)
MaxOf(m) == IF m.min # 0 /\ m.max = 0 THEN m.min ELSE m.max

(* The bucket's setting stands for both bounds when there are none. *)
ValidRequest(m) ==
  /\ m.min <= MaxOf(m)
  /\ m.set # Unset /\ ~(m.min = 0 /\ MaxOf(m) = 0) => m.set \in m.min .. MaxOf(m)

(* A job gets its maximum, or what bucket.jobs.conf sets. *)
Requested(m) == IF m.set # Unset THEN m.set ELSE MaxOf(m)

BuildJobs(confs) ==
  LET ids == UpsertAll(draft.jobId, DOMAIN confs)
  IN  /\ stage = "jobs" /\ Minted(ids)
      /\ \A j \in DOMAIN confs, r \in Resources : ValidRequest(confs[j][r])
      /\ draft' = [draft EXCEPT
           !.jobId   = Restrict(ids, DOMAIN confs \cap DOMAIN ids),
           !.current = [j \in DOMAIN confs |-> [r \in Resources |-> Requested(confs[j][r])]]]
      /\ stage' = "allocations"
      /\ UNCHANGED <<admitted, tally>>

(* Matching allocations are inserted or brought back; all others, those of *)
(* workers that left included, are marked removed.  The disable list is    *)
(* applied to whatever rows there are.                                     *)
BuildAllocations(match, off) ==
  LET A   == {a \in match : a[1] \in DOMAIN draft.jobId /\ a[2] \in DOMAIN draft.workerId}
      ids == UpsertAll(draft.allocId, A)
  IN  /\ stage = "allocations" /\ Minted(ids)
      /\ draft' = [draft EXCEPT
           !.allocId  = ids,
           !.removed  = DOMAIN ids \ A,
           !.disabled = ((@ \ A) \cup off) \cap DOMAIN ids]
      /\ stage' = "validate"
      /\ UNCHANGED <<admitted, tally>>

Active(c) == DOMAIN c.allocId \ (c.removed \cup c.disabled)

Required(c, w, r) ==
  LET on == {a \in Active(c) : a[2] = w}
  IN  MapThenSumSet(LAMBDA a : c.current[a[1]][r], on)

(* Mutant: each allocation is compared with the capacity on its own. *)
ValidateEach(c) ==
  \A a \in Active(c), r \in Resources : c.current[a[1]][r] <= c.available[a[2]][r]

(* Per worker, the sum over its active allocations must fit. *)
ValidateWorkerResources(c) ==
  \A w \in DOMAIN c.available, r \in Resources :
    Required(c, w, r) > 0 => Required(c, w, r) <= c.available[w][r]

CommitCatalog ==
  /\ stage = "validate"
  /\ ValidateWorkerResources(draft)
  /\ admitted' = draft
  /\ stage' = "idle"
  /\ UNCHANGED <<draft, tally>>

(* A refused input, an error or a cancellation. *)
RollBack ==
  /\ stage # "idle"
  /\ draft' = admitted /\ stage' = "idle"
  /\ UNCHANGED <<admitted, tally>>

(* kive gc deletes the removed allocations. *)
PurgeRemovedAllocations ==
  /\ stage = "idle" /\ admitted.removed # {}
  /\ admitted' = [admitted EXCEPT !.allocId  = Restrict(@, DOMAIN @ \ admitted.removed),
                                  !.removed  = {},
                                  !.disabled = @ \ admitted.removed]
  /\ draft' = admitted'
  /\ UNCHANGED <<stage, tally>>

AdmissionNext ==
  \/ BeginBuild
  \/ stage = "workers" /\ \E conf \in WorkersConfs : BuildWorkers(conf)
  \/ stage = "jobs" /\ \E confs \in JobConfs : BuildJobs(confs)
  \/ stage = "allocations" /\
       \E match \in Placements, off \in DisableLists : BuildAllocations(match, off)
  \/ CommitCatalog
  \/ RollBack
  \/ PurgeRemovedAllocations

AdmissionSpec == AdmissionInit /\ [][AdmissionNext]_admVars

-----------------------------------------------------------------------------
(* No committed catalog promises a worker's memory or CPU twice: for each  *)
(* worker the requests of the allocations that may run on it add up to at  *)
(* most its capacity, however workers shrink, jobs grow, and allocations   *)
(* are disabled and brought back from build to build.                      *)
NeverOvercommitted ==
  \A w \in DOMAIN admitted.available, r \in Resources :
    Required(admitted, w, r) <= admitted.available[w][r]

SameIds(old, new) == \A x \in DOMAIN old \cap DOMAIN new : new[x] = old[x]

(* A row that stays keeps its public id for life, and a build deletes no   *)
(* allocation: it only marks it removed.  The ids name KV entries, hash    *)
(* rows and directories on the workers; a collision of two candidates must *)
(* not let one row replace another.                                        *)
IdsAreForLife ==
  /\ SameIds(admitted.workerId, admitted'.workerId)
  /\ SameIds(admitted.jobId, admitted'.jobId)
  /\ SameIds(admitted.allocId, admitted'.allocId)
  /\ DOMAIN admitted.allocId \ admitted.removed \subseteq DOMAIN admitted'.allocId

=============================================================================
