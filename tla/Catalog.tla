------------------------------ MODULE Catalog ------------------------------
(***************************************************************************)
(* The rows of kive.db that placement and rollout read and write: workers, *)
(* jobs, allocations and allocation_hashes.  A catalog is a record, so     *)
(* that a transaction can be kept apart from the committed database.       *)
(*                                                                         *)
(* A job tree is identified with the plan hash of its staged files: the    *)
(* catalog stores one content per job, and staging that content yields     *)
(* that hash.                                                              *)
(***************************************************************************)
EXTENDS Naturals, FiniteSets

CONSTANTS
  Jobs,            \* job names
  Workers,         \* worker addresses
  Contents,        \* job trees, and the plan hashes they stage to
  Versions,        \* manifest versions
  DefaultVersion,  \* running version before the first promote ("0.0.0")
  VersionOf,       \* [Contents -> Versions], the version a tree's manifest names
  NoHash,          \* SQL NULL in a hash column
  HealthFailed     \* the sentinel stored after a failed post-batch health gate

ASSUME CatalogAssumption ==
  /\ Jobs # {} /\ Contents # {}
  /\ DefaultVersion \in Versions
  /\ VersionOf \in [Contents -> Versions]
  /\ NoHash \notin Contents
  /\ HealthFailed \notin Contents
  /\ NoHash # HealthFailed

Allocs == Jobs \X Workers

AppliedHashes == Contents \cup {NoHash, HealthFailed}

(***************************************************************************)
(* workers, jobs     rows of the workers and jobs tables                   *)
(* content           the tree last built for each job                      *)
(* rows              allocations present; removed and disabled are flags   *)
(* target            allocations.version, set by build                     *)
(* pending, applied  the staged and the promoted plan hash; an allocation  *)
(*                   has an allocation_hashes row iff pending is a hash    *)
(* appliedVersion    the promoted version                                  *)
(* appliedFiles      the tree whose per-file digests were promoted         *)
(* gen               the bucket generation                                 *)
(***************************************************************************)
CatalogType ==
  [workers        : SUBSET Workers,
   jobs           : SUBSET Jobs,
   content        : [Jobs -> Contents],
   rows           : SUBSET Allocs,
   removed        : SUBSET Allocs,
   disabled       : SUBSET Allocs,
   target         : [Allocs -> Versions],
   pending        : [Allocs -> Contents \cup {NoHash}],
   applied        : [Allocs -> AppliedHashes],
   appliedVersion : [Allocs -> Versions],
   appliedFiles   : [Allocs -> Contents \cup {NoHash}],
   gen            : Nat]

EmptyCatalog(content) ==
  [workers        |-> {},
   jobs           |-> {},
   content        |-> content,
   rows           |-> {},
   removed        |-> {},
   disabled       |-> {},
   target         |-> [a \in Allocs |-> DefaultVersion],
   pending        |-> [a \in Allocs |-> NoHash],
   applied        |-> [a \in Allocs |-> NoHash],
   appliedVersion |-> [a \in Allocs |-> DefaultVersion],
   appliedFiles   |-> [a \in Allocs |-> NoHash],
   gen            |-> 0]

-----------------------------------------------------------------------------
(* Queries. *)

AllocationsOf(j) == {j} \X Workers

NonRemoved(c) == c.rows \ c.removed

IsActiveAllocation(c, a) == a \in c.rows \ (c.removed \cup c.disabled)

ActiveAllocations(c, j) == {a \in AllocationsOf(j) : IsActiveAllocation(c, a)}

(* Mutant: disabled allocations are not listed. *)
ListStoppedRemovedOnly(c) == c.rows \cap c.removed

ListStoppedAllocations(c) == c.rows \cap (c.removed \cup c.disabled)

HasHashRow(c, a) == c.pending[a] # NoHash

AllocationWasDeployed(c, a) == c.applied[a] # NoHash

(* Promoted, and its post-batch health gate passed. *)
AllocationLive(c, a) ==
  AllocationWasDeployed(c, a) /\ c.applied[a] # HealthFailed

(* The targets of a health gate during deploy. *)
GetDeployedActiveAllocations(c, j) ==
  {a \in ActiveAllocations(c, j) : AllocationLive(c, a)}

(* The worker left workers.conf: cleanup over SSH is best effort. *)
StoppedAllocationAssumeDead(c, a) == a \in c.removed /\ a[2] \notin c.workers

(* Mutant: the disabled flag is not looked at. *)
GetNewIgnoringDisabled(c, j) ==
  {a \in AllocationsOf(j) \cap NonRemoved(c) : HasHashRow(c, a) /\ ~AllocationWasDeployed(c, a)}

GetNewAllocations(c, j) ==
  {a \in ActiveAllocations(c, j) : HasHashRow(c, a) /\ ~AllocationWasDeployed(c, a)}

HashPending(c, a) == AllocationWasDeployed(c, a) /\ c.applied[a] # c.pending[a]

VersionPending(c, a) == c.appliedVersion[a] # c.target[a]

GetUpdatedAllocations(c, j) == {a \in ActiveAllocations(c, j) : HashPending(c, a)}

GetVersionPendingAllocations(c, j) ==
  {a \in ActiveAllocations(c, j) : VersionPending(c, a)}

GetDeployableJobs(c) ==
  {j \in c.jobs : AllocationsOf(j) \cap NonRemoved(c) # {}}

JobNeedsRollout(c, j) ==
  \/ GetNewAllocations(c, j) # {}
  \/ \E a \in AllocationsOf(j) \cap NonRemoved(c) :
       ~HasHashRow(c, a) \/ HashPending(c, a) \/ VersionPending(c, a)

-----------------------------------------------------------------------------
(* Updates.  Each takes a catalog and a set of allocations. *)

(* Delete the hash row: the columns read as NULL and the default version. *)
RemoveAllocationHash(c, A) ==
  [c EXCEPT
    !.pending        = [a \in Allocs |-> IF a \in A THEN NoHash ELSE @[a]],
    !.applied        = [a \in Allocs |-> IF a \in A THEN NoHash ELSE @[a]],
    !.appliedVersion = [a \in Allocs |-> IF a \in A THEN DefaultVersion ELSE @[a]],
    !.appliedFiles   = [a \in Allocs |-> IF a \in A THEN NoHash ELSE @[a]]]

(* Record the hash of the tree staged for each allocation; a first plan    *)
(* creates the row, with nothing applied.                                  *)
UpdateAllocationPlan(c, A) ==
  [c EXCEPT !.pending = [a \in Allocs |-> IF a \in A THEN c.content[a[1]] ELSE @[a]]]

(* Mutant: the applied version is left behind. *)
PromoteHashOnly(c, A) ==
  LET P == {a \in A : HasHashRow(c, a)}
  IN  [c EXCEPT
        !.applied      = [a \in Allocs |-> IF a \in P THEN c.pending[a] ELSE @[a]],
        !.appliedFiles = [a \in Allocs |-> IF a \in P THEN c.pending[a] ELSE @[a]]]

(* Promote: the plan becomes the applied state. *)
PromoteAllocationState(c, A) ==
  LET P == {a \in A : HasHashRow(c, a)}
  IN  [c EXCEPT
        !.applied        = [a \in Allocs |-> IF a \in P THEN c.pending[a] ELSE @[a]],
        !.appliedVersion = [a \in Allocs |-> IF a \in P THEN c.target[a] ELSE @[a]],
        !.appliedFiles   = [a \in Allocs |-> IF a \in P THEN c.pending[a] ELSE @[a]]]

(* Only applied_hash changes: the version and the file digests stay those  *)
(* of the promote.                                                         *)
MarkAllocationHealthFailed(c, A) ==
  [c EXCEPT !.applied = [a \in Allocs |-> IF a \in A /\ HasHashRow(c, a)
                                          THEN HealthFailed ELSE @[a]]]

(* Clear the applied state, so that the next deploy starts the allocation. *)
MarkAllocationStartPending(c, A) ==
  [c EXCEPT
    !.applied      = [a \in Allocs |-> IF a \in A THEN NoHash ELSE @[a]],
    !.appliedFiles = [a \in Allocs |-> IF a \in A THEN NoHash ELSE @[a]]]

(* Increment the bucket generation. *)
BumpGeneration(c) == [c EXCEPT !.gen = @ + 1]

=============================================================================
