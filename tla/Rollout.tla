------------------------------ MODULE Rollout -------------------------------
(***************************************************************************)
(* In which order a job's allocations are started or restarted.  A build   *)
(* writes rollout_order, the active workers in catalog order, to the job's *)
(* variables; a pre_deploy hook may put another list; every batched        *)
(* operation resolves the order of its candidates against that list        *)
(* (rollout/order.go).  A deploy may fail after any batch, and the next    *)
(* one deals with the allocations that are left.                           *)
(***************************************************************************)
EXTENDS Naturals, Sequences, FiniteSets, SequencesExt

CONSTANTS
  Addresses,    \* worker IPs; catalog order is the order of numbers
  Unset,
  Puts,         \* the lists a hook may put, sequences of addresses
  BatchSizes,   \* max_concurrent_restarts
  HardCaps      \* deploy.max_concurrent_syncs

VARIABLES
  placed,       \* the allocations that are not removed
  pending,      \* those the deploys still have to restart
  order,        \* rollout_order, or Unset
  size, cap,    \* of the last build
  phase,        \* "idle", "pre_deploy" or "rollout"
  queue,        \* the resolved order of the running rollout
  at,           \* where its next batch begins
  done          \* the workers this rollout dealt with, in turn

rolloutVars == <<placed, pending, order, size, cap, phase, queue, at, done>>

RolloutInit ==
  /\ placed = {} /\ pending = {} /\ order = Unset /\ size = 1 /\ cap = 1
  /\ phase = "idle" /\ queue = <<>> /\ at = 1 /\ done = <<>>

-----------------------------------------------------------------------------
(* GetNonRemovedAllocationsOrdered, restricted to the candidates. *)
DefaultCatalogOrder(candidates) == SetToSortSeq(candidates, LAMBDA a, b : a < b)

(* Mutant: a list is good when it names candidates only. *)
ValidateRolloutOrderListKnown(list, candidates) ==
  list # <<>> /\ ToSet(list) \subseteq candidates

ValidateRolloutOrderList(list, candidates) ==
  /\ Len(list) = Cardinality(ToSet(list))
  /\ ToSet(list) = candidates

ResolveOrder(candidates) ==
  IF order # Unset /\ ValidateRolloutOrderList(order, candidates)
  THEN SelectSeq(order, LAMBDA a : a \in candidates)
  ELSE DefaultCatalogOrder(candidates)

(* rolloutRestartBatches: at least one, at most the hard cap. *)
EffectiveBatchSize(total) ==
  LET wanted == IF size < 1 THEN 1 ELSE size
      n == IF wanted > total THEN total ELSE wanted
  IN  IF cap >= 1 /\ n > cap THEN cap ELSE n

-----------------------------------------------------------------------------
(* A build: the allocations, all to be updated, and their default order. *)
Build(workers, n, hardCap) ==
  /\ phase = "idle"
  /\ placed' = workers /\ pending' = workers
  /\ order' = IF workers = {} THEN Unset ELSE DefaultCatalogOrder(workers)
  /\ size' = n /\ cap' = hardCap
  /\ UNCHANGED <<phase, queue, at, done>>

StartDeploy ==
  /\ phase = "idle" /\ pending # {}
  /\ phase' = "pre_deploy"
  /\ UNCHANGED <<placed, pending, order, size, cap, queue, at, done>>

(* put_rollout_order in a pre_deploy hook. *)
PutRolloutOrder(list) ==
  /\ phase = "pre_deploy"
  /\ order' = list
  /\ UNCHANGED <<placed, pending, size, cap, phase, queue, at, done>>

StartRollout ==
  /\ phase = "pre_deploy"
  /\ phase' = "rollout" /\ queue' = ResolveOrder(pending) /\ at' = 1 /\ done' = <<>>
  /\ UNCHANGED <<placed, pending, order, size, cap>>

(* One batch: restarted and promoted, or something went wrong and the       *)
(* deploy ends there, its allocations still pending.                        *)
RunBatch(ok) ==
  LET n == EffectiveBatchSize(Len(queue))
      last == IF at + n - 1 > Len(queue) THEN Len(queue) ELSE at + n - 1
      batch == SubSeq(queue, at, last)
  IN  /\ phase = "rollout"
      /\ done' = done \o batch
      /\ IF ok
         THEN /\ pending' = pending \ ToSet(batch) /\ at' = last + 1
              /\ phase' = IF last = Len(queue) THEN "idle" ELSE "rollout"
         ELSE phase' = "idle" /\ UNCHANGED <<pending, at>>
      /\ UNCHANGED <<placed, order, size, cap, queue>>

RolloutNext ==
  \/ \E workers \in SUBSET Addresses, n \in BatchSizes, hardCap \in HardCaps :
       Build(workers, n, hardCap)
  \/ StartDeploy \/ StartRollout
  \/ \E list \in Puts : PutRolloutOrder(list)
  \/ \E ok \in BOOLEAN : RunBatch(ok)

RolloutSpec == RolloutInit /\ [][RolloutNext]_rolloutVars

-----------------------------------------------------------------------------
(* Properties. *)

(* Whatever list a hook put, a rollout deals with exactly the allocations   *)
(* that were pending when it began, each of them once: nothing is skipped   *)
(* because the list does not name it, nothing restarted twice because the   *)
(* list names it twice, and nothing that is already up to date because the  *)
(* list names it (validateRolloutOrderList, orderByList).                   *)
EachPendingOnce ==
  /\ Len(done) = Cardinality(ToSet(done))
  /\ phase = "rollout" => ToSet(queue) = pending \cup ToSet(done)
                       /\ ToSet(SubSeq(queue, at, Len(queue))) = pending

(* A rollout whose last batch was promoted left nothing pending, whatever   *)
(* the batch size, the cap and the number of allocations.                   *)
EndedWellIsComplete ==
  phase = "rollout" /\ phase' = "idle" /\ pending' # pending => pending' = {}

=============================================================================
