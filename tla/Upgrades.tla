------------------------------ MODULE Upgrades ------------------------------
(***************************************************************************)
(* Which versions a job may move between.  A build records the manifest's  *)
(* version as the target of every allocation it places and refuses the     *)
(* workspace when an allocation runs a version the manifest does not       *)
(* accept; a later deploy moves the allocations to their targets, one by   *)
(* one, and may stop half way.                                             *)
(*                                                                         *)
(* One job.  row is the state of the worker's allocation, target the       *)
(* version column of allocations, applied the applied_version column of    *)
(* allocation_hashes (Unset: NULL, or no row), policy what the manifest of *)
(* the last committed build allows (a history variable).                   *)
(***************************************************************************)
EXTENDS Versions, FiniteSets

CONSTANTS
  Hosts,        \* the workers
  Manifests,    \* the manifests the workspace may hold: records with fields
                \*   version (a text, or Unset), allowRollback, minCount and
                \*   from (backward_compatibility_from, a set of entries)
  Unset

ASSUME ManifestVersions ==
  /\ Unset \notin Texts
  /\ \A m \in Manifests : m.version \in Texts \cup {Unset}

VARIABLES row, target, applied, policy

upVars == <<row, target, applied, policy>>

UpInit ==
  /\ row = [w \in Hosts |-> "none"]
  /\ target = [w \in Hosts |-> Unset]
  /\ applied = [w \in Hosts |-> Unset]
  /\ policy = [allowRollback |-> FALSE, from |-> {}]

NormalizeDeployVersion(text) == IF text = Unset THEN DefaultAllocationVersion ELSE text

-----------------------------------------------------------------------------
(* The rows BuildAllocations leaves. *)
RowsAfter(placed, disabled) ==
  [w \in Hosts |-> IF w \in placed THEN IF w \in disabled THEN "disabled" ELSE "active"
                   ELSE IF row[w] = "none" THEN "none" ELSE "removed"]

(* The versions a job is known to run: those of its rows that are not       *)
(* removed and have been staged.                                            *)
ListAllocationAppliedVersions(rows) ==
  {applied[w] : w \in {x \in Hosts : rows[x] \in {"active", "disabled"} /\ applied[x] # Unset}}

ValidateRollbackPolicy(m, rows) ==
  \/ m.allowRollback
  \/ \A current \in ListAllocationAppliedVersions(rows) :
       AtMost(ParseVersion(current), ParseVersion(NormalizeDeployVersion(m.version)))

ValidateBackwardCompatibility(m, rows) ==
  \/ m.from = {}
  \/ \A current \in ListAllocationAppliedVersions(rows) :
       BackwardCompatibilitySatisfies(m.from, ParseVersion(current))

ValidateMinAllocationsCount(m, rows) ==
  LET count == Cardinality({w \in Hosts : rows[w] \in {"active", "disabled"}})
  IN  count = 0 \/ count >= m.minCount

CommitBuild(m, rows, placed) ==
  /\ row' = rows
  /\ target' = [w \in Hosts |-> IF w \in placed THEN NormalizeDeployVersion(m.version)
                                ELSE target[w]]
  /\ policy' = [allowRollback |-> m.allowRollback, from |-> m.from]
  /\ UNCHANGED applied

(* Mutant: the policy is checked on the rows as they were before placement. *)
BuildJobChecksFirst(m, placed, disabled) ==
  LET rows == RowsAfter(placed, disabled)
  IN  /\ ValidateRollbackPolicy(m, row)
      /\ ValidateBackwardCompatibility(m, rows)
      /\ ValidateMinAllocationsCount(m, rows)
      /\ CommitBuild(m, rows, placed)

(* Mutant: the compatibility list is not consulted. *)
BuildJobIgnoresFrom(m, placed, disabled) ==
  LET rows == RowsAfter(placed, disabled)
  IN  /\ ValidateRollbackPolicy(m, rows)
      /\ ValidateMinAllocationsCount(m, rows)
      /\ CommitBuild(m, rows, placed)

(* A build that passes; one that is refused changes nothing. *)
BuildJob(m, placed, disabled) ==
  LET rows == RowsAfter(placed, disabled)
  IN  /\ ValidateRollbackPolicy(m, rows)
      /\ ValidateBackwardCompatibility(m, rows)
      /\ ValidateMinAllocationsCount(m, rows)
      /\ CommitBuild(m, rows, placed)

-----------------------------------------------------------------------------
(* Staging an allocation for the first time creates its row with the        *)
(* default version as the applied one.                                      *)
StageAllocation(w) ==
  /\ row[w] \in {"active", "disabled"} /\ applied[w] = Unset
  /\ applied' = [applied EXCEPT ![w] = DefaultAllocationVersion]
  /\ UNCHANGED <<row, target, policy>>

(* A started, restarted or (when removed) stopped allocation is promoted.   *)
PromoteAllocation(w) ==
  /\ row[w] \in {"active", "removed"} /\ applied[w] # Unset
  /\ applied' = [applied EXCEPT ![w] = target[w]]
  /\ UNCHANGED <<row, target, policy>>

(* gc drops the row of a removed allocation. *)
CollectAllocation(w) ==
  /\ row[w] = "removed"
  /\ row' = [row EXCEPT ![w] = "none"]
  /\ target' = [target EXCEPT ![w] = Unset]
  /\ applied' = [applied EXCEPT ![w] = Unset]
  /\ UNCHANGED policy

UpNext ==
  \/ \E m \in Manifests, placed \in SUBSET Hosts :
       \E disabled \in SUBSET placed : BuildJob(m, placed, disabled)
  \/ \E w \in Hosts : StageAllocation(w) \/ PromoteAllocation(w) \/ CollectAllocation(w)

UpSpec == UpInit /\ [][UpNext]_upVars

-----------------------------------------------------------------------------
(* Properties. *)

Moves(w) == row[w] = "active" /\ applied[w] # Unset /\ applied'[w] # applied[w]

(* An allocation never moves to a lower version than the one it runs unless *)
(* the manifest that was built allows a rollback: not when a deploy stopped *)
(* half way, not when an allocation was removed and placed again, not when  *)
(* it was disabled meanwhile (validate_rollback.go is only consulted at     *)
(* build time, and only about rows that are not removed).                   *)
NoSilentDowngrade ==
  [][\A w \in Hosts : Moves(w) /\ applied[w] # DefaultAllocationVersion
                        /\ Before(ParseVersion(applied'[w]), ParseVersion(applied[w]))
       => policy.allowRollback]_upVars

(* An allocation is only moved from a version the built manifest lists in   *)
(* backward_compatibility_from, however many deploys were started, failed   *)
(* and resumed since the build that checked it.                             *)
OnlyFromCompatible ==
  [][\A w \in Hosts : Moves(w) /\ policy.from # {} /\ applied[w] # DefaultAllocationVersion
       => BackwardCompatibilitySatisfies(policy.from, ParseVersion(applied[w]))]_upVars

(* Unless the built manifest allows a rollback, no allocation that is       *)
(* placed has a target below what its worker runs: the target a deploy      *)
(* reads is not stale, whatever was promoted since the build wrote it.      *)
TargetNotBehind ==
  ~policy.allowRollback =>
    \A w \in Hosts : /\ row[w] \in {"active", "disabled"}
                     /\ applied[w] \notin {Unset, DefaultAllocationVersion}
      => AtMost(ParseVersion(applied[w]), ParseVersion(target[w]))
=============================================================================
