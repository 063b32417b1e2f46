------------------------------ MODULE Demands -------------------------------
(***************************************************************************)
(* The order of jobs.  A hook may demand another job (and one of its       *)
(* hooks, and a range of its versions); a build refuses demands that       *)
(* cannot be met and turns the rest into deployment_seq, the length of the *)
(* longest chain of demands below the job, and deployment_order, the rank  *)
(* by priority, sequence and name.  post_build hooks then run in sequence  *)
(* order and deploys in deployment order.                                  *)
(*                                                                         *)
(* A job's name is its place in the order of names.                        *)
(***************************************************************************)
EXTENDS Versions, FiniteSetsExt, Relation

CONSTANTS
  MaxJob,       \* jobs are 1 .. MaxJob
  ManifestChoices, \* what a manifest may say: records with fields version (a
                \*   text, or Unset), priority and hooks, a set of records
                \*   with fields name, job (0: no demand), hook, min, max
  Unset,
  MaxBuilds     \* bound on the number of committed builds

VARIABLES
  catalog,      \* what the last build committed
  phase,        \* "idle", "post_build" or "deploy"
  done,         \* the jobs that had their turn in this phase
  builds

demandVars == <<catalog, phase, done, builds>>

JobIds == 1 .. MaxJob
EmptyCatalog == [hooks |-> {}, seq |-> <<>>, order |-> <<>>, allocated |-> {}]

DemandsInit ==
  /\ catalog = EmptyCatalog /\ phase = "idle" /\ done = {} /\ builds = 0

-----------------------------------------------------------------------------
(* validate_demands.go.  ms gives the manifest of every job in the          *)
(* workspace.                                                               *)
IsDemandTarget(ms, j) == \E k \in DOMAIN ms : \E h \in ms[k].hooks : h.job = j

RequiresExplicitVersion(m) == \E h \in m.hooks : h.job # 0

LoadJobCatalog(ms) ==
  \A j \in DOMAIN ms :
    RequiresExplicitVersion(ms[j]) \/ IsDemandTarget(ms, j) => ms[j].version # Unset

ValidateHookDemand(j, h) ==
  IF h.job = 0 THEN h.hook = Unset ELSE h.job # j

ValidPriority(ms, j, d) == ms[j].priority <= ms[d].priority

ValidDemandedHook(ms, h) ==
  h.hook # Unset => \E g \in ms[h.job].hooks : g.name = h.hook

ValidConstraint(ms, h) ==
  LET min == {ParseVersion(t) : t \in h.min}
      max == {ParseVersion(t) : t \in h.max}
  IN  /\ ConstraintConsistent(min, max)
      /\ min \cup max # {} =>
           ConstraintSatisfies(min, max, ParseVersion(ms[h.job].version))

ValidateHookDemands(ms) ==
  /\ LoadJobCatalog(ms)
  /\ \A j \in DOMAIN ms : \A h \in ms[j].hooks :
       /\ ValidateHookDemand(j, h)
       /\ h.job # 0 =>
            /\ h.job \in DOMAIN ms
            /\ ValidPriority(ms, j, h.job)
            /\ ValidDemandedHook(ms, h)
            /\ ValidConstraint(ms, h)

-----------------------------------------------------------------------------
(* build_deployment_sequence.go: the rows of hooks that name a demand, as   *)
(* pairs of a job and the job it demands.                                   *)
LoadHookDependencies(ms) ==
  {e \in (DOMAIN ms) \X JobIds : \E h \in ms[e[1]].hooks : h.job = e[2]}

(* The depth-first visit meets a job that is already on its path. *)
RECURSIVE VisitFindsCycle(_, _, _)
VisitFindsCycle(deps, j, path) ==
  j \in path \/ \E d \in JobIds : <<j, d>> \in deps /\ VisitFindsCycle(deps, d, path \cup {j})

DetectCircularHookDependencies(deps) == \E j \in JobIds : VisitFindsCycle(deps, j, {})

(* The recursive query: level 0 for every job, and one more than the        *)
(* demanded job's level for every hook row.                                 *)
HookSeq(deps, jobs) ==
  LET rows[n \in 0 .. MaxJob] ==
        IF n = 0 THEN {<<j, 0>> : j \in jobs}
        ELSE {<<j, n>> : j \in {k \in jobs : \E d \in jobs : <<k, d>> \in deps
                                                         /\ <<d, n - 1>> \in rows[n - 1]}}
  IN  UNION {rows[n] : n \in 0 .. MaxJob}

(* Mutant: the shortest chain decides. *)
BuildDeploymentSequenceMin(deps, jobs) ==
  LET levels(j) == {p[2] : p \in {q \in HookSeq(deps, jobs) : q[1] = j}}
  IN  [j \in jobs |-> IF \E e \in deps : e[1] = j THEN Min(levels(j) \ {0}) ELSE 0]

BuildDeploymentSequence(deps, jobs) ==
  [j \in jobs |-> Max({p[2] : p \in {q \in HookSeq(deps, jobs) : q[1] = j}})]

(* deployment_priority DESC, deployment_seq ASC, name ASC. *)
RanksBefore(ms, seq, j, k) ==
  \/ ms[j].priority > ms[k].priority
  \/ /\ ms[j].priority = ms[k].priority
     /\ seq[j] < seq[k] \/ (seq[j] = seq[k] /\ j < k)

AssignDeploymentOrders(ms, seq) ==
  [j \in DOMAIN ms |-> Cardinality({k \in DOMAIN ms : RanksBefore(ms, seq, k, j)})]

-----------------------------------------------------------------------------
(* A build that passes; allocated are the jobs that placement gave a        *)
(* worker.  A refused build changes nothing.                                *)
BuildOrder(ms) ==
  LET deps == LoadHookDependencies(ms)
      seq == BuildDeploymentSequence(deps, DOMAIN ms)
  IN  /\ ValidateHookDemands(ms)
      /\ ~DetectCircularHookDependencies(deps)
      /\ \E allocated \in SUBSET (DOMAIN ms) :
           catalog' = [hooks |-> deps, seq |-> seq,
                       order |-> AssignDeploymentOrders(ms, seq), allocated |-> allocated]
      /\ phase' = "post_build" /\ done' = {} /\ builds' = builds + 1

Waiting == catalog.allocated \ done

(* runPostBuildHooks: sequence by sequence, the jobs of one sequence in the *)
(* order the query happens to return them; a failed hook does not stop the  *)
(* others.                                                                  *)
RunPostBuildHooks(j) ==
  /\ phase = "post_build" /\ j \in Waiting
  /\ \A k \in Waiting : catalog.seq[j] <= catalog.seq[k]
  /\ done' = done \cup {j}
  /\ UNCHANGED <<catalog, phase, builds>>

BuildEnds ==
  /\ phase = "post_build" /\ Waiting = {}
  /\ phase' = "idle" /\ done' = {}
  /\ UNCHANGED <<catalog, builds>>

StartDeploy ==
  /\ phase = "idle" /\ catalog.allocated # {}
  /\ phase' = "deploy" /\ done' = {}
  /\ UNCHANGED <<catalog, builds>>

(* GetDeployableJobsInOrder. *)
DeployNextJob(j) ==
  /\ phase = "deploy" /\ j \in Waiting
  /\ \A k \in Waiting : catalog.order[j] <= catalog.order[k]
  /\ done' = done \cup {j}
  /\ UNCHANGED <<catalog, phase, builds>>

(* The last job is done, or one failed. *)
DeployEnds ==
  /\ phase = "deploy"
  /\ phase' = "idle" /\ done' = {}
  /\ UNCHANGED <<catalog, builds>>

DemandsNext ==
  \/ /\ phase = "idle" /\ builds < MaxBuilds
     /\ \E jobs \in SUBSET JobIds : \E ms \in [jobs -> ManifestChoices] : BuildOrder(ms)
  \/ \E j \in JobIds : RunPostBuildHooks(j) \/ DeployNextJob(j)
  \/ BuildEnds \/ StartDeploy \/ DeployEnds

DemandsSpec == DemandsInit /\ [][DemandsNext]_demandVars

-----------------------------------------------------------------------------
(* Properties. *)

(* The demand closure: what a job needs through any chain of jobs, whether  *)
(* or not the jobs in between have an allocation.                           *)
Needs ==
  LET closure == TransitiveClosure([j, k \in JobIds |-> <<j, k>> \in catalog.hooks], JobIds)
  IN  {e \in JobIds \X JobIds : closure[e[1], e[2]]}

(* The post_build hooks of a job run only after those of every job it       *)
(* demands, directly or through others, have run: the sequence of           *)
(* build_deployment_sequence.go is strictly greater than that of anything   *)
(* demanded, also across a job that is not placed anywhere.                 *)
HooksAfterDemanded ==
  phase = "post_build" =>
    \A p \in Needs : p[1] \in done /\ p[2] \in catalog.allocated => p[2] \in done

(* A deploy reaches a job only after every allocated job it demands,        *)
(* directly or through others: the priorities a workspace may set never     *)
(* turn the order of demands around (validate_demands.go,                   *)
(* AssignDeploymentOrders).                                                 *)
DeploysAfterDemanded ==
  phase = "deploy" =>
    \A p \in Needs : p[1] \in done /\ p[2] \in catalog.allocated => p[2] \in done
=============================================================================
