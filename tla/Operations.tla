----------------------------- MODULE Operations -----------------------------
(***************************************************************************)
(* The day-2 commands that share kive.db and the workers with build and    *)
(* deploy: `kive job start|stop|restart [--forget]` and `kive gc`.  The    *)
(* lock on data/kive.lock lets one command run at a time, so their steps   *)
(* interleave with those of a deploy only through what a command leaves    *)
(* behind when it ends, fails or is killed.                                *)
(***************************************************************************)
EXTENDS Deploy

CONSTANTS
  ControlFilters,   \* the --allocations filters tried; {} = no filter
  ControlFaults     \* BOOLEAN: worker commands of these commands can fail

VARIABLES
  op,       \* the command: kind, flags, jobs and allocations left, jobs forgotten
  byHand,   \* allocations a job command left stopped and did not forget
  revived,  \* allocations started by hand while kive.db has no promoted hash
  stripped  \* allocations that lost their tree to a gc before a deploy stopped them

opVars == <<op, byHand, revived, stripped>>

NoOp == [kind |-> "none", forget |-> FALSE, workers |-> {}, jobs |-> {},
         chosen |-> {}, left |-> {}, forgot |-> {}]

OpInit == Init /\ op = NoOp /\ byHand = {} /\ revived = {} /\ stripped = {}

(* Everything of Deploy that these commands leave alone. *)
deployRest == <<listed, runner, stamp, argVars, recVars, jobVars, runVars>>

Ready == pc = "idle" /\ op.kind = "none" /\ cmds < MaxCommands

-----------------------------------------------------------------------------
(* kive job <target>. *)

(* bin/worker.py on every worker of the catalog finds its worker.json at    *)
(* the committed generation; one mismatch or one broken session refuses     *)
(* the command.                                                             *)
ValidateBucketGeneration ==
  \A w \in db.workers : w \in runner /\ stamp[w] = db.gen

BeginControl(target, forget, J, W) ==
  /\ Ready
  /\ forget => target = "stop"
  /\ J \cap GetDeployableJobs(db) # {}
  /\ W # {} => W \cap db.workers # {}
  /\ ValidateBucketGeneration
  /\ op' = [NoOp EXCEPT !.kind = target, !.forget = forget, !.workers = W,
                        !.jobs = J \cap GetDeployableJobs(db)]
  /\ result' = target /\ cmds' = cmds + 1
  /\ UNCHANGED <<catVars, tree, proc, byHand, revived, stripped, deployRest>>

(* Every allocation that --allocations names must be active.                *)
ActiveWorkerFilter(j, W) == \A w \in W : IsActiveAllocation(tx, <<j, w>>)

(* Mutant: the filter is checked and then not applied. *)
ResolveControlAll(j, W) == ActiveAllocations(tx, j)

ResolveControlWorkers(j, W) ==
  {a \in ActiveAllocations(tx, j) : W = {} \/ a[2] \in W}

(* Jobs are taken in deployment order.  One whose filter names an inactive  *)
(* allocation, or that is disabled as a whole, fails; the others go on.     *)
ControlJob(j) ==
  LET selected == IF ActiveWorkerFilter(j, op.workers)
                  THEN ResolveControlWorkers(j, op.workers) ELSE {}
  IN  /\ op.kind \in {"start", "stop", "restart"} /\ op.left = {}
      /\ j \in op.jobs /\ \A k \in op.jobs : Rank[j] <= Rank[k]
      /\ op' = [op EXCEPT !.jobs = @ \ {j}, !.chosen = selected, !.left = selected]
      /\ UNCHANGED <<catVars, tree, proc, byHand, revived, stripped, cmdVars, deployRest>>

ControlBatches ==
  LET asked == MaxConcurrentRestarts[(CHOOSE a \in op.left : TRUE)[1]]
      width == IF asked < 1 THEN 1 ELSE asked
      count == Cardinality(op.left)
  IN  {B \in SUBSET op.left : Cardinality(B) = IF count < width THEN count ELSE width}

MakeSucceeds(a) == RunnerSucceeds(op.kind, a[2] \in runner, a \in listed, tree[a], proc[a])

MakeFails(a) == RunnerFails(op.kind, a[2] \in runner, a \in listed, tree[a], proc[a])

ForgetDeployedState(c, A) == MarkAllocationStartPending(c, A)

(* What the commands of the batch B leave running. *)
BatchEffect(B, p) ==
  /\ proc' = [a \in Allocs |-> IF a \in B THEN p[a] ELSE proc[a]]
  /\ byHand' = (byHand \ B) \cup {a \in B : p[a] = Stopped}
  /\ revived' = (revived \ B) \cup {a \in B : p[a] # Stopped /\ tx.applied[a] = NoHash}
  /\ UNCHANGED stripped

(* One batch of runner.py commands, or of a job_control hook, side by side; *)
(* after the last one --forget clears the applied hash of the whole job.    *)
RunWorkerBatch ==
  /\ op.left # {} /\ op.kind # "gc"
  /\ \E B \in ControlBatches : \E p \in [B -> Procs] :
       /\ \A a \in B : p[a] \in MakeSucceeds(a)
       /\ BatchEffect(B, p)
       /\ \/ /\ op.forget /\ op.left = B
             /\ tx' = ForgetDeployedState(tx, op.chosen)
             /\ op' = [op EXCEPT !.left = {}, !.forgot = @ \cup op.chosen]
          \/ /\ ~(op.forget /\ op.left = B)
             /\ op' = [op EXCEPT !.left = @ \ B]
             /\ UNCHANGED tx
  /\ UNCHANGED <<db, tree, cmdVars, deployRest>>

(* A command of the batch, or the health check after it, fails: the rest of *)
(* this job is left alone and nothing of it is forgotten.                   *)
WorkerBatchFails ==
  /\ op.left # {} /\ op.kind # "gc" /\ ControlFaults
  /\ \E B \in ControlBatches : \E p \in [B -> Procs] :
       /\ \A a \in B : p[a] \in MakeSucceeds(a) \cup MakeFails(a)
       /\ BatchEffect(B, p)
  /\ op' = [op EXCEPT !.left = {}]
  /\ UNCHANGED <<catVars, tree, cmdVars, deployRest>>

(* The end, or a cancellation between two jobs.  Only --forget commits, and *)
(* then also when some of the jobs failed.                                  *)
EndControl ==
  /\ op.kind \in {"start", "stop", "restart"} /\ op.left = {}
  /\ op.jobs = {} \/ ControlFaults
  /\ db' = IF op.forget THEN tx ELSE db
  /\ tx' = db'
  /\ byHand' = byHand \ op.forgot
  /\ op' = NoOp
  /\ UNCHANGED <<tree, proc, revived, stripped, cmdVars, deployRest>>

-----------------------------------------------------------------------------
(* kive gc: drop the trees, then the rows, of the removed allocations. *)

ListRemovedAllocations(c) == c.rows \cap c.removed

BeginGc ==
  /\ Ready
  /\ op' = [NoOp EXCEPT !.kind = "gc", !.left = ListRemovedAllocations(db)]
  /\ result' = "gc" /\ cmds' = cmds + 1
  /\ UNCHANGED <<catVars, tree, proc, byHand, revived, stripped, deployRest>>

(* gc does not ask whether a deploy has stopped the allocation yet. *)
Strip(a) ==
  stripped' = IF AllocationWasDeployed(tx, a) THEN stripped \cup {a} ELSE stripped

(* rm -rf of the job directory; a worker that left the catalog may be out   *)
(* of reach and is assumed dead.                                            *)
RemoveJobTree(a) ==
  /\ op.kind = "gc" /\ a \in op.left
  /\ \/ tree' = [tree EXCEPT ![a] = NoTree]
     \/ ControlFaults /\ a[2] \notin tx.workers /\ UNCHANGED tree
  /\ op' = [op EXCEPT !.left = @ \ {a}]
  /\ Strip(a)
  /\ UNCHANGED <<catVars, proc, byHand, revived, cmdVars, deployRest>>

(* Mutant: catalog workers are assumed dead too. *)
RemoveJobTreeFailsSilently(a) ==
  /\ op.kind = "gc" /\ a \in op.left /\ ControlFaults
  /\ op' = [op EXCEPT !.left = @ \ {a}]
  /\ UNCHANGED <<catVars, tree, proc, byHand, revived, stripped, cmdVars, deployRest>>

(* A catalog worker that cannot be reached ends gc and rolls it back.  The  *)
(* trees that are gone stay gone.                                           *)
RemoveJobTreeFails(a) ==
  /\ op.kind = "gc" /\ a \in op.left /\ ControlFaults
  /\ a[2] \in tx.workers
  /\ \E t \in {tree[a], TornTree, NoTree} :
       /\ t = TornTree => tree[a] # NoTree
       /\ tree' = [tree EXCEPT ![a] = t]
  /\ op' = NoOp
  /\ Strip(a)
  /\ UNCHANGED <<catVars, proc, byHand, revived, cmdVars, deployRest>>

(* Hash rows, then the allocation rows themselves. *)
PurgeRemovedAllocations ==
  LET gone == ListRemovedAllocations(tx)
      c    == RemoveAllocationHash(tx, gone)
  IN  /\ op.kind = "gc" /\ op.left = {}
      /\ db' = [c EXCEPT !.rows = @ \ gone, !.removed = @ \ gone, !.disabled = @ \ gone,
                         !.target = [a \in Allocs |-> IF a \in gone THEN DefaultVersion ELSE @[a]]]
      /\ tx' = db'
      /\ op' = NoOp
      /\ byHand' = byHand \ gone
      /\ UNCHANGED <<tree, proc, revived, stripped, cmdVars, deployRest>>

(* A later step of gc fails, or the command is killed: nothing is committed. *)
OpKilled ==
  /\ op.kind # "none" /\ ControlFaults
  /\ tx' = db /\ op' = NoOp
  /\ UNCHANGED <<db, tree, proc, byHand, revived, stripped, cmdVars, deployRest>>

-----------------------------------------------------------------------------
(* A build or a deploy.  A process it starts, stops or reloads is no longer *)
(* in the operator's hands.                                                 *)
BuildOrDeploy ==
  /\ op.kind = "none" /\ Next
  /\ byHand' = {a \in byHand : proc'[a] = proc[a]}
  /\ revived' = {a \in revived : proc'[a] = proc[a] /\ db'.applied[a] = NoHash}
  /\ stripped' = {a \in stripped : proc'[a] = proc[a]}
  /\ UNCHANGED op

JobControl ==
  \E target \in {"start", "stop", "restart"}, forget \in BOOLEAN, F \in Filters :
    \E W \in ControlFilters : BeginControl(target, forget, F, W)

OpNext ==
  \/ BuildOrDeploy
  \/ JobControl
  \/ \E j \in Jobs : ControlJob(j)
  \/ RunWorkerBatch
  \/ WorkerBatchFails
  \/ EndControl
  \/ BeginGc
  \/ \E a \in Allocs : RemoveJobTree(a)
  \/ \E a \in Allocs : RemoveJobTreeFails(a)
  \/ PurgeRemovedAllocations
  \/ OpKilled

OpSpec == OpInit /\ [][OpNext]_<<vars, opVars>>

-----------------------------------------------------------------------------
(* Properties. *)

(* Whatever sequence of builds, deploys, job commands and gc runs came      *)
(* before, a deploy without failures leaves every active allocation of its  *)
(* jobs running the built tree, except those an operator stopped by hand    *)
(* and did not forget and those gc stripped too early.  In particular `job  *)
(* stop --forget` is undone by the next deploy, and a gc between two builds *)
(* does not confuse it.                                                     *)
CleanRunStartsForgotten ==
  pc = "idle" /\ result = "ok" =>
    \A j \in sel : \A a \in ActiveAllocations(db, j) :
      a \in byHand \cup stripped \/ (proc[a] = db.content[j] /\ tree[a] = db.content[j])

(* After a deploy without failures no removed or disabled allocation of the *)
(* selected jobs runs, unless it was started by hand while kive.db held it  *)
(* as never deployed.                                                       *)
CleanRunStopsAllButRevived ==
  pc = "idle" /\ result = "ok" =>
    \A a \in db.rows \cap (db.removed \cup db.disabled) :
      a[1] \in filter => proc[a] = Stopped \/ a \in revived \cup stripped

(* The row of an allocation is the last trace by which kive knows of it: gc *)
(* deletes it only once the worker, if it is still in the catalog, has lost *)
(* the tree, and runs nothing of it unless a job command or an early gc got *)
(* in the way of the deploy that should have stopped it.                    *)
GcLeavesNothingBehind ==
  [][op.kind = "gc" =>
       \A a \in db.rows \ db'.rows : a[2] \in db.workers =>
         /\ tree[a] = NoTree
         /\ proc[a] = Stopped \/ a \in revived \cup stripped]_<<vars, opVars>>

(* Job commands and gc touch no tree and no process of an allocation that   *)
(* is not theirs: trees only of removed allocations, processes only of      *)
(* active ones the filter selects.                                          *)
OperationsConfined ==
  [][op.kind # "none" =>
       \A a \in Allocs :
         /\ tree'[a] # tree[a] => a \in db.removed
         /\ proc'[a] # proc[a] => /\ IsActiveAllocation(db, a)
                                  /\ op.workers = {} \/ a[2] \in op.workers]_<<vars, opVars>>

=============================================================================
