----------------------------- MODULE WorkerHost -----------------------------
(***************************************************************************)
(* One worker machine as deploy sees it over SSH and rsync: the job trees  *)
(* under /opt/kive/<bucket>/jobs, jobs.json, worker.json, bin/runner.py    *)
(* and the processes the Makefile targets leave behind.                    *)
(*                                                                         *)
(* The Makefile belongs to the operator.  Its contract, as the manuals     *)
(* use it: a target that succeeds on start or restart leaves the tree's    *)
(* content running, on stop nothing running, and on reload a running       *)
(* process with the tree's content.  A target that fails, or an SSH        *)
(* session that breaks, leaves the old process, the new one or none.       *)
(***************************************************************************)
EXTENDS Catalog

CONSTANTS
  NoTree,    \* the job directory does not exist
  BareTree,  \* only runtime directories are left: no Makefile
  TornTree,  \* an interrupted or incomplete transfer
  Stopped    \* no process of this allocation runs

ASSUME HostAssumption ==
  /\ {NoTree, BareTree, TornTree} \cap Contents = {}
  /\ Stopped \notin Contents \cup {TornTree}

Trees == Contents \cup {NoTree, BareTree, TornTree}

Procs == Contents \cup {TornTree, Stopped}

Lifecycle == {"start", "restart", "reload", "stop"}

(* What a Makefile target that succeeds leaves running. *)
AfterMake(cmd, tree, old) ==
  CASE cmd = "stop"   -> Stopped
    [] cmd = "reload" -> IF old = Stopped THEN Stopped ELSE tree
    [] cmd \in {"start", "restart"} -> tree

(* The processes bin/runner.py may leave when it exits 0.  Without the      *)
(* script it cannot run; a job that jobs.json does not list, or whose       *)
(* directory is missing, is skipped without an error; a directory without a *)
(* Makefile makes it fail.                                                  *)
RunnerSucceeds(cmd, hasRunner, isListed, tree, old) ==
  CASE ~hasRunner                                             -> {}
    [] hasRunner /\ (~isListed \/ tree = NoTree)              -> {old}
    [] hasRunner /\ isListed /\ tree = BareTree               -> {}
    [] hasRunner /\ isListed /\ tree \notin {NoTree, BareTree} ->
         {AfterMake(cmd, tree, old)}

(* The processes it may leave when it fails. *)
RunnerFails(cmd, hasRunner, isListed, tree, old) ==
  IF hasRunner /\ isListed /\ tree \notin {NoTree, BareTree}
  THEN {old, Stopped, AfterMake(cmd, tree, old)}
  ELSE {old}

(* Removing the deploy artifacts keeps the directory with data/ and logs/.  *)
CleanupDeployArtifacts(tree) == IF tree = NoTree THEN NoTree ELSE BareTree

=============================================================================
