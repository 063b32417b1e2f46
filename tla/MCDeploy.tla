------------------------------ MODULE MCDeploy ------------------------------
(* Small fleets for Deploy: jobs "a" and "b", workers "w1" and "w2".        *)
EXTENDS Deploy

OneJob   == {"a"}
TwoJobs  == {"a", "b"}
OneWorker  == {"w1"}
TwoWorkers == {"w1", "w2"}

(* Two trees: c2 changes the configuration of c1 and carries a new version. *)
TwoContents == {"c1", "c2"}
MCVersions  == {"v0", "v1", "v2"}
MCVersionOf == [c \in TwoContents |-> IF c = "c1" THEN "v1" ELSE "v2"]
MCManifest  == [c \in TwoContents |-> [p \in {"bin", "conf"} |->
                                         IF p = "conf" THEN c ELSE "same"]]

ByName   == [j \in Jobs |-> IF j = "a" THEN 1 ELSE 2]
Always   == [j \in Jobs |-> "always"]
Never    == [j \in Jobs |-> "never"]
NoGlobs  == [j \in Jobs |-> {}]
ConfGlob == [j \in Jobs |-> {"conf"}]
OneByOne == [j \in Jobs |-> 1]
NoLimit  == [j \in Jobs |-> 0]
Unfiltered == {Jobs}
EachJob    == {Jobs} \cup {{j} : j \in Jobs}
NoPaths    == {}
NoForce    == {FALSE}
WithForce  == {FALSE, TRUE}

(* A workspace that places the jobs J on the workers W. *)
Workspace(W, J, content, disabled) ==
  [workers |-> W, labels |-> [w \in W |-> {"any"}],
   jobs |-> J, selectors |-> [j \in J |-> {"any"}],
   content |-> [j \in Jobs |-> content],
   disabledWorkers |-> {}, disabledJobs |-> {}, disabledAllocs |-> disabled]

(* The same, with the labels of worker x gone. *)
Unlabelled(x, ws) == [ws EXCEPT !.labels = [w \in Workers |-> IF w = x THEN {} ELSE {"any"}]]

(* Edit, drain one worker, lose the other, drop the jobs. *)
RollingWorkspaces ==
  {Workspace(Workers, Jobs, "c1", {}),
   Workspace(Workers, Jobs, "c2", {}),
   Workspace(Workers, Jobs, "c1", {<<"a", "w1">>}),
   Workspace({"w1"}, Jobs, "c1", {}),
   Workspace(Workers, {}, "c1", {})}

(* Two jobs on one worker: edits, one job drained, one job dropped. *)
SharedWorkspaces ==
  {Workspace(Workers, Jobs, "c1", {}),
   Workspace(Workers, Jobs, "c2", {}),
   Workspace(Workers, Jobs, "c2", {<<"b", "w1">>}),
   Workspace(Workers, {"b"}, "c1", {})}

(* Edits and drains; no allocation is ever removed. *)
DrainWorkspaces ==
  {Workspace(Workers, Jobs, "c1", {}),
   Workspace(Workers, Jobs, "c2", {}),
   Workspace(Workers, Jobs, "c1", {<<"a", "w1">>}),
   Workspace(Workers, Jobs, "c2", Allocs)}

(* Edits and removals; no allocation is ever disabled. *)
RemoveWorkspaces ==
  {Workspace(Workers, Jobs, "c1", {}),
   Workspace(Workers, Jobs, "c2", {}),
   Workspace({"w1"}, Jobs, "c1", {}),
   Unlabelled("w2", Workspace(Workers, Jobs, "c2", {})),
   Workspace(Workers, {}, "c1", {})}

(* The job moves off one of its workers. *)
MoveWorkspaces ==
  {Workspace(Workers, Jobs, "c1", {}), Unlabelled("w2", Workspace(Workers, Jobs, "c1", {}))}

(* The job is disabled, dropped and put back. *)
DisableAndDropWorkspaces ==
  {Workspace(Workers, Jobs, "c1", {}), Workspace(Workers, {}, "c1", {}),
   Workspace(Workers, Jobs, "c1", Allocs)}

(* A change and its revert. *)
RevertWorkspaces ==
  {Workspace(Workers, Jobs, "c1", {}), Workspace(Workers, Jobs, "c2", {})}

AllFaults == FaultKinds
NoFaults  == {}
StagingAndHealth == {"prepare", "health"}
CommandOnly      == {"command"}
HealthOnly       == {"health"}
StagingOnly      == {"prepare"}

=============================================================================
