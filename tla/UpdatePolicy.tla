---------------------------- MODULE UpdatePolicy ----------------------------
(***************************************************************************)
(* Which lifecycle action an updated allocation gets (restart, reload or   *)
(* a bare promote), and how many workers one rollout batch may hold.       *)
(*                                                                         *)
(* Paths of a job tree are abstract values.  A file manifest is a function *)
(* from a set of paths to digests, a glob list is the set of paths it      *)
(* matches.                                                                *)
(***************************************************************************)
EXTENDS Naturals

RestartPolicies == {"always", "reload", "never"}

RolloutActions == {"restart", "reload", "sync"}

(* Paths added, modified or deleted between two manifests. *)
DiffFileManifests(previous, current) ==
  {p \in DOMAIN current : p \notin DOMAIN previous \/ previous[p] # current[p]}
    \cup (DOMAIN previous \ DOMAIN current)

MatchAny(globs, changed) == changed \cap globs

MatchNotAny(globs, changed) == changed \ globs

(* A change confined to the hook scripts of the job. *)
OnlyJobHooksChanged(hookPaths, changed) ==
  changed # {} /\ MatchAny(hookPaths, changed) = changed

(* restart_policy "always": restart, unless reload globs cover the change. *)
AlwaysAction(reloadGlobs, changed, hashChanged, versionOnly, legacy) ==
  IF \/ reloadGlobs = {}
     \/ /\ ~(versionOnly /\ ~hashChanged)
        /\ \/ legacy /\ hashChanged
           \/ MatchNotAny(reloadGlobs, changed) # {}
  THEN "restart"
  ELSE "reload"

(* restart_policy "reload": reload, unless a restart glob matches a changed *)
(* file.                                                                    *)
ReloadAction(restartGlobs, changed, hashChanged, versionOnly, legacy) ==
  IF /\ ~(versionOnly /\ ~hashChanged)
     /\ ~(legacy /\ hashChanged)
     /\ MatchAny(restartGlobs, changed) # {}
  THEN "restart"
  ELSE "reload"

ResolveUpdateAction(policy, restarts, reloads, hooks, previous, current, hashChanged, versionOnly, legacy) ==
  LET changed == DiffFileManifests(previous, current)
  IN  IF ~legacy /\ OnlyJobHooksChanged(hooks, changed)
      THEN "sync"
      ELSE CASE policy = "never"  -> "sync"
             [] policy = "always" ->
                  AlwaysAction(reloads, changed, hashChanged, versionOnly, legacy)
             [] policy = "reload" ->
                  ReloadAction(restarts, changed, hashChanged, versionOnly, legacy)

(* Batch width: the manifest's request (0 = everyone), at most the number   *)
(* of candidates, at most the bucket's hard cap.                            *)
EffectiveBatchSize(requested, total, hardCap) ==
  LET n == IF requested >= 1 /\ requested <= total THEN requested ELSE total
  IN  IF hardCap >= 1 /\ n > hardCap THEN hardCap ELSE n

=============================================================================
