------------------------------- MODULE Backup -------------------------------
(***************************************************************************)
(* snapshot.Backup: after the commit of every deploy a copy of kive.db is  *)
(* pushed to the workers labelled "kive" as kive-<generation>.db, in place *)
(* and older ones are pruned.  A deploy that fails commits under the       *)
(* generation it started with, so its copy overwrites an earlier one.  The *)
(* bucket itself may be restored from one of the copies.                   *)
(***************************************************************************)
EXTENDS Integers, FiniteSets

CONSTANTS
    Targets,         \* workers labelled "kive"
    RetentionCount,  \* backup_retention_count
    MaxGeneration,   \* bound: generations
    MaxCommits       \* bound: deploys that commit

\* The catalog starts with generation 1; 0 switches pruning off.
ASSUME BackupAssumption == MaxGeneration \in Nat \ {0} /\ RetentionCount \in Nat

Generations == 1 .. MaxGeneration
NoFile == [at |-> 0, torn |-> FALSE]
TornFile == [at |-> 0, torn |-> TRUE]
Copy(c, g) == [at |-> c, gen |-> g, torn |-> FALSE]

VARIABLES
    generation,  \* of the catalog
    commits,     \* deploys committed so far: what the catalog holds
    backups,     \* worker -> generation -> the file kive-<generation>.db
    legacy,      \* worker -> it holds kive-*.db files without a number
    step         \* worker -> how far the running Backup is with it

bkVars == <<generation, commits, backups, legacy, step>>

Steps == {"none", "todo", "made", "pushed", "done", "failed"}
Files(w) == {g \in Generations : backups[w][g] # NoFile}
IsComplete(f) == f # NoFile /\ ~ f.torn
Current == Copy(commits, generation)
Running == \E w \in Targets : step[w] \in {"todo", "made", "pushed"}

BkInit ==
    /\ generation = 1 /\ commits = 1
    /\ backups = [w \in Targets |-> [g \in Generations |-> NoFile]]
    /\ legacy \in [Targets -> BOOLEAN]
    /\ step = [w \in Targets |-> "none"]

\* A deploy commits, with a new generation or with the reverted one, and takes
\* its snapshot through SQLite's backup API; a snapshot that fails is logged.
SnapshotDatabase ==
    /\ ~ Running /\ commits < MaxCommits
    /\ commits' = commits + 1
    /\ generation' \in {generation, generation + 1} \cap Generations
    /\ step' \in {[w \in Targets |-> "todo"], [w \in Targets |-> "none"]}
    /\ UNCHANGED <<backups, legacy>>

\* One worker after the other.
TurnOf(w) == \A v \in Targets \ {w} : step[v] \notin {"made", "pushed"}

MakeDirectory(w) ==
    /\ step[w] = "todo" /\ TurnOf(w)
    /\ step' = [step EXCEPT ![w] = "made"]
    /\ UNCHANGED <<generation, commits, backups, legacy>>

RsyncBackupFile(w) ==
    /\ step[w] = "made"
    /\ backups' = [backups EXCEPT ![w][generation] = Current]
    /\ step' = [step EXCEPT ![w] = "pushed"]
    /\ UNCHANGED <<generation, commits, legacy>>

\* rsync --inplace broke off: the file of this generation is unusable, whether
\* or not it was complete before.
RsyncBreaks(w) ==
    /\ step[w] = "made"
    /\ backups' \in {backups, [backups EXCEPT ![w][generation] = TornFile]}
    /\ step' = [step EXCEPT ![w] = "failed"]
    /\ UNCHANGED <<generation, commits, legacy>>

\* A slip: the oldest are kept.
KeepOldest(files, keep) ==
    {g \in files : keep > 0 /\ Cardinality({h \in files : h < g}) >= keep}

\* backupFilesToDelete: all but the keep highest generations.
BackupFilesToDelete(files, keep) ==
    {g \in files : keep > 0 /\ Cardinality({h \in files : h > g}) >= keep}

\* Files without a number go whenever pruning is on.
PruneRemoteBackups(w) ==
    /\ step[w] = "pushed"
    /\ backups' = [backups EXCEPT ![w] = [g \in Generations |->
           IF g \in BackupFilesToDelete(Files(w), RetentionCount) THEN NoFile ELSE @[g]]]
    /\ legacy' = [legacy EXCEPT ![w] = @ /\ RetentionCount = 0]
    /\ step' = [step EXCEPT ![w] = "done"]
    /\ UNCHANGED <<generation, commits>>

\* A command fails on one worker; the next one is served.
PushAndPruneFails(w) ==
    /\ step[w] \in {"made", "pushed"}
    /\ step' = [step EXCEPT ![w] = "failed"]
    /\ UNCHANGED <<generation, commits, backups, legacy>>

\* Cancellation or a crash: no worker that is not done is served.
Interrupted ==
    /\ Running
    /\ step' = [w \in Targets |-> IF step[w] \in {"done", "failed"} THEN step[w] ELSE "failed"]
    /\ UNCHANGED <<generation, commits, backups, legacy>>

\* The bucket is restored from a complete copy: its generation is the copy's.
BucketRestored ==
    /\ ~ Running
    /\ \E w \in Targets : \E g \in Files(w) :
         /\ IsComplete(backups[w][g])
         /\ generation' = backups[w][g].gen
    /\ commits < MaxCommits /\ commits' = commits + 1
    /\ step' = [w \in Targets |-> "none"]
    /\ UNCHANGED <<backups, legacy>>

BkNext ==
    \/ SnapshotDatabase
    \/ \E w \in Targets : \/ MakeDirectory(w) \/ RsyncBackupFile(w) \/ RsyncBreaks(w)
                          \/ PruneRemoteBackups(w) \/ PushAndPruneFails(w)
    \/ Interrupted
    \/ BucketRestored

BkSpec == BkInit /\ [][BkNext]_bkVars

-----------------------------------------------------------------------------
(* Properties *)

\* A worker that pushAndPrune reports as done holds the catalog as committed
\* under its generation and at most backup_retention_count files, unless it has
\* files of a later generation, which a restore of an older copy leaves behind:
\* those push the new copy out (snapshot/backup.go backupFilesToDelete).
DoneIsBackedUp ==
    \A w \in Targets : step[w] = "done" =>
        /\ RetentionCount > 0 => Cardinality(Files(w)) <= RetentionCount /\ ~ legacy[w]
        /\ (\A g \in Files(w) : g <= generation) => backups[w][generation] = Current

\* A complete copy is lost in two ways only: the push of its own generation
\* breaks off, or a prune removes it after the current catalog has reached the
\* worker (the early return of pushAndPrune after a failed rsync).
LossNeedsReplacement ==
    \A w \in Targets : \A g \in Generations \ {generation} :
       IsComplete(backups[w][g]) /\ ~ IsComplete(backups'[w][g])
           => backups[w][generation] = Current

\* A worker reported as backed up holds the committed catalog and no more files
\* than backup_retention_count, and a complete copy of an earlier generation
\* goes only once the current one has reached the worker (pushAndPrune).
BackupsSurvive == [][DoneIsBackedUp' /\ LossNeedsReplacement]_bkVars
=============================================================================
