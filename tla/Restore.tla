------------------------------ MODULE Restore ------------------------------
(***************************************************************************)
(* snapshot.Restore: a bucket tree is made from a database file in a       *)
(* staging directory beside the output, synced and renamed into place      *)
(* (internal/durablefs).  Several restores may aim at one output; the      *)
(* database file may be replaced under them; calls fail, processes are     *)
(* killed and the machine loses power at any step.                         *)
(*                                                                         *)
(* Content is an edition of the database: a natural number that grows when *)
(* the file is replaced.  A file that was not synced is lost or torn by a  *)
(* power loss, and so is the name of a file in an unsynced directory.      *)
(***************************************************************************)
EXTENDS Integers

CONSTANTS
    Restorers,     \* the processes that run Restore
    Valid,         \* editions whose bucket row holds all restore material
    MaxEdition,    \* bound: editions of the database file
    MaxFaults      \* bound: failing calls, kills and power losses

\* There is a database file to restore from.
ASSUME EditionAssumption == MaxEdition \in Nat \ {0}

Editions == 1 .. MaxEdition
Lost == 0
Torn == -1
NoDir == [kind |-> "none"]
Parts == {"db", "conf", "secrets", "jobs", "manifest"}
Unhashed == 0

VARIABLES
    source,    \* the edition in the database file
    resPc,        \* restorer -> its next step
    hash,      \* restorer -> SourceSHA256
    material,  \* restorer -> the edition its payload was read from
    stage,     \* restorer -> its staging directory
    output,    \* the output directory
    promised,  \* editions whose restore has reported success
    faults

restoreVars == <<source, resPc, hash, material, stage, output, promised, faults>>

Waiting == {"idle", "ok", "failed", "refused", "dead"}
Working == {"hashed", "read", "staging", "dbStaged", "written", "exported",
            "manifest", "synced", "renamed", "matching", "resynced"}

\* A directory tree: the edition in each file, which files are synced, and
\* whether its directory entries and its own name are.
EmptyTree == [kind |-> "tree", file |-> [p \in Parts |-> Lost], synced |-> {},
              entries |-> FALSE, named |-> FALSE]

IsWhole(t, e) == t.kind = "tree" /\ \A p \in Parts : t.file[p] = e

RestoreInit ==
    /\ source = 1
    /\ resPc = [r \in Restorers |-> "idle"]
    /\ hash = [r \in Restorers |-> Unhashed]
    /\ material = [r \in Restorers |-> Unhashed]
    /\ stage = [r \in Restorers |-> NoDir]
    /\ output = NoDir
    /\ promised = {}
    /\ faults = 0

\* A newer database file is copied over the source.
SourceReplaced ==
    /\ source < MaxEdition
    /\ source' = source + 1
    /\ UNCHANGED <<resPc, hash, material, stage, output, promised, faults>>

-----------------------------------------------------------------------------
(* The steps of restoreWithHook *)

\* The call starts, again after a failure or a crash: the source is hashed.
\* A staging directory an earlier attempt left behind is under another name.
HashFile(r) ==
    /\ resPc[r] \in {"idle", "failed", "dead"}
    /\ hash' = [hash EXCEPT ![r] = source]
    /\ resPc' = [resPc EXCEPT ![r] = "hashed"]
    /\ stage' = [stage EXCEPT ![r] = NoDir]
    /\ UNCHANGED <<source, material, output, promised, faults>>

\* A slip: any existing output is an error, so a restore that was killed after
\* the rename can never be completed.
RefuseExistingOutput(r) ==
    /\ resPc[r] = "hashed" /\ output # NoDir
    /\ resPc' = [resPc EXCEPT ![r] = "refused"]
    /\ UNCHANGED <<source, hash, material, stage, output, promised, faults>>

\* completeExistingRestore: an output is only completed when its manifest names
\* the same source.
CompleteExistingRestore(r) ==
    /\ resPc[r] = "hashed" /\ output # NoDir
    /\ resPc' = [resPc EXCEPT ![r] = IF output.file["manifest"] = hash[r] THEN "matching" ELSE "refused"]
    /\ UNCHANGED <<source, hash, material, stage, output, promised, faults>>

ResyncTree(r) ==
    /\ resPc[r] = "matching" /\ output # NoDir
    /\ output' = [output EXCEPT !.synced = Parts, !.entries = TRUE]
    /\ resPc' = [resPc EXCEPT ![r] = "resynced"]
    /\ UNCHANGED <<source, hash, material, stage, promised, faults>>

\* readRestorePayload and validateRestoreMaterial.
ReadRestorePayload(r) ==
    /\ resPc[r] = "hashed" /\ output = NoDir
    /\ material' = [material EXCEPT ![r] = source]
    /\ resPc' = [resPc EXCEPT ![r] = IF source \in Valid THEN "read" ELSE "failed"]
    /\ UNCHANGED <<source, hash, stage, output, promised, faults>>

\* The staging directory and its subdirectories.
EnsureRestoreDirectories(r) ==
    /\ resPc[r] = "read"
    /\ stage' = [stage EXCEPT ![r] = EmptyTree]
    /\ resPc' = [resPc EXCEPT ![r] = "staging"]
    /\ UNCHANGED <<source, hash, material, output, promised, faults>>

\* RemoveTree by the deferred cleanup.
RemoveTree(r) ==
    /\ stage' = [stage EXCEPT ![r] = NoDir]
    /\ resPc' = [resPc EXCEPT ![r] = "failed"]

\* durablefs.CopyNew: the file is created exclusively, written and synced; its
\* name is not.
CopyNew(t, parts, e) ==
    [t EXCEPT !.file = [p \in Parts |-> IF p \in parts THEN e ELSE t.file[p]],
              !.synced = @ \cup parts]

\* data/kive.db is copied and hashed again: a source that was replaced since
\* the first hash, also in the middle of the copy, ends the restore.
CopyDatabase(r) ==
    /\ resPc[r] = "staging"
    /\ \/ /\ source = hash[r]
          /\ stage' = [stage EXCEPT ![r] = CopyNew(@, {"db"}, source)]
          /\ resPc' = [resPc EXCEPT ![r] = "dbStaged"]
       \/ source # hash[r] /\ RemoveTree(r)
    /\ UNCHANGED <<source, hash, material, output, promised, faults>>

WriteRestoreTree(r) ==
    /\ resPc[r] = "dbStaged"
    /\ stage' = [stage EXCEPT ![r] = CopyNew(@, {"conf", "secrets"}, material[r])]
    /\ resPc' = [resPc EXCEPT ![r] = "written"]
    /\ UNCHANGED <<source, hash, material, output, promised, faults>>

\* Job, template and command files come from the staged database; these files
\* are written without a sync.
ExportFiles(r) ==
    /\ resPc[r] = "written"
    /\ stage' = [stage EXCEPT ![r].file["jobs"] = stage[r].file["db"]]
    /\ resPc' = [resPc EXCEPT ![r] = "exported"]
    /\ UNCHANGED <<source, hash, material, output, promised, faults>>

WriteManifest(r) ==
    /\ resPc[r] = "exported"
    /\ stage' = [stage EXCEPT ![r] = CopyNew(@, {"manifest"}, hash[r])]
    /\ resPc' = [resPc EXCEPT ![r] = "manifest"]
    /\ UNCHANGED <<source, hash, material, output, promised, faults>>

\* durablefs.SyncTree: every file, then the directories bottom-up.
SyncTree(r) ==
    /\ resPc[r] = "manifest"
    /\ stage' = [stage EXCEPT ![r].synced = Parts, ![r].entries = TRUE]
    /\ resPc' = [resPc EXCEPT ![r] = "synced"]
    /\ UNCHANGED <<source, hash, material, output, promised, faults>>

\* A slip: a rename that replaces what is there.
CommitDirReplacing(r) ==
    /\ resPc[r] = "synced"
    /\ output' = stage[r]
    /\ stage' = [stage EXCEPT ![r] = NoDir]
    /\ resPc' = [resPc EXCEPT ![r] = "renamed"]
    /\ UNCHANGED <<source, hash, material, promised, faults>>

\* durablefs.CommitDir up to the rename, which replaces nothing: a restore that
\* finds another one's output removes its stage.
CommitDir(r) ==
    /\ resPc[r] = "synced"
    /\ \/ /\ output = NoDir
          /\ output' = stage[r]
          /\ stage' = [stage EXCEPT ![r] = NoDir]
          /\ resPc' = [resPc EXCEPT ![r] = "renamed"]
       \/ /\ output # NoDir
          /\ RemoveTree(r)
          /\ UNCHANGED output
    /\ UNCHANGED <<source, hash, material, promised, faults>>

\* The sync of the parent directory, after which success is reported.
SyncParent(r) ==
    /\ resPc[r] \in {"renamed", "resynced"} /\ output # NoDir
    /\ output' = [output EXCEPT !.named = TRUE]
    /\ resPc' = [resPc EXCEPT ![r] = "ok"]
    /\ promised' = promised \cup {hash[r]}
    /\ UNCHANGED <<source, hash, material, stage, faults>>

-----------------------------------------------------------------------------
(* Faults *)

Fault == faults < MaxFaults /\ faults' = faults + 1

\* A call fails: before the rename the stage is removed, unless that fails too;
\* after it the output stays (CommitError.Installed).
CallFails(r) ==
    /\ resPc[r] \in Working
    /\ Fault
    /\ resPc' = [resPc EXCEPT ![r] = "failed"]
    /\ stage' \in {stage, [stage EXCEPT ![r] = NoDir]}
    /\ UNCHANGED <<source, hash, material, output, promised>>

Killed(r) ==
    /\ resPc[r] \in Working
    /\ Fault
    /\ resPc' = [resPc EXCEPT ![r] = "dead"]
    /\ UNCHANGED <<source, hash, material, stage, output, promised>>

\* What a power loss may leave of a tree.
Survivors(t) ==
    {[t EXCEPT !.file = f] : f \in
        {f \in [Parts -> Editions \cup {Lost, Torn}] : \A p \in Parts :
            \/ f[p] = t.file[p]
            \/ f[p] = Lost /\ ~ t.entries
            \/ f[p] = Torn /\ p \notin t.synced}}

\* All processes die.  A name that was not synced may be the stage's again.
PowerLoss ==
    /\ Fault
    /\ resPc' = [r \in Restorers |-> IF resPc[r] \in Working THEN "dead" ELSE resPc[r]]
    /\ stage' = [r \in Restorers |-> NoDir]
    /\ \/ output # NoDir /\ output' \in Survivors(output)
       \/ output = NoDir /\ output' = NoDir
       \/ output # NoDir /\ ~ output.named /\ output' = NoDir
    /\ UNCHANGED <<source, hash, material, promised>>

-----------------------------------------------------------------------------
RestoreStep(r) ==
    \/ HashFile(r) \/ CompleteExistingRestore(r) \/ ResyncTree(r)
    \/ ReadRestorePayload(r) \/ EnsureRestoreDirectories(r) \/ CopyDatabase(r)
    \/ WriteRestoreTree(r) \/ ExportFiles(r) \/ WriteManifest(r) \/ SyncTree(r)
    \/ CommitDir(r) \/ SyncParent(r)

RestoreNext ==
    \/ \E r \in Restorers : RestoreStep(r) \/ CallFails(r) \/ Killed(r)
    \/ SourceReplaced
    \/ PowerLoss

RestoreSpec == RestoreInit /\ [][RestoreNext]_restoreVars

\* Each restore runs on, and its operator calls it again after a failure.
RestoreFairSpec == RestoreSpec /\ \A r \in Restorers : WF_restoreVars(RestoreStep(r))

-----------------------------------------------------------------------------
(* Properties *)

\* Restore "atomically materializes a complete bucket tree": whatever fails,
\* the output is absent or complete, with database, secrets, job files and
\* manifest of one and the same edition (snapshot/restore.go restoreWithHook).
OutputWhole == output # NoDir => \E e \in Editions : IsWhole(output, e)

\* A restore that reported success is not undone by a crash, a power loss or
\* another restore to the same place (durablefs.CommitDir and SyncParent).
SuccessSurvives == \A e \in promised : IsWhole(output, e)

\* Whatever fails, the restored directory is absent or complete, with all files
\* of one edition, and a restore that reported success is not undone
\* (snapshot.Restore).
RestoreIsAtomic == OutputWhole /\ SuccessSurvives

\* However often it is killed or fails, a restore of a file that is not
\* replaced meanwhile ends with a report of success when it is called again:
\* the output of an attempt that died after the rename is completed
\* (completeExistingRestore).
CalledAgainSucceeds == 1 \in Valid => <>(promised # {} \/ source # 1)
=============================================================================
