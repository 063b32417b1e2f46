--------------------------- MODULE RestoreProofs ---------------------------
(***************************************************************************)
(* Proof that restores are atomic, for any number of restores aimed at one *)
(* output, any editions of the database, and any number of failing calls,  *)
(* kills and power losses.                                                 *)
(***************************************************************************)
EXTENDS Restore, TLAPS

-----------------------------------------------------------------------------
(* The inductive invariant *)

Trees ==
    [kind : {"tree"}, file : [Parts -> Editions \cup {Lost, Torn}], synced : SUBSET Parts,
     entries : BOOLEAN, named : BOOLEAN]

RestoreTypes ==
    /\ MaxEdition \in Nat \ {0}
    /\ source \in Editions
    /\ resPc \in [Restorers -> Waiting \cup Working]
    /\ hash \in [Restorers -> Editions \cup {Unhashed}]
    /\ material \in [Restorers -> Editions \cup {Unhashed}]
    /\ stage \in [Restorers -> Trees \cup {NoDir}]
    /\ output \in Trees \cup {NoDir}

\* The parts a restore has staged, by its step.
StagedParts(p) ==
    CASE p = "staging" -> {}
      [] p = "dbStaged" -> {"db"}
      [] p = "written" -> {"db", "conf", "secrets"}
      [] p = "exported" -> {"db", "conf", "secrets", "jobs"}
      [] p \in {"manifest", "synced"} -> Parts

Staging == {"staging", "dbStaged", "written", "exported", "manifest", "synced"}

\* What a running restore has found: the database is not older than its hash,
\* once it is copied the material is of the same edition, and what is staged
\* is of that edition.
Progress(r) ==
    /\ resPc[r] \in Working => hash[r] \in Editions /\ hash[r] <= source
    /\ resPc[r] \in {"read", "staging"} =>
          material[r] \in Editions /\ hash[r] <= material[r] /\ material[r] <= source
    /\ resPc[r] \in Staging \ {"staging"} => material[r] = hash[r]
    /\ resPc[r] \in Staging =>
          stage[r] \in Trees /\ \A p \in StagedParts(resPc[r]) : stage[r].file[p] = hash[r]
    /\ resPc[r] = "synced" => stage[r].synced = Parts /\ stage[r].entries = TRUE
    /\ resPc[r] \in {"renamed", "matching", "resynced"} =>
          output # NoDir /\ IsWhole(output, hash[r])

\* The output is whole and synced, and its name is once success is reported.
OutputSafe ==
    /\ output # NoDir => /\ \E e \in Editions : IsWhole(output, e)
                         /\ output.synced = Parts /\ output.entries = TRUE
    /\ \A e \in promised : output # NoDir /\ IsWhole(output, e) /\ output.named = TRUE

RestoreInv == RestoreTypes /\ OutputSafe /\ \A r \in Restorers : Progress(r)

-----------------------------------------------------------------------------
(* Frames *)

LEMMA StagedPartsAre ==
    /\ StagedParts("staging") = {} /\ StagedParts("dbStaged") = {"db"}
    /\ StagedParts("written") = {"db", "conf", "secrets"}
    /\ StagedParts("exported") = {"db", "conf", "secrets", "jobs"}
    /\ StagedParts("manifest") = Parts /\ StagedParts("synced") = Parts
    BY DEF StagedParts

\* The output only becomes what it was, or whole where there was none.
OutputStays == \A e : output # NoDir /\ IsWhole(output, e) => output' # NoDir /\ IsWhole(output', e)

SameFor(q) ==
    resPc'[q] = resPc[q] /\ hash'[q] = hash[q] /\ material'[q] = material[q] /\ stage'[q] = stage[q]

LEMMA SameProgress ==
    ASSUME RestoreTypes, RestoreTypes', NEW q \in Restorers, Progress(q), SameFor(q), OutputStays,
           source <= source'
    PROVE  Progress(q)'
    <1>1. /\ source \in Nat /\ source' \in Nat
          /\ \A e \in Editions \cup {Unhashed} : e \in Nat
        BY DEF RestoreTypes, Editions, Unhashed
    <1>2. hash[q] \in Nat /\ material[q] \in Nat
        BY <1>1 DEF RestoreTypes
    <1>3. resPc'[q] \in Working => hash'[q] \in Editions /\ hash'[q] <= source'
        BY <1>1, <1>2 DEF SameFor, Progress
    <1>4. resPc'[q] \in {"read", "staging"} =>
             material'[q] \in Editions /\ hash'[q] <= material'[q] /\ material'[q] <= source'
        BY <1>1, <1>2 DEF SameFor, Progress
    <1>5. /\ resPc'[q] \in Staging \ {"staging"} => material'[q] = hash'[q]
          /\ resPc'[q] \in Staging =>
               stage'[q] \in Trees /\ \A p \in StagedParts(resPc'[q]) : stage'[q].file[p] = hash'[q]
          /\ resPc'[q] = "synced" => stage'[q].synced = Parts /\ stage'[q].entries = TRUE
        BY DEF SameFor, Progress
    <1>6. resPc'[q] \in {"renamed", "matching", "resynced"} => output' # NoDir /\ IsWhole(output', hash'[q])
        BY DEF SameFor, Progress, OutputStays
    <1> QED BY <1>3, <1>4, <1>5, <1>6 DEF Progress, IsWhole

\* A step of one restore.
LEMMA StepOfOne ==
    ASSUME RestoreInv, NEW r \in Restorers, \A q \in Restorers \ {r} : SameFor(q),
           source' = source, OutputStays, RestoreTypes', OutputSafe', Progress(r)'
    PROVE  RestoreInv'
    <1>1. source <= source'
        BY DEF RestoreInv, RestoreTypes, Editions
    <1>2. \A q \in Restorers \ {r} : Progress(q)'
        BY <1>1, SameProgress DEF RestoreInv
    <1> QED BY <1>2 DEF RestoreInv

LEMMA SameOutput ==
    ASSUME RestoreInv, UNCHANGED <<output, promised>> PROVE OutputSafe' /\ OutputStays
    BY DEF RestoreInv, OutputSafe, OutputStays, IsWhole

-----------------------------------------------------------------------------
(* The steps *)

LEMMA HashKeeps == ASSUME RestoreInv, NEW r \in Restorers, HashFile(r) PROVE RestoreInv'
    <1> USE DEF RestoreInv
    <1>1. /\ resPc'[r] = "hashed" /\ hash'[r] = source /\ source' = source
          /\ \A q \in Restorers \ {r} : SameFor(q)
        BY DEF HashFile, RestoreTypes, SameFor
    <1>2. RestoreTypes'
        BY DEF HashFile, RestoreTypes, Working
    <1>3. OutputSafe' /\ OutputStays
        BY SameOutput DEF HashFile
    <1>4. Progress(r)'
        BY <1>1 DEF Progress, RestoreTypes, Editions, Staging
    <1> QED BY <1>1, <1>2, <1>3, <1>4, StepOfOne

LEMMA CompleteKeeps ==
    ASSUME RestoreInv, NEW r \in Restorers, CompleteExistingRestore(r) PROVE RestoreInv'
    <1> USE DEF RestoreInv
    <1>1. /\ resPc[r] = "hashed" /\ resPc'[r] \in {"matching", "refused"} /\ source' = source
          /\ hash' = hash /\ output # NoDir
          /\ resPc'[r] = "matching" => output.file["manifest"] = hash[r]
          /\ \A q \in Restorers \ {r} : SameFor(q)
        BY DEF CompleteExistingRestore, RestoreTypes, SameFor
    <1>2. RestoreTypes'
        BY DEF CompleteExistingRestore, RestoreTypes, Working, Waiting
    <1>3. OutputSafe' /\ OutputStays /\ output' = output
        BY SameOutput DEF CompleteExistingRestore
    <1>4. resPc'[r] = "matching" => IsWhole(output, hash[r])
        <2>1. PICK e \in Editions : IsWhole(output, e)
            BY <1>1 DEF OutputSafe
        <2> QED BY <1>1, <2>1 DEF IsWhole, Parts
    <1>5. hash[r] \in Editions /\ hash[r] <= source
        BY <1>1 DEF Progress, Working
    <1>6. Progress(r)'
        BY <1>1, <1>3, <1>4, <1>5 DEF Progress, Staging, Working, IsWhole
    <1> QED BY <1>1, <1>2, <1>3, <1>6, StepOfOne

LEMMA ResyncKeeps == ASSUME RestoreInv, NEW r \in Restorers, ResyncTree(r) PROVE RestoreInv'
    <1> USE DEF RestoreInv
    <1>1. /\ resPc[r] = "matching" /\ resPc'[r] = "resynced" /\ source' = source /\ output # NoDir
          /\ hash' = hash /\ promised' = promised
          /\ output' = [output EXCEPT !.synced = Parts, !.entries = TRUE]
          /\ \A q \in Restorers \ {r} : SameFor(q)
        BY DEF ResyncTree, RestoreTypes, SameFor
    <1>2. output \in Trees /\ output.synced = Parts /\ output.entries = TRUE
        BY <1>1 DEF RestoreTypes, OutputSafe
    <1>3. output' = output
        BY <1>1, <1>2 DEF Trees
    <1>4. RestoreTypes'
        BY <1>3 DEF ResyncTree, RestoreTypes, Working
    <1>5. OutputSafe' /\ OutputStays
        BY <1>1, <1>3, SameOutput
    <1>6. hash[r] \in Editions /\ hash[r] <= source /\ IsWhole(output, hash[r])
        BY <1>1 DEF Progress, Working
    <1>7. Progress(r)'
        BY <1>1, <1>3, <1>6 DEF Progress, Staging, IsWhole
    <1> QED BY <1>1, <1>4, <1>5, <1>7, StepOfOne

LEMMA ReadKeeps == ASSUME RestoreInv, NEW r \in Restorers, ReadRestorePayload(r) PROVE RestoreInv'
    <1> USE DEF RestoreInv
    <1>1. /\ resPc[r] = "hashed" /\ resPc'[r] \in {"read", "failed"} /\ source' = source
          /\ hash' = hash /\ material'[r] = source
          /\ \A q \in Restorers \ {r} : SameFor(q)
        BY DEF ReadRestorePayload, RestoreTypes, SameFor
    <1>2. RestoreTypes'
        BY DEF ReadRestorePayload, RestoreTypes, Working, Waiting
    <1>3. OutputSafe' /\ OutputStays
        BY SameOutput DEF ReadRestorePayload
    <1>4. hash[r] \in Editions /\ hash[r] <= source /\ source \in Editions /\ source <= source
        BY <1>1 DEF Progress, Working, RestoreTypes, Editions
    <1>5. Progress(r)'
        BY <1>1, <1>4 DEF Progress, Staging, Working
    <1> QED BY <1>1, <1>2, <1>3, <1>5, StepOfOne

LEMMA DirectoriesKeep ==
    ASSUME RestoreInv, NEW r \in Restorers, EnsureRestoreDirectories(r) PROVE RestoreInv'
    <1> USE DEF RestoreInv
    <1>1. /\ resPc[r] = "read" /\ resPc'[r] = "staging" /\ source' = source
          /\ hash' = hash /\ material' = material /\ stage'[r] = EmptyTree
          /\ \A q \in Restorers \ {r} : SameFor(q)
        BY DEF EnsureRestoreDirectories, RestoreTypes, SameFor
    <1>2. EmptyTree \in Trees
        BY DEF EmptyTree, Trees
    <1>3. RestoreTypes'
        BY <1>2 DEF EnsureRestoreDirectories, RestoreTypes, Working
    <1>4. OutputSafe' /\ OutputStays
        BY SameOutput DEF EnsureRestoreDirectories
    <1>5. /\ hash[r] \in Editions /\ hash[r] <= source
          /\ material[r] \in Editions /\ hash[r] <= material[r] /\ material[r] <= source
        BY <1>1 DEF Progress, Working
    <1>6. Progress(r)'
        BY <1>1, <1>2, <1>5, StagedPartsAre DEF Progress
    <1> QED BY <1>1, <1>3, <1>4, <1>6, StepOfOne

LEMMA Copied ==
    ASSUME NEW t \in Trees, NEW parts \in SUBSET Parts, NEW e \in Editions
    PROVE  /\ CopyNew(t, parts, e) \in Trees
           /\ \A p \in Parts : CopyNew(t, parts, e).file[p] = IF p \in parts THEN e ELSE t.file[p]
    <1> DEFINE f == [p \in Parts |-> IF p \in parts THEN e ELSE t.file[p]]
    <1>1. f \in [Parts -> Editions \cup {Lost, Torn}]
        BY DEF Trees
    <1>2. CopyNew(t, parts, e) = [t EXCEPT !.file = f, !.synced = t.synced \cup parts]
        BY DEF CopyNew, Trees
    <1> HIDE DEF f
    <1>3. CopyNew(t, parts, e) \in Trees /\ CopyNew(t, parts, e).file = f
        BY <1>1, <1>2 DEF Trees
    <1> QED BY <1>3 DEF f

SameElse ==
    /\ source' = source /\ hash' = hash /\ material' = material
    /\ output' = output /\ promised' = promised

\* A step that changes only the stage and the place of one restore.
StageChange(r, t, v) ==
    stage' = [stage EXCEPT ![r] = t] /\ resPc' = [resPc EXCEPT ![r] = v] /\ SameElse

LEMMA StageStep ==
    ASSUME RestoreInv, NEW r \in Restorers, NEW t \in Trees \cup {NoDir},
           NEW v \in Waiting \cup Working, StageChange(r, t, v)
    PROVE  /\ RestoreTypes' /\ OutputSafe' /\ OutputStays /\ source' = source
           /\ \A q \in Restorers \ {r} : SameFor(q)
           /\ resPc'[r] = v /\ stage'[r] = t /\ hash'[r] = hash[r] /\ material'[r] = material[r]
    <1>1. RestoreTypes'
        BY DEF RestoreInv, RestoreTypes, SameElse, StageChange
    <1>2. OutputSafe' /\ OutputStays
        BY SameOutput DEF SameElse, StageChange
    <1> QED BY <1>1, <1>2 DEF RestoreInv, RestoreTypes, SameFor, SameElse, StageChange

\* A step that ends a restore.
LEMMA EndsOne ==
    ASSUME RestoreInv, NEW r \in Restorers, NEW t \in Trees \cup {NoDir}, NEW v \in Waiting,
           StageChange(r, t, v)
    PROVE  RestoreInv'
    <1>0. v \in Waiting \cup Working
        OBVIOUS
    <1>1. /\ RestoreTypes' /\ OutputSafe' /\ OutputStays /\ source' = source
          /\ \A q \in Restorers \ {r} : SameFor(q)
          /\ resPc'[r] = v
        BY <1>0, StageStep
    <1>2. Progress(r)'
        BY <1>1 DEF Progress, Waiting, Working, Staging
    <1> QED BY <1>1, <1>2, StepOfOne

LEMMA CopyKeeps == ASSUME RestoreInv, NEW r \in Restorers, CopyDatabase(r) PROVE RestoreInv'
    <1> DEFINE t == CopyNew(stage[r], {"db"}, source)
    <1>1. SameElse
        BY DEF CopyDatabase, SameElse
    <1>2. CASE source # hash[r] /\ RemoveTree(r)
        <2>1. stage' = [stage EXCEPT ![r] = NoDir] /\ resPc' = [resPc EXCEPT ![r] = "failed"]
            BY <1>2 DEF RemoveTree
        <2>2. "failed" \in Waiting /\ NoDir \in Trees \cup {NoDir}
            BY DEF Waiting
        <2>3. StageChange(r, NoDir, "failed")
            BY <1>1, <2>1 DEF StageChange
        <2> QED BY <2>2, <2>3, EndsOne
    <1>3. CASE /\ source = hash[r]
               /\ stage' = [stage EXCEPT ![r] = CopyNew(@, {"db"}, source)]
               /\ resPc' = [resPc EXCEPT ![r] = "dbStaged"]
        <2>1. /\ resPc[r] = "staging" /\ stage[r] \in Trees /\ source \in Editions
              /\ material[r] \in Editions /\ hash[r] <= material[r] /\ material[r] <= source
              /\ hash[r] \in Editions
            BY DEF CopyDatabase, RestoreInv, Progress, Staging, Working, RestoreTypes
        <2>c. {"db"} \in SUBSET Parts /\ "db" \in Parts
            BY DEF Parts
        <2>d. t \in Trees /\ \A p \in Parts : t.file[p] = IF p \in {"db"} THEN source ELSE stage[r].file[p]
            BY <2>1, <2>c, Copied
        <2>2. t \in Trees /\ t.file["db"] = hash[r]
            BY <1>3, <2>c, <2>d
        <2>a. source \in Int /\ material[r] \in Int
            BY <2>1 DEF Editions, RestoreInv, RestoreTypes
        <2>3. material[r] = hash[r] /\ hash[r] <= source
            BY <1>3, <2>1, <2>a
        <2>4. stage' = [stage EXCEPT ![r] = t]
            BY <1>3, <2>1 DEF RestoreInv, RestoreTypes
        <2>5. "dbStaged" \in Waiting \cup Working /\ t \in Trees \cup {NoDir}
            BY <2>2 DEF Working
        <2> HIDE DEF t
        <2>6. /\ RestoreTypes' /\ OutputSafe' /\ OutputStays /\ source' = source
              /\ \A q \in Restorers \ {r} : SameFor(q)
              /\ resPc'[r] = "dbStaged" /\ stage'[r] = t
              /\ hash'[r] = hash[r] /\ material'[r] = material[r]
            <3>1. StageChange(r, t, "dbStaged")
                BY <1>1, <1>3, <2>4 DEF StageChange
            <3> QED BY <2>5, <3>1, StageStep
        <2>b. /\ hash'[r] \in Editions' /\ hash'[r] <= source' /\ material'[r] = hash'[r]
              /\ stage'[r] \in Trees' /\ \A p \in StagedParts(resPc'[r]) : stage'[r].file[p] = hash'[r]
            BY <2>1, <2>2, <2>3, <2>6, StagedPartsAre
        <2>7. Progress(r)'
            BY <2>6, <2>b DEF Progress, Staging
        <2> QED BY <2>6, <2>7, StepOfOne
    <1> QED BY <1>2, <1>3 DEF CopyDatabase

\* A step that stages more.
LEMMA StagesMore ==
    ASSUME RestoreInv, NEW r \in Restorers, NEW t \in Trees, NEW v \in Staging \ {"staging"},
           resPc[r] \in Staging \ {"staging"}, StageChange(r, t, v),
           \A p \in StagedParts(v) : t.file[p] = hash[r],
           v = "synced" => t.synced = Parts /\ t.entries = TRUE
    PROVE  RestoreInv'
    <1>1. v \in Waiting \cup Working /\ t \in Trees \cup {NoDir} /\ resPc[r] \in Working
        BY DEF Working, Staging
    <1>2. /\ RestoreTypes' /\ OutputSafe' /\ OutputStays /\ source' = source
          /\ \A q \in Restorers \ {r} : SameFor(q)
          /\ resPc'[r] = v /\ stage'[r] = t
          /\ hash'[r] = hash[r] /\ material'[r] = material[r]
        BY <1>1, StageStep
    <1>3. hash[r] \in Editions /\ hash[r] <= source /\ material[r] = hash[r]
        BY <1>1 DEF RestoreInv, Progress
    <1>a. /\ hash'[r] \in Editions' /\ hash'[r] <= source' /\ material'[r] = hash'[r]
          /\ stage'[r] \in Trees' /\ \A p \in StagedParts(resPc'[r]) : stage'[r].file[p] = hash'[r]
          /\ resPc'[r] = "synced" => stage'[r].synced = Parts /\ stage'[r].entries = TRUE
        BY <1>2, <1>3
    <1>4. Progress(r)'
        BY <1>2, <1>a DEF Progress, Staging
    <1> QED BY <1>2, <1>4, StepOfOne

LEMMA StagedSoFar ==
    ASSUME RestoreInv, NEW r \in Restorers, resPc[r] \in Staging \ {"staging"}
    PROVE  /\ stage[r] \in Trees /\ hash[r] \in Editions /\ material[r] = hash[r]
           /\ \A p \in StagedParts(resPc[r]) : stage[r].file[p] = hash[r]
    BY DEF RestoreInv, Progress, Staging, Working

LEMMA WriteKeeps == ASSUME RestoreInv, NEW r \in Restorers, WriteRestoreTree(r) PROVE RestoreInv'
    <1> DEFINE t == CopyNew(stage[r], {"conf", "secrets"}, material[r])
    <1>1. /\ SameElse /\ resPc[r] = "dbStaged"
          /\ resPc' = [resPc EXCEPT ![r] = "written"] /\ stage' = [stage EXCEPT ![r] = t]
        BY DEF WriteRestoreTree, SameElse, RestoreInv, RestoreTypes
    <1>2. /\ stage[r] \in Trees /\ hash[r] \in Editions /\ material[r] = hash[r]
          /\ stage[r].file["db"] = hash[r]
        BY <1>1, StagedSoFar, StagedPartsAre DEF Staging
    <1>3. t \in Trees /\ \A p \in StagedParts("written") : t.file[p] = hash[r]
        BY <1>2, Copied, StagedPartsAre, SMTT(60) DEF Parts
    <1> HIDE DEF t
    <1>x. StageChange(r, t, "written")
        BY <1>1 DEF StageChange
    <1>y. "written" \in Staging \ {"staging"} /\ resPc[r] \in Staging \ {"staging"}
        BY <1>1 DEF Staging
    <1> QED BY <1>3, <1>x, <1>y, StagesMore

LEMMA ExportKeeps == ASSUME RestoreInv, NEW r \in Restorers, ExportFiles(r) PROVE RestoreInv'
    <1> DEFINE f == [stage[r].file EXCEPT !["jobs"] = stage[r].file["db"]]
               t == [stage[r] EXCEPT !.file = f]
    <1>1. /\ SameElse /\ resPc[r] = "written"
          /\ resPc' = [resPc EXCEPT ![r] = "exported"]
        BY DEF ExportFiles, SameElse
    <1>2. /\ stage[r] \in Trees /\ hash[r] \in Editions
          /\ \A p \in {"db", "conf", "secrets"} : stage[r].file[p] = hash[r]
        BY <1>1, StagedSoFar, StagedPartsAre DEF Staging
    <1>3. /\ f \in [Parts -> Editions \cup {Lost, Torn}]
          /\ \A p \in {"db", "conf", "secrets", "jobs"} : f[p] = hash[r]
        BY <1>2 DEF Trees, Parts
    <1>4. stage' = [stage EXCEPT ![r] = t]
        BY <1>2 DEF ExportFiles, RestoreInv, RestoreTypes, Trees
    <1> HIDE DEF f
    <1>5. t \in Trees /\ t.file = f
        BY <1>2, <1>3 DEF Trees
    <1>6. \A p \in StagedParts("exported") : t.file[p] = hash[r]
        BY <1>3, <1>5, StagedPartsAre
    <1> HIDE DEF t
    <1>x. StageChange(r, t, "exported")
        BY <1>1, <1>4 DEF StageChange
    <1>y. "exported" \in Staging \ {"staging"} /\ resPc[r] \in Staging \ {"staging"}
        BY <1>1 DEF Staging
    <1> QED BY <1>5, <1>6, <1>x, <1>y, StagesMore

LEMMA ManifestKeeps == ASSUME RestoreInv, NEW r \in Restorers, WriteManifest(r) PROVE RestoreInv'
    <1> DEFINE t == CopyNew(stage[r], {"manifest"}, hash[r])
    <1>1. /\ SameElse /\ resPc[r] = "exported"
          /\ resPc' = [resPc EXCEPT ![r] = "manifest"] /\ stage' = [stage EXCEPT ![r] = t]
        BY DEF WriteManifest, SameElse, RestoreInv, RestoreTypes
    <1>2. /\ stage[r] \in Trees /\ hash[r] \in Editions
          /\ \A p \in {"db", "conf", "secrets", "jobs"} : stage[r].file[p] = hash[r]
        BY <1>1, StagedSoFar, StagedPartsAre DEF Staging
    <1>a. {"manifest"} \in SUBSET Parts
        BY DEF Parts
    <1>b. /\ t \in Trees
          /\ \A p \in Parts : t.file[p] = IF p \in {"manifest"} THEN hash[r] ELSE stage[r].file[p]
        <2> stage[r] \in Trees /\ hash[r] \in Editions
            BY <1>2
        <2>1. \A x \in SUBSET Parts :
                /\ CopyNew(stage[r], x, hash[r]) \in Trees
                /\ \A p \in Parts : CopyNew(stage[r], x, hash[r]).file[p] =
                                     IF p \in x THEN hash[r] ELSE stage[r].file[p]
            BY Copied
        <2> QED BY <1>a, <2>1
    <1>3. t \in Trees /\ \A p \in StagedParts("manifest") : t.file[p] = hash[r]
        BY <1>2, <1>b, StagedPartsAre DEF Parts
    <1> HIDE DEF t
    <1>x. StageChange(r, t, "manifest")
        BY <1>1 DEF StageChange
    <1>y. "manifest" \in Staging \ {"staging"} /\ resPc[r] \in Staging \ {"staging"}
        BY <1>1 DEF Staging
    <1> QED BY <1>3, <1>x, <1>y, StagesMore

LEMMA SyncKeeps == ASSUME RestoreInv, NEW r \in Restorers, SyncTree(r) PROVE RestoreInv'
    <1> DEFINE u == [stage[r] EXCEPT !.synced = Parts]
               t == [u EXCEPT !.entries = TRUE]
    <1>1. /\ SameElse /\ resPc[r] = "manifest"
          /\ resPc' = [resPc EXCEPT ![r] = "synced"]
        BY DEF SyncTree, SameElse
    <1>2. stage[r] \in Trees /\ \A p \in Parts : stage[r].file[p] = hash[r]
        BY <1>1, StagedSoFar, StagedPartsAre DEF Staging
    <1>a. stage \in [Restorers -> Trees \cup {NoDir}]
          /\ stage' = [[stage EXCEPT ![r].synced = Parts] EXCEPT ![r].entries = TRUE]
        BY DEF SyncTree, RestoreInv, RestoreTypes
    <1>b. [stage EXCEPT ![r].synced = Parts] = [stage EXCEPT ![r] = u]
        BY <1>a
    <1>c. [[stage EXCEPT ![r] = u] EXCEPT ![r].entries = TRUE] = [stage EXCEPT ![r] = t]
        BY <1>a
    <1>3. stage' = [stage EXCEPT ![r] = t]
        BY <1>a, <1>b, <1>c
    <1>4. u \in Trees /\ u.file = stage[r].file /\ u.synced = Parts
        BY <1>2 DEF Trees
    <1> HIDE DEF u
    <1>5. t \in Trees /\ t.file = stage[r].file /\ t.synced = Parts /\ t.entries = TRUE
        BY <1>4 DEF Trees
    <1>6. \A p \in StagedParts("synced") : t.file[p] = hash[r]
        BY <1>2, <1>5, StagedPartsAre
    <1> HIDE DEF t
    <1>x. StageChange(r, t, "synced")
        BY <1>1, <1>3 DEF StageChange
    <1>y. "synced" \in Staging \ {"staging"} /\ resPc[r] \in Staging \ {"staging"}
        BY <1>1 DEF Staging
    <1> QED BY <1>5, <1>6, <1>x, <1>y, StagesMore

LEMMA CommitKeeps == ASSUME RestoreInv, NEW r \in Restorers, CommitDir(r) PROVE RestoreInv'
    <1> DEFINE A == /\ output = NoDir /\ output' = stage[r]
                    /\ stage' = [stage EXCEPT ![r] = NoDir]
                    /\ resPc' = [resPc EXCEPT ![r] = "renamed"]
               B == output # NoDir /\ RemoveTree(r) /\ UNCHANGED output
    <1>1. UNCHANGED <<source, hash, material, promised>> /\ resPc[r] = "synced" /\ (A \/ B)
        BY DEF CommitDir
    <1>2. CASE B
        <2>1. stage' = [stage EXCEPT ![r] = NoDir] /\ resPc' = [resPc EXCEPT ![r] = "failed"]
            BY <1>2 DEF RemoveTree
        <2>2. "failed" \in Waiting /\ NoDir \in Trees \cup {NoDir}
            BY DEF Waiting
        <2>3. SameElse
            BY <1>1, <1>2 DEF SameElse
        <2>4. StageChange(r, NoDir, "failed")
            BY <2>1, <2>3 DEF StageChange
        <2> QED BY <2>2, <2>4, EndsOne
    <1>3. CASE A
        <2>1. /\ stage[r] \in Trees /\ hash[r] \in Editions /\ hash[r] <= source
              /\ \A p \in Parts : stage[r].file[p] = hash[r]
              /\ stage[r].synced = Parts /\ stage[r].entries = TRUE
            BY <1>1, StagedPartsAre DEF RestoreInv, Progress, Staging, Working
        <2>2. output' # NoDir /\ IsWhole(output', hash[r])
            BY <1>3, <2>1 DEF Trees, NoDir, IsWhole
        <2>3. RestoreTypes'
            BY <1>1, <1>3, <2>1 DEF RestoreInv, RestoreTypes, Working
        <2>4. promised' = {}
            BY <1>1, <1>3 DEF RestoreInv, OutputSafe
        <2>5. OutputSafe'
            BY <1>3, <2>1, <2>2, <2>4 DEF OutputSafe, IsWhole, Editions
        <2>6. OutputStays
            BY <1>3 DEF OutputStays
        <2>7. /\ resPc'[r] = "renamed" /\ hash'[r] = hash[r] /\ source' = source
              /\ \A q \in Restorers \ {r} : SameFor(q)
            BY <1>1, <1>3 DEF RestoreInv, RestoreTypes, SameFor
        <2>8. hash'[r] \in Editions' /\ hash'[r] <= source' /\ IsWhole(output', hash'[r])
            BY <2>1, <2>2, <2>7
        <2>9. Progress(r)'
            BY <2>2, <2>7, <2>8 DEF Progress, Staging, IsWhole
        <2> QED BY <2>3, <2>5, <2>6, <2>7, <2>9, StepOfOne
    <1> QED BY <1>1, <1>2, <1>3

LEMMA ParentKeeps == ASSUME RestoreInv, NEW r \in Restorers, SyncParent(r) PROVE RestoreInv'
    <1>1. /\ UNCHANGED <<source, hash, material, stage>> /\ output # NoDir
          /\ resPc[r] \in {"renamed", "resynced"}
          /\ output' = [output EXCEPT !.named = TRUE]
          /\ resPc' = [resPc EXCEPT ![r] = "ok"] /\ promised' = promised \cup {hash[r]}
        BY DEF SyncParent
    <1>2. /\ output \in Trees /\ hash[r] \in Editions /\ IsWhole(output, hash[r])
          /\ output.synced = Parts /\ output.entries = TRUE
        BY <1>1 DEF RestoreInv, RestoreTypes, OutputSafe, Progress, Working
    <1>3. /\ output' \in Trees /\ output'.file = output.file /\ output'.kind = output.kind
          /\ output'.synced = Parts /\ output'.entries = TRUE /\ output'.named = TRUE
        BY <1>1, <1>2 DEF Trees
    <1>4. output' # NoDir
        BY <1>3 DEF Trees, NoDir
    <1>5. OutputStays
        BY <1>3, <1>4 DEF OutputStays, IsWhole
    <1>6. RestoreTypes'
        BY <1>1, <1>3 DEF RestoreInv, RestoreTypes, Waiting
    <1>7. IsWhole(output', hash[r])
        BY <1>2, <1>5, <1>1 DEF OutputStays
    <1>8. OutputSafe'
        <2>1. \A e \in promised : IsWhole(output', e)
            BY <1>1, <1>5 DEF RestoreInv, OutputSafe, OutputStays
        <2> QED BY <1>1, <1>2, <1>3, <1>4, <1>7, <2>1 DEF OutputSafe, IsWhole, Editions
    <1>9. resPc'[r] = "ok" /\ source' = source /\ \A q \in Restorers \ {r} : SameFor(q)
        BY <1>1 DEF RestoreInv, RestoreTypes, SameFor
    <1>10. Progress(r)'
        BY <1>9 DEF Progress, Working, Staging
    <1> QED BY <1>5, <1>6, <1>8, <1>9, <1>10, StepOfOne

LEMMA FailKeeps ==
    ASSUME RestoreInv, NEW r \in Restorers, CallFails(r) \/ Killed(r) PROVE RestoreInv'
    <1>1. /\ SameElse
          /\ \E v \in {"failed", "dead"} : resPc' = [resPc EXCEPT ![r] = v]
          /\ \E t \in {stage[r], NoDir} : stage' = [stage EXCEPT ![r] = t]
        BY DEF CallFails, SameElse, Killed, RestoreInv, RestoreTypes
    <1>2. /\ \A v \in {"failed", "dead"} : v \in Waiting
          /\ \A t \in {stage[r], NoDir} : t \in Trees \cup {NoDir}
        BY DEF Waiting, RestoreInv, RestoreTypes
    <1>3. PICK v \in {"failed", "dead"}, t \in {stage[r], NoDir} : StageChange(r, t, v)
        BY <1>1 DEF StageChange
    <1> QED BY <1>2, <1>3, EndsOne

LEMMA SourceKeeps == ASSUME RestoreInv, SourceReplaced PROVE RestoreInv'
    <1>1. /\ UNCHANGED <<resPc, hash, material, stage, output, promised>>
          /\ source' \in Editions /\ source <= source'
        BY DEF SourceReplaced, RestoreInv, RestoreTypes, Editions
    <1>2. RestoreTypes'
        BY <1>1 DEF RestoreInv, RestoreTypes
    <1>3. OutputSafe' /\ OutputStays
        BY <1>1, SameOutput
    <1>4. \A q \in Restorers : Progress(q)'
        BY <1>1, <1>2, <1>3, SameProgress DEF RestoreInv, SameFor
    <1> QED BY <1>2, <1>3, <1>4 DEF RestoreInv

\* A tree that is synced with its entries comes through a power loss.
LEMMA SyncedSurvives ==
    ASSUME NEW t \in Trees, t.synced = Parts, t.entries = TRUE
    PROVE  \A u \in Survivors(t) : u = t
    <1> TAKE u \in Survivors(t)
    <1> DEFINE Left == {f \in [Parts -> Editions \cup {Lost, Torn}] : \A p \in Parts :
                           \/ f[p] = t.file[p]
                           \/ f[p] = Lost /\ ~ t.entries
                           \/ f[p] = Torn /\ p \notin t.synced}
    <1>1. PICK f \in Left : u = [t EXCEPT !.file = f]
        BY DEF Survivors
    <1>2. f \in [Parts -> Editions \cup {Lost, Torn}] /\ \A p \in Parts : f[p] = t.file[p]
        BY <1>1
    <1>3. f = t.file
        BY <1>2 DEF Trees
    <1> QED BY <1>1, <1>3 DEF Trees

LEMMA PowerKeeps == ASSUME RestoreInv, PowerLoss PROVE RestoreInv'
    <1>1. /\ UNCHANGED <<source, hash, material, promised>>
          /\ resPc' = [r \in Restorers |-> IF resPc[r] \in Working THEN "dead" ELSE resPc[r]]
          /\ stage' = [r \in Restorers |-> NoDir]
        BY DEF PowerLoss
    <1>2. output' = output \/ (output # NoDir /\ ~ output.named /\ output' = NoDir)
        <2>1. CASE output # NoDir /\ output' \in Survivors(output)
            <3>1. output \in Trees /\ output.synced = Parts /\ output.entries = TRUE
                BY <2>1 DEF RestoreInv, RestoreTypes, OutputSafe
            <3>2. \A u \in Survivors(output) : u = output
                BY <3>1, SyncedSurvives
            <3> QED BY <2>1, <3>2
        <2>2. CASE output = NoDir /\ output' = NoDir
            BY <2>2
        <2> QED BY <2>1, <2>2, Zenon DEF PowerLoss
    <1>3. RestoreTypes'
        BY <1>1, <1>2 DEF RestoreInv, RestoreTypes, Waiting, Working
    <1>4. OutputSafe'
        <2>1. CASE output' = output
            BY <1>1, <2>1, SameOutput
        <2>2. CASE output # NoDir /\ ~ output.named /\ output' = NoDir
            <3>1. promised = {}
                BY <2>2, Zenon DEF RestoreInv, OutputSafe
            <3> QED BY <1>1, <2>2, <3>1 DEF OutputSafe
        <2> QED BY <1>2, <2>1, <2>2
    <1>5. ASSUME NEW q \in Restorers PROVE Progress(q)'
        <2>1. resPc'[q] \in Waiting
            BY <1>1 DEF RestoreInv, RestoreTypes, Waiting, Working
        <2> QED BY <2>1 DEF Progress, Waiting, Working, Staging
    <1> QED BY <1>3, <1>4, <1>5 DEF RestoreInv

-----------------------------------------------------------------------------
(* The theorem *)

LEMMA NextKeeps == ASSUME RestoreInv, RestoreNext PROVE RestoreInv'
    <1>1. CASE \E r \in Restorers : RestoreStep(r)
        BY <1>1, HashKeeps, CompleteKeeps, ResyncKeeps, ReadKeeps, DirectoriesKeep, CopyKeeps,
           WriteKeeps, ExportKeeps, ManifestKeeps, SyncKeeps, CommitKeeps, ParentKeeps DEF RestoreStep
    <1> QED BY <1>1, FailKeeps, SourceKeeps, PowerKeeps DEF RestoreNext

\* A restore happens as a whole or not at all, and a success that was reported
\* is never undone: for any number of restores aimed at one output, however
\* often the database file is replaced and whatever number of calls fail,
\* processes are killed and power losses there are (snapshot.Restore and
\* durablefs.CommitDir).
THEOREM RestoresAreAtomic == RestoreSpec => []RestoreIsAtomic
    <1>1. RestoreInit => RestoreInv
        BY EditionAssumption DEF RestoreInit, RestoreInv, RestoreTypes, OutputSafe, Progress,
           Waiting, Working, Staging, Editions, Unhashed
    <1>2. RestoreInv /\ [RestoreNext]_restoreVars => RestoreInv'
        <2>1. CASE UNCHANGED restoreVars
            BY <2>1 DEF restoreVars, RestoreInv, RestoreTypes, OutputSafe, Progress, IsWhole
        <2> QED BY <2>1, NextKeeps
    <1>3. RestoreInv => RestoreIsAtomic
        BY DEF RestoreInv, OutputSafe, RestoreIsAtomic, OutputWhole, SuccessSurvives
    <1> QED BY <1>1, <1>2, <1>3, PTL DEF RestoreSpec
=============================================================================
