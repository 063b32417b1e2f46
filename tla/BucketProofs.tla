---------------------------- MODULE BucketProofs ----------------------------
(***************************************************************************)
(* Proofs about what the CLI host keeps of a bucket: its files and catalog *)
(* at kive init, the backups on the workers and the source revisions.      *)
(***************************************************************************)
EXTENDS Backup, Initialize, Revisions, FiniteSetTheorems, WellFoundedInduction, TLAPS

-----------------------------------------------------------------------------
(* Natural numbers: what keeping the newest of something rests on *)

LEMMA LeastNatural ==
    ASSUME NEW S \in SUBSET Nat, S # {}
    PROVE  \E m \in S : \A x \in S : m <= x
    <1> DEFINE R == {ss \in Nat \X Nat : ss[1] < ss[2]}
    <1>1. IsWellFoundedOn(R, Nat)
        BY NatLessThanWellFounded DEF OpToRel
    <1>2. \E m \in S : \A x \in S : ~ (<<x, m>> \in R)
        <2> HIDE DEF R
        <2> S \subseteq Nat
            OBVIOUS
        <2>1. \A T : T \subseteq Nat /\ T # {} => \E m \in T : \A x \in T : ~ (<<x, m>> \in R)
            BY <1>1, WFMin
        <2> QED BY <2>1
    <1>3. PICK m \in S : \A x \in S : ~ (<<x, m>> \in R)
        BY <1>2
    <1>4. ASSUME NEW x \in S PROVE m <= x
        <2>1. x \in Nat /\ m \in Nat /\ ~ (<<x, m>> \in R)
            BY <1>3
        <2>2. ~ (x < m)
            BY <2>1
        <2> QED BY <2>1, <2>2
    <1> QED BY <1>4

LEMMA GreatestBelow ==
    ASSUME NEW n \in Nat, NEW S \in SUBSET (0 .. n), S # {}
    PROVE  \E m \in S : \A x \in S : x <= m
    <1> DEFINE T == {n - x : x \in S}
    <1>0. \A x \in S : x \in 0 .. n
        OBVIOUS
    <1>1. T \in SUBSET Nat /\ T # {}
        <2>1. \A x \in S : n - x \in Nat
            BY <1>0
        <2> QED BY <2>1
    <1>2. PICK d \in T : \A y \in T : d <= y
        <2> HIDE DEF T
        <2> QED BY <1>1, LeastNatural
    <1>3. PICK m \in S : d = n - m
        BY <1>2
    <1>4. \A x \in S : n - m <= n - x
        BY <1>2, <1>3
    <1>5. \A x \in S : x <= m
        BY <1>0, <1>4
    <1> QED BY <1>5

-----------------------------------------------------------------------------
(* Backups: backupFilesToDelete *)

LEMMA GenerationsAreNaturals ==
    ASSUME MaxGeneration \in Nat
    PROVE  /\ Generations \in SUBSET Nat /\ Generations \in SUBSET (0 .. MaxGeneration)
           /\ IsFiniteSet(Generations)
    <1>1. \A x \in Generations : x \in Nat /\ x \in 0 .. MaxGeneration
        BY DEF Generations
    <1>2. IsFiniteSet(Generations)
        BY FS_Interval DEF Generations
    <1> QED BY <1>1, <1>2

LEMMA HigherIsFinite ==
    ASSUME MaxGeneration \in Nat, NEW F \in SUBSET Generations, NEW g
    PROVE  LET H == {h \in F : h > g} IN IsFiniteSet(H) /\ Cardinality(H) \in Nat
    <1> DEFINE H == {h \in F : h > g}
    <1>1. IsFiniteSet(Generations)
        BY FS_Interval DEF Generations
    <1>2. H \in SUBSET Generations
        OBVIOUS
    <1> HIDE DEF H
    <1>3. IsFiniteSet(H) /\ Cardinality(H) \in Nat
        BY <1>1, <1>2, FS_Subset, FS_CardinalityType
    <1> QED BY <1>3 DEF H

\* No more than keep files are left.
LEMMA KeepsAtMost ==
    ASSUME MaxGeneration \in Nat, NEW F \in SUBSET Generations, NEW keep \in Nat \ {0}
    PROVE  Cardinality(F \ BackupFilesToDelete(F, keep)) <= keep
    <1> DEFINE K == F \ BackupFilesToDelete(F, keep)
    <1>1. K \in SUBSET Generations /\ K \in SUBSET Nat
        BY GenerationsAreNaturals
    <1>2. IsFiniteSet(K) /\ Cardinality(K) \in Nat
        <2>1. IsFiniteSet(Generations)
            BY FS_Interval DEF Generations
        <2> HIDE DEF K
        <2> QED BY <1>1, <2>1, FS_Subset, FS_CardinalityType
    <1>3. CASE K = {}
        <2> HIDE DEF K
        <2>1. Cardinality(K) = 0
            BY <1>3, FS_EmptySet
        <2>2. Cardinality(K) <= keep
            BY <2>1
        <2> QED BY <2>2 DEF K
    <1>4. CASE K # {}
        <2>1. PICK m \in K : \A x \in K : m <= x
            <3> HIDE DEF K
            <3> QED BY <1>1, <1>4, LeastNatural
        <2> DEFINE H == {h \in F : h > m}
        <2>2. IsFiniteSet(H) /\ Cardinality(H) \in Nat
            BY HigherIsFinite
        <2>3. ~ (Cardinality(H) >= keep)
            BY <2>1 DEF BackupFilesToDelete
        <2>4. K \ {m} \in SUBSET H
            <3>1. ASSUME NEW x \in K, x # m PROVE x > m
                <4>1. x \in Nat /\ m \in Nat /\ m <= x
                    BY <1>1, <2>1
                <4> QED BY <3>1, <4>1
            <3> QED BY <3>1
        <2> HIDE DEF K, H
        <2>5. Cardinality(K \ {m}) = Cardinality(K) - 1
            BY <1>2, <2>1, FS_RemoveElement
        <2>6. Cardinality(K \ {m}) <= Cardinality(H)
            BY <2>2, <2>4, FS_Subset
        <2>7. Cardinality(K) <= keep
            BY <1>2, <2>2, <2>3, <2>5, <2>6
        <2> QED BY <2>7 DEF K
    <1> QED BY <1>3, <1>4

\* A file that is higher than all that are left is left itself.
LEMMA KeepsHighest ==
    ASSUME MaxGeneration \in Nat, NEW F \in SUBSET Generations, NEW keep \in Nat,
           NEW g \in F, \A h \in F \ BackupFilesToDelete(F, keep) : h <= g
    PROVE  g \notin BackupFilesToDelete(F, keep)
    <1> SUFFICES ASSUME g \in BackupFilesToDelete(F, keep) PROVE FALSE
        OBVIOUS
    <1>1. F \in SUBSET (0 .. MaxGeneration) /\ F # {}
        BY GenerationsAreNaturals
    <1>2. PICK m \in F : \A x \in F : x <= m
        BY <1>1, GreatestBelow
    <1>3. m \in Nat /\ g \in Nat /\ \A x \in F : x \in Nat
        BY <1>1
    <1>4. {h \in F : h > m} = {}
        <2>1. \A h \in F : ~ (h > m)
            BY <1>2, <1>3
        <2> QED BY <2>1
    <1>5. keep > 0 /\ Cardinality({h \in F : h > g}) >= keep
        BY DEF BackupFilesToDelete
    <1>6. m \notin BackupFilesToDelete(F, keep)
        <2>1. Cardinality({h \in F : h > m}) = 0
            BY <1>4, FS_EmptySet
        <2> QED BY <1>5, <2>1 DEF BackupFilesToDelete
    <1>7. g = m
        BY <1>2, <1>3, <1>6
    <1> QED BY <1>6, <1>7

-----------------------------------------------------------------------------
(* Backups: the inductive invariant *)

FileStates == {NoFile, TornFile} \cup [at : Nat, gen : Generations, torn : {FALSE}]

BkTypes ==
    /\ MaxGeneration \in Nat /\ RetentionCount \in Nat
    /\ generation \in Generations /\ commits \in Nat
    /\ backups \in [Targets -> [Generations -> FileStates]]
    /\ legacy \in [Targets -> BOOLEAN]
    /\ step \in [Targets -> Steps]

\* A worker that was pushed to holds the current catalog, also when the prune
\* has not come yet; one that is done is backed up.
Holds(w) ==
    /\ step[w] = "pushed" => backups[w][generation] = Current
    /\ step[w] = "done" =>
          /\ RetentionCount > 0 => Cardinality(Files(w)) <= RetentionCount /\ ~ legacy[w]
          /\ (\A g \in Files(w) : g <= generation) => backups[w][generation] = Current

BkInv == BkTypes /\ \A w \in Targets : Holds(w)

\* Nothing changes for a worker.
LEMMA WorkerSame ==
    ASSUME NEW w \in Targets, Holds(w), backups'[w] = backups[w], legacy'[w] = legacy[w],
           step'[w] = step[w], generation' = generation, commits' = commits
    PROVE  Holds(w)'
    <1>1. Files(w)' = Files(w) /\ Current' = Current
        BY DEF Files, Current, Copy
    <1> QED BY <1>1, Zenon DEF Holds

LEMMA WorkerOut ==
    ASSUME NEW w \in Targets, step'[w] \notin {"pushed", "done"} PROVE Holds(w)'
    BY DEF Holds

\* Snapshots and restores start with no worker served; the rest leaves the
\* catalog as it is.
LEMMA NoneServed ==
    ASSUME BkTypes', \A w \in Targets : step'[w] \notin {"pushed", "done"} PROVE BkInv'
    BY WorkerOut DEF BkInv

LEMMA OneServed ==
    ASSUME BkInv, BkTypes', NEW w \in Targets, Holds(w)',
           generation' = generation, commits' = commits,
           \A v \in Targets \ {w} : /\ backups'[v] = backups[v] /\ legacy'[v] = legacy[v]
                                    /\ step'[v] = step[v]
    PROVE  BkInv'
    BY WorkerSame DEF BkInv

-----------------------------------------------------------------------------
(* Backups: the steps *)

LEMMA SnapshotKeeps == ASSUME BkInv, SnapshotDatabase \/ BucketRestored PROVE BkInv'
    <1>1. /\ commits' \in Nat /\ backups' = backups /\ legacy' = legacy
          /\ step' \in {[w \in Targets |-> "todo"], [w \in Targets |-> "none"]}
        BY DEF SnapshotDatabase, BucketRestored, BkInv, BkTypes
    <1>2. generation' \in Generations
        <2>1. CASE SnapshotDatabase
            BY <2>1 DEF SnapshotDatabase
        <2>2. CASE BucketRestored
            <3>1. PICK w \in Targets, g \in Generations :
                    /\ IsComplete(backups[w][g]) /\ generation' = backups[w][g].gen
                BY <2>2 DEF BucketRestored, Files
            <3>2. backups[w][g] \in FileStates
                BY DEF BkInv, BkTypes
            <3>3. backups[w][g] \in [at : Nat, gen : Generations, torn : {FALSE}]
                <4>1. backups[w][g] # NoFile /\ backups[w][g].torn # TRUE
                    BY <3>1, Zenon DEF IsComplete
                <4>2. TornFile.torn = TRUE
                    BY DEF TornFile
                <4> QED BY <3>2, <4>1, <4>2 DEF FileStates
            <3> QED BY <3>1, <3>3
        <2> QED BY <2>1, <2>2
    <1>3. BkTypes'
        BY <1>1, <1>2 DEF BkInv, BkTypes, Steps
    <1>4. \A w \in Targets : step'[w] \notin {"pushed", "done"}
        BY <1>1
    <1> QED BY <1>3, <1>4, NoneServed

LEMMA MakeKeeps == ASSUME BkInv, NEW w \in Targets, MakeDirectory(w) PROVE BkInv'
    <1>1. BkTypes' /\ step'[w] = "made"
        BY DEF MakeDirectory, BkInv, BkTypes, Steps
    <1>2. Holds(w)'
        BY <1>1, WorkerOut
    <1> QED BY <1>1, <1>2, OneServed DEF MakeDirectory, BkInv, BkTypes

LEMMA FailsKeeps == ASSUME BkInv, NEW w \in Targets, PushAndPruneFails(w) PROVE BkInv'
    <1>1. BkTypes' /\ step'[w] = "failed"
        BY DEF PushAndPruneFails, BkInv, BkTypes, Steps
    <1>2. Holds(w)'
        BY <1>1, WorkerOut
    <1> QED BY <1>1, <1>2, OneServed DEF PushAndPruneFails, BkInv, BkTypes

LEMMA CurrentIsFile == ASSUME BkTypes PROVE Current \in FileStates /\ Current # NoFile
    BY DEF BkTypes, Current, Copy, FileStates, NoFile

LEMMA RsyncKeeps == ASSUME BkInv, NEW w \in Targets, RsyncBackupFile(w) PROVE BkInv'
    <1>1. /\ generation' = generation /\ commits' = commits /\ legacy' = legacy
          /\ step' = [step EXCEPT ![w] = "pushed"]
          /\ backups' = [backups EXCEPT ![w] = [backups[w] EXCEPT ![generation] = Current]]
        BY DEF RsyncBackupFile, BkInv, BkTypes
    <1>2. [backups[w] EXCEPT ![generation] = Current] \in [Generations -> FileStates]
        BY CurrentIsFile DEF BkInv, BkTypes
    <1>3. BkTypes'
        BY <1>1, <1>2 DEF BkInv, BkTypes, Steps
    <1>4. Current' = Current /\ step'[w] = "pushed" /\ backups'[w][generation] = Current
        BY <1>1 DEF Current, Copy, BkInv, BkTypes
    <1>5. Holds(w)'
        BY <1>1, <1>4 DEF Holds
    <1> QED BY <1>1, <1>3, <1>5, OneServed DEF BkInv, BkTypes

LEMMA BreaksKeeps == ASSUME BkInv, NEW w \in Targets, RsyncBreaks(w) PROVE BkInv'
    <1>1. /\ generation' = generation /\ commits' = commits /\ legacy' = legacy
          /\ step' = [step EXCEPT ![w] = "failed"]
          /\ \/ backups' = backups
             \/ backups' = [backups EXCEPT ![w] = [backups[w] EXCEPT ![generation] = TornFile]]
        BY DEF RsyncBreaks, BkInv, BkTypes
    <1>2. [backups[w] EXCEPT ![generation] = TornFile] \in [Generations -> FileStates]
        BY DEF BkInv, BkTypes, FileStates
    <1>3. BkTypes'
        BY <1>1, <1>2 DEF BkInv, BkTypes, Steps
    <1>4. Holds(w)'
        BY <1>1, WorkerOut DEF BkInv, BkTypes
    <1> QED BY <1>1, <1>3, <1>4, OneServed DEF BkInv, BkTypes

LEMMA PruneKeeps == ASSUME BkInv, NEW w \in Targets, PruneRemoteBackups(w) PROVE BkInv'
    <1> DEFINE D == BackupFilesToDelete(Files(w), RetentionCount)
               f == [g \in Generations |-> IF g \in D THEN NoFile ELSE backups[w][g]]
    <1>1. /\ generation' = generation /\ commits' = commits /\ step[w] = "pushed"
          /\ step' = [step EXCEPT ![w] = "done"]
          /\ backups' = [backups EXCEPT ![w] = f]
          /\ legacy' = [legacy EXCEPT ![w] = legacy[w] /\ RetentionCount = 0]
        BY DEF PruneRemoteBackups, BkInv, BkTypes
    <1>2. MaxGeneration \in Nat /\ RetentionCount \in Nat /\ generation \in Generations
        BY DEF BkInv, BkTypes
    <1>3. Files(w) \in SUBSET Generations
        BY DEF Files
    <1>4. f \in [Generations -> FileStates] /\ backups'[w] = f
        BY <1>1 DEF BkInv, BkTypes, FileStates
    <1>5. Files(w)' = Files(w) \ D
        BY <1>4 DEF Files
    <1>6. BkTypes'
        BY <1>1, <1>4 DEF BkInv, BkTypes, Steps
    <1>7. backups[w][generation] = Current /\ generation \in Files(w) /\ Current' = Current
        BY <1>1, <1>2, CurrentIsFile DEF BkInv, Holds, Files, Current, Copy
    <1>8. RetentionCount > 0 => Cardinality(Files(w)') <= RetentionCount
        BY <1>2, <1>3, <1>5, KeepsAtMost
    <1>9. RetentionCount > 0 => ~ legacy'[w]
        <2>1. legacy'[w] = (legacy[w] /\ RetentionCount = 0)
            BY <1>1 DEF BkInv, BkTypes
        <2>2. RetentionCount > 0 => RetentionCount # 0
            BY <1>2
        <2> QED BY <2>1, <2>2, Zenon
    <1>10. (\A g \in Files(w)' : g <= generation) => backups'[w][generation] = Current
        <2> SUFFICES ASSUME \A g \in Files(w) \ D : g <= generation
                     PROVE  backups'[w][generation] = Current
            BY <1>5
        <2>1. generation \notin D
            BY <1>2, <1>3, <1>7, KeepsHighest
        <2> QED BY <1>2, <1>4, <1>7, <2>1
    <1>11. Holds(w)'
        BY <1>1, <1>7, <1>8, <1>9, <1>10 DEF Holds, BkInv, BkTypes
    <1> QED BY <1>1, <1>6, <1>11, OneServed DEF BkInv, BkTypes

LEMMA InterruptedKeeps == ASSUME BkInv, Interrupted PROVE BkInv'
    <1>1. /\ generation' = generation /\ commits' = commits /\ backups' = backups
          /\ legacy' = legacy
          /\ step' = [w \in Targets |-> IF step[w] \in {"done", "failed"} THEN step[w] ELSE "failed"]
        BY DEF Interrupted
    <1>2. BkTypes'
        BY <1>1 DEF BkInv, BkTypes, Steps
    <1>3. ASSUME NEW w \in Targets PROVE Holds(w)'
        <2>1. CASE step[w] = "done"
            BY <1>1, <2>1, WorkerSame DEF BkInv
        <2>2. CASE step[w] # "done"
            BY <1>1, <2>2, WorkerOut
        <2> QED BY <2>1, <2>2
    <1> QED BY <1>2, <1>3 DEF BkInv

-----------------------------------------------------------------------------
(* Backups: the theorem *)

LEMMA BkInvHolds == BkSpec => []BkInv
    <1>1. BkInit => BkInv
        <2> SUFFICES ASSUME BkInit PROVE BkInv
            OBVIOUS
        <2>1. BkTypes
            BY BackupAssumption DEF BkInit, BkTypes, FileStates, Steps, Generations
        <2>2. \A w \in Targets : step[w] = "none"
            BY DEF BkInit
        <2> QED BY <2>1, <2>2 DEF BkInv, Holds
    <1>2. BkInv /\ [BkNext]_bkVars => BkInv'
        <2> SUFFICES ASSUME BkInv, [BkNext]_bkVars PROVE BkInv'
            OBVIOUS
        <2>1. CASE UNCHANGED bkVars
            <3>1. BkTypes'
                BY <2>1 DEF bkVars, BkInv, BkTypes
            <3>2. \A w \in Targets : Holds(w)'
                BY <2>1, WorkerSame DEF bkVars, BkInv
            <3> QED BY <3>1, <3>2 DEF BkInv
        <2> QED BY <2>1, SnapshotKeeps, MakeKeeps, RsyncKeeps, BreaksKeeps, PruneKeeps,
                   FailsKeeps, InterruptedKeeps DEF BkNext
    <1> QED BY <1>1, <1>2, PTL DEF BkSpec

\* No copy is lost but to a push of its own generation or to the prune that
\* follows the push of the current catalog.
LEMMA LossIsReplaced ==
    ASSUME BkInv, [BkNext]_bkVars PROVE LossNeedsReplacement
    <1> SUFFICES ASSUME NEW w \in Targets, NEW g \in Generations \ {generation},
                        backups'[w][g] # backups[w][g]
                 PROVE  backups[w][generation] = Current
        BY DEF LossNeedsReplacement
    <1>1. PICK v \in Targets : RsyncBackupFile(v) \/ RsyncBreaks(v) \/ PruneRemoteBackups(v)
        BY DEF BkNext, bkVars, SnapshotDatabase, BucketRestored, MakeDirectory,
               PushAndPruneFails, Interrupted
    <1>2. backups'[w][g] = backups[w][g] \/ PruneRemoteBackups(v)
        BY <1>1 DEF RsyncBackupFile, RsyncBreaks, BkInv, BkTypes
    <1>3. v = w
        BY <1>2 DEF PruneRemoteBackups, BkInv, BkTypes
    <1>4. step[w] = "pushed"
        BY <1>2, <1>3 DEF PruneRemoteBackups
    <1> QED BY <1>4 DEF BkInv, Holds

\* Backups survive, for any workers, generations and retention: a worker
\* reported as backed up holds the committed catalog and no more files than
\* are to be kept, and a complete copy goes only once the current catalog has
\* reached its worker (snapshot.Backup, backupFilesToDelete).
THEOREM BackupsAreKept == BkSpec => BackupsSurvive
    <1>1. BkInv => DoneIsBackedUp
        BY Zenon DEF BkInv, Holds, DoneIsBackedUp
    <1>2. BkInv /\ BkInv' /\ [BkNext]_bkVars => [DoneIsBackedUp' /\ LossNeedsReplacement]_bkVars
        <2>1. BkInv' => DoneIsBackedUp'
            BY <1>1, PTL
        <2> QED BY <2>1, LossIsReplaced
    <1> QED BY <1>2, BkInvHolds, PTL DEF BkSpec, BackupsSurvive

-----------------------------------------------------------------------------
(* kive init: the inductive invariant *)

InitSteps == {"idle", "open", "row", "workspace", "ca", "caKey", "caNew", "caCrt", "trust",
              "kvKey", "commit"}

Contents == [schema : Stamps, has : SUBSET Int, ids : SUBSET (Nat \ {0})]

InitTypes ==
    /\ LatestSchemaVersion \in Nat /\ OldestMigratable \in 1 .. LatestSchemaVersion
    /\ catalog \in Contents
    /\ initPc \in [Processes -> InitSteps]
    /\ tx \in [Processes -> Contents]
    /\ id \in [Processes -> Nat]
    /\ ids \in Nat \ {0}
    /\ caKey \in Int /\ caCrt \in Int

\* A database has what its stamp and all before it stand for.
StampIsTrue(c) == c.schema # 0 => \A f \in Features : f <= c.schema => f \in c.has

Active(p) == initPc[p] \notin {"idle", "open"}

\* SQLite's write lock: one init is past the migration.
OneActive == \A p, q \in Processes : Active(p) /\ Active(q) => p = q

\* What an init that is past the migration has seen and made, by its step.
Made(p) ==
    /\ tx[p].schema = LatestSchemaVersion /\ StampIsTrue(tx[p])
    /\ initPc[p] = "row" => tx[p].ids \subseteq catalog.ids
    /\ initPc[p] # "row" => id[p] # 0 /\ (tx[p].ids \subseteq {Legacy} \/ conf # Absent)
    /\ initPc[p] \notin {"row", "workspace"} => workspace # Absent
    /\ initPc[p] = "caKey" => caKey = Partial /\ caCrt = Absent
    /\ initPc[p] = "caNew" => caKey = id[p] /\ caCrt = Absent
    /\ initPc[p] = "caCrt" => caKey = id[p] /\ caCrt = Partial
    /\ initPc[p] \in {"caKey", "caNew", "caCrt"} => catalog.ids \subseteq {Legacy}
    /\ initPc[p] \in {"trust", "kvKey", "commit"} => caKey # Absent /\ caCrt # Absent
    /\ initPc[p] \in {"kvKey", "commit"} => trust # Absent
    /\ initPc[p] = "commit" => kvKey # Absent

InitInv ==
    /\ InitTypes /\ StampIsTrue(catalog) /\ OneActive
    /\ CAPairMatches /\ InitializedIsComplete
    /\ \A p \in Processes : Active(p) => Made(p)

-----------------------------------------------------------------------------
(* kive init: the steps *)

\* When one init moves and no other is past the migration, the rest of the
\* invariant is about the one that moved.
LEMMA OneMoves ==
    ASSUME InitInv, NEW p \in Processes, NEW s \in InitSteps,
           initPc' = [initPc EXCEPT ![p] = s],
           \A q \in Processes \ {p} : ~ Active(q),
           s \notin {"idle", "open"} => Made(p)'
    PROVE  /\ initPc' \in [Processes -> InitSteps] /\ OneActive'
           /\ \A q \in Processes : Active(q)' => Made(q)'
    <1>1. initPc' \in [Processes -> InitSteps]
        BY DEF InitInv, InitTypes
    <1>2. ASSUME NEW q \in Processes, q # p PROVE ~ Active(q)'
        BY <1>2 DEF Active, InitInv, InitTypes
    <1>3. initPc'[p] = s
        BY DEF InitInv, InitTypes
    <1>4. OneActive'
        BY <1>2 DEF OneActive
    <1>5. \A q \in Processes : Active(q)' => Made(q)'
        BY <1>2, <1>3 DEF Active
    <1> QED BY <1>1, <1>4, <1>5

\* An init that is past the migration is the only one.
LEMMA OthersWait ==
    ASSUME InitInv, NEW p \in Processes, Active(p)
    PROVE  Made(p) /\ \A q \in Processes \ {p} : ~ Active(q)
    BY DEF InitInv, OneActive

\* A step that leaves catalog, transaction and id alone.
LEMMA FileStep ==
    ASSUME InitInv, NEW p \in Processes, Active(p), NEW s \in InitSteps, Goto(p, s), KeepTx,
           caKey' \in Int, caCrt' \in Int,
           CAPairMatches', InitializedIsComplete',
           s \notin {"idle", "open"} => Made(p)'
    PROVE  InitInv'
    <1>1. initPc' = [initPc EXCEPT ![p] = s]
        BY DEF Goto
    <1>2. /\ initPc' \in [Processes -> InitSteps] /\ OneActive'
          /\ \A q \in Processes : Active(q)' => Made(q)'
        BY <1>1, OthersWait, OneMoves
    <1>3. InitTypes'
        BY <1>2 DEF InitInv, InitTypes, KeepTx, Contents, Stamps
    <1>4. StampIsTrue(catalog)'
        BY DEF InitInv, KeepTx, StampIsTrue, Features
    <1> QED BY <1>2, <1>3, <1>4 DEF InitInv

LEMMA WorkspaceKeeps ==
    ASSUME InitInv, NEW p \in Processes, EnsureWorkspaceFiles(p) PROVE InitInv'
    <1>1. Active(p) /\ initPc[p] = "workspace" /\ "ca" \in InitSteps /\ Goto(p, "ca")
        BY DEF EnsureWorkspaceFiles, Active, InitSteps
    <1>2. KeepTx /\ UNCHANGED <<conf, caKey, caCrt, trust, kvKey>>
          /\ workspace' = IF workspace = Absent THEN id[p] ELSE workspace
        BY DEF EnsureWorkspaceFiles
    <1>3. Made(p)
        BY <1>1, OthersWait
    <1>4. workspace' # Absent
        BY <1>1, <1>2, <1>3 DEF Made, Absent
    <1>5. caKey' \in Int /\ caCrt' \in Int /\ CAPairMatches' /\ InitializedIsComplete'
        BY <1>2, <1>4 DEF InitInv, InitTypes, CAPairMatches, InitializedIsComplete, KeepTx
    <1>6. initPc'[p] = "ca"
        BY <1>1 DEF Goto, InitInv, InitTypes
    <1>7. Made(p)'
        BY <1>1, <1>2, <1>3, <1>4, <1>6 DEF Made, KeepTx, StampIsTrue, Features
    <1> QED BY <1>1, <1>2, <1>5, <1>7, FileStep

LEMMA EnsureCAKeeps ==
    ASSUME InitInv, NEW p \in Processes, EnsureCA(p) PROVE InitInv'
    <1>1. Active(p) /\ initPc[p] = "ca" /\ {"caKey", "idle", "trust"} \subseteq InitSteps
        BY DEF EnsureCA, Active, InitSteps
    <1>2. KeepTx /\ UNCHANGED <<conf, workspace, caCrt, trust, kvKey>>
        BY DEF EnsureCA
    <1>3. Made(p)
        BY <1>1, OthersWait
    <1>4. CASE caKey = Absent /\ caCrt = Absent /\ caKey' = Partial /\ Goto(p, "caKey")
        <2>1. caKey' \in Int /\ caCrt' \in Int /\ CAPairMatches'
            BY <1>2, <1>4 DEF InitInv, InitTypes, CAPairMatches, Absent, Partial
        <2>2. catalog.ids \subseteq {Legacy}
            BY <1>4 DEF InitInv, InitializedIsComplete
        <2>3. InitializedIsComplete'
            BY <1>2, <2>2 DEF InitializedIsComplete, KeepTx
        <2>4. initPc'[p] = "caKey"
            BY <1>4 DEF Goto, InitInv, InitTypes
        <2>5. Made(p)'
            BY <1>1, <1>2, <1>3, <1>4, <2>2, <2>4 DEF Made, KeepTx, StampIsTrue, Features
        <2> QED BY <1>1, <1>2, <1>4, <2>1, <2>3, <2>5, FileStep
    <1>5. CASE caKey' = caKey /\ Goto(p, "idle")
        <2>1. caKey' \in Int /\ caCrt' \in Int /\ CAPairMatches' /\ InitializedIsComplete'
            BY <1>2, <1>5 DEF InitInv, InitTypes, CAPairMatches, InitializedIsComplete, KeepTx
        <2> QED BY <1>1, <1>2, <1>5, <2>1, FileStep
    <1>6. CASE caKey # Absent /\ caCrt # Absent /\ caKey' = caKey /\ Goto(p, "trust")
        <2>1. caKey' \in Int /\ caCrt' \in Int /\ CAPairMatches' /\ InitializedIsComplete'
            BY <1>2, <1>6 DEF InitInv, InitTypes, CAPairMatches, InitializedIsComplete, KeepTx
        <2>2. initPc'[p] = "trust"
            BY <1>6 DEF Goto, InitInv, InitTypes
        <2>3. Made(p)'
            BY <1>1, <1>2, <1>3, <1>6, <2>2 DEF Made, KeepTx, StampIsTrue, Features
        <2> QED BY <1>1, <1>2, <1>6, <2>1, <2>3, FileStep
    <1> QED BY <1>4, <1>5, <1>6 DEF EnsureCA

LEMMA CAKeyKeeps ==
    ASSUME InitInv, NEW p \in Processes, WriteCAKey(p) PROVE InitInv'
    <1>1. Active(p) /\ initPc[p] = "caKey" /\ "caNew" \in InitSteps /\ Goto(p, "caNew")
        BY DEF WriteCAKey, Active, InitSteps
    <1>2. KeepTx /\ UNCHANGED <<conf, workspace, caCrt, trust, kvKey>> /\ caKey' = id[p]
        BY DEF WriteCAKey
    <1>3. Made(p)
        BY <1>1, OthersWait
    <1>4. caKey' \in Int /\ caCrt' \in Int /\ CAPairMatches' /\ InitializedIsComplete'
        <2>1. caCrt = Absent /\ catalog.ids \subseteq {Legacy}
            BY <1>1, <1>3 DEF Made
        <2>2. caKey' \in Int /\ caCrt' \in Int
            BY <1>2 DEF InitInv, InitTypes
        <2>3. CAPairMatches'
            BY <1>2, <2>1 DEF CAPairMatches, Absent
        <2>4. InitializedIsComplete'
            BY <1>2, <2>1 DEF InitializedIsComplete, KeepTx
        <2> QED BY <2>2, <2>3, <2>4
    <1>5. initPc'[p] = "caNew"
        BY <1>1 DEF Goto, InitInv, InitTypes
    <1>6. Made(p)'
        BY <1>1, <1>2, <1>3, <1>5 DEF Made, KeepTx, StampIsTrue, Features
    <1> QED BY <1>1, <1>2, <1>4, <1>6, FileStep

LEMMA CreateCrtKeeps ==
    ASSUME InitInv, NEW p \in Processes, CreateCACrt(p) PROVE InitInv'
    <1>1. Active(p) /\ initPc[p] = "caNew" /\ "caCrt" \in InitSteps /\ Goto(p, "caCrt")
        BY DEF CreateCACrt, Active, InitSteps
    <1>2. KeepTx /\ UNCHANGED <<conf, workspace, caKey, trust, kvKey>> /\ caCrt' = Partial
        BY DEF CreateCACrt
    <1>3. Made(p)
        BY <1>1, OthersWait
    <1>4. caKey' \in Int /\ caCrt' \in Int /\ CAPairMatches' /\ InitializedIsComplete'
        <2>1. catalog.ids \subseteq {Legacy}
            BY <1>1, <1>3 DEF Made
        <2>2. caKey' \in Int /\ caCrt' \in Int
            BY <1>2 DEF InitInv, InitTypes, Partial
        <2>3. CAPairMatches'
            BY <1>2 DEF CAPairMatches, Partial
        <2>4. InitializedIsComplete'
            BY <1>2, <2>1 DEF InitializedIsComplete, KeepTx
        <2> QED BY <2>2, <2>3, <2>4
    <1>5. initPc'[p] = "caCrt"
        BY <1>1 DEF Goto, InitInv, InitTypes
    <1>6. Made(p)'
        BY <1>1, <1>2, <1>3, <1>5 DEF Made, KeepTx, StampIsTrue, Features
    <1> QED BY <1>1, <1>2, <1>4, <1>6, FileStep

LEMMA WriteCrtKeeps ==
    ASSUME InitInv, NEW p \in Processes, WriteCACrt(p) PROVE InitInv'
    <1>1. Active(p) /\ initPc[p] = "caCrt" /\ "trust" \in InitSteps /\ Goto(p, "trust")
        BY DEF WriteCACrt, Active, InitSteps
    <1>2. KeepTx /\ UNCHANGED <<conf, workspace, caKey, trust, kvKey>> /\ caCrt' = id[p]
        BY DEF WriteCACrt
    <1>3. Made(p)
        BY <1>1, OthersWait
    <1>4. caKey' \in Int /\ caCrt' \in Int /\ CAPairMatches' /\ InitializedIsComplete'
        <2>1. caKey = id[p] /\ catalog.ids \subseteq {Legacy}
            BY <1>1, <1>3 DEF Made
        <2>2. caKey' \in Int /\ caCrt' \in Int
            BY <1>2 DEF InitInv, InitTypes
        <2>3. CAPairMatches'
            BY <1>2, <2>1 DEF CAPairMatches
        <2>4. InitializedIsComplete'
            BY <1>2, <2>1 DEF InitializedIsComplete, KeepTx
        <2> QED BY <2>2, <2>3, <2>4
    <1>5. initPc'[p] = "trust"
        BY <1>1 DEF Goto, InitInv, InitTypes
    <1>6. Made(p)'
        BY <1>1, <1>2, <1>3, <1>5 DEF Made, KeepTx, StampIsTrue, Features, Absent
    <1> QED BY <1>1, <1>2, <1>4, <1>6, FileStep

LEMMA CAFailsKeeps ==
    ASSUME InitInv, NEW p \in Processes, GenerateCAFails(p) PROVE InitInv'
    <1>1. Active(p) /\ "idle" \in InitSteps /\ Goto(p, "idle")
        BY DEF GenerateCAFails, Active, InitSteps
    <1>2. KeepTx /\ caKey' = Absent /\ caCrt' = Absent
        BY DEF GenerateCAFails
    <1>3. catalog.ids \subseteq {Legacy}
        BY <1>1, OthersWait DEF GenerateCAFails, Made
    <1>4. caKey' \in Int /\ caCrt' \in Int /\ CAPairMatches' /\ InitializedIsComplete'
        BY <1>2, <1>3 DEF CAPairMatches, InitializedIsComplete, KeepTx, Absent
    <1> QED BY <1>1, <1>2, <1>4, FileStep

LEMMA TrustKeeps ==
    ASSUME InitInv, NEW p \in Processes, EnsureCATrustFile(p) PROVE InitInv'
    <1>1. Active(p) /\ initPc[p] = "trust" /\ "kvKey" \in InitSteps /\ Goto(p, "kvKey")
        BY DEF EnsureCATrustFile, Active, InitSteps
    <1>2. KeepTx /\ UNCHANGED <<conf, workspace, caKey, caCrt, kvKey>>
          /\ trust' = IF trust = Absent THEN caCrt ELSE trust
        BY DEF EnsureCATrustFile
    <1>3. Made(p)
        BY <1>1, OthersWait
    <1>4. trust' # Absent
        BY <1>1, <1>2, <1>3 DEF Made
    <1>5. caKey' \in Int /\ caCrt' \in Int /\ CAPairMatches' /\ InitializedIsComplete'
        BY <1>2, <1>4 DEF InitInv, InitTypes, CAPairMatches, InitializedIsComplete, KeepTx
    <1>6. initPc'[p] = "kvKey"
        BY <1>1 DEF Goto, InitInv, InitTypes
    <1>7. Made(p)'
        BY <1>1, <1>2, <1>3, <1>4, <1>6 DEF Made, KeepTx, StampIsTrue, Features
    <1> QED BY <1>1, <1>2, <1>5, <1>7, FileStep

LEMMA KvKeyKeeps ==
    ASSUME InitInv, NEW p \in Processes, EnsureEncryptionKey(p) PROVE InitInv'
    <1>1. Active(p) /\ initPc[p] = "kvKey" /\ "commit" \in InitSteps /\ Goto(p, "commit")
        BY DEF EnsureEncryptionKey, Active, InitSteps
    <1>2. KeepTx /\ UNCHANGED <<conf, workspace, caKey, caCrt, trust>>
          /\ kvKey' = IF kvKey = Absent THEN id[p] ELSE kvKey
        BY DEF EnsureEncryptionKey
    <1>3. Made(p)
        BY <1>1, OthersWait
    <1>4. kvKey' # Absent
        BY <1>1, <1>2, <1>3 DEF Made, Absent
    <1>5. caKey' \in Int /\ caCrt' \in Int /\ CAPairMatches' /\ InitializedIsComplete'
        BY <1>2, <1>4 DEF InitInv, InitTypes, CAPairMatches, InitializedIsComplete, KeepTx
    <1>6. initPc'[p] = "commit"
        BY <1>1 DEF Goto, InitInv, InitTypes
    <1>7. Made(p)'
        BY <1>1, <1>2, <1>3, <1>4, <1>6 DEF Made, KeepTx, StampIsTrue, Features
    <1> QED BY <1>1, <1>2, <1>5, <1>7, FileStep

\* A step of an init that has not opened the database, or its end, changes
\* nothing for the one that is past the migration.
LEMMA StaysOut ==
    ASSUME InitInv, NEW p \in Processes, NEW s \in {"idle", "open"}, Goto(p, s),
           UNCHANGED <<dbFile, catalog, tx, id, ids>>, UNCHANGED files
    PROVE  InitInv'
    <1>1. /\ initPc' = [initPc EXCEPT ![p] = s]
          /\ catalog' = catalog /\ tx' = tx /\ id' = id /\ ids' = ids
          /\ conf' = conf /\ workspace' = workspace /\ caKey' = caKey /\ caCrt' = caCrt
          /\ trust' = trust /\ kvKey' = kvKey
        BY DEF Goto, files
    <1>2. InitTypes' /\ ~ Active(p)'
        BY <1>1 DEF InitInv, InitTypes, InitSteps, Active, Contents, Stamps
    <1>3. \A q \in Processes \ {p} : initPc'[q] = initPc[q]
        BY <1>1 DEF InitInv, InitTypes
    <1>4. OneActive'
        BY <1>2, <1>3 DEF InitInv, OneActive, Active
    <1>5. StampIsTrue(catalog)' /\ CAPairMatches' /\ InitializedIsComplete'
        BY <1>1 DEF InitInv, StampIsTrue, Features, CAPairMatches, InitializedIsComplete
    <1>6. ASSUME NEW q \in Processes, Active(q)' PROVE Made(q)'
        <2>1. q # p /\ initPc'[q] = initPc[q]
            BY <1>2, <1>3, <1>6
        <2>2. Made(q)
            BY <1>6, <2>1 DEF Active, InitInv
        <2> QED BY <1>1, <2>1, <2>2 DEF Made, StampIsTrue, Features
    <1> QED BY <1>2, <1>4, <1>5, <1>6 DEF InitInv

LEMMA DirectoriesKeep ==
    ASSUME InitInv, NEW p \in Processes, EnsureBucketDirectories(p) PROVE InitInv'
    BY StaysOut DEF EnsureBucketDirectories

LEMMA KilledKeeps ==
    ASSUME InitInv, NEW p \in Processes, Killed(p) PROVE InitInv'
    BY StaysOut DEF Killed, KeepTx

\* From any version it accepts, the migration ends with all features.
LEMMA MigrationCompletes ==
    ASSUME LatestSchemaVersion \in Nat, OldestMigratable \in 1 .. LatestSchemaVersion,
           NEW c \in Contents, StampIsTrue(c), ~ IncompatibleSchema(c)
    PROVE  /\ MigrateSchema(c) \in Contents
           /\ MigrateSchema(c).schema = LatestSchemaVersion
           /\ MigrateSchema(c).ids = c.ids
           /\ Features \subseteq MigrateSchema(c).has
    <1>1. Features \subseteq Int /\ LatestSchemaVersion \in Stamps /\ c.schema \in Stamps
        BY DEF Features, Stamps, Contents
    <1>2. CASE c.schema = 0
        BY <1>1, <1>2 DEF MigrateSchema, Contents
    <1>3. CASE c.schema # 0
        <2> DEFINE added == c.schema + 1 .. LatestSchemaVersion
        <2>1. MigrateSchema(c) = [c EXCEPT !.schema = LatestSchemaVersion, !.has = @ \cup added]
            BY <1>3 DEF MigrateSchema
        <2>2. added \subseteq Int
            BY <1>1 DEF Stamps
        <2>3. ASSUME NEW f \in Features PROVE f \in c.has \cup added
            BY <1>1, <1>3 DEF Features, Stamps, StampIsTrue
        <2> HIDE DEF added
        <2> QED BY <1>1, <2>1, <2>2, <2>3 DEF Contents
    <1> QED BY <1>2, <1>3

LEMMA OpenKeeps ==
    ASSUME InitInv, NEW p \in Processes, OpenDatabase(p) PROVE InitInv'
    <1>1. /\ \A q \in Processes \ {p} : ~ Active(q)
          /\ catalog' = catalog /\ id' = id /\ ids' = ids /\ UNCHANGED files
        BY DEF OpenDatabase, Active
    <1>2. CASE IncompatibleSchema(catalog)
        <2>1. Goto(p, "idle") /\ tx' = tx
            BY <1>2 DEF OpenDatabase
        <2>2. initPc' = [initPc EXCEPT ![p] = "idle"] /\ "idle" \in InitSteps
            BY <2>1 DEF Goto, InitSteps
        <2>3. /\ initPc' \in [Processes -> InitSteps] /\ OneActive'
              /\ \A q \in Processes : Active(q)' => Made(q)'
            BY <1>1, <2>2, OneMoves
        <2>4. InitTypes'
            BY <1>1, <2>1, <2>3 DEF InitInv, InitTypes, files, Contents, Stamps
        <2>5. StampIsTrue(catalog)' /\ CAPairMatches' /\ InitializedIsComplete'
            BY <1>1 DEF InitInv, StampIsTrue, Features, CAPairMatches, InitializedIsComplete, files
        <2> QED BY <2>3, <2>4, <2>5 DEF InitInv
    <1>3. CASE ~ IncompatibleSchema(catalog)
        <2> DEFINE m == MigrateSchema(catalog)
        <2>1. Goto(p, "row") /\ tx' = [tx EXCEPT ![p] = m]
            BY <1>3 DEF OpenDatabase
        <2>2. initPc' = [initPc EXCEPT ![p] = "row"] /\ "row" \in InitSteps
            BY <2>1 DEF Goto, InitSteps
        <2>3. m \in Contents /\ m.schema = LatestSchemaVersion /\ m.ids = catalog.ids
              /\ Features \subseteq m.has
            BY <1>3, MigrationCompletes DEF InitInv, InitTypes
        <2> HIDE DEF m
        <2>4. tx' \in [Processes -> Contents] /\ tx'[p] = m /\ initPc'[p] = "row"
            BY <2>1, <2>2, <2>3 DEF InitInv, InitTypes
        <2>5. Made(p)'
            BY <1>1, <2>3, <2>4 DEF Made, StampIsTrue, Features
        <2>6. /\ initPc' \in [Processes -> InitSteps] /\ OneActive'
              /\ \A q \in Processes : Active(q)' => Made(q)'
            BY <1>1, <2>2, <2>5, OneMoves
        <2>7. InitTypes'
            BY <1>1, <2>4, <2>6 DEF InitInv, InitTypes, files, Contents, Stamps
        <2>8. StampIsTrue(catalog)' /\ CAPairMatches' /\ InitializedIsComplete'
            BY <1>1 DEF InitInv, StampIsTrue, Features, CAPairMatches, InitializedIsComplete, files
        <2> QED BY <2>6, <2>7, <2>8 DEF InitInv
    <1> QED BY <1>2, <1>3

LEMMA InsertKeeps ==
    ASSUME InitInv, NEW p \in Processes, InsertBucketRecord(p) PROVE InitInv'
    <1>1. Active(p) /\ initPc[p] = "row" /\ "workspace" \in InitSteps
          /\ initPc' = [initPc EXCEPT ![p] = "workspace"]
        BY DEF InsertBucketRecord, Active, InitSteps, Goto
    <1>2. /\ ids' = ids + 1 /\ id' = [id EXCEPT ![p] = ids + 1]
          /\ tx' = [tx EXCEPT ![p] = [tx[p] EXCEPT !.ids = tx[p].ids \cup {ids + 1}]]
          /\ catalog' = catalog /\ workspace' = workspace /\ caKey' = caKey
          /\ caCrt' = caCrt /\ trust' = trust /\ kvKey' = kvKey
          /\ conf' = IF conf = Absent THEN ids + 1 ELSE conf
        BY DEF InsertBucketRecord, InitInv, InitTypes
    <1>3. Made(p) /\ \A q \in Processes \ {p} : ~ Active(q)
        BY <1>1, OthersWait
    <1>4. ids + 1 \in Nat \ {0}
        BY DEF InitInv, InitTypes
    <1>5. conf' # Absent
        BY <1>2, <1>4 DEF Absent
    <1> DEFINE t == [tx[p] EXCEPT !.ids = tx[p].ids \cup {ids + 1}]
    <1>6. t \in Contents /\ t.schema = tx[p].schema /\ t.has = tx[p].has
        BY <1>4 DEF InitInv, InitTypes, Contents
    <1>7. initPc'[p] = "workspace" /\ id'[p] = ids + 1 /\ tx'[p] = t
          /\ tx' \in [Processes -> Contents] /\ id' \in [Processes -> Nat]
        BY <1>1, <1>2, <1>4, <1>6 DEF InitInv, InitTypes
    <1> HIDE DEF t
    <1>8. Made(p)'
        BY <1>3, <1>4, <1>5, <1>6, <1>7 DEF Made, StampIsTrue, Features
    <1>9. /\ initPc' \in [Processes -> InitSteps] /\ OneActive'
          /\ \A q \in Processes : Active(q)' => Made(q)'
        BY <1>1, <1>3, <1>8, OneMoves
    <1>10. InitTypes'
        BY <1>2, <1>4, <1>7, <1>9 DEF InitInv, InitTypes, Contents, Stamps
    <1>11. StampIsTrue(catalog)' /\ CAPairMatches' /\ InitializedIsComplete'
        BY <1>2, <1>5 DEF InitInv, StampIsTrue, Features, CAPairMatches, InitializedIsComplete
    <1> QED BY <1>9, <1>10, <1>11 DEF InitInv

LEMMA GetIdKeeps ==
    ASSUME InitInv, NEW p \in Processes, GetBucketID(p) PROVE InitInv'
    <1>1. Active(p) /\ initPc[p] = "row" /\ "workspace" \in InitSteps
          /\ initPc' = [initPc EXCEPT ![p] = "workspace"]
        BY DEF GetBucketID, Active, InitSteps, Goto
    <1> DEFINE i == CHOOSE i \in tx[p].ids : TRUE
    <1>2. /\ tx[p].ids # {} /\ id' = [id EXCEPT ![p] = i] /\ ids' = ids
          /\ catalog' = catalog /\ tx' = tx /\ UNCHANGED files
        BY DEF GetBucketID, BucketInitialized
    <1>3. Made(p) /\ \A q \in Processes \ {p} : ~ Active(q)
        BY <1>1, OthersWait
    <1>4. i \in Nat \ {0}
        <2>1. i \in tx[p].ids
            BY <1>2
        <2>2. tx[p].ids \subseteq Nat \ {0}
            BY DEF InitInv, InitTypes, Contents
        <2> QED BY <2>1, <2>2
    <1> HIDE DEF i
    <1>5. tx[p].ids \subseteq {Legacy} \/ conf # Absent
        BY <1>1, <1>3 DEF Made, InitInv, InitializedIsComplete
    <1>6. initPc'[p] = "workspace" /\ id'[p] = i /\ id' \in [Processes -> Nat]
        BY <1>1, <1>2, <1>4 DEF InitInv, InitTypes
    <1>7. Made(p)'
        BY <1>2, <1>3, <1>4, <1>5, <1>6 DEF Made, StampIsTrue, Features, files
    <1>8. /\ initPc' \in [Processes -> InitSteps] /\ OneActive'
          /\ \A q \in Processes : Active(q)' => Made(q)'
        BY <1>1, <1>3, <1>7, OneMoves
    <1>9. InitTypes'
        BY <1>2, <1>6, <1>8 DEF InitInv, InitTypes, Contents, Stamps, files
    <1>10. StampIsTrue(catalog)' /\ CAPairMatches' /\ InitializedIsComplete'
        BY <1>2 DEF InitInv, StampIsTrue, Features, CAPairMatches, InitializedIsComplete, files
    <1> QED BY <1>8, <1>9, <1>10 DEF InitInv

LEMMA CommitKeeps ==
    ASSUME InitInv, NEW p \in Processes, Commit(p) PROVE InitInv'
    <1>1. Active(p) /\ initPc[p] = "commit" /\ "idle" \in InitSteps
          /\ initPc' = [initPc EXCEPT ![p] = "idle"]
        BY DEF Commit, Active, InitSteps, Goto
    <1>2. /\ catalog' = tx[p] /\ tx' = tx /\ id' = id /\ ids' = ids /\ UNCHANGED files
        BY DEF Commit
    <1>3. Made(p) /\ \A q \in Processes \ {p} : ~ Active(q)
        BY <1>1, OthersWait
    <1>4. /\ initPc' \in [Processes -> InitSteps] /\ OneActive'
          /\ \A q \in Processes : Active(q)' => Made(q)'
        BY <1>1, <1>3, OneMoves
    <1>5. InitTypes'
        BY <1>2, <1>4 DEF InitInv, InitTypes, Contents, Stamps, files
    <1>6. StampIsTrue(catalog)'
        BY <1>2, <1>3 DEF Made, StampIsTrue, Features
    <1>7. InitializedIsComplete'
        BY <1>1, <1>2, <1>3 DEF Made, InitializedIsComplete, files
    <1>8. CAPairMatches'
        BY <1>2 DEF InitInv, CAPairMatches, files
    <1> QED BY <1>4, <1>5, <1>6, <1>7, <1>8 DEF InitInv

LEMMA RemoveDatabaseKeeps == ASSUME InitInv, RemoveDatabase PROVE InitInv'
    <1>1. /\ catalog' = NoTx /\ initPc' = initPc /\ tx' = tx /\ id' = id /\ ids' = ids
          /\ UNCHANGED files /\ \A p \in Processes : initPc[p] = "idle"
        BY DEF RemoveDatabase
    <1>2. NoTx \in Contents
        BY DEF InitInv, InitTypes, NoTx, Contents, Stamps
    <1>3. InitTypes'
        BY <1>1, <1>2 DEF InitInv, InitTypes, Contents, Stamps, files
    <1>4. \A p \in Processes : ~ Active(p)'
        BY <1>1 DEF Active
    <1>5. StampIsTrue(catalog)' /\ CAPairMatches' /\ InitializedIsComplete'
        BY <1>1 DEF InitInv, StampIsTrue, CAPairMatches, InitializedIsComplete, files, NoTx
    <1> QED BY <1>3, <1>4, <1>5 DEF InitInv, OneActive

\* For any number of inits at a time, any schema versions and however often
\* init is killed, fails or starts over: a database at the latest stamp has
\* every feature, ca.key and ca.crt belong together, and a bucket whose init
\* committed has all its files (initialize/execute.go, data/schema.go).
THEOREM BucketsAreComplete == InitSpec => []BucketIsComplete
    <1>1. InitInit => InitInv
        <2> SUFFICES ASSUME InitInit PROVE InitInv
            OBVIOUS
        <2>1. NoTx \in Contents /\ StampIsTrue(NoTx)
            <3>1. 0 \in Stamps
                BY SchemaAssumption DEF Stamps
            <3>2. NoTx \in Contents
                BY <3>1 DEF NoTx, Contents
            <3>3. StampIsTrue(NoTx)
                BY DEF NoTx, StampIsTrue
            <3> QED BY <3>2, <3>3
        <2>2. catalog \in Contents /\ StampIsTrue(catalog) /\ catalog.ids \subseteq {Legacy}
            <3>1. CASE catalog = NoTx
                BY <2>1, <3>1 DEF NoTx
            <3>2. CASE \E v \in Stamps : \E extra \in SUBSET Features :
                         catalog = [schema |-> v, ids |-> IF v = 0 THEN {} ELSE {Legacy},
                                    has |-> extra \cup {f \in Features : f <= v}]
                <4>1. Features \subseteq Int
                    BY SchemaAssumption DEF Features
                <4>2. PICK v \in Stamps, extra \in SUBSET Features :
                         catalog = [schema |-> v, ids |-> IF v = 0 THEN {} ELSE {Legacy},
                                    has |-> extra \cup {f \in Features : f <= v}]
                    BY <3>2
                <4>3. catalog.ids \subseteq {Legacy} /\ {Legacy} \subseteq Nat \ {0}
                    BY <4>2 DEF Legacy
                <4>4. catalog.has \subseteq Int /\ StampIsTrue(catalog)
                    BY <4>1, <4>2 DEF StampIsTrue
                <4>5. catalog = [schema |-> v, ids |-> catalog.ids, has |-> catalog.has]
                    BY <4>2
                <4> QED BY <4>3, <4>4, <4>5 DEF Contents
            <3> QED BY <3>1, <3>2 DEF InitInit
        <2>3. InitTypes /\ \A p \in Processes : ~ Active(p)
            BY <2>1, <2>2, SchemaAssumption, SMTT(60) DEF InitInit, InitTypes, InitSteps, Active, Absent, Legacy
        <2> QED BY <2>2, <2>3 DEF InitInv, InitInit, OneActive, CAPairMatches, InitializedIsComplete,
                Absent
    <1>2. InitInv /\ [InitNext]_initVars => InitInv'
        <2> SUFFICES ASSUME InitInv, [InitNext]_initVars PROVE InitInv'
            OBVIOUS
        <2>1. CASE UNCHANGED initVars
            BY <2>1 DEF initVars, InitInv, InitTypes, Contents, Stamps, StampIsTrue, Features,
               OneActive, Active, Made, CAPairMatches, InitializedIsComplete
        <2>2. ASSUME NEW p \in Processes, InitStep(p) PROVE InitInv'
            BY <2>2, DirectoriesKeep, OpenKeeps, InsertKeeps, GetIdKeeps, WorkspaceKeeps,
               EnsureCAKeeps, CAKeyKeeps, CreateCrtKeeps, WriteCrtKeeps, CAFailsKeeps, TrustKeeps,
               KvKeyKeeps, CommitKeeps, KilledKeeps DEF InitStep
        <2> QED BY <2>1, <2>2, RemoveDatabaseKeeps DEF InitNext
    <1>3. InitInv => BucketIsComplete
        <2>1. ASSUME InitInv, catalog.schema = LatestSchemaVersion, NEW f \in Features
              PROVE  f \in catalog.has
            <3>1. catalog.schema # 0 /\ f <= catalog.schema
                BY <2>1 DEF InitInv, InitTypes, Features
            <3> QED BY <2>1, <3>1 DEF InitInv, StampIsTrue
        <2>2. InitInv => SchemaComplete
            BY <2>1 DEF SchemaComplete
        <2> QED BY <2>2 DEF InitInv, BucketIsComplete
    <1> QED BY <1>1, <1>2, <1>3, PTL DEF InitSpec

-----------------------------------------------------------------------------
(* Revisions: the elements of a sequence at some places *)

\* In a set of naturals every rank up to its size is taken.
LEMMA EveryRank ==
  ASSUME NEW n \in Nat, NEW I \in SUBSET (1 .. n), NEW r \in 0 .. (Cardinality(I) - 1)
  PROVE  \E x \in I : Cardinality({y \in I : y < x}) = r
  <1> DEFINE below(x) == {y \in I : y < x}
  <1> DEFINE T == {x \in I : Cardinality(below(x)) >= r}
  <1>1. IsFiniteSet(1 .. n) /\ I \subseteq 1 .. n /\ I \subseteq Nat /\ I \subseteq 0 .. n
    <2>1. IsFiniteSet(1 .. n)
      BY FS_Interval
    <2>2. \A x \in I : x \in 1 .. n
      OBVIOUS
    <2> QED BY <2>1, <2>2
  <1>2. IsFiniteSet(I) /\ Cardinality(I) \in Nat
    BY <1>1, FS_Subset, FS_CardinalityType
  <1>3. \A x \in I : IsFiniteSet(below(x)) /\ Cardinality(below(x)) \in Nat
    BY <1>2, FS_Subset, FS_CardinalityType
  <1>4. ASSUME NEW S \in SUBSET I, NEW m \in S, \A x \in S : x <= m,
               \A y \in I : y < m => y \in S
        PROVE  Cardinality(below(m)) = Cardinality(S) - 1
    <2>1. below(m) = S \ {m}
      <3>1. \A y \in I : y \in Nat
        BY <1>1
      <3>2. m \in Nat /\ \A y \in S : y \in I /\ y <= m
        BY <1>4, <3>1
      <3>3. \A y \in I : y < m <=> (y \in S /\ y # m)
        BY <1>4, <3>1, <3>2
      <3> QED BY <3>2, <3>3
    <2>2. IsFiniteSet(S)
      BY <1>2, FS_Subset
    <2> QED BY <2>1, <2>2, FS_RemoveElement
  <1>5. I # {}
    BY <1>2, FS_EmptySet
  <1>6. T # {}
    <2>1. PICK m \in I : \A x \in I : x <= m
      BY <1>1, <1>5, GreatestBelow
    <2>2. Cardinality(below(m)) = Cardinality(I) - 1
      BY <2>1, <1>4
    <2> QED BY <1>2, <2>2
  <1>7. T \in SUBSET Nat
    BY <1>1
  <1>8. PICK x \in T : \A z \in T : x <= z
    <2> HIDE DEF T
    <2> QED BY <1>6, <1>7, LeastNatural
  <1>9. ASSUME Cardinality(below(x)) # r PROVE FALSE
    <2>1. x \in I /\ Cardinality(below(x)) \in Nat /\ Cardinality(below(x)) > r
      BY <1>3, <1>8, <1>9
    <2>2. below(x) # {} /\ below(x) \in SUBSET (0 .. n)
      <3>1. Cardinality(below(x)) # 0
        BY <2>1
      <3>2. below(x) # {}
        BY <3>1, FS_EmptySet
      <3> QED BY <1>1, <3>2
    <2>3. PICK m \in below(x) : \A y \in below(x) : y <= m
      <3> HIDE DEF below
      <3> QED BY <2>2, GreatestBelow
    <2>4. m \in I /\ m < x
      BY <2>3
    <2>5. \A y \in I : y < m => y \in below(x)
      BY <1>1, <2>1, <2>4, SMTT(60)
    <2>6. Cardinality(below(m)) = Cardinality(below(x)) - 1
      <3>1. below(x) \in SUBSET I
        OBVIOUS
      <3> HIDE DEF below
      <3> QED BY <1>4, <2>3, <2>5, <3>1
    <2>7. m \in T
      BY <2>1, <2>4, <2>6
    <2> QED BY <1>1, <1>8, <2>1, <2>4, <2>7
  <1> QED BY <1>8, <1>9

LEMMA SelectPicks ==
  ASSUME NEW S, NEW s \in Seq(S), NEW I \in SUBSET DOMAIN s
  PROVE  /\ Select(s, I) \in Seq(S)
         /\ \A i \in DOMAIN Select(s, I) : \E x \in I : Select(s, I)[i] = s[x]
  <1> DEFINE rank(x) == Cardinality({y \in I : y < x})
             at(i) == CHOOSE x \in I : rank(x) = i - 1
             c == Cardinality(I)
  <1>1. Len(s) \in Nat /\ DOMAIN s = 1 .. Len(s) /\ I \in SUBSET (1 .. Len(s))
    OBVIOUS
  <1>2. c \in Nat
    <2>1. IsFiniteSet(1 .. Len(s))
      BY <1>1, FS_Interval
    <2>2. IsFiniteSet(I)
      BY <1>1, <2>1, FS_Subset
    <2> QED BY <2>2, FS_CardinalityType
  <1>3. ASSUME NEW i \in 1 .. c PROVE at(i) \in I
    <2>1. i - 1 \in 0 .. (Cardinality(I) - 1)
      BY <1>2
    <2>2. \E x \in I : Cardinality({y \in I : y < x}) = i - 1
      BY <1>1, <2>1, EveryRank
    <2> QED BY <2>2
  <1>4. Select(s, I) = [i \in 1 .. c |-> s[at(i)]]
    BY DEF Select
  <1> HIDE DEF at, c
  <1>5. \A i \in 1 .. c : s[at(i)] \in S
    BY <1>1, <1>3
  <1>6. Select(s, I) \in [1 .. c -> S]
    BY <1>4, <1>5
  <1>7. Select(s, I) \in Seq(S)
    BY <1>2, <1>6
  <1>8. \A i \in DOMAIN Select(s, I) : \E x \in I : Select(s, I)[i] = s[x]
    BY <1>3, <1>4
  <1> QED BY <1>7, <1>8

LEMMA NamedAppend ==
  ASSUME NEW S, NEW s \in Seq(S), NEW h \in S
  PROVE  Append(s, h) \in Seq(S) /\ Named(Append(s, h)) \subseteq Named(s) \cup {h}
  BY DEF Named

LEMMA NamedSelect ==
  ASSUME NEW S, NEW s \in Seq(S), NEW I \in SUBSET DOMAIN s
  PROVE  \A h \in Named(Select(s, I)) : \E x \in I : h = s[x] /\ h # None
  <1> SUFFICES ASSUME NEW h \in Named(Select(s, I)) PROVE \E x \in I : h = s[x] /\ h # None
    OBVIOUS
  <1>1. PICK i \in DOMAIN Select(s, I) : h = Select(s, I)[i] /\ h # None
    BY DEF Named
  <1>2. PICK x \in I : Select(s, I)[i] = s[x]
    BY SelectPicks
  <1> QED BY <1>1, <1>2

-----------------------------------------------------------------------------
(* Revisions: the inductive invariant *)

Rows == [rev : Hashes \cup {None}, status : {"cancelled", "failed", "succeeded"},
         changed : BOOLEAN]

GcSteps == {"idle", "remove", "history", "promotion", "commit", "stopped"}

RevTypes ==
  /\ None \notin Hashes /\ RevisionRetention \in Nat
  /\ current \in Hashes \cup {None} /\ lastSuccessful \in Hashes \cup {None}
  /\ artifacts \in SUBSET Hashes
  /\ revisions \in Seq(Hashes)
  /\ history \in Seq(Rows)
  /\ promotion \in [last : Hashes \cup {None}, entries : Seq(Hashes)]
  /\ gc = [pc |-> gc.pc, keep |-> gc.keep, todo |-> gc.todo, rows |-> gc.rows]
  /\ gc.pc \in GcSteps /\ gc.rows \in Seq(Rows)

\* What a gc may not remove.
Needed ==
  ({current, lastSuccessful, promotion.last} \ {None}) \cup MarkerSourceRevisions
    \cup (IF HasFifoMarker THEN Promotable(history) ELSE {})

\* How far a gc is: it removes nothing needed, forgets nothing on disk, and the
\* lists it has cut name what is left.
GcProgress ==
  /\ gc.pc = "remove" =>
       /\ Needed \subseteq gc.keep /\ gc.todo \cap gc.keep = {}
       /\ artifacts \subseteq gc.keep \cup undeleted \cup gc.todo
       /\ (Named(revisions) \cap gc.keep) \ artifacts \subseteq cut
  /\ gc.pc # "remove" => Named(revisions) \ artifacts \subseteq cut
  /\ gc.pc \in {"history", "promotion", "commit"} => artifacts \subseteq gc.keep \cup undeleted
  /\ gc.pc \in {"promotion", "commit"} =>
       \A i \in DOMAIN gc.rows : gc.rows[i].rev \in Named(revisions) \cup {None}
  /\ gc.pc = "commit" =>
       Named(promotion.entries) \subseteq Named(revisions) \cup {promotion.last}

RevInv == RevTypes /\ GcProgress

-----------------------------------------------------------------------------
(* Revisions: the steps *)

\* While no gc runs, what is listed and what is on disk grow together.
LEMMA OutsideGc ==
  ASSUME RevInv, gc.pc \in {"idle", "stopped"}, gc' = gc, cut' = cut, RevTypes',
         Named(revisions') \ artifacts' \subseteq Named(revisions) \ artifacts
  PROVE  RevInv'
  BY DEF RevInv, GcProgress

LEMMA PushKeeps ==
  ASSUME RevInv, NEW h \in Hashes, NEW ok \in BOOLEAN, Push(h, ok) PROVE RevInv'
  <1>1. /\ gc.pc \in {"idle", "stopped"} /\ gc' = gc /\ cut' = cut
        /\ artifacts' = artifacts \cup {h} /\ revisions' = Append(revisions, h)
        /\ current' = h /\ lastSuccessful' \in {h, lastSuccessful}
        /\ history' = history /\ promotion' = promotion
    BY DEF Push, Event
  <1>2. revisions' \in Seq(Hashes) /\ Named(revisions') \subseteq Named(revisions) \cup {h}
    BY <1>1, NamedAppend DEF RevInv, RevTypes
  <1>3. RevTypes'
    BY <1>1, <1>2 DEF RevInv, RevTypes
  <1> QED BY <1>1, <1>2, <1>3, OutsideGc

LEMMA PromoteKeeps ==
  ASSUME RevInv, NEW h \in Hashes, NEW ok \in BOOLEAN, Promote(h, ok) PROVE RevInv'
  <1>1. /\ gc.pc \in {"idle", "stopped"} /\ gc' = gc /\ cut' = cut
        /\ artifacts' = artifacts \cup {h} /\ revisions' = Append(revisions, h)
        /\ current' \in {h, current} /\ lastSuccessful' \in {h, lastSuccessful}
        /\ history' = history
        /\ promotion' = [last |-> IF ok THEN h ELSE promotion.last,
                         entries |-> <<h>> \o promotion.entries]
    BY DEF Promote, Event
  <1>2. revisions' \in Seq(Hashes) /\ Named(revisions') \subseteq Named(revisions) \cup {h}
    BY <1>1, NamedAppend DEF RevInv, RevTypes
  <1>3. promotion' \in [last : Hashes \cup {None}, entries : Seq(Hashes)]
    <2>1. <<h>> \o promotion.entries \in Seq(Hashes)
      BY DEF RevInv, RevTypes
    <2>2. (IF ok THEN h ELSE promotion.last) \in Hashes \cup {None}
      BY DEF RevInv, RevTypes
    <2> QED BY <1>1, <2>1, <2>2
  <1>4. RevTypes'
    BY <1>1, <1>2, <1>3 DEF RevInv, RevTypes
  <1> QED BY <1>1, <1>2, <1>4, OutsideGc

LEMMA HistoryKeeps ==
  ASSUME RevInv, NEW failures, NEW outcomes, WriteDeployHistory(failures, outcomes)
  PROVE  RevInv'
  <1> DEFINE row == [rev |-> current,
                     status |-> IF "cancelled" \in failures THEN "cancelled"
                                ELSE IF failures # {} THEN "failed" ELSE "succeeded",
                     changed |-> \E o \in outcomes : o # "skipped"]
  <1>1. /\ gc.pc \in {"idle", "stopped"} /\ gc' = gc /\ cut' = cut
        /\ artifacts' = artifacts /\ revisions' = revisions /\ current' = current
        /\ lastSuccessful' = lastSuccessful /\ promotion' = promotion
        /\ history' = Append(history, row)
    BY DEF WriteDeployHistory, InsertDeployHistory, Event
  <1>2. row \in Rows
    BY DEF Rows, RevInv, RevTypes
  <1> HIDE DEF row
  <1>3. RevTypes'
    BY <1>1, <1>2, SMTT(60) DEF RevInv, RevTypes
  <1> QED BY <1>1, <1>3, OutsideGc

LEMMA MarkersKeep ==
  ASSUME RevInv, NEW c \in Consumers,
         \/ \E h \in Hashes, s \in {"fifo", "latest"} : AppendMarkerEntry(c, h, s)
         \/ DeleteMarker(c)
  PROVE  RevInv'
  <1>1. /\ gc.pc \in {"idle", "stopped"} /\ gc' = gc /\ cut' = cut
        /\ artifacts' = artifacts /\ revisions' = revisions /\ current' = current
        /\ lastSuccessful' = lastSuccessful /\ promotion' = promotion /\ history' = history
    BY DEF AppendMarkerEntry, DeleteMarker, Event
  <1>2. RevTypes'
    BY <1>1 DEF RevInv, RevTypes
  <1> QED BY <1>1, <1>2, OutsideGc

\* The first pin of the promotion history is the revision the bucket stands at.
LEMMA PromotedIsPinned ==
  ASSUME RevTypes, promotion.last # None
  PROVE  promotion.last \in PromotionHistoryPins
  <1> DEFINE e == First(promotion.entries, RevisionRetention)
             s == <<promotion.last>> \o e
  <1>1. promotion.entries \in Seq(Hashes) /\ RevisionRetention \in Nat
    BY DEF RevTypes
  <1>2. e \in Seq(Hashes)
    BY <1>1 DEF First
  <1> HIDE DEF e
  <1>3. 1 \in DOMAIN s /\ s[1] = promotion.last
    BY <1>2
  <1> QED BY <1>3 DEF PromotionHistoryPins, Named, e

LEMMA KeepsNeeded ==
  ASSUME RevTypes, NEW peerPins PROVE Needed \subseteq Keep(peerPins)
  BY PromotedIsPinned DEF Needed, Keep, CollectSourceRevisionHistoryPins

\* What is needed depends on the lists only.
LEMMA NeededSame ==
  ASSUME current' = current, lastSuccessful' = lastSuccessful, promotion' = promotion,
         history' = history, markers' = markers
  PROVE  Needed' = Needed
  <1>1. MarkerSourceRevisions' = MarkerSourceRevisions
    BY Zenon DEF MarkerSourceRevisions
  <1>2. HasFifoMarker' <=> HasFifoMarker
    BY Zenon DEF HasFifoMarker
  <1>3. Promotable(history)' = Promotable(history)
    BY Zenon
  <1>4. {current, lastSuccessful, promotion.last}' = {current, lastSuccessful, promotion.last}
    BY Zenon
  <1>5. CASE HasFifoMarker
    BY <1>1, <1>2, <1>3, <1>4, <1>5, Zenon DEF Needed
  <1>6. CASE ~HasFifoMarker
    BY <1>1, <1>2, <1>4, <1>6, Zenon DEF Needed
  <1> QED BY <1>5, <1>6

LEMMA BeginKeeps ==
  ASSUME RevInv, NEW peerPins, BeginGc(peerPins) PROVE RevInv'
  <1> DEFINE keep == Keep(peerPins)
             todo == (Named(revisions) \cup artifacts) \ keep
  <1>1. /\ gc.pc \in {"idle", "stopped"} /\ undeleted' = {}
        /\ gc' = [pc |-> "remove", keep |-> keep, todo |-> todo, rows |-> history]
        /\ artifacts' = artifacts /\ revisions' = revisions /\ current' = current
        /\ lastSuccessful' = lastSuccessful /\ promotion' = promotion /\ history' = history
        /\ cut' = cut /\ markers' = markers
    BY DEF BeginGc, Event
  <1>2. Needed \subseteq keep /\ Needed' = Needed
    <2>1. Needed \subseteq keep
      BY KeepsNeeded DEF RevInv
    <2>2. Needed' = Needed
      BY <1>1, NeededSame
    <2> QED BY <2>1, <2>2
  <1>3. artifacts \subseteq keep \cup todo /\ todo \cap keep = {}
    OBVIOUS
  <1> HIDE DEF keep, todo
  <1>4. /\ gc'.pc = "remove" /\ gc'.keep = keep /\ gc'.todo = todo /\ gc'.rows = history
        /\ gc' = [pc |-> gc'.pc, keep |-> gc'.keep, todo |-> gc'.todo, rows |-> gc'.rows]
    BY <1>1
  <1>5. RevTypes'
    BY <1>1, <1>4 DEF RevInv, RevTypes, GcSteps
  <1>6. GcProgress'
    BY <1>1, <1>2, <1>3, <1>4 DEF RevInv, GcProgress
  <1> QED BY <1>5, <1>6 DEF RevInv

LEMMA RemoveKeeps ==
  ASSUME RevInv, NEW h \in Hashes, RemoveAll(h) PROVE RevInv'
  <1>1. /\ gc.pc = "remove" /\ h \in gc.todo
        /\ gc' = [gc EXCEPT !.todo = gc.todo \ {h}]
        /\ revisions' = revisions /\ current' = current
        /\ lastSuccessful' = lastSuccessful /\ promotion' = promotion /\ history' = history
        /\ cut' = cut /\ markers' = markers
        /\ \/ artifacts' = artifacts \ {h} /\ undeleted' = undeleted
           \/ artifacts' = artifacts /\ undeleted' = undeleted \cup {h}
    BY DEF RemoveAll
  <1>2. /\ gc'.pc = "remove" /\ gc'.keep = gc.keep /\ gc'.todo = gc.todo \ {h}
        /\ gc'.rows = gc.rows
        /\ gc' = [pc |-> gc'.pc, keep |-> gc'.keep, todo |-> gc'.todo, rows |-> gc'.rows]
    BY <1>1 DEF RevInv, RevTypes
  <1>3. Needed' = Needed
    BY <1>1, NeededSame
  <1>4. RevTypes'
    BY <1>1, <1>2 DEF RevInv, RevTypes, GcSteps
  <1>5. GcProgress'
    BY <1>1, <1>2, <1>3 DEF RevInv, GcProgress
  <1> QED BY <1>4, <1>5 DEF RevInv

LEMMA SaveKeeps == ASSUME RevInv, SaveState PROVE RevInv'
  <1> DEFINE I == {i \in DOMAIN revisions : revisions[i] \in gc.keep
                      /\ \A k \in 1 .. (i - 1) : revisions[k] # revisions[i]}
  <1>1. /\ gc.pc = "remove" /\ gc.todo = {} /\ revisions' = Select(revisions, I)
        /\ gc' = [gc EXCEPT !.pc = "history"]
        /\ artifacts' = artifacts /\ current' = current
        /\ lastSuccessful' = lastSuccessful /\ promotion' = promotion /\ history' = history
        /\ cut' = cut /\ undeleted' = undeleted
    BY DEF SaveState, Trimmed
  <1>2. /\ gc'.pc = "history" /\ gc'.keep = gc.keep /\ gc'.rows = gc.rows
        /\ gc' = [pc |-> gc'.pc, keep |-> gc'.keep, todo |-> gc'.todo, rows |-> gc'.rows]
    BY <1>1 DEF RevInv, RevTypes
  <1>3. revisions \in Seq(Hashes) /\ I \in SUBSET DOMAIN revisions
        /\ \A x \in I : revisions[x] \in gc.keep
    BY DEF RevInv, RevTypes
  <1> HIDE DEF I
  <1>4. revisions' \in Seq(Hashes)
    BY <1>1, <1>3, SelectPicks
  <1>5. Named(revisions') \subseteq Named(revisions) \cap gc.keep
    BY <1>1, <1>3, NamedSelect, SMTT(60) DEF Named
  <1>6. RevTypes'
    BY <1>1, <1>2, <1>4 DEF RevInv, RevTypes, GcSteps
  <1>7. GcProgress'
    BY <1>1, <1>2, <1>5 DEF RevInv, GcProgress
  <1> QED BY <1>6, <1>7 DEF RevInv

LEMMA PruneHistoryKeeps ==
  ASSUME RevInv, PruneDeployHistoryKeepingRevisions PROVE RevInv'
  <1> DEFINE I == KeptRows(gc.rows, RetainedHashes)
  <1>1. /\ gc.pc = "history"
        /\ gc' = [gc EXCEPT !.pc = "promotion", !.rows = Select(gc.rows, I)]
        /\ artifacts' = artifacts /\ current' = current /\ revisions' = revisions
        /\ lastSuccessful' = lastSuccessful /\ promotion' = promotion /\ history' = history
        /\ cut' = cut /\ undeleted' = undeleted
    BY DEF PruneDeployHistoryKeepingRevisions
  <1>2. gc.rows \in Seq(Rows) /\ I \in SUBSET DOMAIN gc.rows
        /\ \A x \in I : gc.rows[x].rev \in Named(revisions) \cup {None}
    BY DEF RevInv, RevTypes, KeptRows, RetainedHashes
  <1> HIDE DEF I
  <1>3. /\ gc'.pc = "promotion" /\ gc'.keep = gc.keep /\ gc'.rows = Select(gc.rows, I)
        /\ gc' = [pc |-> gc'.pc, keep |-> gc'.keep, todo |-> gc'.todo, rows |-> gc'.rows]
    BY <1>1 DEF RevInv, RevTypes
  <1>4. gc'.rows \in Seq(Rows)
        /\ \A i \in DOMAIN gc'.rows : \E x \in I : gc'.rows[i] = gc.rows[x]
    BY <1>2, <1>3, SelectPicks, SMTT(60)
  <1>5. \A i \in DOMAIN gc'.rows : gc'.rows[i].rev \in Named(revisions) \cup {None}
    BY <1>2, <1>4
  <1>6. RevTypes'
    BY <1>1, <1>3, <1>4 DEF RevInv, RevTypes, GcSteps
  <1>7. GcProgress'
    BY <1>1, <1>3, <1>5 DEF RevInv, GcProgress
  <1> QED BY <1>6, <1>7 DEF RevInv

LEMMA PrunePromotionKeeps ==
  ASSUME RevInv, PrunePromotionStateKeepingRevisions PROVE RevInv'
  <1> DEFINE e == promotion.entries
             I == {i \in DOMAIN e : e[i] \in Named(revisions) \cup {promotion.last}}
  <1>1. /\ gc.pc = "promotion" /\ gc' = [gc EXCEPT !.pc = "commit"]
        /\ promotion' = [promotion EXCEPT !.entries = Select(e, I)]
        /\ artifacts' = artifacts /\ current' = current /\ revisions' = revisions
        /\ lastSuccessful' = lastSuccessful /\ history' = history
        /\ cut' = cut /\ undeleted' = undeleted
    BY DEF PrunePromotionStateKeepingRevisions, TrimPromotionHistoryKeepingRevisions,
           RetainedHashes
  <1>2. e \in Seq(Hashes) /\ I \in SUBSET DOMAIN e
        /\ \A x \in I : e[x] \in Named(revisions) \cup {promotion.last}
    BY DEF RevInv, RevTypes
  <1> HIDE DEF e, I
  <1>3. /\ gc'.pc = "commit" /\ gc'.keep = gc.keep /\ gc'.rows = gc.rows
        /\ gc' = [pc |-> gc'.pc, keep |-> gc'.keep, todo |-> gc'.todo, rows |-> gc'.rows]
    BY <1>1 DEF RevInv, RevTypes
  <1>4. Select(e, I) \in Seq(Hashes)
        /\ Named(Select(e, I)) \subseteq Named(revisions) \cup {promotion.last}
    <2>1. Select(e, I) \in Seq(Hashes)
      BY <1>2, SelectPicks
    <2>2. ASSUME NEW h \in Named(Select(e, I)) PROVE h \in Named(revisions) \cup {promotion.last}
      <3>1. PICK x \in I : h = e[x]
        BY <1>2, NamedSelect
      <3> QED BY <1>2, <3>1
    <2> QED BY <2>1, <2>2
  <1>5. promotion' \in [last : Hashes \cup {None}, entries : Seq(Hashes)]
        /\ promotion'.entries = Select(e, I) /\ promotion'.last = promotion.last
    BY <1>1, <1>4 DEF RevInv, RevTypes
  <1>6. RevTypes'
    BY <1>1, <1>3, <1>5 DEF RevInv, RevTypes, GcSteps
  <1>7. GcProgress'
    BY <1>1, <1>3, <1>4, <1>5 DEF RevInv, GcProgress
  <1> QED BY <1>6, <1>7 DEF RevInv

LEMMA EndsKeep == ASSUME RevInv, CommitGc \/ GcStops PROVE RevInv'
  <1>1. /\ gc.pc # "remove" \/ GcStops
        /\ history' \in {history, gc.rows} /\ gc' \in {NoGc, [NoGc EXCEPT !.pc = "stopped"]}
        /\ artifacts' = artifacts /\ current' = current /\ revisions' = revisions
        /\ lastSuccessful' = lastSuccessful /\ promotion' = promotion
        /\ cut' = cut \/ (cut' = cut \cup (Named(revisions) \ artifacts))
        /\ CommitGc => cut' = cut /\ gc.pc = "commit"
        /\ GcStops => cut' = cut \cup (Named(revisions) \ artifacts)
    BY DEF CommitGc, GcStops
  <1>2. /\ gc'.pc \in {"idle", "stopped"} /\ gc'.rows = <<>>
        /\ gc' = [pc |-> gc'.pc, keep |-> gc'.keep, todo |-> gc'.todo, rows |-> gc'.rows]
    BY <1>1 DEF NoGc
  <1>3. RevTypes'
    BY <1>1, <1>2 DEF RevInv, RevTypes, GcSteps
  <1>4. Named(revisions') \ artifacts' \subseteq cut'
    BY <1>1 DEF RevInv, GcProgress
  <1>5. GcProgress'
    BY <1>2, <1>4 DEF GcProgress
  <1> QED BY <1>3, <1>5 DEF RevInv

-----------------------------------------------------------------------------
(* Revisions: the theorem *)

LEMMA RevInvHolds == RevSpec => []RevInv
  <1>1. RevInit => RevInv
    <2> SUFFICES ASSUME RevInit PROVE RevInv
      OBVIOUS
    <2>1. /\ gc = [pc |-> gc.pc, keep |-> gc.keep, todo |-> gc.todo, rows |-> gc.rows]
          /\ gc.pc = "idle" /\ gc.rows = <<>>
      BY DEF RevInit, NoGc
    <2>2. RevTypes
      <3>1. promotion \in [last : Hashes \cup {None}, entries : Seq(Hashes)]
        <4>1. <<>> \in Seq(Hashes) /\ None \in Hashes \cup {None}
          OBVIOUS
        <4>2. promotion = [last |-> None, entries |-> <<>>]
          BY DEF RevInit
        <4> QED BY <4>1, <4>2
      <3>2. revisions \in Seq(Hashes) /\ history \in Seq(Rows) /\ gc.rows \in Seq(Rows)
        BY <2>1 DEF RevInit
      <3>3. gc.pc \in GcSteps
        BY <2>1 DEF GcSteps
      <3> QED BY <2>1, <3>1, <3>2, <3>3, RevisionAssumption DEF RevInit, RevTypes
    <2>3. Named(revisions) = {}
      BY DEF RevInit, Named
    <2>4. GcProgress
      BY <2>1, <2>3 DEF GcProgress
    <2> QED BY <2>2, <2>4 DEF RevInv
  <1>2. RevInv /\ [RevNext]_revVars => RevInv'
    <2> SUFFICES ASSUME RevInv, [RevNext]_revVars PROVE RevInv'
      OBVIOUS
    <2>1. CASE UNCHANGED revVars
      <3>1. /\ current' = current /\ lastSuccessful' = lastSuccessful /\ revisions' = revisions
            /\ artifacts' = artifacts /\ history' = history /\ promotion' = promotion
            /\ markers' = markers /\ gc' = gc /\ cut' = cut /\ undeleted' = undeleted
        BY <2>1 DEF revVars
      <3>2. RevTypes'
        BY <3>1 DEF RevInv, RevTypes
      <3>3. Needed' = Needed
        BY <3>1, NeededSame
      <3>4. GcProgress'
        BY <3>1, <3>3 DEF RevInv, GcProgress
      <3> QED BY <3>2, <3>4 DEF RevInv
    <2> QED BY <2>1, PushKeeps, PromoteKeeps, HistoryKeeps, MarkersKeep, BeginKeeps, RemoveKeeps,
               SaveKeeps, PruneHistoryKeeps, PrunePromotionKeeps, EndsKeep DEF RevNext
  <1> QED BY <1>1, <1>2, PTL DEF RevSpec

\* Only a gc removes an artifact, and only one it does not keep.
LEMMA OnlyTodoGoes ==
  ASSUME RevInv, [RevNext]_revVars, NEW h \in artifacts \ artifacts'
  PROVE  h \in Hashes /\ h \notin Needed
  <1>1. PICK g \in Hashes : RemoveAll(g)
    BY DEF RevNext, revVars, Push, Promote, WriteDeployHistory, AppendMarkerEntry, DeleteMarker,
           BeginGc, SaveState, PruneDeployHistoryKeepingRevisions,
           PrunePromotionStateKeepingRevisions, CommitGc, GcStops
  <1>2. h = g /\ gc.pc = "remove" /\ g \in gc.todo
    BY <1>1 DEF RemoveAll
  <1> QED BY <1>2 DEF RevInv, GcProgress

\* A gc ends well only with the commit of its rows.
LEMMA EndsWithCommit ==
  ASSUME RevInv, [RevNext]_revVars, gc.pc = "commit", gc'.pc = "idle"
  PROVE  history' = gc.rows
  <1>1. gc' # gc /\ ~ Event
    BY DEF Event
  <1>2. CommitGc \/ GcStops
    BY <1>1 DEF RevNext, revVars, Push, Promote, WriteDeployHistory, AppendMarkerEntry,
       DeleteMarker, BeginGc, RemoveAll, SaveState, PruneDeployHistoryKeepingRevisions,
       PrunePromotionStateKeepingRevisions
  <1>3. ~ GcStops
    BY DEF GcStops, NoGc
  <1> QED BY <1>2, <1>3 DEF CommitGc

\* For all revisions, consumers, retention counts and series of pushes, deploys,
\* promotions and gc runs, killed wherever they are: gc takes no artifact that
\* is needed, a complete gc leaves no name without a listed revision and nothing
\* on disk it does not keep, and a listed revision has its artifact unless a gc
\* was cut short (gc of source revisions, deploy history and promotion state).
THEOREM GcKeepsNamed == RevSpec => GcKeepsWhatIsNamed
  <1>1. RevInv' => ListedIsPresent'
    BY DEF RevInv, GcProgress, ListedIsPresent
  <1>2. ASSUME RevInv, [RevNext]_revVars PROVE NeededStays
    <2>1. ASSUME NEW h \in artifacts \ artifacts'
          PROVE  /\ h \notin {current, lastSuccessful, promotion.last}
                 /\ h \notin MarkerSourceRevisions
                 /\ HasFifoMarker => h \notin Promotable(history)
      <3>1. h \in Hashes /\ h \notin Needed /\ None \notin Hashes
        BY <1>2, OnlyTodoGoes DEF RevInv, RevTypes
      <3> QED BY <3>1 DEF Needed
    <2> QED BY <2>1 DEF NeededStays
  <1>3. ASSUME RevInv, [RevNext]_revVars PROVE HistoryNamesRetained
    BY <1>3, EndsWithCommit DEF HistoryNamesRetained, RevInv, GcProgress
  <1>4. RevInv => NoOrphansAfterGc
    BY DEF RevInv, GcProgress, NoOrphansAfterGc
  <1>5. RevInv /\ RevInv' /\ [RevNext]_revVars
          => [ListedIsPresent' /\ NeededStays /\ HistoryNamesRetained /\ NoOrphansAfterGc]_revVars
    BY <1>1, <1>2, <1>3, <1>4
  <1> QED BY <1>5, RevInvHolds, PTL DEF RevSpec, GcKeepsWhatIsNamed
=============================================================================
