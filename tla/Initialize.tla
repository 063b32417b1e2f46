----------------------------- MODULE Initialize -----------------------------
(***************************************************************************)
(* kive init (initialize/execute.go): directories, the catalog and its     *)
(* schema (data/schema.go), the bucket row, kive.conf, the workspace files,*)
(* the bucket CA and kv.key, all but the files in one transaction that     *)
(* commits last.  init may be killed at any step and run again, and the    *)
(* operator may remove data/kive.db and keep workspace and secrets, as the *)
(* command's help says.  init takes no bucket lock.                        *)
(***************************************************************************)
EXTENDS Integers

CONSTANTS
    Processes,            \* inits that may run at the same time
    LatestSchemaVersion,  \* 8 in the code
    OldestMigratable,     \* 2
    MaxIds                \* bound: bucket ids, and so inits that insert one

\* There are migrations, and they start at a version a database may have.
ASSUME SchemaAssumption ==
    LatestSchemaVersion \in Nat /\ OldestMigratable \in 1 .. LatestSchemaVersion

Absent == 0
Partial == -1
Legacy == 1  \* the bucket id in a database an earlier version made
Stamps == 0 .. LatestSchemaVersion + 1
\* What the migration to version v adds: columns or tables.
Features == OldestMigratable + 1 .. LatestSchemaVersion
NoTx == [schema |-> 0, has |-> {}, ids |-> {}]

VARIABLES
    dbFile,    \* data/kive.db exists
    catalog,   \* its committed content: schema stamp, features, bucket rows
    conf, workspace, caKey, caCrt, trust, kvKey,  \* files: Absent, Partial or their maker
    initPc,    \* process -> next step
    isNew,     \* process -> isNewDatabase
    tx,        \* process -> the content its transaction sees
    id,        \* process -> bucketID
    ids        \* bucket ids given out so far

files == <<conf, workspace, caKey, caCrt, trust, kvKey>>
initVars == <<dbFile, catalog, conf, workspace, caKey, caCrt, trust, kvKey, initPc, isNew, tx, id, ids>>

\* The database is absent, or one an earlier version made; a feature may be
\* there before its stamp.
InitInit ==
    /\ \/ dbFile = FALSE /\ catalog = NoTx
       \/ /\ dbFile = TRUE
          /\ \E v \in Stamps : \E extra \in SUBSET {f \in Features : v >= OldestMigratable} :
               catalog = [schema |-> v, ids |-> IF v = 0 THEN {} ELSE {Legacy},
                          has |-> extra \cup {f \in Features : f <= v}]
    /\ conf = Absent /\ workspace = Absent /\ caKey = Absent /\ caCrt = Absent
    /\ trust = Absent /\ kvKey = Absent
    /\ initPc = [p \in Processes |-> "idle"]
    /\ isNew = [p \in Processes |-> FALSE]
    /\ tx = [p \in Processes |-> NoTx]
    /\ id = [p \in Processes |-> Absent] /\ ids = Legacy

Goto(p, next) == initPc' = [initPc EXCEPT ![p] = next]
KeepTx == UNCHANGED <<dbFile, catalog, isNew, tx, id, ids>>

-----------------------------------------------------------------------------
(* The catalog *)

\* ensureBucketDirectories, then isNewDatabase.
EnsureBucketDirectories(p) ==
    /\ initPc[p] = "idle"
    /\ isNew' = [isNew EXCEPT ![p] = ~ dbFile]
    /\ Goto(p, "open")
    /\ UNCHANGED <<dbFile, catalog, tx, id, ids, files>>

\* MigrateSchema: everything on an empty database, else one additive step after
\* the other (addColumnIfMissing, CREATE TABLE IF NOT EXISTS).
MigrateSchema(c) ==
    IF c.schema = 0 THEN [c EXCEPT !.schema = LatestSchemaVersion, !.has = Features]
    ELSE [c EXCEPT !.schema = LatestSchemaVersion,
                   !.has = @ \cup (c.schema + 1 .. LatestSchemaVersion)]

IncompatibleSchema(c) ==
    c.schema # 0 /\ (c.schema > LatestSchemaVersion \/ c.schema < OldestMigratable)

\* The migration writes first, so SQLite's write lock is held until the end.
OpenDatabase(p) ==
    /\ initPc[p] = "open" /\ \A q \in Processes \ {p} : initPc[q] \in {"idle", "open"}
    /\ dbFile' = TRUE
    /\ IF IncompatibleSchema(catalog)
       THEN Goto(p, "idle") /\ UNCHANGED tx
       ELSE Goto(p, "row") /\ tx' = [tx EXCEPT ![p] = MigrateSchema(catalog)]
    /\ UNCHANGED <<catalog, isNew, id, ids, files>>

BucketInitialized(p) == tx[p].ids # {}

\* A new id and, when there is none, the default kive.conf.
InsertBucketRecord(p) ==
    /\ initPc[p] = "row" /\ (isNew[p] \/ ~ BucketInitialized(p))
    /\ ids < MaxIds /\ ids' = ids + 1
    /\ id' = [id EXCEPT ![p] = ids + 1]
    /\ tx' = [tx EXCEPT ![p].ids = @ \cup {ids + 1}]
    /\ conf' = IF conf = Absent THEN ids + 1 ELSE conf
    /\ Goto(p, "workspace")
    /\ UNCHANGED <<dbFile, catalog, isNew, workspace, caKey, caCrt, trust, kvKey>>

GetBucketID(p) ==
    /\ initPc[p] = "row" /\ ~ isNew[p] /\ BucketInitialized(p)
    /\ id' = [id EXCEPT ![p] = CHOOSE i \in tx[p].ids : TRUE]
    /\ Goto(p, "workspace")
    /\ UNCHANGED <<dbFile, catalog, isNew, tx, ids, files>>

-----------------------------------------------------------------------------
(* Files outside the transaction *)

\* ensureWorkspaceFiles and ensureGitignore make only what is missing.
EnsureWorkspaceFiles(p) ==
    /\ initPc[p] = "workspace"
    /\ workspace' = IF workspace = Absent THEN id[p] ELSE workspace
    /\ Goto(p, "ca")
    /\ UNCHANGED <<conf, caKey, caCrt, trust, kvKey>> /\ KeepTx

\* A slip: whichever of the two files is missing is made anew.
CompleteCA(p) ==
    /\ initPc[p] = "ca"
    /\ UNCHANGED <<conf, workspace, trust, kvKey>> /\ KeepTx
    /\ \/ caKey = Absent /\ caKey' = Partial /\ UNCHANGED caCrt /\ Goto(p, "caKey")
       \/ caKey # Absent /\ caCrt = Absent /\ caCrt' = Partial /\ UNCHANGED caKey /\ Goto(p, "caCrt")
       \/ caKey # Absent /\ caCrt # Absent /\ UNCHANGED <<caKey, caCrt>> /\ Goto(p, "trust")

\* ensureCA: with neither file, generateCA creates ca.key; with one of them it
\* refuses; with both it goes on.
EnsureCA(p) ==
    /\ initPc[p] = "ca"
    /\ UNCHANGED <<conf, workspace, caCrt, trust, kvKey>> /\ KeepTx
    /\ \/ caKey = Absent /\ caCrt = Absent /\ caKey' = Partial /\ Goto(p, "caKey")
       \/ (caKey = Absent) # (caCrt = Absent) /\ UNCHANGED caKey /\ Goto(p, "idle")
       \/ caKey # Absent /\ caCrt # Absent /\ UNCHANGED caKey /\ Goto(p, "trust")

\* writePEMExclusive of ca.key, then the exclusive creation of ca.crt.
WriteCAKey(p) ==
    /\ initPc[p] = "caKey"
    /\ caKey' = id[p] /\ Goto(p, "caNew")
    /\ UNCHANGED <<conf, workspace, caCrt, trust, kvKey>> /\ KeepTx

CreateCACrt(p) ==
    /\ initPc[p] = "caNew" /\ caCrt = Absent
    /\ caCrt' = Partial /\ Goto(p, "caCrt")
    /\ UNCHANGED <<conf, workspace, caKey, trust, kvKey>> /\ KeepTx

WriteCACrt(p) ==
    /\ initPc[p] = "caCrt"
    /\ caCrt' = id[p] /\ Goto(p, "trust")
    /\ UNCHANGED <<conf, workspace, caKey, trust, kvKey>> /\ KeepTx

\* A write fails: what generateCA has made is removed again.
GenerateCAFails(p) ==
    /\ initPc[p] \in {"caKey", "caNew", "caCrt"}
    /\ caKey' = Absent /\ caCrt' = Absent
    /\ Goto(p, "idle")
    /\ UNCHANGED <<conf, workspace, trust, kvKey>> /\ KeepTx

EnsureCATrustFile(p) ==
    /\ initPc[p] = "trust"
    /\ trust' = IF trust = Absent THEN caCrt ELSE trust
    /\ Goto(p, "kvKey")
    /\ UNCHANGED <<conf, workspace, caKey, caCrt, kvKey>> /\ KeepTx

\* EnsureEncryptionKeyTx; KvStore has it step by step.
EnsureEncryptionKey(p) ==
    /\ initPc[p] = "kvKey"
    /\ kvKey' = IF kvKey = Absent THEN id[p] ELSE kvKey
    /\ Goto(p, "commit")
    /\ UNCHANGED <<conf, workspace, caKey, caCrt, trust>> /\ KeepTx

Commit(p) ==
    /\ initPc[p] = "commit"
    /\ catalog' = tx[p]
    /\ Goto(p, "idle")
    /\ UNCHANGED <<dbFile, isNew, tx, id, ids, files>>

\* An error, the cancellation between two steps, or a kill: the transaction is
\* rolled back, the files stay as they are.
Killed(p) ==
    /\ initPc[p] # "idle"
    /\ Goto(p, "idle")
    /\ UNCHANGED files /\ KeepTx

RemoveDatabase ==
    /\ dbFile /\ \A p \in Processes : initPc[p] = "idle"
    /\ dbFile' = FALSE /\ catalog' = NoTx
    /\ UNCHANGED <<initPc, isNew, tx, id, ids, files>>

InitStep(p) ==
    \/ EnsureBucketDirectories(p) \/ OpenDatabase(p) \/ InsertBucketRecord(p)
    \/ GetBucketID(p) \/ EnsureWorkspaceFiles(p) \/ EnsureCA(p) \/ WriteCAKey(p)
    \/ CreateCACrt(p) \/ WriteCACrt(p) \/ GenerateCAFails(p) \/ EnsureCATrustFile(p)
    \/ EnsureEncryptionKey(p) \/ Commit(p) \/ Killed(p)

InitNext == (\E p \in Processes : InitStep(p)) \/ RemoveDatabase

InitSpec == InitInit /\ [][InitNext]_initVars

-----------------------------------------------------------------------------
(* Properties *)

\* A database at the latest stamp has everything a fresh one has, whichever
\* version it was migrated from (data/schema.go schemaMigrations).
SchemaComplete == catalog.schema = LatestSchemaVersion => Features \subseteq catalog.has

\* ca.key and ca.crt come from one generateCA, however often init was killed
\* (the exclusive creates and the refusal of ensureCA).
CAPairMatches == caKey > 0 /\ caCrt > 0 => caKey = caCrt

\* A bucket that init has made and committed has its configuration, workspace,
\* keys and trust bundle (Commit is the last step of ExecuteWithBucketIDContext).
InitializedIsComplete ==
    \A i \in catalog.ids \ {Legacy} :
        Absent \notin {conf, workspace, caKey, caCrt, trust, kvKey}

\* However often init was killed, run again or run twice at a time: the schema
\* is what its stamp says, ca.key and ca.crt belong together, and a bucket whose
\* init committed lacks nothing (initialize/execute.go, data/schema.go).
BucketIsComplete == SchemaComplete /\ CAPairMatches /\ InitializedIsComplete
=============================================================================
