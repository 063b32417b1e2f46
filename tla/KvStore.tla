------------------------------ MODULE KvStore ------------------------------
(***************************************************************************)
(* The key-value store (kv/): rows of the key_value table, the in-memory   *)
(* session a command loads from them, the requests by which hooks change   *)
(* the session through the runtime API (hooks/runtime_handlers.go), expiry *)
(* and pruning, and the transaction that makes the session durable.        *)
(* data/kive.lock admits one command at a time.                            *)
(*                                                                         *)
(* A stored value is <<k, text, nonce>>: k = 0 for plain text, else the    *)
(* AES key that sealed it; the nonce makes two sealings of a text differ.  *)
(***************************************************************************)
EXTENDS Integers, FiniteSets

CONSTANTS
    Jobs,               \* the jobs whose hooks call the runtime API
    Keys,               \* [ns, job, name]: the keys that may be set
    Texts,              \* trimmed values
    Inputs,             \* values as hooks send them
    TrimSpace,          \* Inputs -> Texts
    Ttls,               \* ttl values, 0 for none
    MaxVersionsToKeep,  \* 7 in the code
    RetainTicks,        \* kv_retain_days
    MaxCommands,        \* bound: commands in a behaviour
    MaxChanges,         \* bound: changes to the session in a behaviour
    MaxClock,           \* bound: the clock
    MaxKeys             \* bound: encryption keys ever generated

\* Namespaces of a key: vars/job/J, secrets/job/J, kive/job/J.
Namespaces == {"vars", "secrets", "catalog"}
Events == {"pre_deploy", "cli", "readiness"}
Commands == {"build", "hooks", "deploy", "gc"}
Steps == {"run", "expired", "pruned", "flushed", "aborted"}
Missing == 0
Torn == MaxKeys + 1

ASSUME KvAssumption ==
    /\ Keys \subseteq [ns : Namespaces, job : Jobs, name : {"key", "rollout_order"}]
    /\ TrimSpace \in [Inputs -> Texts]
    /\ Ttls \subseteq Nat
    /\ MaxVersionsToKeep \in Nat
    /\ RetainTicks \in Nat
    /\ MaxKeys \in Nat \ {0}

VARIABLES
    rows,      \* key_value, as committed
    tx,        \* key_value as the open transaction sees it
    session,   \* sessionStore: key -> entry
    cmd,       \* the command that holds the bucket, "none" when idle
    step,      \* how far it is, one of Steps
    sweep,     \* when the running build expired entries
    swept,     \* when the last committed build had expired entries
    clock,     \* time.Now, in seconds
    keyFile,   \* secrets/kv.key: Missing, Torn (created, not written) or a key
    newKeys,   \* how many keys were ever generated
    initStep,  \* init between creating and writing kv.key
    commands,  \* commands started
    changes    \* changes made to sessions

kvVars == <<rows, tx, session, cmd, step, sweep, swept>>
keyVars == <<keyFile, newKeys, initStep>>
vars == <<rows, tx, session, cmd, step, sweep, swept, clock, keyFile, newKeys,
          initStep, commands, changes>>

-----------------------------------------------------------------------------
(* Entries and rows *)

Sealed == (0 .. MaxKeys) \X Texts \X Nat
Absent == [ver |-> 0, val |-> <<>>, ttl |-> 0, del |-> FALSE, chg |-> FALSE, mod |-> 0]
Entry == [ver : Nat \ {0}, val : Sealed, ttl : Nat, del : BOOLEAN, chg : BOOLEAN, mod : Nat]
Row == [key : Keys, ver : Nat \ {0}, val : Sealed, ttl : Nat, del : BOOLEAN, at : Nat]

Present(e) == e.ver > 0
\* Store.Get answers a value; GetKeys lists the key.
Live(e) == Present(e) /\ ~ e.del

RowsOf(R, k) == {r \in R : r.key = k}
IsLatest(R, r) == \A s \in R : s.key = r.key => s.ver <= r.ver
Latest(R, k) == CHOOSE r \in R : r.key = k /\ IsLatest(R, r)

\* LoadFromTransaction: the row of the highest version of each key.
LoadFromTransaction(R) ==
    [k \in Keys |->
        IF RowsOf(R, k) = {} THEN Absent
        ELSE LET r == Latest(R, k) IN
             [ver |-> r.ver, val |-> r.val, ttl |-> r.ttl, del |-> r.del,
              chg |-> FALSE, mod |-> r.at]]

\* A plausible slip: a revived key starts again at version 1.
PutValueForgetsRevival(e, val, ttl) ==
    IF ~ Present(e)
    THEN [ver |-> 1, val |-> val, ttl |-> ttl, del |-> FALSE, chg |-> TRUE, mod |-> 0]
    ELSE IF e.del \/ e.ttl # ttl \/ e.val # val
    THEN [e EXCEPT !.ver = IF e.del THEN 1 ELSE @ + 1, !.val = val, !.ttl = ttl,
                   !.del = FALSE, !.chg = TRUE]
    ELSE e

\* putValue: a new key starts at version 1, a deleted one is revived, and an
\* entry whose value and ttl stay the same is not touched.
PutValue(e, val, ttl) ==
    IF ~ Present(e)
    THEN [ver |-> 1, val |-> val, ttl |-> ttl, del |-> FALSE, chg |-> TRUE, mod |-> 0]
    ELSE IF e.del \/ e.ttl # ttl \/ e.val # val
    THEN [e EXCEPT !.ver = @ + 1, !.val = val, !.ttl = ttl, !.del = FALSE, !.chg = TRUE]
    ELSE e

\* Delete and the tombstones of PurgeNamespace and ExpireStaleEntries.
Tombstone(e) == [e EXCEPT !.ver = @ + 1, !.del = TRUE, !.chg = TRUE]

HasPendingChanges == \E k \in Keys : session[k].chg

-----------------------------------------------------------------------------
(* A command loads the store, changes it and commits or rolls back *)

Init ==
    /\ rows = {} /\ tx = {}
    /\ session = [k \in Keys |-> Absent]
    /\ cmd = "none" /\ step = "run" /\ sweep = 0 /\ swept = 0
    /\ clock = 0
    /\ keyFile = Missing /\ newKeys = 0 /\ initStep = FALSE
    /\ commands = 0 /\ changes = 0

\* kv.Initialize in the transaction of build, deploy, hooks or gc.
Initialize(c) ==
    /\ cmd = "none" /\ ~ initStep /\ commands < MaxCommands
    /\ cmd' = c /\ step' = "run"
    /\ tx' = rows
    /\ session' = LoadFromTransaction(rows)
    /\ commands' = commands + 1
    /\ UNCHANGED <<rows, sweep, swept, clock, changes, keyVars>>

\* A change to the session; a deploy goes on after a flush.
Changing(S) ==
    /\ session' = S
    /\ step' = "run"
    /\ changes < MaxChanges /\ changes' = changes + 1
    /\ UNCHANGED <<rows, tx, cmd, sweep, swept, clock, commands, keyVars>>

\* StartRuntimeAPI: hooks run while a deploy, a hook command or post_build
\* holds the bucket.
HooksRun == cmd \in {"hooks", "deploy"} /\ step \in {"run", "flushed"}

IsHealthProbeEvent(event) == event = "readiness"

\* validateStoreKeyWrite: a job's own variables, and its rollout_order from a
\* pre_deploy or cli hook.
WriteAllowed(job, event, k) ==
    /\ k.job = job
    /\ \/ k.ns = "vars"
       \/ k.ns = "catalog" /\ k.name = "rollout_order" /\ event \in {"pre_deploy", "cli"}

\* PUT /kv
HandleStoreKeyPut(job, event, k, input, ttl) ==
    /\ HooksRun /\ WriteAllowed(job, event, k) /\ ~ IsHealthProbeEvent(event)
    /\ Changing([session EXCEPT ![k] = PutValue(@, <<0, TrimSpace[input], 0>>, ttl)])

SecretNamespaceOf(job, k) == k.job = job /\ k.ns = "secrets"

\* loadEncryptionKey: a file of the wrong length counts as missing.
KeyUsable == keyFile \notin {Missing, Torn}

\* EncryptPlaintext: sealed under kv.key with a fresh nonce, not trimmed.
EncryptPlaintext(text, nonce) == <<keyFile, text, nonce>>

DecryptFails(val) == ~ KeyUsable \/ val[1] # keyFile

\* PUT /kv/secret
HandleStoreSecretPut(job, event, k, text, ttl) ==
    /\ HooksRun /\ SecretNamespaceOf(job, k) /\ ~ IsHealthProbeEvent(event)
    /\ KeyUsable
    /\ Changing([session EXCEPT ![k] =
           PutValue(@, EncryptPlaintext(text, session[k].ver + 1), ttl)])

\* DELETE /kv and DELETE /kv/secret: a key that is not there is an error, one
\* that is already deleted gets another tombstone version.
HandleStoreKeyDelete(job, event, k) ==
    /\ HooksRun /\ k.job = job /\ k.ns = "vars" /\ ~ IsHealthProbeEvent(event)
    /\ Present(session[k])
    /\ Changing([session EXCEPT ![k] = Tombstone(@)])

HandleStoreSecretDelete(job, event, k) ==
    /\ HooksRun /\ SecretNamespaceOf(job, k) /\ ~ IsHealthProbeEvent(event)
    /\ Present(session[k])
    /\ Changing([session EXCEPT ![k] = Tombstone(@)])

\* syncKeyValues of a build: put what the catalog says, delete the other keys.
SyncKeyValues(job, want) ==
    [k \in Keys |->
        CASE k \in DOMAIN want -> PutValue(session[k], <<0, want[k], 0>>, 0)
          [] k \notin DOMAIN want /\ k.job = job /\ k.ns = "catalog" /\ Live(session[k])
                 -> Tombstone(session[k])
          [] OTHER -> session[k]]

BuildJobVariables(job) ==
    /\ cmd = "build" /\ step = "run"
    /\ \E S \in SUBSET {k \in Keys : k.job = job /\ k.ns = "catalog"} :
         \E want \in [S -> Texts] : Changing(SyncKeyValues(job, want))

PurgeNamespaces(job, spaces) ==
    [k \in Keys |->
        IF k.job = job /\ k.ns \in spaces /\ Live(session[k])
        THEN Tombstone(session[k]) ELSE session[k]]

BuildJobKVNamespaces == {"catalog"}
HookKVNamespaces == {"vars", "secrets"}

\* A build drops the catalog keys of a job whose allocations are all removed,
\* and every key of a job that left the workspace.
PurgeBuildJobKV(job) ==
    /\ cmd = "build" /\ step = "run"
    /\ \E spaces \in {BuildJobKVNamespaces, BuildJobKVNamespaces \cup HookKVNamespaces} :
         Changing(PurgeNamespaces(job, spaces))

\* The reconcile of a deploy, for a job without allocations.
PurgeHookKVForInactiveJobs(job) ==
    /\ cmd = "deploy" /\ step \in {"run", "flushed"}
    /\ Changing(PurgeNamespaces(job, BuildJobKVNamespaces \cup HookKVNamespaces))

PurgeRemovedAllocationReferences(job) ==
    /\ cmd = "gc" /\ step = "run"
    /\ Changing(PurgeNamespaces(job, BuildJobKVNamespaces \cup HookKVNamespaces))

\* ExpireStaleEntries, once per build, after the catalog is written.
ExpireStaleEntries ==
    /\ cmd = "build" /\ step = "run"
    /\ step' = "expired" /\ sweep' = clock
    /\ session' = [k \in Keys |->
           LET e == session[k] IN
           IF Live(e) /\ ~ e.chg /\ e.ttl > 0 /\ e.mod + e.ttl <= clock
           THEN Tombstone(e) ELSE e]
    /\ UNCHANGED <<rows, tx, cmd, swept, clock, commands, changes, keyVars>>

\* A plausible slip: each row judged by its own tombstone flag.
StaleByOwnFlag(r) ==
    LET latest == Latest(tx, r.key) IN
    /\ r.ver < latest.ver - MaxVersionsToKeep \/ r.del
    /\ latest.at < clock - RetainTicks

\* purgeStaleVersionsQuery: deleted and created_date are those of the row of
\* the highest version.
Stale(r) ==
    LET latest == Latest(tx, r.key) IN
    /\ r.ver < latest.ver - MaxVersionsToKeep \/ latest.del
    /\ latest.at < clock - RetainTicks

\* PurgeStaleVersions: before the flush in a build, after it in gc.
PurgeStaleVersions ==
    /\ \/ cmd = "build" /\ step = "expired"
       \/ cmd = "gc" /\ step = "flushed"
    /\ step' = "pruned"
    /\ tx' = {r \in tx : ~ Stale(r)}
    /\ UNCHANGED <<rows, session, cmd, sweep, swept, clock, commands, changes, keyVars>>

\* PersistToTransaction: a row per changed entry.
PersistToTransaction ==
    /\ \/ cmd = "build" /\ step = "pruned"
       \/ cmd \in {"hooks", "deploy", "gc"} /\ step = "run"
    /\ step' = "flushed"
    /\ tx' = tx \cup {[key |-> k, ver |-> session[k].ver, val |-> session[k].val,
                       ttl |-> session[k].ttl, del |-> session[k].del, at |-> clock] :
                      k \in {k \in Keys : session[k].chg}}
    /\ session' = [k \in Keys |->
           IF session[k].chg THEN [session[k] EXCEPT !.chg = FALSE, !.mod = clock]
           ELSE session[k]]
    /\ UNCHANGED <<rows, cmd, sweep, swept, clock, commands, changes, keyVars>>

\* A pre_deploy or post_deploy hook or the reconcile fails: the deploy stops
\* and commits what it has, without the checkpoint that follows a hook.
DeployAborts ==
    /\ cmd = "deploy" /\ step \in {"run", "flushed"}
    /\ step' = "aborted"
    /\ UNCHANGED <<rows, tx, session, cmd, sweep, swept, clock, commands, changes, keyVars>>

Close ==
    /\ cmd' = "none" /\ step' = "run" /\ sweep' = 0
    /\ session' = [k \in Keys |-> Absent]
    /\ tx' = {}
    /\ UNCHANGED <<clock, commands, changes, keyVars>>

Commit ==
    /\ \/ cmd \in {"build", "hooks"} /\ step = "flushed"
       \/ cmd = "deploy" /\ step \in {"flushed", "aborted"}
       \/ cmd = "gc" /\ step = "pruned"
    /\ rows' = tx
    /\ swept' = IF cmd = "build" THEN sweep ELSE swept
    /\ Close

\* An error, a cancellation, a dry run or a crash before Commit: SQLite rolls
\* the transaction back and the session dies with the process.
Rollback ==
    /\ cmd # "none"
    /\ UNCHANGED <<rows, swept>>
    /\ Close

Tick ==
    /\ clock < MaxClock
    /\ clock' = clock + 1
    /\ UNCHANGED <<kvVars, keyVars, commands, changes>>

-----------------------------------------------------------------------------
(* secrets/kv.key *)

\* Without the refusal, init makes a key that cannot open what is stored.
NoPersistedCheck == FALSE

\* HasPersistedEncryptedValues: a live latest row that is sealed.
HasPersistedEncryptedValues ==
    \E r \in rows : IsLatest(rows, r) /\ ~ r.del /\ r.val[1] # 0

\* EnsureEncryptionKey: a key file that exists is kept; otherwise the file is
\* created exclusively, unless values are sealed under a key that is gone.
CreateKeyFile ==
    /\ cmd = "none" /\ ~ initStep
    /\ keyFile = Missing /\ newKeys < MaxKeys
    /\ ~ HasPersistedEncryptedValues
    /\ keyFile' = Torn /\ initStep' = TRUE
    /\ UNCHANGED <<kvVars, clock, newKeys, commands, changes>>

WriteKeyFile ==
    /\ initStep
    /\ newKeys' = newKeys + 1
    /\ keyFile' = newKeys + 1
    /\ initStep' = FALSE
    /\ UNCHANGED <<kvVars, clock, commands, changes>>

\* A failed write removes the file; a crash leaves it empty.
AbortKeyFile ==
    /\ initStep
    /\ keyFile' \in {Missing, Torn}
    /\ initStep' = FALSE
    /\ UNCHANGED <<kvVars, clock, newKeys, commands, changes>>

\* The operator loses the file, or removes one that loadEncryptionKey refuses.
LoseKeyFile ==
    /\ cmd = "none" /\ ~ initStep /\ keyFile # Missing
    /\ keyFile' = Missing
    /\ UNCHANGED <<kvVars, clock, newKeys, initStep, commands, changes>>

-----------------------------------------------------------------------------
HookRequest ==
    \E job \in Jobs, event \in Events, k \in Keys :
        \/ \E input \in Inputs, ttl \in Ttls : HandleStoreKeyPut(job, event, k, input, ttl)
        \/ \E text \in Texts, ttl \in Ttls : HandleStoreSecretPut(job, event, k, text, ttl)
        \/ HandleStoreKeyDelete(job, event, k)
        \/ HandleStoreSecretDelete(job, event, k)

Next ==
    \/ \E c \in Commands : Initialize(c)
    \/ HookRequest
    \/ \E job \in Jobs : \/ BuildJobVariables(job)
                         \/ PurgeBuildJobKV(job)
                         \/ PurgeHookKVForInactiveJobs(job)
                         \/ PurgeRemovedAllocationReferences(job)
    \/ ExpireStaleEntries
    \/ PurgeStaleVersions
    \/ PersistToTransaction
    \/ DeployAborts
    \/ Commit
    \/ Rollback
    \/ Tick
    \/ CreateKeyFile \/ WriteKeyFile \/ AbortKeyFile \/ LoseKeyFile

Spec == Init /\ [][Next]_vars

-----------------------------------------------------------------------------
(* Properties *)

\* Rows and entries are well formed: no operation of the store writes a row for
\* a key that was never set (kv/store.go Delete answers ErrNotFound).
TypeOK ==
    /\ rows \subseteq Row /\ tx \subseteq Row
    /\ session \in [Keys -> Entry \cup {Absent}]
    /\ cmd \in Commands \cup {"none"} /\ step \in Steps
    /\ sweep \in Nat /\ swept \in Nat /\ clock \in Nat
    /\ keyFile \in 0 .. Torn /\ newKeys \in 0 .. MaxKeys /\ initStep \in BOOLEAN
    /\ commands \in Nat /\ changes \in Nat

\* key_value has no primary key: only the way versions are counted keeps two
\* rows from claiming the same version of a key, which would make the load
\* query answer both (kv/persist.go, kv/store.go).
VersionsUnique ==
    \A R \in {rows, tx} : \A r, s \in R : r.key = s.key /\ r.ver = s.ver => r = s

\* A key that was past its ttl when a committed build swept the store is gone
\* (ExpireStaleEntries is called by kive build only).
ExpiredAreGone ==
    \A r \in rows : IsLatest(rows, r) /\ ~ r.del /\ r.ttl > 0 => r.at + r.ttl > swept

\* The table never answers a reader with two values, or with one that should
\* be gone (the load query of kv/catalog.go takes every row of the latest
\* version).
TableIsSound == VersionsUnique /\ ExpiredAreGone

\* kive init never makes a key that cannot open the secrets in kive.db, however
\* often kv.key is lost or its creation is interrupted (kv/key.go).
SecretsReadable ==
    KeyUsable =>
        \A r \in rows : IsLatest(rows, r) /\ ~ r.del /\ r.val[1] # 0 => ~ DecryptFails(r.val)

-----------------------------------------------------------------------------
(* The dictionary that the rows, the transaction and the session stand for *)

Nothing == <<>>

\* What a reader gets: the text, sealed or not.
ContentOfRows(R) ==
    [k \in Keys |->
        IF RowsOf(R, k) = {} THEN Nothing
        ELSE LET r == Latest(R, k) IN IF r.del THEN Nothing ELSE r.val]

ContentOfSession(S) == [k \in Keys |-> IF Live(S[k]) THEN S[k].val ELSE Nothing]

Dict == INSTANCE KvDict WITH
    Contents <- Sealed,
    dict <- ContentOfRows(rows),
    work <- IF cmd = "none" THEN ContentOfRows(rows) ELSE ContentOfRows(tx),
    view <- IF cmd = "none" THEN ContentOfRows(rows) ELSE ContentOfSession(session),
    open <- cmd # "none"

\* Seen through Get, the versioned store is a dictionary: loading, pruning old
\* versions, tombstones and the passage of time never change what a key holds,
\* flushes copy the session and only a commit publishes it (kv/).
IsDictionary == Dict!Spec
=============================================================================
