--------------------------- MODULE KvStoreProofs ---------------------------
(***************************************************************************)
(* Proofs about the key-value store: versions stay unique, what expired is *)
(* gone, secrets stay readable, and the versioned store implements the     *)
(* dictionary of KvDict, for any keys, values, times to live, retention    *)
(* and number of commands.                                                 *)
(***************************************************************************)
EXTENDS KvStore, TLAPS

-----------------------------------------------------------------------------
(* The inductive invariant, in layers: the table, expiry, the key file *)

\* Every key that has rows has one row of its highest version.
Sound(R) ==
    /\ \A r \in R, s \in R : r.key = s.key /\ r.ver = s.ver => r = s
    /\ \A k \in Keys : RowsOf(R, k) # {} => \E r \in R : r.key = k /\ IsLatest(R, r)

\* The session is never behind the transaction it was loaded from, and ahead
\* of it where it was changed.
NotBehind ==
    \A r \in tx : /\ r.ver <= session[r.key].ver
                  /\ session[r.key].chg => r.ver < session[r.key].ver

RowMatches(r, e) ==
    r.ver = e.ver /\ r.val = e.val /\ r.ttl = e.ttl /\ r.del = e.del /\ r.at = e.mod

\* An entry that was not changed is the latest row of its key, or a tombstone
\* whose rows were pruned.
InStep ==
    \A k \in Keys :
        Present(session[k]) /\ ~ session[k].chg =>
            \/ \E r \in tx : r.key = k /\ RowMatches(r, session[k])
            \/ session[k].del /\ RowsOf(tx, k) = {}

TableInv ==
    /\ Sound(rows) /\ Sound(tx)
    /\ cmd # "none" => NotBehind /\ InStep

\* No live row of R was past its ttl at time t.
FreshAt(R, t) ==
    \A r \in R : IsLatest(R, r) /\ ~ r.del /\ r.ttl > 0 => r.at + r.ttl > t

SessionFreshAt(t) ==
    \A k \in Keys : Live(session[k]) /\ ~ session[k].chg /\ session[k].ttl > 0
                        => session[k].mod + session[k].ttl > t

ExpiryInv ==
    /\ sweep <= clock /\ swept <= clock
    /\ FreshAt(rows, swept)
    /\ cmd # "none" => FreshAt(tx, swept)
    /\ cmd = "build" /\ step \in {"expired", "pruned"} => SessionFreshAt(sweep)
    /\ cmd = "build" /\ step = "flushed" => FreshAt(tx, sweep)

SealedBy(val, key) == val[1] \in {0, key}

Readable(R) == \A r \in R : IsLatest(R, r) /\ ~ r.del => SealedBy(r.val, keyFile)

\* A key in the making finds nothing sealed; a usable key opens all that is
\* live, in the table, in the transaction and in the session.
KeyInv ==
    /\ initStep => cmd = "none" /\ newKeys < MaxKeys /\ ~ HasPersistedEncryptedValues
    /\ KeyUsable => Readable(rows)
    /\ KeyUsable /\ cmd # "none" =>
          /\ Readable(tx)
          /\ \A k \in Keys : Live(session[k]) => SealedBy(session[k].val, keyFile)

KvInv == TypeOK /\ TableInv /\ ExpiryInv /\ KeyInv

-----------------------------------------------------------------------------
(* What a change to the session does to an entry *)

\* An edited entry has the next version, is marked, and is a tombstone, plain
\* or sealed under the key file.
Edited(e, f) ==
    \/ f = e
    \/ f \in Entry /\ f.chg /\ f.ver = e.ver + 1 /\ (f.del \/ SealedBy(f.val, keyFile))

Edits(S) == S \in [Keys -> Entry \cup {Absent}] /\ \A k \in Keys : Edited(session[k], S[k])

LEMMA PutValueEdits ==
    ASSUME NEW e \in Entry \cup {Absent}, NEW val \in Sealed, NEW ttl \in Nat,
           SealedBy(val, keyFile)
    PROVE  Edited(e, PutValue(e, val, ttl)) /\ PutValue(e, val, ttl) \in Entry \cup {Absent}
    <1> DEFINE f == PutValue(e, val, ttl)
    <1>1. CASE ~ Present(e)
        <2>1. e.ver = 0
            BY <1>1 DEF Present, Entry, Absent
        <2>2. f = [ver |-> 1, val |-> val, ttl |-> ttl, del |-> FALSE, chg |-> TRUE, mod |-> 0]
            BY <1>1 DEF PutValue
        <2>3. f \in Entry /\ f.chg /\ f.ver = 1 /\ f.val = val
            BY <2>2 DEF Entry
        <2> QED BY <2>1, <2>3 DEF Edited
    <1>2. CASE Present(e) /\ (e.del \/ e.ttl # ttl \/ e.val # val)
        <2>1. e \in Entry
            BY <1>2 DEF Present, Absent
        <2>2. f = [ver |-> e.ver + 1, val |-> val, ttl |-> ttl, del |-> FALSE, chg |-> TRUE,
                   mod |-> e.mod]
            BY <1>2, <2>1 DEF PutValue, Entry
        <2>3. e.ver + 1 \in Nat \ {0} /\ e.mod \in Nat
            BY <2>1 DEF Entry
        <2>4. f \in Entry /\ f.chg /\ f.ver = e.ver + 1 /\ f.val = val
            BY <2>2, <2>3 DEF Entry
        <2> QED BY <2>4 DEF Edited
    <1>3. CASE Present(e) /\ ~ (e.del \/ e.ttl # ttl \/ e.val # val)
        BY <1>3 DEF PutValue, Edited
    <1> QED BY <1>1, <1>2, <1>3

LEMMA TombstoneEdits ==
    ASSUME NEW e \in Entry
    PROVE  Edited(e, Tombstone(e)) /\ Tombstone(e) \in Entry
    <1>1. Tombstone(e) \in Entry
        <2> DEFINE f == [e EXCEPT !.ver = e.ver + 1]
        <2>1. f \in Entry
            BY DEF Entry
        <2>2. Tombstone(e) = [f EXCEPT !.del = TRUE, !.chg = TRUE]
            BY DEF Tombstone, Entry
        <2> HIDE DEF f
        <2> QED BY <2>1, <2>2 DEF Entry
    <1>2. Tombstone(e).chg /\ Tombstone(e).del /\ Tombstone(e).ver = e.ver + 1
        BY DEF Tombstone, Entry
    <1> QED BY <1>1, <1>2 DEF Edited

LEMMA PresentIsEntry ==
    ASSUME NEW e \in Entry \cup {Absent}, Present(e) PROVE e \in Entry
    BY DEF Present, Absent

LEMMA PlainIsSealed ==
    ASSUME NEW text \in Texts PROVE <<0, text, 0>> \in Sealed /\ SealedBy(<<0, text, 0>>, keyFile)
    BY KvAssumption DEF Sealed, SealedBy

\* One entry is put or deleted.
LEMMA EditOne ==
    ASSUME TypeOK, NEW k \in Keys, NEW f \in Entry \cup {Absent}, Edited(session[k], f)
    PROVE  Edits([session EXCEPT ![k] = f])
    BY DEF TypeOK, Edits, Edited

LEMMA SyncEdits ==
    ASSUME TypeOK, NEW job \in Jobs, NEW S \in SUBSET Keys, NEW want \in [S -> Texts]
    PROVE  Edits(SyncKeyValues(job, want))
    <1> DEFINE N == SyncKeyValues(job, want)
    <1>1. ASSUME NEW k \in Keys
          PROVE  N[k] \in Entry \cup {Absent} /\ Edited(session[k], N[k])
        <2>1. session[k] \in Entry \cup {Absent}
            BY DEF TypeOK
        <2>2. CASE k \in DOMAIN want
            <3>1. N[k] = PutValue(session[k], <<0, want[k], 0>>, 0)
                BY <2>2 DEF SyncKeyValues
            <3>2. want[k] \in Texts
                BY <2>2
            <3> QED BY <2>1, <3>1, <3>2, PlainIsSealed, PutValueEdits
        <2>3. CASE k \notin DOMAIN want /\ k.job = job /\ k.ns = "catalog" /\ Live(session[k])
            <3>1. N[k] = Tombstone(session[k])
                BY <2>3 DEF SyncKeyValues
            <3>2. session[k] \in Entry
                BY <2>1, <2>3, PresentIsEntry DEF Live
            <3> QED BY <3>1, <3>2, TombstoneEdits
        <2>4. CASE k \notin DOMAIN want /\ ~ (k.job = job /\ k.ns = "catalog" /\ Live(session[k]))
            <3>1. N[k] = session[k]
                BY <2>4 DEF SyncKeyValues
            <3> QED BY <2>1, <3>1 DEF Edited
        <2> QED BY <2>2, <2>3, <2>4
    <1>2. N = [k \in Keys |-> N[k]]
        BY DEF SyncKeyValues
    <1> HIDE DEF N
    <1>3. Edits(N)
        BY <1>1, <1>2 DEF Edits
    <1> QED BY <1>3 DEF N

LEMMA PurgeEdits ==
    ASSUME TypeOK, NEW job \in Jobs, NEW spaces PROVE Edits(PurgeNamespaces(job, spaces))
    <1> DEFINE N == PurgeNamespaces(job, spaces)
    <1>1. ASSUME NEW k \in Keys
          PROVE  N[k] \in Entry \cup {Absent} /\ Edited(session[k], N[k])
        <2>1. session[k] \in Entry \cup {Absent}
            BY DEF TypeOK
        <2>2. CASE k.job = job /\ k.ns \in spaces /\ Live(session[k])
            <3>1. N[k] = Tombstone(session[k]) /\ session[k] \in Entry
                BY <2>1, <2>2, PresentIsEntry DEF PurgeNamespaces, Live
            <3> QED BY <3>1, TombstoneEdits
        <2>3. CASE ~ (k.job = job /\ k.ns \in spaces /\ Live(session[k]))
            BY <2>1, <2>3 DEF PurgeNamespaces, Edited
        <2> QED BY <2>2, <2>3
    <1>2. N = [k \in Keys |-> N[k]]
        BY DEF PurgeNamespaces
    <1> HIDE DEF N
    <1>3. Edits(N)
        BY <1>1, <1>2 DEF Edits
    <1> QED BY <1>3 DEF N

-----------------------------------------------------------------------------
(* Every request and every step of a command that changes the session *)

EditStep ==
    /\ cmd # "none" /\ (cmd = "build" => step = "run")
    /\ Edits(session') /\ step' = "run"
    /\ changes' = changes + 1
    /\ UNCHANGED <<rows, tx, cmd, sweep, swept, clock, commands, keyFile, newKeys, initStep>>

EditingNext ==
    \/ HookRequest
    \/ \E job \in Jobs : \/ BuildJobVariables(job)
                         \/ PurgeBuildJobKV(job)
                         \/ PurgeHookKVForInactiveJobs(job)
                         \/ PurgeRemovedAllocationReferences(job)

LEMMA ChangingEdits ==
    ASSUME NEW S, Edits(S), Changing(S), cmd # "none", cmd = "build" => step = "run"
    PROVE  EditStep
    BY DEF Changing, EditStep, keyVars

LEMMA HookRequestEdits == ASSUME TypeOK, HookRequest PROVE EditStep
    <1>1. PICK job \in Jobs, event \in Events, k \in Keys :
            \/ \E input \in Inputs, ttl \in Ttls : HandleStoreKeyPut(job, event, k, input, ttl)
            \/ \E text \in Texts, ttl \in Ttls : HandleStoreSecretPut(job, event, k, text, ttl)
            \/ HandleStoreKeyDelete(job, event, k)
            \/ HandleStoreSecretDelete(job, event, k)
        BY DEF HookRequest
    <1>2. session[k] \in Entry \cup {Absent} /\ session[k].ver \in Nat
        BY DEF TypeOK, Entry, Absent
    <1>3. [session EXCEPT ![k] = Tombstone(@)] = [session EXCEPT ![k] = Tombstone(session[k])]
        BY DEF TypeOK
    <1>4. CASE \E input \in Inputs, ttl \in Ttls : HandleStoreKeyPut(job, event, k, input, ttl)
        <2>1. PICK input \in Inputs, ttl \in Ttls : HandleStoreKeyPut(job, event, k, input, ttl)
            BY <1>4
        <2> DEFINE f == PutValue(session[k], <<0, TrimSpace[input], 0>>, ttl)
        <2>2. TrimSpace[input] \in Texts /\ ttl \in Nat
            BY KvAssumption
        <2>3. Edited(session[k], f) /\ f \in Entry \cup {Absent}
            BY <1>2, <2>2, PlainIsSealed, PutValueEdits
        <2>4. HooksRun /\ Changing([session EXCEPT ![k] = f])
            BY <2>1 DEF HandleStoreKeyPut, TypeOK
        <2>5. Edits([session EXCEPT ![k] = f])
            BY <2>3, EditOne
        <2> QED BY <2>4, <2>5, ChangingEdits DEF HooksRun
    <1>5. CASE \E text \in Texts, ttl \in Ttls : HandleStoreSecretPut(job, event, k, text, ttl)
        <2>1. PICK text \in Texts, ttl \in Ttls : HandleStoreSecretPut(job, event, k, text, ttl)
            BY <1>5
        <2> DEFINE val == EncryptPlaintext(text, session[k].ver + 1)
                   f == PutValue(session[k], val, ttl)
        <2>2. ttl \in Nat
            BY KvAssumption
        <2>3. val \in Sealed /\ SealedBy(val, keyFile)
            <3>1. keyFile \in 0 .. MaxKeys
                BY <2>1, KvAssumption DEF HandleStoreSecretPut, KeyUsable, TypeOK, Torn
            <3> QED BY <1>2, <3>1 DEF EncryptPlaintext, Sealed, SealedBy
        <2>4. Edited(session[k], f) /\ f \in Entry \cup {Absent}
            BY <1>2, <2>2, <2>3, PutValueEdits
        <2>5. HooksRun /\ Changing([session EXCEPT ![k] = f])
            BY <2>1 DEF HandleStoreSecretPut, TypeOK
        <2>6. Edits([session EXCEPT ![k] = f])
            BY <2>4, EditOne
        <2> QED BY <2>5, <2>6, ChangingEdits DEF HooksRun
    <1>6. CASE HandleStoreKeyDelete(job, event, k) \/ HandleStoreSecretDelete(job, event, k)
        <2>1. HooksRun /\ Present(session[k]) /\ Changing([session EXCEPT ![k] = Tombstone(session[k])])
            BY <1>3, <1>6 DEF HandleStoreKeyDelete, HandleStoreSecretDelete
        <2>2. Edited(session[k], Tombstone(session[k])) /\ Tombstone(session[k]) \in Entry \cup {Absent}
            BY <1>2, <2>1, PresentIsEntry, TombstoneEdits
        <2>3. Edits([session EXCEPT ![k] = Tombstone(session[k])])
            BY <2>2, EditOne
        <2> QED BY <2>1, <2>3, ChangingEdits DEF HooksRun
    <1> QED BY <1>1, <1>4, <1>5, <1>6

LEMMA EditingEdits == ASSUME TypeOK, EditingNext PROVE EditStep
    <1>1. CASE HookRequest
        BY <1>1, HookRequestEdits
    <1>2. CASE \E job \in Jobs : BuildJobVariables(job)
        <2>1. PICK job \in Jobs : BuildJobVariables(job)
            BY <1>2
        <2>2. PICK S \in SUBSET {k \in Keys : k.job = job /\ k.ns = "catalog"} :
                \E want \in [S -> Texts] : Changing(SyncKeyValues(job, want))
            BY <2>1 DEF BuildJobVariables
        <2>3. PICK want \in [S -> Texts] : Changing(SyncKeyValues(job, want))
            BY <2>2
        <2>4. S \in SUBSET Keys
            OBVIOUS
        <2>5. Edits(SyncKeyValues(job, want))
            BY <2>4, SyncEdits
        <2> QED BY <2>1, <2>3, <2>5, ChangingEdits DEF BuildJobVariables
    <1>3. CASE \E job \in Jobs : \/ PurgeBuildJobKV(job)
                                \/ PurgeHookKVForInactiveJobs(job)
                                \/ PurgeRemovedAllocationReferences(job)
        <2>1. PICK job \in Jobs : \/ PurgeBuildJobKV(job)
                                 \/ PurgeHookKVForInactiveJobs(job)
                                 \/ PurgeRemovedAllocationReferences(job)
            BY <1>3
        <2>2. PICK spaces : Changing(PurgeNamespaces(job, spaces))
            BY <2>1 DEF PurgeBuildJobKV, PurgeHookKVForInactiveJobs,
                        PurgeRemovedAllocationReferences
        <2>3. cmd # "none" /\ (cmd = "build" => step = "run")
            BY <2>1 DEF PurgeBuildJobKV, PurgeHookKVForInactiveJobs,
                        PurgeRemovedAllocationReferences
        <2>4. Edits(PurgeNamespaces(job, spaces))
            BY PurgeEdits
        <2> QED BY <2>2, <2>3, <2>4, ChangingEdits
    <1> QED BY <1>1, <1>2, <1>3 DEF EditingNext

LEMMA ExpireEdits ==
    ASSUME TypeOK, ExpireStaleEntries PROVE Edits(session')
    <1>1. ASSUME NEW k \in Keys
          PROVE  session'[k] \in Entry \cup {Absent} /\ Edited(session[k], session'[k])
        <2>1. session[k] \in Entry \cup {Absent}
            BY DEF TypeOK
        <2>2. CASE Live(session[k]) /\ session'[k] = Tombstone(session[k])
            BY <2>1, <2>2, PresentIsEntry, TombstoneEdits DEF Live
        <2>3. CASE session'[k] = session[k]
            BY <2>1, <2>3 DEF Edited
        <2> QED BY <2>2, <2>3 DEF ExpireStaleEntries
    <1>2. session' = [k \in Keys |-> session'[k]]
        BY DEF ExpireStaleEntries
    <1> QED BY <1>1, <1>2 DEF Edits

-----------------------------------------------------------------------------
(* The latest row *)

LEMMA LatestIs ==
    ASSUME NEW R \in SUBSET Row, Sound(R), NEW k \in Keys, RowsOf(R, k) # {}
    PROVE  Latest(R, k) \in R /\ Latest(R, k).key = k /\ IsLatest(R, Latest(R, k))
    BY DEF Sound, Latest

LEMMA LatestIsOnly ==
    ASSUME NEW R \in SUBSET Row, Sound(R), NEW r \in R, IsLatest(R, r)
    PROVE  RowsOf(R, r.key) # {} /\ Latest(R, r.key) = r
    <1>1. r.key \in Keys /\ RowsOf(R, r.key) # {}
        BY DEF Row, RowsOf
    <1> DEFINE l == Latest(R, r.key)
    <1>2. l \in R /\ l.key = r.key /\ IsLatest(R, l)
        BY <1>1, LatestIs
    <1> HIDE DEF l
    <1>3. l.ver <= r.ver /\ r.ver <= l.ver /\ l.ver \in Nat /\ r.ver \in Nat
        BY <1>2 DEF IsLatest, Row
    <1>4. l = r
        BY <1>2, <1>3 DEF Sound
    <1> QED BY <1>1, <1>4 DEF l

LEMMA LoadedEntry ==
    ASSUME NEW R \in SUBSET Row, Sound(R), NEW k \in Keys
    PROVE  LET e == LoadFromTransaction(R)[k] IN
           /\ e \in Entry \cup {Absent} /\ ~ e.chg
           /\ RowsOf(R, k) = {} => e = Absent
           /\ RowsOf(R, k) # {} => RowMatches(Latest(R, k), e) /\ Present(e)
    <1> DEFINE e == LoadFromTransaction(R)[k]
    <1>1. CASE RowsOf(R, k) = {}
        BY <1>1 DEF LoadFromTransaction, Absent
    <1>2. CASE RowsOf(R, k) # {}
        <2> DEFINE r == Latest(R, k)
        <2>1. r \in Row
            BY <1>2, LatestIs
        <2>2. e = [ver |-> r.ver, val |-> r.val, ttl |-> r.ttl, del |-> r.del, chg |-> FALSE,
                   mod |-> r.at]
            BY <1>2 DEF LoadFromTransaction
        <2> HIDE DEF r, e
        <2>3. e \in Entry /\ ~ e.chg /\ RowMatches(r, e) /\ Present(e)
            BY <2>1, <2>2 DEF Entry, Row, RowMatches, Present
        <2> QED BY <1>2, <2>3 DEF r, e
    <1> QED BY <1>1, <1>2

-----------------------------------------------------------------------------
(* Layer one: types and the table *)

KeyNext == CreateKeyFile \/ WriteKeyFile \/ AbortKeyFile \/ LoseKeyFile

LEMMA EditTyped == ASSUME TypeOK, EditStep PROVE TypeOK'
    BY DEF TypeOK, EditStep, Edits, Steps

LEMMA InitializeTyped ==
    ASSUME TypeOK, TableInv, NEW c \in Commands, Initialize(c) PROVE TypeOK'
    <1>1. session' \in [Keys -> Entry \cup {Absent}]
        <2>1. session' = [k \in Keys |-> LoadFromTransaction(rows)[k]]
            BY DEF Initialize, LoadFromTransaction
        <2>2. \A k \in Keys : LoadFromTransaction(rows)[k] \in Entry \cup {Absent}
            BY LoadedEntry DEF TypeOK, TableInv
        <2> QED BY <2>1, <2>2
    <1> QED BY <1>1 DEF TypeOK, Initialize, keyVars, Steps

LEMMA PersistTyped == ASSUME TypeOK, PersistToTransaction PROVE TypeOK'
    <1>1. \A k \in Keys : session[k] \in Entry \cup {Absent}
        BY DEF TypeOK
    <1>2. \A k \in Keys : session[k].chg => session[k] \in Entry
        BY <1>1 DEF Absent
    <1>3. tx' \subseteq Row
        <2>1. \A k \in Keys : session[k].chg =>
                [key |-> k, ver |-> session[k].ver, val |-> session[k].val,
                 ttl |-> session[k].ttl, del |-> session[k].del, at |-> clock] \in Row
            BY <1>2 DEF TypeOK, Entry, Row
        <2> QED BY <2>1 DEF PersistToTransaction, TypeOK
    <1>4. session' \in [Keys -> Entry \cup {Absent}]
        <2>1. \A k \in Keys : session[k].chg =>
                [session[k] EXCEPT !.chg = FALSE, !.mod = clock] \in Entry
            BY <1>2 DEF TypeOK, Entry
        <2> QED BY <1>1, <2>1 DEF PersistToTransaction
    <1> QED BY <1>3, <1>4 DEF TypeOK, PersistToTransaction, keyVars, Steps

LEMMA OthersTyped ==
    ASSUME TypeOK, \/ ExpireStaleEntries \/ PurgeStaleVersions \/ DeployAborts
                   \/ Commit \/ Rollback \/ Tick
    PROVE  TypeOK'
    <1>1. CASE ExpireStaleEntries
        <2>1. Edits(session')
            BY <1>1, ExpireEdits
        <2> QED BY <1>1, <2>1 DEF TypeOK, ExpireStaleEntries, Edits, keyVars, Steps
    <1>2. CASE PurgeStaleVersions
        BY <1>2 DEF TypeOK, PurgeStaleVersions, keyVars, Steps
    <1>3. CASE DeployAborts
        BY <1>3 DEF TypeOK, DeployAborts, keyVars, Steps
    <1>4. CASE Commit
        BY <1>4 DEF TypeOK, Commit, Close, keyVars, Steps
    <1>5. CASE Rollback
        BY <1>5 DEF TypeOK, Rollback, Close, keyVars, Steps
    <1>6. CASE Tick
        BY <1>6 DEF TypeOK, Tick, kvVars, keyVars
    <1> QED BY <1>1, <1>2, <1>3, <1>4, <1>5, <1>6

LEMMA KeysTyped == ASSUME TypeOK, KeyInv, KeyNext PROVE TypeOK'
    <1>1. keyFile \in 0 .. MaxKeys + 1 /\ newKeys \in 0 .. MaxKeys /\ MaxKeys \in Nat \ {0}
        BY KvAssumption DEF TypeOK, Torn
    <1>2. keyFile' \in 0 .. MaxKeys + 1 /\ newKeys' \in 0 .. MaxKeys
        <2>1. CASE CreateKeyFile
            BY <1>1, <2>1 DEF CreateKeyFile, Torn
        <2>2. CASE WriteKeyFile
            <3>1. newKeys < MaxKeys /\ newKeys' = newKeys + 1 /\ keyFile' = newKeys + 1
                BY <2>2 DEF WriteKeyFile, KeyInv
            <3> QED BY <1>1, <3>1
        <2>3. CASE AbortKeyFile
            <3>1. newKeys' = newKeys /\ keyFile' \in {0, MaxKeys + 1}
                BY <2>3 DEF AbortKeyFile, Missing, Torn
            <3> QED BY <1>1, <3>1
        <2>4. CASE LoseKeyFile
            BY <1>1, <2>4 DEF LoseKeyFile, Missing
        <2> QED BY <2>1, <2>2, <2>3, <2>4 DEF KeyNext
    <1>3. initStep' \in BOOLEAN
        BY Zenon DEF KeyNext, CreateKeyFile, WriteKeyFile, AbortKeyFile, LoseKeyFile, TypeOK
    <1>4. UNCHANGED <<rows, tx, session, cmd, step, sweep, swept, clock, commands, changes>>
        BY DEF KeyNext, CreateKeyFile, WriteKeyFile, AbortKeyFile, LoseKeyFile, kvVars
    <1> QED BY <1>2, <1>3, <1>4 DEF TypeOK, Torn

\* A change makes an entry newer than every row, or leaves it alone.
LEMMA EditKeepsTable ==
    ASSUME TypeOK, TableInv, cmd # "none", Edits(session'), UNCHANGED <<rows, tx, cmd>>
    PROVE  TableInv'
    <1>1. \A k \in Keys : Edited(session[k], session'[k]) /\ session[k].ver \in Nat
        BY DEF Edits, TypeOK, Entry, Absent
    <1>2. \A r \in tx : r.key \in Keys /\ r.ver \in Nat
        BY DEF TypeOK, Row
    <1>3. NotBehind'
        BY <1>1, <1>2 DEF TableInv, NotBehind, Edited
    <1>4. InStep'
        BY <1>1 DEF TableInv, InStep, Edited, RowMatches
    <1> QED BY <1>3, <1>4 DEF TableInv, Sound, IsLatest, RowsOf

LEMMA InitializeKeepsTable ==
    ASSUME TypeOK, TableInv, NEW c \in Commands, Initialize(c) PROVE TableInv'
    <1>1. tx' = rows /\ rows' = rows /\ session' = LoadFromTransaction(rows)
        BY DEF Initialize
    <1>2. rows \in SUBSET Row /\ Sound(rows)
        BY DEF TypeOK, TableInv
    <1>3. NotBehind'
        <2> SUFFICES ASSUME NEW r \in rows
                     PROVE  r.ver <= session'[r.key].ver /\ ~ session'[r.key].chg
            BY <1>1 DEF NotBehind
        <2>1. r.key \in Keys /\ RowsOf(rows, r.key) # {}
            BY <1>2 DEF Row, RowsOf
        <2>2. RowMatches(Latest(rows, r.key), session'[r.key]) /\ ~ session'[r.key].chg
            BY <1>1, <1>2, <2>1, LoadedEntry
        <2>3. IsLatest(rows, Latest(rows, r.key)) /\ Latest(rows, r.key).key = r.key
            BY <1>2, <2>1, LatestIs
        <2> QED BY <2>2, <2>3 DEF RowMatches, IsLatest
    <1>4. InStep'
        <2> SUFFICES ASSUME NEW k \in Keys, Present(session'[k])
                     PROVE  \E r \in rows : r.key = k /\ RowMatches(r, session'[k])
            BY <1>1 DEF InStep, Present
        <2>1. RowsOf(rows, k) # {}
            BY <1>1, <1>2, LoadedEntry DEF Present, Absent
        <2> QED BY <1>1, <1>2, <2>1, LoadedEntry, LatestIs
    <1> QED BY <1>1, <1>2, <1>3, <1>4 DEF TableInv, Sound, IsLatest, RowsOf

\* Pruning keeps the latest row of a key, or drops a tombstone with all it
\* covers.
LEMMA PrunedWhole ==
    ASSUME TypeOK, Sound(tx), PurgeStaleVersions, NEW k \in Keys, RowsOf(tx, k) # {}
    PROVE  \/ Latest(tx, k) \in tx'
           \/ Latest(tx, k).del /\ RowsOf(tx', k) = {}
    <1> DEFINE l == Latest(tx, k)
    <1>1. l \in tx /\ l.key = k /\ IsLatest(tx, l)
        BY LatestIs DEF TypeOK
    <1>2. l.ver \in Nat /\ MaxVersionsToKeep \in Nat
        BY <1>1, KvAssumption DEF TypeOK, Row
    <1>3. tx' = {r \in tx : ~ Stale(r)}
        BY DEF PurgeStaleVersions
    <1>4. \A r \in tx : r.key = k =>
            (Stale(r) <=> (r.ver < l.ver - MaxVersionsToKeep \/ l.del)
                          /\ l.at < clock - RetainTicks)
        BY DEF Stale
    <1> HIDE DEF l
    <1>5. CASE l.del
        BY <1>1, <1>3, <1>4, <1>5 DEF RowsOf, l
    <1>6. CASE ~ l.del
        <2>1. ~ Stale(l)
            BY <1>1, <1>2, <1>4, <1>6
        <2> QED BY <1>1, <1>3, <2>1 DEF l
    <1> QED BY <1>5, <1>6

LEMMA PurgeKeepsTable ==
    ASSUME TypeOK, TableInv, PurgeStaleVersions PROVE TableInv'
    <1>1. /\ tx' \subseteq tx /\ UNCHANGED <<rows, session, cmd>> /\ cmd # "none"
          /\ tx \in SUBSET Row /\ Sound(tx)
        BY DEF PurgeStaleVersions, TypeOK, TableInv
    <1>2. Sound(tx')
        <2> SUFFICES ASSUME NEW k \in Keys, RowsOf(tx', k) # {}
                     PROVE  \E r \in tx' : r.key = k /\ IsLatest(tx', r)
            BY <1>1 DEF Sound
        <2>1. RowsOf(tx, k) # {}
            BY <1>1 DEF RowsOf
        <2>2. Latest(tx, k) \in tx'
            BY <1>1, <2>1, PrunedWhole
        <2>3. Latest(tx, k).key = k /\ IsLatest(tx, Latest(tx, k))
            BY <1>1, <2>1, LatestIs
        <2> QED BY <1>1, <2>2, <2>3 DEF IsLatest
    <1>3. NotBehind'
        BY <1>1 DEF TableInv, NotBehind
    <1>4. InStep'
        <2> SUFFICES ASSUME NEW k \in Keys, Present(session[k]), ~ session[k].chg
                     PROVE  \/ \E r \in tx' : r.key = k /\ RowMatches(r, session[k])
                            \/ session[k].del /\ RowsOf(tx', k) = {}
            BY <1>1 DEF InStep, Present, RowMatches
        <2>1. CASE session[k].del /\ RowsOf(tx, k) = {}
            BY <1>1, <2>1 DEF RowsOf
        <2>2. CASE \E r \in tx : r.key = k /\ RowMatches(r, session[k])
            <3>1. PICK r \in tx : r.key = k /\ RowMatches(r, session[k])
                BY <2>2
            <3>2. IsLatest(tx, r)
                BY <1>1, <3>1 DEF TableInv, NotBehind, RowMatches, IsLatest
            <3>3. RowsOf(tx, k) # {} /\ Latest(tx, k) = r
                BY <1>1, <3>1, <3>2, LatestIsOnly
            <3>4. r \in tx' \/ (r.del /\ RowsOf(tx', k) = {})
                BY <1>1, <3>3, PrunedWhole
            <3> QED BY <3>1, <3>4 DEF RowMatches
        <2> QED BY <1>1, <2>1, <2>2 DEF TableInv, InStep
    <1> QED BY <1>1, <1>2, <1>3, <1>4 DEF TableInv, Sound, IsLatest, RowsOf

-----------------------------------------------------------------------------
(* The flush *)

NewRow(k) ==
    [key |-> k, ver |-> session[k].ver, val |-> session[k].val, ttl |-> session[k].ttl,
     del |-> session[k].del, at |-> clock]

\* The new rows are the latest of their keys; the other keys are untouched.
LEMMA FlushedRows ==
    ASSUME TypeOK, TableInv, PersistToTransaction
    PROVE  /\ cmd # "none" /\ UNCHANGED <<rows, cmd>>
           /\ tx \subseteq tx' /\ tx' \subseteq Row
           /\ \A r \in tx' : r \in tx \/ (session[r.key].chg /\ r = NewRow(r.key))
           /\ \A k \in Keys : session[k].chg =>
                 NewRow(k) \in tx' /\ NewRow(k).key = k /\ IsLatest(tx', NewRow(k))
           /\ \A k \in Keys : ~ session[k].chg => RowsOf(tx', k) = RowsOf(tx, k)
           /\ \A r \in tx : ~ session[r.key].chg => (IsLatest(tx', r) <=> IsLatest(tx, r))
           /\ \A r \in tx : session[r.key].chg => ~ IsLatest(tx', r)
    <1> DEFINE changed == {k \in Keys : session[k].chg}
    <1>1. tx' = tx \cup {NewRow(k) : k \in changed} /\ cmd # "none" /\ UNCHANGED <<rows, cmd>>
        BY DEF PersistToTransaction, NewRow
    <1>2. tx' \subseteq Row
        BY PersistTyped DEF TypeOK
    <1>3. \A k \in Keys : NewRow(k).key = k /\ NewRow(k).ver = session[k].ver
        BY DEF NewRow
    <1>4. \A r \in tx : r.key \in Keys /\ r.ver \in Nat
        BY DEF TypeOK, Row
    <1>5. \A k \in Keys : session[k].ver \in Nat
        BY DEF TypeOK, Entry, Absent
    <1>6. \A r \in tx : r.ver <= session[r.key].ver /\ (session[r.key].chg => r.ver < session[r.key].ver)
        BY <1>1 DEF TableInv, NotBehind
    <1>7. \A r \in tx' : r \in tx \/ (session[r.key].chg /\ r = NewRow(r.key))
        BY <1>1, <1>3
    <1>8. \A k \in Keys : session[k].chg => NewRow(k) \in tx'
        BY <1>1
    <1> HIDE DEF changed
    <1>9. \A k \in Keys : session[k].chg => IsLatest(tx', NewRow(k))
        BY <1>3, <1>4, <1>5, <1>6, <1>7 DEF IsLatest
    <1>10. \A k \in Keys : ~ session[k].chg => RowsOf(tx', k) = RowsOf(tx, k)
        BY <1>1, <1>7 DEF RowsOf
    <1>11. \A r \in tx : ~ session[r.key].chg => (IsLatest(tx', r) <=> IsLatest(tx, r))
        BY <1>1, <1>7 DEF IsLatest
    <1>12. ASSUME NEW r \in tx, session[r.key].chg PROVE ~ IsLatest(tx', r)
        <2>1. r.key \in Keys /\ NewRow(r.key) \in tx'
            BY <1>4, <1>8, <1>12
        <2>2. NewRow(r.key).key = r.key /\ r.ver < NewRow(r.key).ver
            BY <1>3, <1>6, <1>12, <2>1
        <2> QED BY <1>3, <1>4, <1>5, <2>1, <2>2 DEF IsLatest
    <1> QED BY <1>1, <1>2, <1>3, <1>7, <1>8, <1>9, <1>10, <1>11, <1>12

LEMMA FlushedSession ==
    ASSUME TypeOK, PersistToTransaction
    PROVE  \A k \in Keys :
             /\ ~ session'[k].chg
             /\ session[k].chg => RowMatches(NewRow(k), session'[k]) /\ session'[k].ver = session[k].ver
             /\ ~ session[k].chg => session'[k] = session[k]
    <1> SUFFICES ASSUME NEW k \in Keys
                 PROVE  /\ ~ session'[k].chg
                        /\ session[k].chg => RowMatches(NewRow(k), session'[k])
                                              /\ session'[k].ver = session[k].ver
                        /\ ~ session[k].chg => session'[k] = session[k]
        OBVIOUS
    <1>1. CASE session[k].chg
        <2>1. session'[k] = [session[k] EXCEPT !.chg = FALSE, !.mod = clock]
            BY <1>1 DEF PersistToTransaction
        <2>2. session[k] \in Entry
            BY <1>1 DEF TypeOK, Absent
        <2>3. /\ session'[k].chg = FALSE /\ session'[k].mod = clock
              /\ session'[k].ver = session[k].ver /\ session'[k].val = session[k].val
              /\ session'[k].ttl = session[k].ttl /\ session'[k].del = session[k].del
            BY <2>1, <2>2 DEF Entry
        <2> QED BY <1>1, <2>3 DEF RowMatches, NewRow
    <1>2. CASE ~ session[k].chg
        BY <1>2 DEF PersistToTransaction
    <1> QED BY <1>1, <1>2

LEMMA PersistKeepsTable ==
    ASSUME TypeOK, TableInv, PersistToTransaction PROVE TableInv'
    <1>1. Sound(tx')
        <2>1. ASSUME NEW r \in tx', NEW q \in tx', r.key = q.key, r.ver = q.ver PROVE r = q
            <3>1. r.key \in Keys /\ r.ver \in Nat
                BY <2>1, FlushedRows DEF Row
            <3>2. NewRow(r.key).ver = session[r.key].ver
                BY DEF NewRow
            <3>3. \A t \in tx : session[t.key].chg => t.ver < session[t.key].ver
                BY FlushedRows DEF TableInv, NotBehind
            <3>4. r \in tx \/ (session[r.key].chg /\ r = NewRow(r.key))
                BY FlushedRows
            <3>5. q \in tx \/ (session[q.key].chg /\ q = NewRow(q.key))
                BY FlushedRows
            <3> QED BY <2>1, <3>1, <3>2, <3>3, <3>4, <3>5 DEF TableInv, Sound
        <2>2. ASSUME NEW k \in Keys, RowsOf(tx', k) # {}
              PROVE  \E r \in tx' : r.key = k /\ IsLatest(tx', r)
            <3>1. CASE session[k].chg
                BY <3>1, FlushedRows
            <3>2. CASE ~ session[k].chg
                <4>1. RowsOf(tx, k) # {}
                    BY <2>2, <3>2, FlushedRows
                <4>2. PICK r \in tx : r.key = k /\ IsLatest(tx, r)
                    BY <4>1 DEF TableInv, Sound
                <4> QED BY <3>2, <4>2, FlushedRows
            <3> QED BY <3>1, <3>2
        <2> QED BY <2>1, <2>2 DEF Sound
    <1>2. NotBehind'
        <2> SUFFICES ASSUME NEW r \in tx'
                     PROVE  r.ver <= session'[r.key].ver /\ ~ session'[r.key].chg
            BY DEF NotBehind
        <2>1. r.key \in Keys /\ r.ver \in Nat
            BY FlushedRows DEF Row
        <2>2. ~ session'[r.key].chg /\ session'[r.key].ver = session[r.key].ver
            BY <2>1, FlushedSession
        <2>3. r \in tx \/ r = NewRow(r.key)
            BY FlushedRows
        <2>4. r.ver <= session[r.key].ver
            BY <2>1, <2>3, FlushedRows DEF TableInv, NotBehind, NewRow
        <2> QED BY <2>2, <2>4
    <1>3. InStep'
        <2> SUFFICES ASSUME NEW k \in Keys, Present(session'[k])
                     PROVE  \/ \E r \in tx' : r.key = k /\ RowMatches(r, session'[k])
                            \/ session'[k].del /\ RowsOf(tx', k) = {}
            BY DEF InStep, Present, RowMatches
        <2>1. CASE session[k].chg
            BY <2>1, FlushedRows, FlushedSession
        <2>2. CASE ~ session[k].chg
            <3>1. session'[k] = session[k] /\ RowsOf(tx', k) = RowsOf(tx, k) /\ tx \subseteq tx'
                BY <2>2, FlushedRows, FlushedSession
            <3>2. cmd # "none"
                BY FlushedRows
            <3>3. \/ \E r \in tx : r.key = k /\ RowMatches(r, session[k])
                  \/ session[k].del /\ RowsOf(tx, k) = {}
                BY <2>2, <3>1, <3>2 DEF TableInv, InStep, Present
            <3> QED BY <3>1, <3>3
        <2> QED BY <2>1, <2>2
    <1>4. Sound(rows)'
        BY FlushedRows DEF TableInv, Sound, IsLatest, RowsOf
    <1> QED BY <1>1, <1>2, <1>3, <1>4 DEF TableInv, Sound, IsLatest, RowsOf

\* A key that was changed is there, as a value or a tombstone.
LEMMA ChangedIsEntry ==
    ASSUME TypeOK, NEW k \in Keys, session[k].chg PROVE session[k] \in Entry /\ Present(session[k])
    <1>1. session[k] \in Entry \cup {Absent}
        BY DEF TypeOK
    <1>2. ~ Absent.chg
        BY DEF Absent
    <1>3. session[k] \in Entry
        BY <1>1, <1>2
    <1> QED BY <1>3 DEF Entry, Present

\* What is not touched stays as it is.
LEMMA TableSame ==
    ASSUME TableInv, rows' = rows, tx' = tx, session' = session, cmd' = cmd PROVE TableInv'
    <1>1. Sound(rows') /\ Sound(tx')
        BY DEF TableInv
    <1>2. NotBehind => NotBehind'
        BY DEF NotBehind
    <1>3. InStep => InStep'
        BY Zenon DEF InStep
    <1> QED BY <1>1, <1>2, <1>3 DEF TableInv

LEMMA OthersKeepTable ==
    ASSUME TypeOK, TableInv, DeployAborts \/ Commit \/ Rollback \/ Tick \/ KeyNext
    PROVE  TableInv'
    <1>1. CASE DeployAborts \/ Tick \/ KeyNext
        <2>1. UNCHANGED <<rows, tx, session, cmd>>
            BY <1>1 DEF DeployAborts, Tick, KeyNext, CreateKeyFile, WriteKeyFile, AbortKeyFile,
                        LoseKeyFile, kvVars
        <2> QED BY <2>1, TableSame
    <1> USE DEF TableInv, Sound, IsLatest, RowsOf, NotBehind, InStep, RowMatches
    <1>2. CASE Commit
        <2>1. rows' = tx /\ tx' = {} /\ cmd' = "none"
            BY <1>2 DEF Commit, Close
        <2> QED BY <2>1
    <1>3. CASE Rollback
        <2>1. rows' = rows /\ tx' = {} /\ cmd' = "none"
            BY <1>3 DEF Rollback, Close
        <2> QED BY <2>1
    <1> QED BY <1>1, <1>2, <1>3

-----------------------------------------------------------------------------
(* Layer two: expiry *)

\* Pruning makes no older row the latest of its key.
LEMMA PrunedLatest ==
    ASSUME TypeOK, TableInv, PurgeStaleVersions, NEW r \in tx', IsLatest(tx', r)
    PROVE  r \in tx /\ IsLatest(tx, r)
    <1>1. r \in tx /\ r.key \in Keys /\ r.ver \in Nat /\ tx \in SUBSET Row /\ Sound(tx)
        BY DEF PurgeStaleVersions, TypeOK, Row, TableInv
    <1>2. RowsOf(tx, r.key) # {} /\ RowsOf(tx', r.key) # {}
        BY <1>1 DEF RowsOf
    <1> DEFINE l == Latest(tx, r.key)
    <1>3. l \in tx' /\ l \in tx /\ l.key = r.key /\ IsLatest(tx, l)
        BY <1>1, <1>2, PrunedWhole, LatestIs
    <1> HIDE DEF l
    <1>4. l.ver <= r.ver /\ r.ver <= l.ver /\ l.ver \in Nat
        BY <1>1, <1>3 DEF IsLatest, Row
    <1>5. l = r
        BY <1>1, <1>3, <1>4 DEF Sound
    <1> QED BY <1>1, <1>3, <1>5

\* The latest row of a key that was not changed is what the session holds.
LEMMA UnchangedIsLatest ==
    ASSUME TypeOK, TableInv, cmd # "none",
           NEW r \in tx, IsLatest(tx, r), ~ session[r.key].chg
    PROVE  RowMatches(r, session[r.key]) /\ Present(session[r.key])
    <1>1. r.key \in Keys /\ r.ver \in Nat \ {0} /\ tx \in SUBSET Row /\ Sound(tx)
        BY DEF TypeOK, Row, TableInv
    <1>2. session[r.key].ver \in Nat /\ r.ver <= session[r.key].ver
        BY <1>1 DEF TypeOK, Entry, Absent, TableInv, NotBehind
    <1>3. Present(session[r.key]) /\ RowsOf(tx, r.key) # {}
        BY <1>1, <1>2 DEF Present, RowsOf
    <1>4. PICK q \in tx : q.key = r.key /\ RowMatches(q, session[r.key])
        BY <1>1, <1>3 DEF TableInv, InStep
    <1>5. IsLatest(tx, q)
        BY <1>4 DEF TableInv, NotBehind, RowMatches, IsLatest
    <1>6. q = r
        BY <1>1, <1>4, <1>5, LatestIsOnly
    <1> QED BY <1>3, <1>4, <1>6

LEMMA EditKeepsExpiry == ASSUME TypeOK, ExpiryInv, EditStep PROVE ExpiryInv'
    <1>1. /\ UNCHANGED <<rows, tx, cmd, sweep, swept, clock>> /\ step' = "run"
        BY DEF EditStep
    <1> QED BY <1>1 DEF ExpiryInv, FreshAt, IsLatest

LEMMA ExpireKeepsExpiry == ASSUME TypeOK, ExpiryInv, ExpireStaleEntries PROVE ExpiryInv'
    <1>1. /\ UNCHANGED <<rows, tx, cmd, swept, clock>> /\ sweep' = clock
          /\ cmd = "build" /\ step' = "expired" /\ clock \in Nat
        BY DEF ExpireStaleEntries, TypeOK
    <1>2. SessionFreshAt(clock)'
        <2> SUFFICES ASSUME NEW k \in Keys, Live(session'[k]), ~ session'[k].chg,
                            session'[k].ttl > 0
                     PROVE  session'[k].mod + session'[k].ttl > clock
            BY <1>1 DEF SessionFreshAt, Live, Present
        <2>1. session[k] \in Entry \cup {Absent}
            BY DEF TypeOK
        <2>2. CASE session'[k] = Tombstone(session[k]) /\ Live(session[k])
            BY <2>1, <2>2, PresentIsEntry DEF Live, Tombstone, Entry
        <2>3. CASE session'[k] = session[k] /\ ~ (Live(session[k]) /\ ~ session[k].chg
                       /\ session[k].ttl > 0 /\ session[k].mod + session[k].ttl <= clock)
            BY <1>1, <2>1, <2>3 DEF Entry, Absent
        <2> QED BY <2>2, <2>3 DEF ExpireStaleEntries
    <1> QED BY <1>1, <1>2, SMTT(60) DEF ExpiryInv, FreshAt, IsLatest, SessionFreshAt, Live, Present

LEMMA InitializeKeepsExpiry ==
    ASSUME TypeOK, ExpiryInv, NEW c \in Commands, Initialize(c) PROVE ExpiryInv'
    <1>1. /\ tx' = rows /\ step' = "run" /\ UNCHANGED <<rows, sweep, swept, clock>>
        BY DEF Initialize
    <1> QED BY <1>1 DEF ExpiryInv, FreshAt, IsLatest

LEMMA PurgeKeepsExpiry ==
    ASSUME TypeOK, TableInv, ExpiryInv, PurgeStaleVersions PROVE ExpiryInv'
    <1>1. /\ UNCHANGED <<rows, session, cmd, sweep, swept, clock>> /\ step' = "pruned"
          /\ cmd # "none" /\ (cmd = "build" => step = "expired")
        BY DEF PurgeStaleVersions
    <1>2. FreshAt(tx', swept)
        BY <1>1, PrunedLatest DEF ExpiryInv, FreshAt
    <1> QED BY <1>1, <1>2 DEF ExpiryInv, FreshAt, IsLatest, SessionFreshAt, Live, Present

LEMMA PersistKeepsExpiry ==
    ASSUME TypeOK, TableInv, ExpiryInv, PersistToTransaction PROVE ExpiryInv'
    <1>1. /\ UNCHANGED <<rows, cmd, sweep, swept, clock>> /\ step' = "flushed"
          /\ cmd # "none" /\ (cmd = "build" => step = "pruned")
          /\ clock \in Nat /\ sweep \in Nat /\ swept \in Nat
        BY DEF PersistToTransaction, TypeOK
    <1>2. ASSUME NEW r \in tx', IsLatest(tx', r), ~ r.del, r.ttl > 0
          PROVE  \/ r.at = clock /\ r.ttl \in Nat
                 \/ r \in tx /\ IsLatest(tx, r) /\ ~ session[r.key].chg
        <2>1. r.ttl \in Nat
            BY <1>2, FlushedRows DEF Row
        <2> QED BY <1>2, <2>1, FlushedRows DEF NewRow
    <1>3. FreshAt(tx', swept)
        BY <1>1, <1>2 DEF ExpiryInv, FreshAt
    <1>4. cmd = "build" => FreshAt(tx', sweep)
        <2> SUFFICES ASSUME cmd = "build", NEW r \in tx', IsLatest(tx', r), ~ r.del, r.ttl > 0
                     PROVE  r.at + r.ttl > sweep
            BY DEF FreshAt
        <2>1. CASE r.at = clock /\ r.ttl \in Nat
            BY <1>1, <2>1 DEF ExpiryInv
        <2>2. CASE r \in tx /\ IsLatest(tx, r) /\ ~ session[r.key].chg
            <3>1. RowMatches(r, session[r.key]) /\ Present(session[r.key]) /\ r.key \in Keys
                BY <2>2, UnchangedIsLatest DEF TypeOK, Row
            <3>2. SessionFreshAt(sweep)
                BY <1>1 DEF ExpiryInv
            <3> QED BY <2>2, <3>1, <3>2 DEF SessionFreshAt, RowMatches, Live
        <2> QED BY <1>2, <2>1, <2>2
    <1> QED BY <1>1, <1>3, <1>4 DEF ExpiryInv, FreshAt, IsLatest

\* Between commands only the table can be stale.
LEMMA ClosedIsFresh ==
    ASSUME cmd' = "none", FreshAt(rows', swept'), swept' <= clock', sweep' <= clock'
    PROVE  ExpiryInv'
    BY DEF ExpiryInv

LEMMA OthersKeepExpiry ==
    ASSUME TypeOK, ExpiryInv, DeployAborts \/ Commit \/ Rollback \/ Tick \/ KeyNext
    PROVE  ExpiryInv'
    <1>1. CASE DeployAborts
        BY <1>1 DEF DeployAborts, ExpiryInv, FreshAt, IsLatest, SessionFreshAt, Live, Present
    <1>2. CASE Commit
        <2>1. /\ rows' = tx /\ cmd' = "none" /\ sweep' = 0 /\ clock' = clock /\ clock \in Nat
              /\ cmd # "none" /\ (cmd = "build" => step = "flushed")
              /\ swept' = IF cmd = "build" THEN sweep ELSE swept
            BY <1>2 DEF Commit, Close, TypeOK
        <2>2. FreshAt(tx, swept') /\ swept' <= clock
            BY <2>1 DEF ExpiryInv
        <2> QED BY <2>1, <2>2, ClosedIsFresh
    <1>3. CASE Rollback
        <2>1. /\ rows' = rows /\ cmd' = "none" /\ sweep' = 0 /\ clock' = clock /\ clock \in Nat
              /\ swept' = swept
            BY <1>3 DEF Rollback, Close, TypeOK
        <2>2. FreshAt(rows, swept) /\ swept <= clock
            BY DEF ExpiryInv
        <2> QED BY <2>1, <2>2, ClosedIsFresh
    <1> USE DEF ExpiryInv, FreshAt, IsLatest, SessionFreshAt, Live, Present
    <1>4. CASE Tick
        <2>1. /\ UNCHANGED <<rows, tx, session, cmd, step, sweep, swept>> /\ clock' = clock + 1
              /\ clock \in Nat /\ sweep \in Nat /\ swept \in Nat
            BY <1>4 DEF Tick, kvVars, TypeOK
        <2> QED BY <2>1, SMTT(60)
    <1>5. CASE KeyNext
        <2>1. UNCHANGED <<rows, tx, session, cmd, step, sweep, swept, clock>>
            BY <1>5 DEF KeyNext, CreateKeyFile, WriteKeyFile, AbortKeyFile, LoseKeyFile, kvVars
        <2> QED BY <2>1
    <1> QED BY <1>1, <1>2, <1>3, <1>4, <1>5

-----------------------------------------------------------------------------
(* Layer three: the key file *)

\* Puts seal under the key file; tombstones are read by nobody.
LEMMA EditKeepsKey ==
    ASSUME TypeOK, KeyInv, cmd # "none", Edits(session'),
           UNCHANGED <<rows, tx, cmd, keyFile, newKeys, initStep>>
    PROVE  KeyInv'
    <1>1. \A k \in Keys : Edited(session[k], session'[k])
        BY DEF Edits
    <1>2. ASSUME KeyUsable, NEW k \in Keys, Live(session'[k])
          PROVE  SealedBy(session'[k].val, keyFile)
        BY <1>1, <1>2 DEF KeyInv, Edited, Live
    <1>3. KeyUsable' <=> KeyUsable
        BY DEF KeyUsable
    <1> QED BY <1>2, <1>3 DEF KeyInv, Readable, SealedBy, IsLatest, HasPersistedEncryptedValues,
                              Live, Present

LEMMA InitializeKeepsKey ==
    ASSUME TypeOK, TableInv, KeyInv, NEW c \in Commands, Initialize(c) PROVE KeyInv'
    <1>1. /\ ~ initStep /\ tx' = rows /\ session' = LoadFromTransaction(rows)
          /\ UNCHANGED <<rows, keyFile, newKeys, initStep>>
        BY DEF Initialize, keyVars
    <1>2. rows \in SUBSET Row /\ Sound(rows)
        BY DEF TypeOK, TableInv
    <1>3. ASSUME KeyUsable, NEW k \in Keys, Live(session'[k])
          PROVE  SealedBy(session'[k].val, keyFile)
        <2>1. RowsOf(rows, k) # {}
            <3>1. RowsOf(rows, k) = {} => session'[k] = Absent
                BY <1>1, <1>2, LoadedEntry
            <3>2. ~ Live(Absent)
                BY DEF Live, Present, Absent
            <3> QED BY <1>3, <3>1, <3>2
        <2>2. RowMatches(Latest(rows, k), session'[k])
            BY <1>1, <1>2, <2>1, LoadedEntry
        <2>3. Latest(rows, k) \in rows /\ IsLatest(rows, Latest(rows, k))
            BY <1>2, <2>1, LatestIs
        <2> QED BY <1>3, <2>2, <2>3 DEF KeyInv, Readable, RowMatches, Live
    <1>4. KeyUsable' <=> KeyUsable
        BY <1>1 DEF KeyUsable
    <1> QED BY <1>1, <1>3, <1>4 DEF KeyInv, Readable, SealedBy, IsLatest, Live, Present

LEMMA PurgeKeepsKey ==
    ASSUME TypeOK, TableInv, KeyInv, PurgeStaleVersions PROVE KeyInv'
    <1>1. /\ UNCHANGED <<rows, session, cmd, keyFile, newKeys, initStep>> /\ cmd # "none"
        BY DEF PurgeStaleVersions, keyVars
    <1>2. KeyUsable => Readable(tx')
        BY <1>1, PrunedLatest DEF KeyInv, Readable
    <1>3. KeyUsable' <=> KeyUsable
        BY <1>1 DEF KeyUsable
    <1> QED BY <1>1, <1>2, <1>3 DEF KeyInv, Readable, SealedBy, IsLatest,
                                    HasPersistedEncryptedValues, Live, Present

LEMMA PersistKeepsKey ==
    ASSUME TypeOK, TableInv, KeyInv, PersistToTransaction PROVE KeyInv'
    <1>1. UNCHANGED <<rows, cmd, keyFile, newKeys, initStep>> /\ cmd # "none"
        BY DEF PersistToTransaction, keyVars
    <1>2. \A k \in Keys : session'[k].val = session[k].val /\ (Live(session'[k]) => Live(session[k]))
        BY FlushedSession DEF RowMatches, NewRow, Live, Present
    <1>3. ASSUME KeyUsable PROVE Readable(tx')
        <2> SUFFICES ASSUME NEW r \in tx', IsLatest(tx', r), ~ r.del
                     PROVE  SealedBy(r.val, keyFile)
            BY DEF Readable
        <2>1. CASE r \in tx /\ ~ session[r.key].chg
            BY <1>1, <1>3, <2>1, FlushedRows DEF KeyInv, Readable
        <2>2. CASE session[r.key].chg /\ r = NewRow(r.key)
            <3>1. r.key \in Keys /\ session[r.key] \in Entry
                <4>1. r \in Row
                    BY FlushedRows
                <4>2. r.key \in Keys
                    BY <4>1 DEF Row
                <4> QED BY <2>2, <4>2, ChangedIsEntry
            <3>2. Live(session[r.key]) /\ r.val = session[r.key].val
                BY <2>2, <3>1 DEF Live, Present, NewRow, Entry
            <3> QED BY <1>1, <1>3, <3>1, <3>2 DEF KeyInv
        <2> QED BY <2>1, <2>2, FlushedRows
    <1>4. KeyUsable' <=> KeyUsable
        BY <1>1 DEF KeyUsable
    <1>5. \A k \in Keys : KeyUsable /\ Live(session'[k]) => SealedBy(session'[k].val, keyFile)
        BY <1>1, <1>2 DEF KeyInv
    <1> QED BY <1>1, <1>3, <1>4, <1>5 DEF KeyInv, Readable, SealedBy, IsLatest,
                                    HasPersistedEncryptedValues, Live, Present

LEMMA OthersKeepKey ==
    ASSUME TypeOK, KeyInv, DeployAborts \/ Commit \/ Rollback \/ Tick PROVE KeyInv'
    <1> USE DEF KeyInv, Readable, SealedBy, IsLatest, HasPersistedEncryptedValues, Live, Present,
                KeyUsable
    <1>1. CASE DeployAborts \/ Tick
        <2>1. UNCHANGED <<rows, tx, session, cmd, keyFile, newKeys, initStep>>
            BY <1>1 DEF DeployAborts, Tick, keyVars, kvVars
        <2> QED BY <2>1
    <1>2. CASE Commit
        <2>1. /\ rows' = tx /\ cmd # "none" /\ cmd' = "none"
              /\ UNCHANGED <<keyFile, newKeys, initStep>>
            BY <1>2 DEF Commit, Close, keyVars
        <2> QED BY <2>1
    <1>3. CASE Rollback
        <2>1. /\ rows' = rows /\ cmd # "none" /\ cmd' = "none"
              /\ UNCHANGED <<keyFile, newKeys, initStep>>
            BY <1>3 DEF Rollback, Close, keyVars
        <2> QED BY <2>1
    <1> QED BY <1>1, <1>2, <1>3

\* A new key is made only while nothing is sealed under another.
LEMMA KeyNextKeepsKey == ASSUME TypeOK, KeyInv, KeyNext PROVE KeyInv'
    <1>1. UNCHANGED <<rows, tx, session, cmd>>
        BY DEF KeyNext, CreateKeyFile, WriteKeyFile, AbortKeyFile, LoseKeyFile, kvVars
    <1>2. HasPersistedEncryptedValues' <=> HasPersistedEncryptedValues
        BY <1>1 DEF HasPersistedEncryptedValues, IsLatest
    <1>3. CASE CreateKeyFile
        <2>1. ~ KeyUsable'
            BY <1>3 DEF CreateKeyFile, KeyUsable
        <2>2. cmd = "none" /\ newKeys < MaxKeys /\ newKeys' = newKeys /\ ~ HasPersistedEncryptedValues
            BY <1>3 DEF CreateKeyFile
        <2> QED BY <1>1, <1>2, <2>1, <2>2 DEF KeyInv
    <1>4. CASE WriteKeyFile
        <2>1. cmd = "none" /\ ~ HasPersistedEncryptedValues /\ ~ initStep'
            BY <1>4 DEF WriteKeyFile, KeyInv
        <2>2. Readable(rows)'
            BY <1>1, <2>1 DEF HasPersistedEncryptedValues, Readable, SealedBy, IsLatest
        <2> QED BY <1>1, <2>1, <2>2 DEF KeyInv
    <1>5. CASE AbortKeyFile
        <2>1. ~ KeyUsable' /\ ~ initStep'
            BY <1>5 DEF AbortKeyFile, KeyUsable
        <2> QED BY <2>1 DEF KeyInv
    <1>6. CASE LoseKeyFile
        <2>1. ~ KeyUsable' /\ ~ initStep'
            BY <1>6 DEF LoseKeyFile, KeyUsable
        <2> QED BY <2>1 DEF KeyInv
    <1> QED BY <1>3, <1>4, <1>5, <1>6 DEF KeyNext

-----------------------------------------------------------------------------
(* The invariant *)

LEMMA KvInitial == Init => KvInv
    <1> SUFFICES ASSUME Init PROVE KvInv
        OBVIOUS
    <1> USE DEF Init
    <1>1. TypeOK
        <2>1. initStep \in BOOLEAN
            BY Zenon
        <2>2. keyFile \in 0 .. MaxKeys + 1 /\ newKeys \in 0 .. MaxKeys
            BY KvAssumption DEF Missing
        <2>3. session \in [Keys -> Entry \cup {Absent}]
            OBVIOUS
        <2> QED BY <2>1, <2>2, <2>3 DEF TypeOK, Steps, Torn
    <1>2. TableInv
        BY DEF TableInv, Sound, RowsOf
    <1>3. ExpiryInv
        BY DEF ExpiryInv, FreshAt
    <1>4. KeyInv
        BY DEF KeyInv, KeyUsable
    <1> QED BY <1>1, <1>2, <1>3, <1>4 DEF KvInv

LEMMA KvInductive == ASSUME KvInv, [Next]_vars PROVE KvInv'
    <1> USE DEF KvInv
    <1>1. CASE UNCHANGED vars
        <2>1. TypeOK'
            BY <1>1 DEF vars, TypeOK
        <2>2. TableInv'
            BY <1>1, TableSame DEF vars
        <2>3. ExpiryInv'
            BY <1>1 DEF vars, ExpiryInv, FreshAt, SessionFreshAt, IsLatest, Live, Present
        <2>4. KeyInv'
            BY <1>1 DEF vars, KeyInv, KeyUsable, Readable, SealedBy, IsLatest, Live, Present,
                        HasPersistedEncryptedValues
        <2> QED BY <2>1, <2>2, <2>3, <2>4
    <1>2. CASE EditingNext
        <2>1. EditStep
            BY <1>2, EditingEdits
        <2> QED BY <2>1, EditTyped, EditKeepsTable, EditKeepsExpiry, EditKeepsKey DEF EditStep
    <1>3. CASE \E c \in Commands : Initialize(c)
        BY <1>3, InitializeTyped, InitializeKeepsTable, InitializeKeepsExpiry, InitializeKeepsKey
    <1>4. CASE ExpireStaleEntries
        <2>1. Edits(session') /\ cmd # "none" /\ UNCHANGED <<rows, tx, cmd, keyFile, newKeys, initStep>>
            BY <1>4, ExpireEdits DEF ExpireStaleEntries, keyVars
        <2> QED BY <1>4, <2>1, OthersTyped, EditKeepsTable, ExpireKeepsExpiry, EditKeepsKey
    <1>5. CASE PurgeStaleVersions
        BY <1>5, OthersTyped, PurgeKeepsTable, PurgeKeepsExpiry, PurgeKeepsKey
    <1>6. CASE PersistToTransaction
        BY <1>6, PersistTyped, PersistKeepsTable, PersistKeepsExpiry, PersistKeepsKey
    <1>7. CASE DeployAborts \/ Commit \/ Rollback \/ Tick
        BY <1>7, OthersTyped, OthersKeepTable, OthersKeepExpiry, OthersKeepKey
    <1>8. CASE KeyNext
        BY <1>8, KeysTyped, OthersKeepTable, OthersKeepExpiry, KeyNextKeepsKey
    <1> QED BY <1>1, <1>2, <1>3, <1>4, <1>5, <1>6, <1>7, <1>8 DEF Next, EditingNext, KeyNext

LEMMA KvInvHolds == Spec => []KvInv
    BY KvInitial, KvInductive, PTL DEF Spec

-----------------------------------------------------------------------------
(* The results *)

\* Versions of a key stay unique in a table without a primary key, and no key
\* that a committed build found past its ttl is answered again, whatever is
\* put, deleted, revived, pruned and rolled back.
THEOREM TableStaysSound == Spec => []TableIsSound
    <1>1. KvInv => TableIsSound
        BY DEF KvInv, TableInv, Sound, ExpiryInv, FreshAt, TableIsSound, VersionsUnique,
               ExpiredAreGone
    <1> QED BY <1>1, KvInvHolds, PTL

\* A usable kv.key opens every secret in kive.db.
THEOREM SecretsStayReadable == Spec => []SecretsReadable
    <1>1. KvInv => SecretsReadable
        BY DEF KvInv, KeyInv, Readable, SealedBy, SecretsReadable, DecryptFails
    <1> QED BY <1>1, KvInvHolds, PTL

-----------------------------------------------------------------------------
(* The refinement *)

LEMMA RowsContent ==
    ASSUME NEW R \in SUBSET Row, Sound(R), NEW k \in Keys
    PROVE  /\ RowsOf(R, k) = {} => ContentOfRows(R)[k] = Nothing
           /\ \A r \in R : r.key = k /\ IsLatest(R, r) =>
                ContentOfRows(R)[k] = IF r.del THEN Nothing ELSE r.val
           /\ ContentOfRows(R)[k] \in Sealed \cup {Nothing}
    <1>1. RowsOf(R, k) = {} => ContentOfRows(R)[k] = Nothing
        BY DEF ContentOfRows
    <1>2. ASSUME NEW r \in R, r.key = k, IsLatest(R, r)
          PROVE  ContentOfRows(R)[k] = IF r.del THEN Nothing ELSE r.val
        BY <1>2, LatestIsOnly DEF ContentOfRows
    <1>3. ContentOfRows(R)[k] \in Sealed \cup {Nothing}
        <2>1. CASE RowsOf(R, k) = {}
            BY <1>1, <2>1
        <2>2. CASE RowsOf(R, k) # {}
            <3>1. Latest(R, k) \in R /\ Latest(R, k).key = k /\ IsLatest(R, Latest(R, k))
                BY <2>2, LatestIs
            <3> QED BY <1>2, <3>1 DEF Row
        <2> QED BY <2>1, <2>2
    <1> QED BY <1>1, <1>2, <1>3

LEMMA ContentsAreFunctions ==
    ASSUME NEW R, NEW S
    PROVE  /\ ContentOfRows(R) = [k \in Keys |-> ContentOfRows(R)[k]]
           /\ ContentOfSession(S) = [k \in Keys |-> ContentOfSession(S)[k]]
           /\ \A k \in Keys : ContentOfSession(S)[k] = IF Live(S[k]) THEN S[k].val ELSE Nothing
    BY DEF ContentOfRows, ContentOfSession

LEMMA SessionIsDictionary ==
    ASSUME NEW S \in [Keys -> Entry \cup {Absent}]
    PROVE  ContentOfSession(S) \in [Keys -> Sealed \cup {Nothing}]
    <1>1. \A k \in Keys : ContentOfSession(S)[k] \in Sealed \cup {Nothing}
        BY ContentsAreFunctions DEF Live, Present, Entry, Absent
    <1> QED BY <1>1, ContentsAreFunctions

\* A command sees what is published.
LEMMA LoadedContent ==
    ASSUME TypeOK, TableInv
    PROVE  ContentOfSession(LoadFromTransaction(rows)) = ContentOfRows(rows)
    <1> DEFINE S == LoadFromTransaction(rows)
    <1>1. rows \in SUBSET Row /\ Sound(rows)
        BY DEF TypeOK, TableInv
    <1>2. ASSUME NEW k \in Keys PROVE ContentOfSession(S)[k] = ContentOfRows(rows)[k]
        <2>1. ContentOfSession(S)[k] = IF Live(S[k]) THEN S[k].val ELSE Nothing
            BY ContentsAreFunctions
        <2>2. CASE RowsOf(rows, k) = {}
            <3>1. S[k] = Absent
                BY <1>1, <2>2, LoadedEntry
            <3>2. ~ Live(S[k])
                BY <3>1, SMTT(60) DEF Live, Present, Absent
            <3> QED BY <1>1, <2>1, <2>2, <3>2, RowsContent
        <2>3. CASE RowsOf(rows, k) # {}
            <3>1. RowMatches(Latest(rows, k), S[k]) /\ Present(S[k])
                BY <1>1, <2>3, LoadedEntry
            <3>2. ContentOfRows(rows)[k] = IF Latest(rows, k).del THEN Nothing ELSE Latest(rows, k).val
                BY <1>1, <2>3, LatestIs, RowsContent
            <3> QED BY <2>1, <3>1, <3>2 DEF RowMatches, Live
        <2> QED BY <2>2, <2>3
    <1> HIDE DEF S
    <1>3. ContentOfSession(S) = ContentOfRows(rows)
        BY <1>2, ContentsAreFunctions
    <1> QED BY <1>3 DEF S

\* Pruning changes no content.
LEMMA PrunedContent ==
    ASSUME TypeOK, TableInv, PurgeStaleVersions
    PROVE  ContentOfRows(tx') = ContentOfRows(tx)
    <1>1. tx \in SUBSET Row /\ Sound(tx) /\ tx' \in SUBSET Row /\ Sound(tx') /\ tx' \subseteq tx
        BY PurgeKeepsTable DEF TypeOK, TableInv, PurgeStaleVersions, Sound, IsLatest, RowsOf
    <1>2. ASSUME NEW k \in Keys PROVE ContentOfRows(tx')[k] = ContentOfRows(tx)[k]
        <2>1. CASE RowsOf(tx, k) = {}
            <3>1. RowsOf(tx', k) = {}
                BY <1>1, <2>1 DEF RowsOf
            <3> QED BY <1>1, <2>1, <3>1, RowsContent
        <2>2. CASE RowsOf(tx, k) # {}
            <3> DEFINE l == Latest(tx, k)
            <3>1. l \in tx /\ l.key = k /\ IsLatest(tx, l)
                BY <1>1, <2>2, LatestIs
            <3>2. l \in tx' \/ (l.del /\ RowsOf(tx', k) = {})
                BY <1>1, <2>2, PrunedWhole
            <3> HIDE DEF l
            <3>3. IsLatest(tx', l)
                BY <1>1, <3>1 DEF IsLatest
            <3>4. ContentOfRows(tx)[k] = IF l.del THEN Nothing ELSE l.val
                BY <1>1, <3>1, RowsContent
            <3>5. CASE l \in tx'
                BY <1>1, <3>1, <3>3, <3>4, <3>5, RowsContent
            <3>6. CASE l.del /\ RowsOf(tx', k) = {}
                BY <1>1, <3>4, <3>6, RowsContent
            <3> QED BY <3>2, <3>5, <3>6
        <2> QED BY <2>1, <2>2
    <1> QED BY <1>2, ContentsAreFunctions

\* A flush makes the transaction hold what the session holds.
LEMMA FlushedContent ==
    ASSUME TypeOK, TableInv, PersistToTransaction
    PROVE  /\ ContentOfRows(tx') = ContentOfSession(session)
           /\ ContentOfSession(session') = ContentOfSession(session)
    <1>1. tx \in SUBSET Row /\ Sound(tx) /\ tx' \in SUBSET Row /\ Sound(tx') /\ cmd # "none"
        BY PersistKeepsTable, FlushedRows DEF TypeOK, TableInv, Sound, IsLatest, RowsOf
    <1>2. ASSUME NEW k \in Keys PROVE ContentOfRows(tx')[k] = ContentOfSession(session)[k]
        <2>1. ContentOfSession(session)[k] = IF Live(session[k]) THEN session[k].val ELSE Nothing
            BY ContentsAreFunctions
        <2>2. CASE session[k].chg
            <3>1. session[k] \in Entry /\ Present(session[k])
                BY <2>2, ChangedIsEntry
            <3>2. NewRow(k) \in tx' /\ NewRow(k).key = k /\ IsLatest(tx', NewRow(k))
                BY <2>2, FlushedRows
            <3>3. NewRow(k).del = session[k].del /\ NewRow(k).val = session[k].val
                BY DEF NewRow
            <3> QED BY <1>1, <2>1, <3>1, <3>2, <3>3, RowsContent DEF Live
        <2>3. CASE ~ session[k].chg
            <3>1. RowsOf(tx', k) = RowsOf(tx, k)
                BY <2>3, FlushedRows
            <3>2. CASE RowsOf(tx, k) = {}
                <4>1. ~ Live(session[k])
                    BY <1>1, <2>3, <3>2 DEF TableInv, InStep, Live, RowsOf
                <4> QED BY <1>1, <2>1, <3>1, <3>2, <4>1, RowsContent
            <3>3. CASE RowsOf(tx, k) # {}
                <4> DEFINE l == Latest(tx, k)
                <4>1. l \in tx /\ l.key = k /\ IsLatest(tx, l)
                    BY <1>1, <3>3, LatestIs
                <4> HIDE DEF l
                <4>2. RowMatches(l, session[k]) /\ Present(session[k])
                    BY <1>1, <2>3, <4>1, UnchangedIsLatest
                <4>3. l \in tx' /\ IsLatest(tx', l)
                    BY <2>3, <4>1, FlushedRows
                <4>4. ContentOfRows(tx')[k] = IF l.del THEN Nothing ELSE l.val
                    BY <1>1, <4>1, <4>3, RowsContent
                <4> QED BY <2>1, <4>2, <4>4 DEF RowMatches, Live
            <3> QED BY <3>2, <3>3
        <2> QED BY <2>2, <2>3
    <1>3. ASSUME NEW k \in Keys PROVE ContentOfSession(session')[k] = ContentOfSession(session)[k]
        <2>1. session'[k].val = session[k].val /\ (Live(session'[k]) <=> Live(session[k]))
            BY FlushedSession DEF RowMatches, NewRow, Live, Present
        <2> QED BY <2>1, ContentsAreFunctions
    <1> QED BY <1>2, <1>3, ContentsAreFunctions

LEMMA OpensDict ==
    ASSUME TypeOK, TableInv, NEW c \in Commands, Initialize(c) PROVE Dict!Open
    <1>1. cmd = "none" /\ cmd' = c /\ c # "none" /\ rows' = rows /\ tx' = rows
        BY DEF Initialize, Commands
    <1>2. ContentOfSession(session') = ContentOfRows(rows)
        BY LoadedContent DEF Initialize
    <1> QED BY <1>1, <1>2 DEF Dict!Open

LEMMA ChangesDict ==
    ASSUME TypeOK, cmd # "none", Edits(session'), UNCHANGED <<rows, tx, cmd>> PROVE Dict!Change
    <1>1. ContentOfSession(session') \in [Keys -> Sealed \cup {Nothing}]
        BY SessionIsDictionary DEF Edits
    <1> QED BY <1>1 DEF Dict!Change, Dict!Dictionaries

LEMMA FlushesDict ==
    ASSUME TypeOK, TableInv, PersistToTransaction PROVE Dict!Flush
    <1>1. cmd # "none" /\ cmd' = cmd /\ rows' = rows
        BY DEF PersistToTransaction
    <1> QED BY <1>1, FlushedContent DEF Dict!Flush

LEMMA CommitsDict == ASSUME Commit PROVE Dict!Commit
    <1>1. cmd # "none" /\ cmd' = "none" /\ rows' = tx
        BY DEF Commit, Close
    <1> QED BY <1>1 DEF Dict!Commit

LEMMA AbandonsDict == ASSUME Rollback PROVE Dict!Abandon
    <1>1. cmd # "none" /\ cmd' = "none" /\ rows' = rows
        BY DEF Rollback, Close
    <1> QED BY <1>1 DEF Dict!Abandon

LEMMA KvStepIsDictStep ==
    ASSUME KvInv, [Next]_vars PROVE [Dict!Next]_(Dict!vars)
    <1>0. TypeOK /\ TableInv
        BY DEF KvInv
    <1>1. CASE UNCHANGED <<rows, tx, session, cmd>>
        BY <1>1 DEF Dict!vars
    <1>2. CASE EditingNext
        <2>1. EditStep
            BY <1>0, <1>2, EditingEdits
        <2>2. Dict!Change
            BY <1>0, <2>1, ChangesDict DEF EditStep
        <2> QED BY <2>2 DEF Dict!Next
    <1>3. CASE \E c \in Commands : Initialize(c)
        BY <1>0, <1>3, OpensDict DEF Dict!Next
    <1>4. CASE ExpireStaleEntries
        <2>1. Edits(session') /\ cmd # "none" /\ UNCHANGED <<rows, tx, cmd>>
            BY <1>0, <1>4, ExpireEdits DEF ExpireStaleEntries
        <2> QED BY <1>0, <2>1, ChangesDict DEF Dict!Next
    <1>5. CASE PurgeStaleVersions
        <2>1. ContentOfRows(tx') = ContentOfRows(tx)
            BY <1>0, <1>5, PrunedContent
        <2>2. UNCHANGED <<rows, session, cmd>>
            BY <1>5 DEF PurgeStaleVersions
        <2> QED BY <2>1, <2>2 DEF Dict!vars
    <1>6. CASE PersistToTransaction
        BY <1>0, <1>6, FlushesDict DEF Dict!Next
    <1>7. CASE Commit
        BY <1>7, CommitsDict DEF Dict!Next
    <1>8. CASE Rollback
        BY <1>8, AbandonsDict DEF Dict!Next
    <1>9. CASE DeployAborts \/ Tick \/ KeyNext
        <2>1. UNCHANGED <<rows, tx, session, cmd>>
            BY <1>9 DEF DeployAborts, Tick, KeyNext, CreateKeyFile, WriteKeyFile, AbortKeyFile,
                        LoseKeyFile, kvVars
        <2> QED BY <1>1, <2>1
    <1>10. CASE UNCHANGED vars
        BY <1>1, <1>10 DEF vars
    <1> QED BY <1>2, <1>3, <1>4, <1>5, <1>6, <1>7, <1>8, <1>9, <1>10
            DEF Next, EditingNext, KeyNext

LEMMA KvInitIsDictInit == Init => Dict!Init
    <1> SUFFICES ASSUME Init PROVE Dict!Init
        OBVIOUS
    <1>1. rows = {} /\ cmd = "none"
        BY DEF Init
    <1>2. \A k \in Keys : ContentOfRows(rows)[k] = Nothing
        BY <1>1 DEF ContentOfRows, RowsOf
    <1>3. ContentOfRows(rows) \in [Keys -> Sealed \cup {Nothing}]
        BY <1>2, ContentsAreFunctions
    <1> QED BY <1>1, <1>3 DEF Dict!Init, Dict!Dictionaries

\* The versioned store, with its sessions, tombstones, expiry and pruning,
\* implements the dictionary: every step is a step of KvDict or changes
\* nothing a reader sees.
THEOREM ImplementsDictionary == Spec => IsDictionary
    BY KvInvHolds, KvStepIsDictStep, KvInitIsDictInit, PTL DEF Spec, IsDictionary, Dict!Spec
=============================================================================
