---------------------------- MODULE BuildProofs -----------------------------
(***************************************************************************)
(* Proofs about what a build decides: that the port allocator keeps        *)
(* numbers apart and in place; the order of versions and the ranges that   *)
(* specifiers describe; and that a deploy, which consults no policy, moves *)
(* allocations only as the last build allowed.                             *)
(***************************************************************************)
EXTENDS Ports, Upgrades, SequenceTheorems, TLAPS

-----------------------------------------------------------------------------
(* Ports: the inductive invariant. *)

Numbers == (UNION Pools) \cup FixedPorts

Distinct(f) == \A k \in Keys, l \in Keys : k # l /\ f[k] # None => f[k] # f[l]

(* The allocator's books: its numbers are distinct, all of them are taken,  *)
(* and the transaction holds no number the allocator does not have.         *)
BooksBalance ==
  /\ Distinct(existing)
  /\ \A k \in Keys : existing[k] # None => existing[k] \in used
  /\ \A k \in Keys : tx[k] \in {None, existing[k]}

(* The build's place: ports that are left are declared and belong to the    *)
(* job it is at.                                                            *)
AtOneJob ==
  /\ build.pc = "job" => build.names = {}
  /\ build.pc = "port" => /\ \A k \in build.names, l \in build.names : k[1] = l[1]
                          /\ \A k \in build.names : build.manifest[k] # Absent

(* What the running build has made of a number that must stay. *)
StaysSoFar ==
  build.pc # "idle" =>
    \A k \in Keys :
      /\ k[1] \notin build.jobs => build.manifest[k] = Absent
      /\ build.manifest[k] = Provisioned /\ rows[k] \in build.pool
           => existing[k] = rows[k] /\ (tx[k] = rows[k] \/ k \in build.names)

PortTypes ==
  /\ rows \in [Keys -> Numbers \cup {None}]
  /\ tx \in [Keys -> Numbers \cup {None}]
  /\ existing \in [Keys -> Numbers \cup {None}]
  /\ build \in [pc : {"idle", "job", "port"}, manifest : [Keys -> Bindings],
                jobs : SUBSET Jobs, pool : Pools \cup {{}}, toSync : SUBSET Jobs,
                job : {<<>>} \cup {<<j>> : j \in Jobs}, names : SUBSET Keys]

PortsInv == PortTypes /\ PortsDistinct /\ BooksBalance /\ AtOneJob /\ StaysSoFar

-----------------------------------------------------------------------------
(* Ports: the choices. *)

(* The next job is one of those that are left. *)
LEMMA LeastIsMember == ASSUME NEW S \in SUBSET Jobs, S # {} PROVE Least(S) \in S
  BY NamesOrdered DEF Least

(* The next port is one of those the job has left: ports of one job differ  *)
(* in name.                                                                 *)
LEMMA NextKeyIsLeft ==
  ASSUME PortTypes, AtOneJob, build.pc = "port", build.names # {}
  PROVE  NextKey \in build.names
  <1> DEFINE S == {k[2] : k \in build.names}
  <1>1. build.names \subseteq Keys
    BY DEF PortTypes
  <1>2. S \in SUBSET Names /\ S # {}
    BY <1>1 DEF Keys
  <1>3. PICK x \in S : \A y \in S \ {x} : <<x, y>> \in NameOrder
    BY <1>2, NamesOrdered
  <1>4. PICK k \in build.names : k[2] = x
    BY <1>3
  <1>5. ASSUME NEW l \in build.names \ {k} PROVE <<k[2], l[2]>> \in NameOrder
    <2>1. l[1] = k[1]
      BY <1>4, <1>5 DEF AtOneJob
    <2>2. l[2] # k[2]
      BY <2>1, <1>1, <1>4, <1>5 DEF Keys
    <2> QED BY <2>2, <1>3, <1>4, <1>5
  <1> QED BY <1>4, <1>5 DEF NextKey

-----------------------------------------------------------------------------
(* Ports: the steps. *)

(* A failed build leaves the committed rows as they were and the allocator  *)
(* of the next build in step with them.                                     *)
LEMMA AbortKeeps == PortsInv /\ AbortBuild => PortsInv'
  <1> SUFFICES ASSUME PortsInv, AbortBuild PROVE PortsInv'
    OBVIOUS
  <1> USE DEF PortsInv, AbortBuild
  <1>1. PortTypes'
    BY DEF PortTypes, Idle, Bindings
  <1>2. PortsDistinct'
    BY DEF PortsDistinct
  <1>3. BooksBalance'
    BY DEF BooksBalance, Distinct, PortsDistinct, NumbersOf
  <1>4. AtOneJob' /\ StaysSoFar'
    BY DEF AtOneJob, StaysSoFar, Idle
  <1> QED BY <1>1, <1>2, <1>3, <1>4

(* A build starts from the committed rows. *)
LEMMA NewAllocatorKeeps ==
  ASSUME NEW manifest \in [Keys -> Bindings], NEW jobs \in SUBSET Jobs, NEW pool \in Pools,
         PortsInv, NewPortAllocator(manifest, jobs, pool)
  PROVE  PortsInv'
  <1>1. build' = [pc |-> "job", manifest |-> manifest, jobs |-> jobs, pool |-> pool,
                  toSync |-> jobs, job |-> <<>>, names |-> {}]
    BY DEF NewPortAllocator, Idle
  <1>2. /\ \A k \in Keys : k[1] \notin jobs => manifest[k] = Absent
        /\ rows' = rows /\ existing' = rows /\ tx' = rows /\ used' = NumbersOf(rows)
    BY DEF NewPortAllocator
  <1>3. /\ build'.pc = "job" /\ build'.names = {}
        /\ build'.manifest = manifest /\ build'.jobs = jobs
    BY <1>1
  <1>4. PortTypes'
    BY <1>1, <1>2 DEF PortsInv, PortTypes
  <1>5. PortsDistinct'
    BY <1>2 DEF PortsInv, PortsDistinct
  <1>6. BooksBalance'
    BY <1>2 DEF PortsInv, BooksBalance, Distinct, PortsDistinct, NumbersOf
  <1>7. AtOneJob' /\ StaysSoFar'
    BY <1>2, <1>3 DEF AtOneJob, StaysSoFar
  <1> QED BY <1>4, <1>5, <1>6, <1>7 DEF PortsInv

(* Numbers that are given back belonged to no other port. *)
LEMMA ReleaseKeeps == PortsInv /\ ReleaseRemoved => PortsInv'
  <1> SUFFICES ASSUME PortsInv, ReleaseRemoved PROVE PortsInv'
    OBVIOUS
  <1> DEFINE j == Least(build.toSync)
             gone == {k \in Keys : k[1] = j /\ build.manifest[k] = Absent}
             left == {k \in Keys : k[1] = j /\ build.manifest[k] # Absent}
  <1>1. /\ build.pc = "job" /\ build.toSync # {} /\ rows' = rows
        /\ used' = used \ {existing[k] : k \in gone}
        /\ existing' = [k \in Keys |-> IF k \in gone THEN None ELSE existing[k]]
        /\ tx' = [k \in Keys |-> IF k[1] = j THEN None ELSE tx[k]]
        /\ build' = [build EXCEPT !.pc = "port", !.job = <<j>>, !.names = left,
                                  !.toSync = @ \ {j}]
    BY DEF ReleaseRemoved
  <1>2. j \in Jobs
    BY <1>1, LeastIsMember DEF PortsInv, PortTypes
  <1> HIDE DEF j
  <1>3. PortTypes'
    BY <1>1, <1>2 DEF PortsInv, PortTypes
  <1>4. PortsDistinct'
    BY <1>1 DEF PortsInv, PortsDistinct
  <1>5. BooksBalance'
    BY <1>1 DEF PortsInv, BooksBalance, Distinct
  <1>6. /\ build'.pc = "port" /\ build'.names = left /\ build'.manifest = build.manifest
        /\ build'.jobs = build.jobs /\ build'.pool = build.pool
    BY <1>1 DEF PortsInv, PortTypes
  <1>7. AtOneJob'
    BY <1>6 DEF AtOneJob
  <1>8. StaysSoFar'
    BY <1>1, <1>6, NotNumbers DEF PortsInv, AtOneJob, StaysSoFar
  <1> QED BY <1>3, <1>4, <1>5, <1>7, <1>8 DEF PortsInv

(* The bookkeeping of one port that is synced with a number no other port   *)
(* holds; a port that must stay is synced with the number it has.           *)
LEMMA SyncedKeeps ==
  ASSUME PortsInv, build.pc = "port",
         NEW k \in build.names, NEW port \in Numbers, Synced(k, port),
         used' = (used \ {existing[k]}) \cup {port},
         existing[k] = port \/ port \notin used \ {existing[k]},
         build.manifest[k] = Provisioned /\ existing[k] \in build.pool => port = existing[k]
  PROVE  PortsInv'
  <1>1. k \in Keys
    BY DEF PortsInv, PortTypes
  <1>2. /\ build'.pc = "port" /\ build'.names = build.names \ {k}
        /\ build'.manifest = build.manifest
        /\ build'.jobs = build.jobs /\ build'.pool = build.pool
    BY DEF PortsInv, PortTypes, Synced
  <1>3. PortTypes'
    BY <1>1 DEF PortsInv, PortTypes, Synced
  <1>4. PortsDistinct'
    BY DEF PortsInv, PortsDistinct, Synced
  <1>5. /\ \A l \in Keys : existing'[l] = IF l = k THEN port ELSE existing[l]
        /\ \A l \in Keys : tx'[l] = IF l = k THEN port ELSE tx[l]
    BY <1>1 DEF PortsInv, PortTypes, Synced
  <1>6. \A l \in Keys \ {k} : existing[l] # None => existing[l] # port /\ existing[l] # existing[k]
    BY <1>1 DEF PortsInv, BooksBalance, Distinct
  <1>7. BooksBalance'
    <2>1. Distinct(existing)'
      BY <1>5, <1>6 DEF PortsInv, BooksBalance, Distinct
    <2>2. \A l \in Keys : existing'[l] # None => existing'[l] \in used'
      BY <1>5, <1>6 DEF PortsInv, BooksBalance
    <2>3. \A l \in Keys : tx'[l] \in {None, existing'[l]}
      BY <1>5 DEF PortsInv, BooksBalance
    <2> QED BY <2>1, <2>2, <2>3 DEF BooksBalance
  <1>8. AtOneJob'
    BY <1>2 DEF PortsInv, AtOneJob
  <1>9. StaysSoFar'
    BY <1>2, <1>5 DEF PortsInv, StaysSoFar, Synced
  <1> QED BY <1>3, <1>4, <1>7, <1>8, <1>9 DEF PortsInv

(* Both ways to find a number satisfy that. *)
LEMMA SyncPortKeeps == PortsInv /\ SyncPort => PortsInv'
  <1> SUFFICES ASSUME PortsInv, SyncPort PROVE PortsInv'
    OBVIOUS
  <1>1. PICK k \in build.names :
          /\ build.pc = "port"
          /\ \/ AbortBuild
             \/ build.manifest[k] = Provisioned /\ AssignProvisioned(k)
             \/ build.manifest[k] # Provisioned /\ AssignFixed(k, build.manifest[k])
    BY NextKeyIsLeft DEF SyncPort, PortsInv
  <1>2. k \in Keys /\ existing[k] \in Numbers \cup {None} /\ build.pool \in Pools \cup {{}}
    BY DEF PortsInv, PortTypes
  <1>3. CASE AbortBuild
    BY <1>3, AbortKeeps
  <1>4. CASE build.manifest[k] = Provisioned /\ AssignProvisioned(k)
    <2>1. CASE InPool(existing[k])
      <3>1. used' = used \cup {existing[k]} /\ Synced(k, existing[k])
        BY <1>4, <2>1 DEF AssignProvisioned
      <3>2. existing[k] \in Numbers
        BY <1>2, <2>1 DEF InPool, Numbers
      <3>3. used' = (used \ {existing[k]}) \cup {existing[k]}
        BY <3>1
      <3> QED BY <1>1, <3>1, <3>2, <3>3, SyncedKeeps
    <2>2. CASE ~InPool(existing[k]) /\ ~AbortBuild
      <3>1. PICK p \in build.pool \ (used \ {existing[k]}) :
              used' = (used \ {existing[k]}) \cup {p} /\ Synced(k, p)
        BY <1>4, <2>2 DEF AssignProvisioned
      <3>2. p \in Numbers
        BY <1>2, <3>1 DEF Numbers
      <3>3. existing[k] \notin build.pool
        BY <2>2 DEF InPool
      <3> QED BY <1>1, <3>1, <3>2, <3>3, SyncedKeeps
    <2> QED BY <1>3, <2>1, <2>2
  <1>5. CASE build.manifest[k] # Provisioned /\ AssignFixed(k, build.manifest[k]) /\ ~AbortBuild
    <2> DEFINE port == build.manifest[k]
    <2>1. /\ existing[k] = port \/ port \notin used \ {existing[k]}
          /\ used' = (used \ {existing[k]}) \cup {port}
          /\ Synced(k, port)
      BY <1>5 DEF AssignFixed
    <2>2. port \in Numbers
      BY <1>1, <1>2, <1>5 DEF PortsInv, PortTypes, AtOneJob, Numbers, Bindings
    <2> QED BY <1>1, <1>5, <2>1, <2>2, SyncedKeeps
  <1> QED BY <1>1, <1>3, <1>4, <1>5

(* The next job. *)
LEMMA JobSyncedKeeps == PortsInv /\ JobSynced => PortsInv'
  <1> SUFFICES ASSUME PortsInv, JobSynced PROVE PortsInv'
    OBVIOUS
  <1>1. /\ build.pc = "port" /\ build.names = {}
        /\ rows' = rows /\ tx' = tx /\ existing' = existing /\ used' = used
        /\ build'.pc = "job" /\ build'.names = {} /\ build'.manifest = build.manifest
        /\ build'.jobs = build.jobs /\ build'.pool = build.pool
    BY DEF JobSynced, PortsInv, PortTypes
  <1>2. PortTypes'
    BY DEF JobSynced, PortsInv, PortTypes
  <1>3. PortsDistinct' /\ BooksBalance' /\ AtOneJob'
    BY <1>1 DEF PortsInv, PortsDistinct, BooksBalance, Distinct, AtOneJob
  <1>4. StaysSoFar'
    BY <1>1 DEF PortsInv, StaysSoFar
  <1> QED BY <1>2, <1>3, <1>4 DEF PortsInv

(* What is committed is part of what the allocator holds, so its numbers    *)
(* are distinct too.                                                        *)
LEMMA CommitKeeps == PortsInv /\ CommitPorts => PortsInv'
  <1> SUFFICES ASSUME PortsInv, CommitPorts PROVE PortsInv'
    OBVIOUS
  <1>1. /\ rows' = [k \in Keys |-> IF k[1] \in build.jobs THEN tx[k] ELSE None]
        /\ tx' = rows' /\ existing' = rows' /\ used' = NumbersOf(rows')
        /\ build' = Idle
    BY DEF CommitPorts
  <1>2. PortTypes'
    BY <1>1 DEF PortsInv, PortTypes, Idle, Bindings
  <1>3. PortsDistinct'
    BY <1>1 DEF PortsInv, BooksBalance, Distinct, PortsDistinct
  <1>4. BooksBalance'
    BY <1>1, <1>3 DEF BooksBalance, Distinct, PortsDistinct, NumbersOf
  <1>5. AtOneJob' /\ StaysSoFar'
    BY <1>1 DEF AtOneJob, StaysSoFar, Idle
  <1> QED BY <1>2, <1>3, <1>4, <1>5 DEF PortsInv

LEMMA PortsInductive == PortsInv /\ [PortsNext]_portVars => PortsInv'
  <1> SUFFICES ASSUME PortsInv, [PortsNext]_portVars PROVE PortsInv'
    OBVIOUS
  <1>1. CASE UNCHANGED portVars
    BY <1>1 DEF portVars, PortsInv, PortTypes, PortsDistinct, BooksBalance, Distinct, AtOneJob,
                StaysSoFar
  <1>2. CASE \E manifest \in [Keys -> Bindings], jobs \in SUBSET Jobs, pool \in Pools :
               NewPortAllocator(manifest, jobs, pool)
    BY <1>2, NewAllocatorKeeps
  <1>3. CASE ReleaseRemoved
    BY <1>3, ReleaseKeeps
  <1>4. CASE SyncPort
    BY <1>4, SyncPortKeeps
  <1>5. CASE JobSynced
    BY <1>5, JobSyncedKeeps
  <1>6. CASE CommitPorts
    BY <1>6, CommitKeeps
  <1>7. CASE BuildFails
    BY <1>7, AbortKeeps DEF BuildFails
  <1> QED BY <1>1, <1>2, <1>3, <1>4, <1>5, <1>6, <1>7 DEF PortsNext

LEMMA PortsInitial == PortsInit => PortsInv
  <1> SUFFICES ASSUME PortsInit PROVE PortsInv
    OBVIOUS
  <1> USE DEF PortsInit
  <1>1. PortTypes
    BY DEF PortTypes, Idle, Bindings
  <1>2. PortsDistinct /\ BooksBalance
    BY DEF PortsDistinct, BooksBalance, Distinct
  <1>3. AtOneJob /\ StaysSoFar
    BY DEF AtOneJob, StaysSoFar, Idle
  <1> QED BY <1>1, <1>2, <1>3 DEF PortsInv

LEMMA PortsInvHolds == PortsSpec => []PortsInv
  BY PortsInitial, PortsInductive, PTL DEF PortsSpec

-----------------------------------------------------------------------------
(* Ports: the results. *)

(* No two ports of a bucket ever have the same number in job_ports,         *)
(* whatever manifests are built, in whatever order, with whatever pools     *)
(* and however many builds fail on the way.                                 *)
THEOREM PortsAreDistinct == PortsSpec => []PortsDistinct
  <1>1. PortsInv => PortsDistinct
    BY DEF PortsInv
  <1> QED BY <1>1, PortsInvHolds, PTL

(* A build that commits leaves every port that is left to kive and has a    *)
(* number of the pool where it was.                                         *)
THEOREM ProvisionedStays == PortsSpec => ProvisionedSticky
  <1> DEFINE Stays ==
        CommitPorts =>
          \A k \in Keys :
            build.manifest[k] = Provisioned /\ rows[k] \in build.pool => rows'[k] = rows[k]
  <1>1. ASSUME PortsInv PROVE Stays
    <2> SUFFICES ASSUME CommitPorts, NEW k \in Keys, build.manifest[k] = Provisioned,
                        rows[k] \in build.pool
                 PROVE  rows'[k] = rows[k]
      OBVIOUS
    <2>1. build.pc = "job" /\ build.names = {}
      BY <1>1 DEF CommitPorts, PortsInv, AtOneJob
    <2>2. k[1] \in build.jobs /\ tx[k] = rows[k]
      BY <1>1, <2>1, NotNumbers DEF PortsInv, StaysSoFar
    <2> QED BY <2>2 DEF CommitPorts
  <1> QED BY <1>1, PortsInvHolds, PTL DEF ProvisionedSticky, Stays

-----------------------------------------------------------------------------
(* Upgrades: Version.Compare. *)

(* Every text parses to a version, whichever of its segments are written. *)
LEMMA ParsedIsVersion == ASSUME NEW text \in Texts PROVE ParseVersion(text) \in Versions
  <1>1. PICK n \in 1 .. 3 : text.segs \in [1 .. n -> Nat]
    BY DEF Texts
  <1>2. text.segs \in Seq(Nat) /\ Len(text.segs) = n
    BY <1>1
  <1>3. \A i \in 1 .. 3 : i <= Len(text.segs) => text.segs[i] \in Nat
    BY <1>1, <1>2
  <1>4. text.pre \in Nat
    BY DEF Texts
  <1> QED BY <1>3, <1>4 DEF ParseVersion, Versions

(* Versions are totally ordered by Compare, prereleases included: of two    *)
(* versions exactly one is before the other unless they are equal, and the  *)
(* relation is transitive.                                                  *)
THEOREM VersionsAreOrdered ==
  ASSUME NEW u \in Versions, NEW v \in Versions, NEW w \in Versions
  PROVE  /\ ~Before(u, u)
         /\ Before(u, v) => ~Before(v, u)
         /\ u # v => Before(u, v) \/ Before(v, u)
         /\ Before(u, v) /\ Before(v, w) => Before(u, w)
  <1> USE DEF Versions, Before, ReleaseBefore, SameRelease, PrereleaseBefore
  <1>1. ~Before(u, u)
    OBVIOUS
  <1>2. Before(u, v) => ~Before(v, u)
    OBVIOUS
  <1>3. u # v => Before(u, v) \/ Before(v, u)
    <2>1. u = v <=> u.major = v.major /\ u.minor = v.minor /\ u.patch = v.patch /\ u.pre = v.pre
      OBVIOUS
    <2> QED BY <2>1
  <1>4. Before(u, v) /\ Before(v, w) => Before(u, w)
    OBVIOUS
  <1> QED BY <1>1, <1>2, <1>3, <1>4

(* What ~= admits: with one segment the anchor's major, with two or three   *)
(* the anchor's major and minor; beyond that only prereleases of the next   *)
(* release, which compare as lower than it.                                 *)
THEOREM CompatibleStaysInRelease ==
  ASSUME NEW v \in Versions, NEW anchor \in Versions, NEW segments \in 1 .. 3,
         CompatibleReleaseSatisfied(v, anchor, segments)
  PROVE  \/ /\ v.major = anchor.major
            /\ segments # 1 => v.minor = anchor.minor
         \/ SameRelease(v, CompatibleUpper(anchor, segments)) /\ v.pre # 0
  BY DEF CompatibleReleaseSatisfied, CompatibleUpper, AtMost, Before, ReleaseBefore,
         SameRelease, PrereleaseBefore, Versions

(* The check that a demand's bounds are consistent refuses a demand exactly *)
(* when no version could meet it.                                           *)
THEOREM ConsistentIsSatisfiable ==
  ASSUME NEW min \in Versions, NEW max \in Versions
  PROVE  ConstraintConsistent({min}, {max})
           <=> \E v \in Versions : ConstraintSatisfies({min}, {max}, v)
  <1>1. ASSUME ConstraintConsistent({min}, {max})
        PROVE  ConstraintSatisfies({min}, {max}, min)
    BY <1>1, VersionsAreOrdered DEF ConstraintConsistent, ConstraintSatisfies, AtMost
  <1>2. ASSUME NEW v \in Versions, ConstraintSatisfies({min}, {max}, v)
        PROVE  ConstraintConsistent({min}, {max})
    <2>1. ~Before(v, min) /\ ~Before(max, v)
      BY <1>2 DEF ConstraintSatisfies, AtMost
    <2>2. ~Before(max, min)
      BY <2>1, VersionsAreOrdered
    <2> QED BY <2>2 DEF ConstraintConsistent, AtMost
  <1> QED BY <1>1, <1>2

-----------------------------------------------------------------------------
(* Upgrades: the inductive invariant. *)

Placed(w) == row[w] \in {"active", "disabled"}

(* The version of a placed allocation is known only once it was promoted:   *)
(* staging records the default one.                                         *)
Known(w) == applied[w] \notin {Unset, DefaultAllocationVersion}

UpgradeTypes ==
  /\ row \in [Hosts -> {"none", "active", "disabled", "removed"}]
  /\ target \in [Hosts -> Texts \cup {Unset}]
  /\ applied \in [Hosts -> Texts \cup {Unset}]
  /\ \A w \in Hosts : row[w] # "none" => target[w] \in Texts

(* A placed allocation is at its target or at a version the built manifest  *)
(* lists.                                                                   *)
AtTargetOrCompatible ==
  policy.from # {} =>
    \A w \in Hosts : Placed(w) /\ Known(w) =>
      \/ applied[w] = target[w]
      \/ BackwardCompatibilitySatisfies(policy.from, ParseVersion(applied[w]))

UpInv == UpgradeTypes /\ TargetNotBehind /\ AtTargetOrCompatible

LEMMA DefaultIsText == DefaultAllocationVersion \in Texts
  <1>1. <<0, 0, 0>> \in [1 .. 3 -> Nat]
    OBVIOUS
  <1> QED BY <1>1 DEF DefaultAllocationVersion, Texts

LEMMA UpInitial == UpInit => UpInv
  BY DEF UpInit, UpInv, UpgradeTypes, TargetNotBehind, AtTargetOrCompatible, Placed

(* A build that passes has compared the manifest's version with every       *)
(* version that a placed allocation is known to run, and writes it as the   *)
(* target of exactly those.                                                 *)
LEMMA BuildKeeps ==
  ASSUME UpInv, NEW m \in Manifests, NEW placed \in SUBSET Hosts,
         NEW disabled \in SUBSET placed, BuildJob(m, placed, disabled)
  PROVE  UpInv'
  <1> DEFINE version == NormalizeDeployVersion(m.version)
  <1>1. version \in Texts
    BY ManifestVersions, DefaultIsText DEF NormalizeDeployVersion
  <1>2. /\ row' = RowsAfter(placed, disabled) /\ applied' = applied
        /\ target' = [w \in Hosts |-> IF w \in placed THEN version ELSE target[w]]
        /\ policy' = [allowRollback |-> m.allowRollback, from |-> m.from]
        /\ ValidateRollbackPolicy(m, row') /\ ValidateBackwardCompatibility(m, row')
    BY DEF BuildJob, CommitBuild
  <1>3. \A w \in Hosts : /\ row'[w] \in {"active", "disabled"} <=> w \in placed
                         /\ row'[w] \in {"none", "active", "disabled", "removed"}
                         /\ row'[w] # "none" => w \in placed \/ row[w] # "none"
    BY <1>2 DEF RowsAfter
  <1>4. row' \in [Hosts -> {"none", "active", "disabled", "removed"}]
    BY <1>2, <1>3 DEF RowsAfter
  <1> HIDE DEF version
  <1>5. UpgradeTypes'
    BY <1>1, <1>2, <1>3, <1>4 DEF UpInv, UpgradeTypes
  <1>6. \A w \in placed : applied[w] # Unset => applied[w] \in ListAllocationAppliedVersions(row')
    BY <1>3 DEF ListAllocationAppliedVersions
  <1>7. TargetNotBehind'
    <2> SUFFICES ASSUME ~m.allowRollback, NEW w \in Hosts, w \in placed, applied[w] # Unset
                 PROVE  AtMost(ParseVersion(applied[w]), ParseVersion(version))
      BY <1>2, <1>3 DEF TargetNotBehind
    <2> QED BY <1>2, <1>6 DEF ValidateRollbackPolicy, version
  <1>8. AtTargetOrCompatible'
    <2> SUFFICES ASSUME m.from # {}, NEW w \in Hosts, w \in placed, applied[w] # Unset
                 PROVE  BackwardCompatibilitySatisfies(m.from, ParseVersion(applied[w]))
      BY <1>2, <1>3 DEF AtTargetOrCompatible, Placed, Known
    <2> QED BY <1>2, <1>6 DEF ValidateBackwardCompatibility
  <1> QED BY <1>5, <1>7, <1>8 DEF UpInv

LEMMA StageKeeps == ASSUME UpInv, NEW w \in Hosts, StageAllocation(w) PROVE UpInv'
  <1> USE DEF StageAllocation, UpInv
  <1>1. /\ row' = row /\ target' = target /\ policy' = policy
        /\ \A x \in Hosts : applied'[x] = IF x = w THEN DefaultAllocationVersion ELSE applied[x]
    BY DEF UpgradeTypes
  <1>2. UpgradeTypes'
    BY DefaultIsText DEF UpgradeTypes
  <1>3. TargetNotBehind'
    BY <1>1 DEF TargetNotBehind
  <1>4. AtTargetOrCompatible'
    BY <1>1 DEF AtTargetOrCompatible, Placed, Known
  <1> QED BY <1>2, <1>3, <1>4

(* A promoted allocation runs its target, which is not behind itself. *)
LEMMA PromoteKeeps == ASSUME UpInv, NEW w \in Hosts, PromoteAllocation(w) PROVE UpInv'
  <1>1. /\ row' = row /\ target' = target /\ policy' = policy
        /\ \A x \in Hosts : applied'[x] = IF x = w THEN target[w] ELSE applied[x]
    BY DEF PromoteAllocation, UpInv, UpgradeTypes
  <1>2. UpgradeTypes'
    BY DEF PromoteAllocation, UpInv, UpgradeTypes
  <1>3. AtMost(ParseVersion(target[w]), ParseVersion(target[w]))
    <2>1. target[w] \in Texts
      BY DEF PromoteAllocation, UpInv, UpgradeTypes
    <2> QED BY <2>1, ParsedIsVersion, VersionsAreOrdered DEF AtMost
  <1>4. TargetNotBehind'
    BY <1>1, <1>3 DEF UpInv, TargetNotBehind
  <1>5. AtTargetOrCompatible'
    BY <1>1 DEF UpInv, AtTargetOrCompatible, Placed, Known
  <1> QED BY <1>2, <1>4, <1>5 DEF UpInv

LEMMA CollectKeeps == ASSUME UpInv, NEW w \in Hosts, CollectAllocation(w) PROVE UpInv'
  <1>1. /\ policy' = policy
        /\ \A x \in Hosts : row'[x] = IF x = w THEN "none" ELSE row[x]
        /\ \A x \in Hosts \ {w} : target'[x] = target[x] /\ applied'[x] = applied[x]
    BY DEF CollectAllocation, UpInv, UpgradeTypes
  <1>2. UpgradeTypes'
    BY DEF CollectAllocation, UpInv, UpgradeTypes
  <1>3. TargetNotBehind'
    BY <1>1 DEF UpInv, TargetNotBehind
  <1>4. AtTargetOrCompatible'
    BY <1>1 DEF UpInv, AtTargetOrCompatible, Placed, Known
  <1> QED BY <1>2, <1>3, <1>4 DEF UpInv

LEMMA UpInductive == UpInv /\ [UpNext]_upVars => UpInv'
  <1> SUFFICES ASSUME UpInv, [UpNext]_upVars PROVE UpInv'
    OBVIOUS
  <1>1. CASE UNCHANGED upVars
    BY <1>1 DEF upVars, UpInv, UpgradeTypes, TargetNotBehind, AtTargetOrCompatible, Placed, Known
  <1>2. CASE \E m \in Manifests, placed \in SUBSET Hosts :
               \E disabled \in SUBSET placed : BuildJob(m, placed, disabled)
    BY <1>2, BuildKeeps
  <1>3. CASE \E w \in Hosts : StageAllocation(w) \/ PromoteAllocation(w) \/ CollectAllocation(w)
    BY <1>3, StageKeeps, PromoteKeeps, CollectKeeps
  <1> QED BY <1>1, <1>2, <1>3 DEF UpNext

LEMMA UpInvHolds == UpSpec => []UpInv
  BY UpInitial, UpInductive, PTL DEF UpSpec

-----------------------------------------------------------------------------
(* Upgrades: the results. *)

(* The targets a deploy reads are never behind what is deployed unless the  *)
(* built manifest allows a rollback.                                        *)
THEOREM TargetsNotBehind == UpSpec => []TargetNotBehind
  <1>1. UpInv => TargetNotBehind
    BY DEF UpInv
  <1> QED BY <1>1, UpInvHolds, PTL

(* The only step that changes the version an active allocation is known to  *)
(* run is its promotion, to its target.                                     *)
LEMMA MovesToTarget ==
  ASSUME UpInv, [UpNext]_upVars, NEW w \in Hosts, Moves(w)
  PROVE  applied'[w] = target[w]
  <1>1. applied' # applied
    BY DEF Moves
  <1>2. PICK x \in Hosts : StageAllocation(x) \/ PromoteAllocation(x) \/ CollectAllocation(x)
    BY <1>1 DEF UpNext, upVars, BuildJob, CommitBuild
  <1>3. x = w
    BY <1>2 DEF Moves, StageAllocation, PromoteAllocation, CollectAllocation, UpInv, UpgradeTypes
  <1> QED BY <1>2, <1>3 DEF Moves, StageAllocation, PromoteAllocation, CollectAllocation,
                            UpInv, UpgradeTypes

(* No sequence of builds, half-done deploys, removals and collections moves *)
(* an allocation to a lower version without a manifest that allows it.      *)
THEOREM NoDowngrade == UpSpec => NoSilentDowngrade
  <1> DEFINE Allowed ==
        \A w \in Hosts : Moves(w) /\ applied[w] # DefaultAllocationVersion
                           /\ Before(ParseVersion(applied'[w]), ParseVersion(applied[w]))
          => policy.allowRollback
  <1>1. ASSUME UpInv, [UpNext]_upVars PROVE Allowed
    <2> SUFFICES ASSUME NEW w \in Hosts, Moves(w), applied[w] # DefaultAllocationVersion,
                        Before(ParseVersion(applied'[w]), ParseVersion(applied[w])),
                        ~policy.allowRollback
                 PROVE  FALSE
      OBVIOUS
    <2>1. applied'[w] = target[w]
      BY <1>1, MovesToTarget
    <2>2. AtMost(ParseVersion(applied[w]), ParseVersion(target[w]))
      BY <1>1 DEF UpInv, TargetNotBehind, Moves
    <2> QED BY <2>1, <2>2 DEF AtMost
  <1> QED BY <1>1, UpInvHolds, PTL DEF UpSpec, NoSilentDowngrade, Allowed

(* Nor does any move it from a version the built manifest does not list. *)
THEOREM MovesFromCompatible == UpSpec => OnlyFromCompatible
  <1> DEFINE Listed ==
        \A w \in Hosts : Moves(w) /\ policy.from # {} /\ applied[w] # DefaultAllocationVersion
          => BackwardCompatibilitySatisfies(policy.from, ParseVersion(applied[w]))
  <1>1. ASSUME UpInv, [UpNext]_upVars PROVE Listed
    <2> SUFFICES ASSUME NEW w \in Hosts, Moves(w), policy.from # {},
                        applied[w] # DefaultAllocationVersion
                 PROVE  BackwardCompatibilitySatisfies(policy.from, ParseVersion(applied[w]))
      OBVIOUS
    <2>1. applied[w] # target[w]
      BY <1>1, MovesToTarget DEF Moves
    <2> QED BY <1>1, <2>1 DEF UpInv, AtTargetOrCompatible, Placed, Known, Moves
  <1> QED BY <1>1, UpInvHolds, PTL DEF UpSpec, OnlyFromCompatible, Listed
=============================================================================
