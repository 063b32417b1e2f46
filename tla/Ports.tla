-------------------------------- MODULE Ports --------------------------------
(***************************************************************************)
(* How successive builds number the ports of jobs.  The rows of job_ports  *)
(* outlive a build: a port the manifest leaves to kive keeps its number as *)
(* long as the pool still holds it.  Jobs are taken in order of name and   *)
(* the allocator gives numbers back on the way, so what a port gets        *)
(* depends on the jobs before it.  A build that fails changes nothing.     *)
(***************************************************************************)
EXTENDS Integers, Sequences

CONSTANTS
  Jobs,        \* job names
  Names,       \* port names
  NameOrder,   \* set of pairs: the order of job names and of port names
  Prefixed,    \* pairs <<job, name>> where the name starts with "<job>_"
  Pools,       \* values of port_range, sets of numbers
  FixedPorts,  \* numbers a manifest may ask for (no check refuses zero)
  Absent,      \* what a manifest says of a port it does not declare,
  Provisioned, \*   and of one it leaves to kive
  None         \* no row, no entry in the allocator

Keys == Jobs \X Names

(* What a manifest says of a port. *)
Bindings == {Absent, Provisioned} \cup FixedPorts

ASSUME NotNumbers ==
  /\ None \notin (UNION Pools) \cup FixedPorts
  /\ Absent # Provisioned /\ {Absent, Provisioned} \cap FixedPorts = {}

(* Names are sorted as strings: of jobs that are left, and of ports of a    *)
(* job that are left, one is the first.                                     *)
ASSUME NamesOrdered ==
  \A S \in ((SUBSET Jobs) \cup (SUBSET Names)) \ {{}} :
    \E x \in S : \A y \in S \ {x} : <<x, y>> \in NameOrder

VARIABLES
  rows,      \* job_ports as committed: number of each port, None when it has no row
  tx,        \* job_ports as the running build sees it
  existing,  \* the allocator: numbers by job and name
  used,      \* the allocator: usedNumbers
  build      \* the running build

portVars == <<rows, tx, existing, used, build>>

Idle == [pc |-> "idle", manifest |-> [k \in Keys |-> Absent], jobs |-> {}, pool |-> {},
         toSync |-> {}, job |-> <<>>, names |-> {}]

NumbersOf(f) == {f[k] : k \in Keys} \ {None}

PortsInit ==
  /\ rows = [k \in Keys |-> None]
  /\ tx = rows /\ existing = rows /\ used = {}
  /\ build = Idle

(* The first of a set in the order of names. *)
Least(S) == CHOOSE x \in S : \A y \in S \ {x} : <<x, y>> \in NameOrder

-----------------------------------------------------------------------------
(* buildPortAllocator: every stored number is taken, those of jobs that     *)
(* this build will remove included.                                         *)
NewPortAllocator(manifest, jobs, pool) ==
  /\ build.pc = "idle"
  /\ \A k \in Keys : k[1] \notin jobs => manifest[k] = Absent
  /\ existing' = rows /\ used' = NumbersOf(rows) /\ tx' = rows
  /\ build' = [Idle EXCEPT !.pc = "job", !.manifest = manifest, !.jobs = jobs, !.pool = pool,
                           !.toSync = jobs]
  /\ UNCHANGED rows

(* The next job: numbers of ports it no longer declares are free from here  *)
(* on, and its rows are deleted.                                            *)
ReleaseRemoved ==
  LET j == Least(build.toSync)
      gone == {k \in Keys : k[1] = j /\ build.manifest[k] = Absent}
  IN  /\ build.pc = "job" /\ build.toSync # {}
      /\ used' = used \ {existing[k] : k \in gone}
      /\ existing' = [k \in Keys |-> IF k \in gone THEN None ELSE existing[k]]
      /\ tx' = [k \in Keys |-> IF k[1] = j THEN None ELSE tx[k]]
      /\ build' = [build EXCEPT !.pc = "port", !.job = <<j>>,
                     !.names = {k \in Keys : k[1] = j /\ build.manifest[k] # Absent},
                     !.toSync = @ \ {j}]
      /\ UNCHANGED rows

-----------------------------------------------------------------------------
(* PortRange.Contains, of the pool port_range gives in this build. *)
InPool(port) == port \in build.pool

ValidJobPortKey(k) == k \in Prefixed

(* The next port of the job. *)
NextKey == CHOOSE k \in build.names : \A l \in build.names \ {k} : <<k[2], l[2]>> \in NameOrder

Synced(k, port) ==
  /\ tx' = [tx EXCEPT ![k] = port]
  /\ existing' = [existing EXCEPT ![k] = port]
  /\ build' = [build EXCEPT !.names = @ \ {k}]
  /\ UNCHANGED rows

AbortBuild ==
  /\ build' = Idle
  /\ tx' = rows /\ existing' = rows /\ used' = NumbersOf(rows)
  /\ UNCHANGED rows

(* Mutant: the old number is kept only while it is the first free one. *)
AssignProvisionedAnew(k) ==
  LET free == build.pool \ (used \ {existing[k]})
  IN  IF free = {} THEN AbortBuild
      ELSE \E p \in free :
             /\ \A q \in free : p <= q
             /\ used' = (used \ {existing[k]}) \cup {p}
             /\ Synced(k, p)

(* The stored number when the pool holds it, or else the first free number  *)
(* of the pool; a stored number outside the pool is given back first.       *)
AssignProvisioned(k) ==
  LET free == build.pool \ (used \ {existing[k]})
  IN  IF InPool(existing[k])
        THEN used' = used \cup {existing[k]} /\ Synced(k, existing[k])
      ELSE IF free = {} THEN AbortBuild
      ELSE \E p \in free :
             /\ \A q \in free : p <= q
             /\ used' = (used \ {existing[k]}) \cup {p}
             /\ Synced(k, p)

(* Mutant: a number that another port holds is not refused. *)
AssignFixedUnchecked(k, port) ==
  /\ used' = (used \ {existing[k]}) \cup {port}
  /\ Synced(k, port)

(* A number the manifest names: refused when another port holds it, even    *)
(* one that gives it up later in this build.                                *)
AssignFixed(k, port) ==
  IF existing[k] # port /\ port \in used \ {existing[k]} THEN AbortBuild
  ELSE /\ used' = (used \ {existing[k]}) \cup {port}
       /\ Synced(k, port)

SyncPort ==
  /\ build.pc = "port" /\ build.names # {}
  /\ LET k == NextKey
     IN  IF ~ValidJobPortKey(k) THEN AbortBuild
         ELSE IF build.manifest[k] = Provisioned THEN AssignProvisioned(k)
         ELSE AssignFixed(k, build.manifest[k])

JobSynced ==
  /\ build.pc = "port" /\ build.names = {}
  /\ build' = [build EXCEPT !.pc = "job", !.job = <<>>]
  /\ UNCHANGED <<rows, tx, existing, used>>

(* Jobs that left the workspace lose their rows; then the build commits. *)
CommitPorts ==
  /\ build.pc = "job" /\ build.toSync = {}
  /\ rows' = [k \in Keys |-> IF k[1] \in build.jobs THEN tx[k] ELSE None]
  /\ tx' = rows' /\ existing' = rows' /\ used' = NumbersOf(rows')
  /\ build' = Idle

(* A later phase fails, or the command is cancelled or killed. *)
BuildFails == build.pc # "idle" /\ AbortBuild

-----------------------------------------------------------------------------
PortsNext ==
  \/ \E manifest \in [Keys -> Bindings],
        jobs \in SUBSET Jobs, pool \in Pools : NewPortAllocator(manifest, jobs, pool)
  \/ ReleaseRemoved
  \/ SyncPort
  \/ JobSynced
  \/ CommitPorts
  \/ BuildFails

PortsSpec == PortsInit /\ [][PortsNext]_portVars

-----------------------------------------------------------------------------
(* Properties. *)

(* No two ports of the bucket have the same number, whatever sequence of    *)
(* manifests was built: usedNumbers never lets go of a number that a row    *)
(* still has.                                                               *)
PortsDistinct ==
  \A k \in Keys, l \in Keys : k # l /\ rows[k] # None => rows[k] # rows[l]

(* A port left to kive that has a number in the pool keeps it through every *)
(* build that commits: other jobs, released numbers and fixed ports do not  *)
(* move it.                                                                 *)
ProvisionedSticky ==
  [][CommitPorts =>
       \A k \in Keys :
         build.manifest[k] = Provisioned /\ rows[k] \in build.pool => rows'[k] = rows[k]]_portVars

=============================================================================
