-------------------------------- MODULE Certs --------------------------------
(***************************************************************************)
(* Certificates of a job.  A build issues them per allocation or shared by *)
(* all allocations, keeps the ones it finds in the key-value store, and    *)
(* issues new ones when the CA or the job's certificate configuration      *)
(* changed, when one is missing, or when one is about to expire.  Days are *)
(* the unit of time.                                                       *)
(***************************************************************************)
EXTENDS Integers, FiniteSets

CONSTANTS
  Workers,
  Ttl,        \* certs_ttl
  Buffer,     \* certs_renewal_buffer
  CaTtl,      \* lifetime of a CA
  MaxDay,     \* bound on time
  MaxCa,      \* bound on CA replacements
  MaxConfig,  \* bound on edits of the certificate configuration
  NoCert

VARIABLES
  day,
  ca,         \* secrets/ca.crt: number and last day
  config,     \* certs of job.conf in the workspace: kind and edit number
  alloc,      \* the job's rows: "none", "in" (active or disabled), "removed"
  stored,     \* certs/<name> of kive/job/<job>/worker/<ip>
  appliedCa,  \* build_hashes: applied hash of the CA
  appliedConfig,  \* build_hashes: applied hash of the configuration
  built       \* ghost: day, CA and configuration of the last build

certVars == <<day, ca, config, alloc, stored, appliedCa, appliedConfig, built>>

Kinds == {"none", "one", "each"}

CertsInit ==
  /\ day = 1
  /\ ca = [id |-> 1, last |-> 1 + CaTtl]
  /\ config \in [kind : Kinds, edit : {1}]
  /\ alloc = [w \in Workers |-> "none"]
  /\ stored = [w \in Workers |-> NoCert]
  /\ appliedCa = 0 /\ appliedConfig = 0
  /\ built = [day |-> 0, ca |-> 0, config |-> config]

-----------------------------------------------------------------------------
Tick ==
  /\ day < MaxDay
  /\ day' = day + 1
  /\ UNCHANGED <<ca, config, alloc, stored, appliedCa, appliedConfig, built>>

(* The operator replaces secrets/ca.crt and ca.key. *)
ReplaceCa ==
  /\ ca.id < MaxCa
  /\ ca' = [id |-> ca.id + 1, last |-> day + CaTtl]
  /\ UNCHANGED <<day, config, alloc, stored, appliedCa, appliedConfig, built>>

EditConfig(kind) ==
  /\ config.edit < MaxConfig
  /\ config' = [kind |-> kind, edit |-> config.edit + 1]
  /\ UNCHANGED <<day, ca, alloc, stored, appliedCa, appliedConfig, built>>

-----------------------------------------------------------------------------

CertNeedsRenewal(last) == day >= last \/ (Buffer > 0 /\ day >= last - Buffer)

(* As `kive cat certs` and the pushed metrics report a certificate. *)
CertExpiryStatus(last) ==
  IF day > last THEN "expired" ELSE IF CertNeedsRenewal(last) THEN "expiring" ELSE "ok"

(* A build stops when the CA has expired; a CA that soon will only warns. *)
CheckCAExpiry == CertExpiryStatus(ca.last) # "expired"

GenerateCert(names) ==
  [ca |-> ca.id, names |-> names, last |-> day + Ttl, kind |-> config.kind, edit |-> config.edit]

WorkerCertNeedsRegeneration(certs, w) ==
  certs[w] = NoCert \/ CertNeedsRenewal(certs[w].last)

(* Mutant: only the first allocation is looked at. *)
CertNeedsRegenerationFirstOnly(certs, ws) ==
  \/ ca.id # appliedCa
  \/ config.edit # appliedConfig
  \/ WorkerCertNeedsRegeneration(certs, CHOOSE w \in ws : TRUE)

(* One missing or expiring certificate renews those of all allocations. *)
CertNeedsRegeneration(certs, ws) ==
  \/ ca.id # appliedCa
  \/ config.edit # appliedConfig
  \/ \E w \in ws : WorkerCertNeedsRegeneration(certs, w)

BuildSharedCertPEM(certs, ws) ==
  IF CertNeedsRegeneration(certs, ws)
    THEN [w \in Workers |-> IF w \in ws THEN GenerateCert(ws) ELSE certs[w]]
  ELSE LET first == CHOOSE w \in ws : TRUE
       IN  [w \in Workers |-> IF w \in ws THEN certs[first] ELSE certs[w]]

BuildWorkerCertPEM(certs, ws) ==
  IF CertNeedsRegeneration(certs, ws)
    THEN [w \in Workers |-> IF w \in ws THEN GenerateCert({w}) ELSE certs[w]]
  ELSE certs

(* buildJobCerts, after the variables of removed allocations were purged. *)
BuildJobCerts(certs, rows) ==
  LET ws == {w \in Workers : rows[w] = "in"}
  IN  IF config.kind = "none" \/ ws = {}
        THEN [w \in Workers |-> IF rows[w] = "none" THEN certs[w] ELSE NoCert]
      ELSE IF config.kind = "one" THEN BuildSharedCertPEM(certs, ws)
      ELSE BuildWorkerCertPEM(certs, ws)

(* A build that commits, with the job placed on some workers; the keys of   *)
(* removed allocations go with BuildJobAllocationVariables.  A job without  *)
(* rows is not looked at, and its configuration stays unapplied.            *)
Build(placed) ==
  LET rows == [w \in Workers |-> IF w \in placed THEN "in"
                                 ELSE IF alloc[w] = "none" THEN "none" ELSE "removed"]
      allocated == \E w \in Workers : rows[w] # "none"
      certs == IF allocated THEN BuildJobCerts(stored, rows) ELSE stored
  IN  /\ CheckCAExpiry
      /\ alloc' = rows
      /\ stored' = [w \in Workers |-> IF rows[w] = "removed" THEN NoCert ELSE certs[w]]
      /\ appliedCa' = ca.id
      /\ appliedConfig' = IF allocated THEN config.edit ELSE appliedConfig
      /\ built' = [day |-> day, ca |-> ca.id, config |-> config]
      /\ UNCHANGED <<day, ca, config>>

(* gc deletes the rows of removed allocations and their keys. *)
Gc ==
  /\ \E w \in Workers : alloc[w] = "removed"
  /\ alloc' = [w \in Workers |-> IF alloc[w] = "removed" THEN "none" ELSE alloc[w]]
  /\ stored' = [w \in Workers |-> IF alloc[w] = "removed" THEN NoCert ELSE stored[w]]
  /\ UNCHANGED <<day, ca, config, appliedCa, appliedConfig, built>>

CertsNext ==
  \/ Tick
  \/ ReplaceCa
  \/ \E kind \in Kinds : EditConfig(kind)
  \/ \E placed \in SUBSET Workers : Build(placed)
  \/ Gc

CertsSpec == CertsInit /\ [][CertsNext]_certVars

-----------------------------------------------------------------------------
(* Properties. *)

(* Every allocation has a certificate of the CA and the configuration of    *)
(* the last build that names its worker, in whatever order allocations came *)
(* and went, the CA was replaced and the configuration was edited; removed  *)
(* ones have none.                                                          *)
CertsFitAllocations ==
  \A w \in Workers :
    IF alloc[w] = "in"
      THEN IF built.config.kind = "none" THEN stored[w] = NoCert
           ELSE /\ stored[w] # NoCert
                /\ stored[w].ca = built.ca /\ w \in stored[w].names
                /\ stored[w].kind = built.config.kind /\ stored[w].edit = built.config.edit
      ELSE stored[w] = NoCert

(* Allocations that share a certificate hold the same one. *)
SharedIsOne ==
  \A v, w \in Workers :
    alloc[v] = "in" /\ alloc[w] = "in" /\ built.config.kind = "one" => stored[v] = stored[w]

(* With builds no further apart than the renewal buffer no certificate      *)
(* expires in use.                                                          *)
NoExpiryBetweenBuilds ==
  day <= built.day + Buffer =>
    \A w \in Workers : alloc[w] = "in" /\ stored[w] # NoCert => day < stored[w].last

=============================================================================
