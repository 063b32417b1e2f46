------------------------------ MODULE MCBuild -------------------------------
(***************************************************************************)
(* What kive build decides from the workspace and stores: ports, the keys   *)
(* of jobs and workers, certificates, versions, the order of jobs,          *)
(* resources and ids, and the Prometheus configuration; and the order of a  *)
(* rollout. The components share no state here and are explored one at a    *)
(* time.                                                                    *)
(***************************************************************************)
EXTENDS Ports, Upgrades, FiniteSetsExt

CONSTANTS Empty, NoCert, Undeclared, w1, w2, j1, j2

VARIABLES
  scenario,  \* the component that runs
  workers, jobs, kvAlloc, kvWorker, kvTags, kvShared, kvJob, kvHook, kvMeta, kvCerts,
  kvBucket,
  day, ca, config, certAlloc, stored, appliedCa, appliedConfig, built,
  catalog, demPhase, demDone, builds,
  placed, pending, order, size, cap, roPhase, queue, at, roDone,
  admitted, draft, stage, tally,
  ws, files, scrAlloc, scrapeJobs, scrapeOf, live, settled, edits

(* Ports: two jobs, one of whose names is a prefix of the other's. *)
PortJobs == {"api", "api_v2"}
PortNames == {"api_http", "api_v2_http"}
PortOrder == {<<"api", "api_v2">>, <<"api_http", "api_v2_http">>}
PortPrefixed == {<<"api", "api_http">>, <<"api", "api_v2_http">>, <<"api_v2", "api_v2_http">>}
PortPools == {{3, 4}, {4, 5}}

(* Upgrades: versions with and without a prerelease, two ranges. *)
UpHosts == {"w1", "w2"}

V(segs, pre) == [segs |-> segs, pre |-> pre]
Specifier(relation, segs) == ParseVersionSpecifier(relation, V(segs, 0))

MCManifests ==
  {[version |-> v, allowRollback |-> r, minCount |-> 0, from |-> f] :
     v \in {V(<<1, 2, 0>>, 1), V(<<1, 2>>, 0), V(<<2>>, 0)}, r \in BOOLEAN,
     f \in {{}, {{Specifier("~=", <<1, 2, 0>>)}, {Specifier(">=", <<2>>), Specifier("<", <<3>>)}}}}
  \cup {[version |-> Unset, allowRollback |-> FALSE, minCount |-> 2, from |-> {}]}

(* Demands: three jobs; hooks that demand nothing, one job (any version or  *)
(* the range 1.1 to 1.2, any hook or the one named h) or two jobs.          *)
V10 == [segs |-> <<1>>, pre |-> 0]
V11 == [segs |-> <<1, 1>>, pre |-> 0]
V12 == [segs |-> <<1, 2>>, pre |-> 0]

Demand(name, job, hook, min, max) ==
  [name |-> name, job |-> job, hook |-> hook, min |-> min, max |-> max]

MCHooks ==
  {{}, {Demand("h", 0, Unset, {}, {})}, {Demand("h", 0, "h", {}, {})}}
    \cup {{Demand("g", 1, "h", {V11}, {V12})}, {Demand("g", 2, Unset, {V12}, {V11})}}
    \cup {{Demand("h", j, Unset, {}, {})} : j \in {1, 2, 3}}
    \cup {{Demand(IF j = Min(two) THEN "g" ELSE "h", j, Unset, {}, {}) : j \in two} : two \in kSubset(2, {1, 2, 3})}

MCManifestChoices ==
  [version : {Unset, V10}, priority : {0, 1}, hooks : MCHooks]
    \cup [version : {V11}, priority : {0}, hooks : {{Demand("h", 0, Unset, {}, {})}}]

(* Rollout: lists a hook may put, short, with repetitions and unknown addresses. *)
MCPuts ==
  {<<>>, <<1, 2>>, <<2, 3, 1>>, <<3, 2, 1>>, <<2, 1, 2>>, <<2, 4>>, <<2, 1, 3, 3>>}

(* Admission: the candidates of the workers collide, and so do the allocations'. *)
AdmWorkers == {w1, w2}
AdmJobs == {j1, j2}

MCCandidates ==
  [x \in AdmWorkers \cup AdmJobs \cup (AdmJobs \X AdmWorkers) |->
     CASE x \in AdmWorkers -> <<"i1", "i2">>
       [] x \in AdmJobs    -> IF x = j1 THEN <<"i1">> ELSE <<"i2">>
       [] OTHER         -> <<"i1", "i2", "i3", "i4">>]

Cap(m, c) == [memory |-> m, cpu |-> c]

MCWorkersConfs ==
  {[w \in W |-> k] : W \in {{w1}, AdmWorkers}, k \in {Cap(2, 1), Cap(3, 2)}}

Wants(lo, hi, s) == [min |-> lo, max |-> hi, set |-> s]

MCJobConfs ==
  {[j \in J |-> [memory |-> m, cpu |-> Wants(0, 0, 1)]] :
     J \in {{j1}, AdmJobs}, m \in {Wants(1, 0, Unset), Wants(1, 2, Unset), Wants(1, 2, 3)}}

MCPlacements == {S \X W : S \in {{j1}, AdmJobs \ {j1}, AdmJobs}, W \in {{w1}, AdmWorkers}}

MCDisableLists == {{}, {j1} \X AdmWorkers, AdmJobs \X {w1}}

(* Scrape: the job's own port, a named port, a pinned worker, an address. *)
Item(n, p, w) == [name |-> n, port |-> p, worker |-> w]

Spec1(scrape, alerts, ports, on, off) ==
  [scrape |-> scrape, alerts |-> alerts, runbooks |-> {"r"}, ports |-> ports,
   on |-> on, off |-> off]

MCSpecs ==
  { Spec1(<<Item("n1", "_implicit", "")>>, {[name |-> "a1", runbook |-> "r"]}, {"own"}, {"w1", "w2"}, {}),
    Spec1(<<Item("n1", "_implicit", "")>>, {[name |-> "a1", runbook |-> "r"]}, {"own"}, {"w1", "w2"}, {"w1"}),
    Spec1(<<Item("n1", "_implicit", "")>>, {[name |-> "a1", runbook |-> "r"]}, {"own"}, {"w1", "w2"}, {"w1", "w2"}),
    Spec1(<<Item("n2", "plain", "")>>, {}, {"own"}, {"w1"}, {}),
    Spec1(<<Item("n2", "plain", "w2")>>, {[name |-> "a2", runbook |-> "x"]}, {"own", "plain"}, {"w1"}, {}),
    Spec1(<<Item("n2", "plain", "w2"), Item("n3", "static", "")>>, {}, {"plain", "other"}, {"w1", "w2"}, {"w2"}),
    Spec1(<<Item("n2", "plain", "w2"), Item("n3", "static", "")>>, {}, {"plain", "other"}, {"w2"}, {}),
    Spec1(<<Item("n4", "static", "")>>, {[name |-> "a1", runbook |-> ""]}, {}, {"w1"}, {}),
    Spec1(<< >>, {[name |-> "a3", runbook |-> ""]}, {}, {"w1"}, {}) }

(* JobKv: a job on two workers, and two jobs on one. *)
KvMatching == {<<"j1", "w1">>, <<"j1", "w2">>, <<"j2", "w1">>}

kvVars == <<workers, jobs, kvAlloc, kvWorker, kvTags, kvShared, kvJob, kvHook, kvMeta,
            kvCerts, kvBucket>>
certVars == <<day, ca, config, certAlloc, stored, appliedCa, appliedConfig, built>>
demandVars == <<catalog, demPhase, demDone, builds>>
rolloutVars == <<placed, pending, order, size, cap, roPhase, queue, at, roDone>>
admVars == <<admitted, draft, stage, tally>>
scrapeVars == <<ws, files, scrAlloc, scrapeJobs, scrapeOf, live, settled, edits>>

-----------------------------------------------------------------------------
K == INSTANCE JobKv WITH
  Workers <- {"w1", "w2"}, Jobs <- {"j1", "j2"}, Matching <- KvMatching,
  alloc <- kvAlloc

C == INSTANCE Certs WITH
  Workers <- {"w1", "w2"}, Ttl <- 4, Buffer <- 2, CaTtl <- 5, MaxDay <- 9, MaxCa <- 2,
  MaxConfig <- 2, alloc <- certAlloc

D == INSTANCE Demands WITH
  MaxJob <- 3, ManifestChoices <- MCManifestChoices, MaxBuilds <- 1, phase <- demPhase,
  done <- demDone

O == INSTANCE Rollout WITH
  Addresses <- {1, 2, 3}, Puts <- MCPuts, BatchSizes <- {0, 1, 2},
  HardCaps <- {0, 1, 2}, phase <- roPhase, done <- roDone

A == INSTANCE Admission WITH
  Workers <- AdmWorkers, Jobs <- AdmJobs, Candidates <- MCCandidates,
  WorkersConfs <- MCWorkersConfs, JobConfs <- MCJobConfs, Placements <- MCPlacements,
  DisableLists <- MCDisableLists, MaxBuilds <- 2

E == INSTANCE Scrape WITH
  Jobs <- {"prometheus", "j"}, Workers <- {"w1", "w2"}, Servers <- {"prometheus"},
  Prometheus <- "prometheus", Kive <- "kive", Specs <- MCSpecs, Absent <- Undeclared,
  MaxEdits <- 4, alloc <- scrAlloc

-----------------------------------------------------------------------------
(* The components that do not run stay in an initial state. *)
MCInit ==
  /\ scenario \in {"ports", "upgrades", "jobkv", "certs", "demands", "rollout",
                   "admission", "scrape"}
  /\ PortsInit
  /\ UpInit
  /\ K!JobKvInit
  /\ C!CertsInit /\ (scenario # "certs" => config.kind = "one")
  /\ D!DemandsInit
  /\ O!RolloutInit
  /\ A!AdmissionInit
  /\ E!ScrapeInit

MCNext ==
  \/ /\ scenario = "ports" /\ PortsNext
     /\ UNCHANGED <<scenario, upVars, kvVars, certVars, demandVars, rolloutVars,
                    admVars, scrapeVars>>
  \/ /\ scenario = "upgrades" /\ UpNext
     /\ UNCHANGED <<scenario, portVars, kvVars, certVars, demandVars, rolloutVars,
                    admVars, scrapeVars>>
  \/ /\ scenario = "jobkv" /\ K!JobKvNext
     /\ UNCHANGED <<scenario, portVars, upVars, certVars, demandVars, rolloutVars,
                    admVars, scrapeVars>>
  \/ /\ scenario = "certs" /\ C!CertsNext
     /\ UNCHANGED <<scenario, portVars, upVars, kvVars, demandVars, rolloutVars,
                    admVars, scrapeVars>>
  \/ /\ scenario = "demands" /\ D!DemandsNext
     /\ UNCHANGED <<scenario, portVars, upVars, kvVars, certVars, rolloutVars, admVars,
                    scrapeVars>>
  \/ /\ scenario = "rollout" /\ O!RolloutNext
     /\ UNCHANGED <<scenario, portVars, upVars, kvVars, certVars, demandVars, admVars,
                    scrapeVars>>
  \/ /\ scenario = "admission" /\ A!AdmissionNext
     /\ UNCHANGED <<scenario, portVars, upVars, kvVars, certVars, demandVars,
                    rolloutVars, scrapeVars>>
  \/ /\ scenario = "scrape" /\ E!ScrapeNext
     /\ UNCHANGED <<scenario, portVars, upVars, kvVars, certVars, demandVars,
                    rolloutVars, admVars>>

mcVars == <<scenario, portVars, upVars, kvVars, certVars, demandVars, rolloutVars,
            admVars, scrapeVars>>

MCSpec == MCInit /\ [][MCNext]_mcVars

-----------------------------------------------------------------------------
(* Properties, each of the component it is named after. *)

(* Hooks read the catalog as it is and nothing of what is gone: the         *)
(* namespaces of active allocations match it, those of removed allocations, *)
(* workers and jobs are empty, and what hooks stored stays while their job  *)
(* is active, in whatever order jobs and workers leave, come back and are   *)
(* collected.                                                               *)
KeysFollowCatalog ==
  [][scenario = "jobkv" =>
       /\ K!KvMatchesCatalog'
       /\ K!NothingStale'
       /\ K!ActiveKeepsHookData]_mcVars

(* Every allocation holds a certificate of the CA and configuration of the  *)
(* last build that names its worker, the same one where they share it, and  *)
(* it does not expire before the next build that is at most a renewal buffer*)
(* away.                                                                    *)
CertsAreUsable ==
  scenario = "certs" =>
    C!CertsFitAllocations /\ C!SharedIsOne /\ C!NoExpiryBetweenBuilds

(* Hooks and deploys reach a job only after every allocated job it demands, *)
(* directly or through others, also across a job that is placed nowhere and *)
(* whatever priorities are set.                                             *)
DemandedFirst == scenario = "demands" => D!HooksAfterDemanded /\ D!DeploysAfterDemanded

(* Whatever list a hook put, a rollout deals with exactly the allocations   *)
(* that were pending, each once, and one that ended well left none pending. *)
RolloutIsComplete ==
  [][scenario = "rollout" =>
       /\ O!EachPendingOnce'
       /\ O!EndedWellIsComplete]_mcVars

(* No committed catalog promises a worker's memory or CPU twice, and a row  *)
(* keeps its public id and is not replaced by one with a colliding id.      *)
CatalogAdmits ==
  [][scenario = "admission" =>
       /\ A!NeverOvercommitted'
       /\ A!IdsAreForLife]_mcVars

(* A rendered configuration scrapes exactly the allocations that run, under *)
(* distinct job names, lists only rule files it ships, and any configuration*)
(* a build accepted can be rendered by a later deploy.                      *)
MonitorsWhatRuns ==
  scenario = "scrape" =>
    E!ScrapesWhatRuns /\ E!ScrapeNamesUnique /\ E!RulesListedAreShipped /\ E!BuiltCanBeRendered

=============================================================================
