------------------------------- MODULE Scrape -------------------------------
(***************************************************************************)
(* The Prometheus configuration kive composes from the _prometheus/        *)
(* directories of all jobs.  A build validates them and writes the scrape  *)
(* items to KV (promconfig.BuildCatalog); a deploy that stages a job with  *)
(* a prometheus.yml expands the items to the addresses of the allocations  *)
(* of that moment, lists the rule files and copies them beside it.         *)
(*                                                                         *)
(* A job's directory is a record: scrape, the list of its items; alerts and        *)
(* runbooks; ports, the metrics ports of the manifest; on and off, the     *)
(* workers it is placed on and those where it is disabled.                 *)
(***************************************************************************)
EXTENDS Naturals, Sequences, FiniteSets

CONSTANTS
  Jobs, Workers,
  Servers,      \* jobs that ship a prometheus.yml
  Prometheus,   \* the job of that name, in Jobs or not
  Kive,         \* the owner of kive's own certificate alerts
  Specs,        \* what a job's directory may hold
  Absent,       \* no such job
  MaxEdits      \* bound on changes to the workspace

VARIABLES
  ws,           \* workspace/jobs
  files,        \* job_files and job_ports of the catalog
  alloc,        \* allocation rows: "none", "active", "disabled" or "removed"
  scrapeJobs,   \* scrape_jobs in kive/prometheus
  scrapeOf,     \* scrape/<job> in kive/prometheus
  live,         \* what the server runs with
  settled,      \* history: the server was staged since the last build
  edits

scrapeVars == <<ws, files, alloc, scrapeJobs, scrapeOf, live, settled, edits>>

NoKey == << >>

NotDeployed == [targets |-> {}, listed |-> {}, shipped |-> {}]

ScrapeInit ==
  /\ ws = [j \in Jobs |-> Absent] /\ files = ws
  /\ alloc = [j \in Jobs |-> [w \in Workers |-> "none"]]
  /\ scrapeJobs = {} /\ scrapeOf = [j \in Jobs |-> NoKey]
  /\ live = NotDeployed /\ settled = FALSE /\ edits = 0

Present(tree) == {j \in Jobs : tree[j] # Absent}

ActiveAllocations(j) == {w \in Workers : alloc[j][w] = "active"}

NonRemovedAllocations(j) == {w \in Workers : alloc[j][w] \in {"active", "disabled"}}

-----------------------------------------------------------------------------
(* Items.  An item's target is an address as written, or a placeholder for  *)
(* a port of the job, on all of its workers or on the one it names.         *)

IsPlaceholder(item) == item.port # "static"

Items(list) == {list[n] : n \in DOMAIN list}

(* The port of _implicit: <job>_metrics_port, else metrics_port, else the   *)
(* only port whose name ends so; "" when there is none or a choice.         *)
ResolveMetricsPortKey(ports) ==
  CASE "own" \in ports   -> "own"
    [] "plain" \in ports -> "plain"
    [] Cardinality(ports) = 1 -> CHOOSE p \in ports : TRUE
    [] OTHER             -> ""

PortKey(item, ports) ==
  IF item.port = "_implicit" THEN ResolveMetricsPortKey(ports) ELSE item.port

ValidateScrapePortReferences(spec) ==
  \A i \in Items(spec.scrape) : IsPlaceholder(i) => PortKey(i, spec.ports) \in spec.ports

ScrapeConfigsRequireActiveAllocations(list) == \E i \in Items(list) : IsPlaceholder(i)

ValidateAlertFile(spec) ==
  \A a \in spec.alerts : a.runbook = "" \/ a.runbook \in spec.runbooks

-----------------------------------------------------------------------------
(* The build. *)

(* Changing a job's directory, or removing it, is up to the operator. *)
Edit(j, spec) ==
  /\ edits < MaxEdits /\ spec # ws[j]
  /\ ws' = [ws EXCEPT ![j] = spec]
  /\ edits' = edits + 1
  /\ UNCHANGED <<files, alloc, scrapeJobs, scrapeOf, live, settled>>

HasPrometheusServerJob == Servers \cap Present(ws) # {}

(* job_name and alert names are unique in the whole bucket. *)
NamesDistinct ==
  /\ \A j, k \in Present(ws) : \A m \in DOMAIN ws[j].scrape, n \in DOMAIN ws[k].scrape :
       <<j, m>> # <<k, n>> => ws[j].scrape[m].name # ws[k].scrape[n].name
  /\ \A j, k \in Present(ws) : \A a \in ws[j].alerts, b \in ws[k].alerts :
       <<j, a>> # <<k, b>> => a.name # b.name

CatalogValid ==
  /\ NamesDistinct
  /\ \A j \in Present(ws) : ValidateAlertFile(ws[j]) /\ ValidateScrapePortReferences(ws[j])

(* The rows after BuildAllocations: what is no longer placed is removed. *)
BuiltAllocations ==
  [j \in Jobs |-> [w \in Workers |->
     CASE ws[j] # Absent /\ w \in ws[j].on \ ws[j].off -> "active"
       [] ws[j] # Absent /\ w \in ws[j].on \cap ws[j].off -> "disabled"
       [] OTHER -> IF alloc[j][w] = "none" THEN "none" ELSE "removed"]]

(* Mutant: the allocations are those before this build. *)
BuildCatalogTooEarly ==
  IF ~HasPrometheusServerJob
  THEN scrapeJobs' = {} /\ scrapeOf' = [j \in Jobs |-> NoKey]
  ELSE /\ CatalogValid
       /\ scrapeOf' = [j \in Jobs |-> IF ws[j] = Absent THEN NoKey ELSE ws[j].scrape]
       /\ scrapeJobs' = {j \in Present(ws) : scrapeOf'[j] # NoKey /\
            (ScrapeConfigsRequireActiveAllocations(scrapeOf'[j]) => ActiveAllocations(j) # {})}

(* Without a server job nothing is validated and the keys are emptied.  A   *)
(* job whose items need a worker is left out while it runs on none.         *)
BuildCatalog ==
  IF ~HasPrometheusServerJob
  THEN scrapeJobs' = {} /\ scrapeOf' = [j \in Jobs |-> NoKey]
  ELSE /\ CatalogValid
       /\ scrapeOf' = [j \in Jobs |-> IF ws[j] = Absent THEN NoKey ELSE ws[j].scrape]
       /\ scrapeJobs' = {j \in Present(ws) : scrapeOf'[j] # NoKey /\
            (ScrapeConfigsRequireActiveAllocations(scrapeOf'[j]) => ActiveAllocations(j)' # {})}

Build ==
  /\ files' = ws /\ alloc' = BuiltAllocations
  /\ BuildCatalog
  /\ settled' = FALSE
  /\ UNCHANGED <<ws, live, edits>>

-----------------------------------------------------------------------------
(* The deploy. *)

(* A port that has no number yet (the job was never built) and a pinned     *)
(* worker without an active allocation are errors.                          *)
ExpandFails(j, item) ==
  /\ IsPlaceholder(item)
  /\ files[j] # Absent => \/ PortKey(item, files[j].ports) \notin files[j].ports
                          \/ item.worker # "" /\ item.worker \notin ActiveAllocations(j)

ExpandTarget(j, item) ==
  IF ~IsPlaceholder(item) THEN {<<item.name, "static">>}
  ELSE {<<item.name, w, PortKey(item, files[j].ports)>> :
          w \in {w \in ActiveAllocations(j) : item.worker \in {"", w}}}

(* The items of a job are expanded in their order up to the first that ends *)
(* it: by an error, or, without a target left, by passing over the job.     *)
Stops(j, list) ==
  {n \in DOMAIN list : ExpandFails(j, list[n]) \/ ExpandTarget(j, list[n]) = {}}

ExpandScrapeConfigs(j, list) ==
  IF Stops(j, list) # {} THEN {} ELSE UNION {ExpandTarget(j, i) : i \in Items(list)}

FailsFor(J, of) ==
  \E j \in J : \E n \in Stops(j, of[j]) :
    ExpandFails(j, of[j][n]) /\ \A m \in Stops(j, of[j]) : n <= m

TargetsFor(J, of) == UNION {ExpandScrapeConfigs(j, of[j]) : j \in J}

WorkspaceScrape == [j \in Jobs |-> IF ws[j] = Absent THEN NoKey ELSE ws[j].scrape]

WorkspaceScrapeJobs == {j \in Jobs : WorkspaceScrape[j] # NoKey}

(* When the keys yield nothing the workspace is read, built or not. *)
UsesWorkspace == TargetsFor(scrapeJobs, scrapeOf) = {}

RenderFails ==
  \/ FailsFor(scrapeJobs, scrapeOf)
  \/ UsesWorkspace /\ FailsFor(WorkspaceScrapeJobs, WorkspaceScrape)

RenderScrapeConfigsYAML ==
  IF UsesWorkspace THEN TargetsFor(WorkspaceScrapeJobs, WorkspaceScrape)
  ELSE TargetsFor(scrapeJobs, scrapeOf)

AlertFiles(J) == UNION {{<<j, a.name>> : a \in files[j].alerts} : j \in J}

(* The rule files named in prometheus.yml, and those copied beside it. *)
RenderRuleFilesYAML ==
  AlertFiles({j \in Present(files) : NonRemovedAllocations(j) # {}})
    \cup (IF Prometheus \in Servers \cap Present(files) THEN {<<Kive, "certs">>} ELSE {})

AssemblePrometheusAlertRules ==
  AlertFiles({j \in Present(files) : NonRemovedAllocations(j) # {}}) \cup {<<Kive, "certs">>}

(* A deploy, of all jobs or of some of them.  The tree is what the plan     *)
(* hash is made of, so a server whose tree changed is rolled out.           *)
Deploy(filter) ==
  LET staged == {j \in Servers \cap filter \cap Present(files) : ActiveAllocations(j) # {}}
  IN
  /\ Present(files) # {}
  /\ \/ /\ staged # {} /\ ~RenderFails
        /\ live' = [targets |-> RenderScrapeConfigsYAML, listed |-> RenderRuleFilesYAML,
                    shipped |-> AssemblePrometheusAlertRules]
        /\ settled' = TRUE
     \/ /\ ~(staged # {} /\ ~RenderFails)
        /\ UNCHANGED <<live, settled>>
  /\ UNCHANGED <<ws, files, alloc, scrapeJobs, scrapeOf, edits>>

ScrapeNext ==
  \/ \E j \in Jobs, spec \in Specs \cup {Absent} : Edit(j, spec)
  \/ Build
  \/ Deploy(Jobs)
  \/ \E j \in Jobs : Deploy({j})

ScrapeSpec == ScrapeInit /\ [][ScrapeNext]_scrapeVars

-----------------------------------------------------------------------------
(* Properties. *)

(* What the built jobs offer: every port of every active allocation, and    *)
(* the addresses of jobs that run somewhere or need no worker.              *)
Scraped == {j \in Present(files) :
              (\E i \in Items(files[j].scrape) : IsPlaceholder(i)) => \E w \in Workers : alloc[j][w] = "active"}

Offered ==
  UNION {{<<i.name, "static">> : i \in {i \in Items(files[j].scrape) : ~IsPlaceholder(i)}} : j \in Scraped}
  \cup UNION {UNION {{<<i.name, w, PortKey(i, files[j].ports)>> :
                 i \in {i \in Items(files[j].scrape) : IsPlaceholder(i) /\ i.worker \in {"", w}}} :
                w \in {w \in Workers : alloc[j][w] = "active"}} : j \in Scraped}

(* Once the server was deployed after a build, it scrapes every active      *)
(* allocation of that build and no other, however allocations came and went *)
(* before; the exception is a build whose keys yield nothing, where the     *)
(* unbuilt workspace is read (RenderScrapeConfigsYAML).                     *)
ScrapesWhatRuns == settled /\ ~UsesWorkspace => live.targets = Offered

(* Prometheus refuses a configuration with two items of one job_name: what  *)
(* the keys of a committed build hold never has one (BuildCatalog).         *)
ScrapeNamesUnique ==
  \A j, k \in scrapeJobs : \A m \in DOMAIN scrapeOf[j], n \in DOMAIN scrapeOf[k] :
    <<j, m>> # <<k, n>> => scrapeOf[j][m].name # scrapeOf[k][n].name

(* Every rule file the running prometheus.yml lists was copied beside it:   *)
(* the list and the copies are made by two packages from two queries.       *)
RulesListedAreShipped == live.listed \subseteq live.shipped

(* What a build accepted, a later deploy can expand, unless an item names a *)
(* worker that has no active allocation, which only the deploy looks at.    *)
BuiltCanBeRendered ==
  FailsFor(scrapeJobs, scrapeOf) =>
    \E j \in scrapeJobs : \E i \in Items(scrapeOf[j]) :
      i.worker # "" /\ i.worker \notin ActiveAllocations(j)

=============================================================================
