------------------------------- MODULE Health -------------------------------
(***************************************************************************)
(* The health check of one job (`kive health-check`, and the gate around   *)
(* every deploy batch): liveness, then readiness, each with its own budget *)
(* of attempts.  An attempt runs the manifest probes on all workers, batch *)
(* by batch and side by side within a batch, and then the health hooks;    *)
(* workers come up and go down while it runs.  The outcome is recorded per *)
(* allocation in health_status, from which the job's colour is computed.   *)
(***************************************************************************)
EXTENDS Naturals, FiniteSets

CONSTANTS
  Targets,      \* workers with an allocation to check
  BatchWidth,   \* max_concurrent_restarts
  Attempts,     \* wait.attempts of each kind
  MaxFlips,     \* bound on how often a worker changes its health
  MaxChecks     \* bound on the number of checks

VARIABLES
  config,       \* the <<kind, means>> pairs configured, means "probe" or "hook"
  up,           \* workers that answer right now
  flips,        \* changes of up so far
  at,           \* where the check is: [pc, kind, means, attempt]
  left, batch,  \* workers still to be asked, and those being asked now
  downProbe, downHook,  \* workers that failed in the current attempt
  recorder,     \* what the status recorder holds per worker
  rows,         \* health_status: the latest row of each worker
  checks, last, \* number of checks, outcome of the latest persisted one
  answered      \* <<kind, means, worker>> that passed in the attempt that counts

healthVars == <<config, up, flips, at, left, batch, downProbe, downHook, recorder, rows,
                checks, last, answered>>

Kinds == <<"liveness", "readiness">>

Means == <<"probe", "hook">>

NoRecord == [liveness |-> "", readiness |-> "", status |-> ""]

NoRow == [status |-> "none", liveness |-> "", readiness |-> "", run |-> 0]

Idle == [pc |-> "idle", kind |-> 0, means |-> 0, attempt |-> 0]

HealthInit ==
  /\ config \in SUBSET ({"liveness", "readiness"} \X {"probe", "hook"})
  /\ up \in SUBSET Targets /\ flips = 0
  /\ at = Idle
  /\ left = {} /\ batch = {} /\ downProbe = {} /\ downHook = {}
  /\ recorder = [w \in Targets |-> NoRecord]
  /\ rows = [w \in Targets |-> NoRow]
  /\ checks = 0 /\ last = "none" /\ answered = {}

Configured(k) == {m \in 1..2 : <<Kinds[k], Means[m]>> \in config}

FirstMeans(k) == IF 1 \in Configured(k) THEN 1 ELSE 2

-----------------------------------------------------------------------------
(* The world: a worker comes up or goes down. *)
Flip(w) ==
  /\ flips < MaxFlips
  /\ up' = IF w \in up THEN up \ {w} ELSE up \cup {w}
  /\ flips' = flips + 1
  /\ UNCHANGED <<config, at, left, batch, downProbe, downHook, recorder, rows, checks, last,
                 answered>>

(* Enter an attempt of kind k: everything is asked again. *)
BeginAttempt(k, n) ==
  /\ at' = [pc |-> "run", kind |-> k, means |-> FirstMeans(k), attempt |-> n]
  /\ left' = Targets /\ downProbe' = {} /\ downHook' = {}
  /\ answered' = {p \in answered : p[1] # Kinds[k]}

(* A job without any configuration is reported as skipped. *)
HealthCheck ==
  /\ at.pc = "idle" /\ checks < MaxChecks
  /\ checks' = checks + 1
  /\ recorder' = [w \in Targets |-> NoRecord]
  /\ \/ /\ config = {}
        /\ last' = "skipped"
        /\ UNCHANGED <<at, left, downProbe, downHook, answered>>
     \/ /\ config # {}
        /\ BeginAttempt(IF Configured(1) # {} THEN 1 ELSE 2, 1)
        /\ UNCHANGED last
  /\ UNCHANGED <<config, up, flips, batch, rows>>

(* The next batch of workers, in rollout order. *)
NextBatch ==
  /\ at.pc = "run" /\ batch = {} /\ left # {}
  /\ \E B \in SUBSET left :
       /\ Cardinality(B) = IF Cardinality(left) < BatchWidth THEN Cardinality(left)
                           ELSE BatchWidth
       /\ batch' = B /\ left' = left \ B
  /\ UNCHANGED <<config, up, flips, at, downProbe, downHook, recorder, rows, checks, last,
                 answered>>

(* One worker's probes, or its hook, return. *)
RunProbe(w) ==
  /\ at.pc = "run" /\ w \in batch
  /\ batch' = batch \ {w}
  /\ downProbe' = IF w \notin up /\ at.means = 1 THEN downProbe \cup {w} ELSE downProbe
  /\ downHook' = IF w \notin up /\ at.means = 2 THEN downHook \cup {w} ELSE downHook
  /\ answered' = IF w \in up THEN answered \cup {<<Kinds[at.kind], Means[at.means], w>>}
                 ELSE answered
  /\ UNCHANGED <<config, up, flips, at, left, recorder, rows, checks, last>>

AllAsked == at.pc = "run" /\ left = {} /\ batch = {}

(* The hooks follow the probes, whether those failed or not. *)
RunHealthHooks ==
  /\ AllAsked /\ at.means = 1 /\ 2 \in Configured(at.kind)
  /\ at' = [at EXCEPT !.means = 2]
  /\ left' = Targets
  /\ UNCHANGED <<config, up, flips, batch, downProbe, downHook, recorder, rows, checks, last,
                 answered>>

AttemptDone == AllAsked /\ (at.means = 2 \/ 2 \notin Configured(at.kind))

AttemptFailed == downProbe \cup downHook # {}

(* Mutant: the next attempt asks only those that failed. *)
RetryFailedOnly ==
  /\ AttemptDone /\ AttemptFailed /\ at.attempt < Attempts
  /\ at' = [at EXCEPT !.means = FirstMeans(at.kind), !.attempt = @ + 1]
  /\ left' = downProbe \cup downHook /\ downProbe' = {} /\ downHook' = {}
  /\ answered' = {p \in answered : p[1] # Kinds[at.kind]}
  /\ UNCHANGED <<config, up, flips, batch, recorder, rows, checks, last>>

Retry ==
  /\ AttemptDone /\ AttemptFailed /\ at.attempt < Attempts
  /\ BeginAttempt(at.kind, at.attempt + 1)
  /\ UNCHANGED <<config, up, flips, batch, recorder, rows, checks, last>>

PassWorkers(r, W, k) ==
  [w \in Targets |->
     IF w \notin W THEN r[w]
     ELSE [r[w] EXCEPT ![Kinds[k]] = "pass",
                       !.status = IF @ = "unhealthy" THEN @ ELSE "healthy"]]

FailWorkers(r, W, k) ==
  [w \in Targets |->
     IF w \notin W THEN r[w]
     ELSE [r[w] EXCEPT ![Kinds[k]] = "fail", !.status = "unhealthy"]]

(* A kind passes: every worker is recorded; readiness follows liveness. *)
KindPasses ==
  /\ AttemptDone /\ ~AttemptFailed
  /\ recorder' = PassWorkers(recorder, Targets, at.kind)
  /\ IF at.kind = 1 /\ Configured(2) # {}
     THEN BeginAttempt(2, 1)
     ELSE /\ at' = [at EXCEPT !.pc = "passed"]
          /\ UNCHANGED <<left, downProbe, downHook, answered>>
  /\ UNCHANGED <<config, up, flips, batch, rows, checks, last>>

(* The attempts are used up.  Only probe errors name their worker. *)
KindFails ==
  /\ AttemptDone /\ AttemptFailed /\ at.attempt = Attempts
  /\ recorder' = FailWorkers(recorder, downProbe, at.kind)
  /\ at' = [at EXCEPT !.pc = "failed"]
  /\ UNCHANGED <<config, up, flips, left, batch, downProbe, downHook, rows, checks, last,
                 answered>>

(* The context is cancelled: in-flight probes are abandoned. *)
CancelCheck ==
  /\ at.pc = "run"
  /\ at' = [at EXCEPT !.pc = "cancelled"]
  /\ left' = {} /\ batch' = {} /\ downProbe' = {} /\ downHook' = {}
  /\ UNCHANGED <<config, up, flips, recorder, rows, checks, last, answered>>

-----------------------------------------------------------------------------
(* health_status. *)

Or(x, default) == IF x = "" THEN default ELSE x

PassedRow ==
  [status |-> "healthy", liveness |-> "pass", readiness |-> "pass", run |-> checks]

FailedRow(r) ==
  [status |-> "unhealthy", liveness |-> Or(r.liveness, "fail"),
   readiness |-> Or(r.readiness, "skip"), run |-> checks]

UntouchedRow(r) ==
  [status |-> "healthy", liveness |-> Or(r.liveness, "pass"),
   readiness |-> Or(r.readiness, "pass"), run |-> checks]

(* An error that names no worker condemns them all. *)
FailedWorkers(named) == IF named = {} THEN Targets ELSE named

(* The rows of a check that failed: the workers it names, and those whose   *)
(* earlier kind passed; a worker the recorder knows nothing of keeps its    *)
(* old row.                                                                 *)
FailureRows(named) ==
  [w \in Targets |->
     IF w \in FailedWorkers(named) THEN FailedRow(recorder[w])
     ELSE IF "pass" \in {recorder[w].liveness, recorder[w].readiness}
     THEN UntouchedRow(recorder[w])
     ELSE rows[w]]

PersistJobHealthResults ==
  /\ at.pc \in {"passed", "failed", "cancelled"}
  /\ rows' = CASE at.pc = "passed"    -> [w \in Targets |-> PassedRow]
               [] at.pc = "failed"    -> FailureRows(downProbe)
               [] at.pc = "cancelled" -> FailureRows({})
  /\ last' = at.pc
  /\ at' = [at EXCEPT !.pc = "done"]
  /\ UNCHANGED <<config, up, flips, left, batch, downProbe, downHook, recorder, checks,
                 answered>>

(* kive.db stays locked through five tries: the rows stay as they are. *)
PersistFails ==
  /\ at.pc \in {"passed", "failed", "cancelled"}
  /\ last' = "unsaved"
  /\ at' = [at EXCEPT !.pc = "done"]
  /\ UNCHANGED <<config, up, flips, left, batch, downProbe, downHook, recorder, rows, checks,
                 answered>>

Return ==
  /\ at.pc = "done"
  /\ at' = Idle
  /\ UNCHANGED <<config, up, flips, left, batch, downProbe, downHook, recorder, rows, checks,
                 last, answered>>

(* gray, green, yellow or red, from the latest rows. *)
RollupJobHealthColor(healthy, unhealthy) ==
  CASE healthy = 0 /\ unhealthy = 0 -> "gray"
    [] healthy > 0 /\ unhealthy = 0 -> "green"
    [] healthy = 0 /\ unhealthy > 0 -> "red"
    [] healthy > 0 /\ unhealthy > 0 -> "yellow"

SummarizeJobHealth ==
  RollupJobHealthColor(Cardinality({w \in Targets : rows[w].status = "healthy"}),
                       Cardinality({w \in Targets : rows[w].status = "unhealthy"}))

-----------------------------------------------------------------------------
CheckStep ==
  \/ NextBatch
  \/ \E w \in Targets : RunProbe(w)
  \/ RunHealthHooks
  \/ Retry
  \/ KindPasses
  \/ KindFails
  \/ PersistJobHealthResults
  \/ PersistFails
  \/ Return

HealthNext ==
  \/ \E w \in Targets : Flip(w)
  \/ HealthCheck
  \/ CheckStep
  \/ CancelCheck

(* Probes and hooks time out, so a check that runs goes on. *)
HealthSpec == HealthInit /\ [][HealthNext]_healthVars /\ WF_healthVars(CheckStep)

-----------------------------------------------------------------------------
(* Properties. *)

(* A check passes only on the strength of single attempts: in the attempt   *)
(* that counted for each configured kind every worker passed its probes and *)
(* its hooks; answers of different attempts are never combined.             *)
PassIsOneAttempt ==
  at.pc = "passed" => answered = {<<c[1], c[2], w>> : c \in config, w \in Targets}

(* The colour never hides a failure: after a check that failed or was cut   *)
(* short the job is not green, after one that passed it is, whatever rows   *)
(* earlier checks had left behind.                                          *)
ColorFollowsLastCheck ==
  CASE last \in {"failed", "cancelled"} -> SummarizeJobHealth \in {"yellow", "red"}
    [] last = "passed"                  -> SummarizeJobHealth = "green"
    [] OTHER                            -> TRUE

(* A worker that a check records as healthy failed nothing in the attempt   *)
(* that counted, and one recorded as unhealthy did, except that a hook      *)
(* failure names no worker: alone it condemns all of them, beside a probe   *)
(* failure it is not recorded, and a cancelled check condemns all of them.  *)
RowsMatchTheAttempt ==
  at.pc = "done" /\ last \in {"passed", "failed"} =>
    \A w \in Targets : rows[w].run = checks =>
      /\ rows[w].status = "healthy" => w \notin downProbe /\ (w \in downHook => downProbe # {})
      /\ rows[w].status = "unhealthy" => w \in downProbe \/ (downProbe = {} /\ downHook # {})

(* Every check comes to an end. *)
CheckReturns == at.pc # "idle" ~> at.pc = "idle"

=============================================================================
