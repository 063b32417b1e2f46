------------------------------- MODULE FanOut -------------------------------
(***************************************************************************)
(* How a command reaches many workers at once: hooks in batches            *)
(* (hooks/batch.go, hooks/execute.go), the steps of a rollout              *)
(* (deploy/parallel.go), run_command scripts (runcommand/execute.go) and   *)
(* the probes of the worker subcommands (collect/collect.go), the last two *)
(* after a check of the workers' prerequisites (worker/prerequisites.go).  *)
(*                                                                         *)
(* Each has its own dispatch loop: it starts one session after the other,  *)
(* a channel holds as many tokens as sessions may run, and the user may    *)
(* cancel at any moment.  What a session does on its worker is abstracted  *)
(* to whether it succeeds.                                                 *)
(***************************************************************************)
EXTENDS Naturals, Sequences, FiniteSets, SequencesExt

CONSTANTS
  Hosts,
  Selections,   \* what the user names: sequences of hosts, known or not
  Limits        \* batch sizes and values of -c

VARIABLES
  run,          \* the command: kind, targets, limit and its options
  stage,        \* "prereq" or "work"
  pc,           \* "idle", "batch", "loop", "slot", "wait", "after" or "done"
  base, next,   \* where the current batch and the loop's next target are
  session,      \* per host, in this stage
  failed,       \* the failures recorded so far, over all batches
  errs,         \* some batch went wrong and the run went on
  applied,      \* the hosts whose probe result was applied
  cancelled,
  result        \* "none", "nil", "failures" or "cancelled"

fanVars == <<run, stage, pc, base, next, session, failed, errs, applied, cancelled,
             result>>

NoRun == [kind |-> "hook", targets |-> <<>>, limit |-> 1, ignore |-> FALSE, health |-> FALSE]
NoSessions == [h \in Hosts |-> "none"]

FanInit ==
  /\ run = NoRun /\ stage = "work" /\ pc = "idle" /\ base = 1 /\ next = 1
  /\ session = NoSessions /\ failed = {} /\ errs = FALSE /\ applied = {}
  /\ cancelled = FALSE /\ result = "none"

-----------------------------------------------------------------------------
(* The targets and the batches.                                             *)

Unique(s) == FoldLeft(LAMBDA seen, h : IF h \in ToSet(seen) THEN seen ELSE Append(seen, h),
                      <<>>, s)

InBatches(r) == r.kind \in {"hook", "rollout"} \/ (r.kind = "script" /\ r.health)

BatchEnd ==
  IF stage = "work" /\ InBatches(run) /\ base + run.limit - 1 < Len(run.targets)
  THEN base + run.limit ELSE Len(run.targets) + 1

(* How many tokens the channel of the loop holds.  Within a batch every     *)
(* session may run at once; the prerequisite check has no limit.            *)
Concurrency ==
  IF stage = "prereq" \/ InBatches(run) THEN Len(run.targets) ELSE run.limit

Running == {h \in Hosts : session[h] \in {"running", "doomed"}}

(* Commands that check prerequisites first: run_command and the worker      *)
(* subcommands, unless failures are to be ignored.                          *)
ChecksPrerequisites(r) == r.kind \in {"script", "probe"} /\ ~r.ignore

Begin(r) ==
  /\ pc = "idle"
  /\ run' = r
  /\ stage' = IF ChecksPrerequisites(r) THEN "prereq" ELSE "work"
  /\ pc' = IF ChecksPrerequisites(r) \/ ~InBatches(r) THEN "loop" ELSE "batch"
  /\ UNCHANGED <<base, next, session, failed, errs, applied, cancelled, result>>

Command(kind, selection, limit, ignore, health) ==
  [kind |-> kind, targets |-> Unique(selection), limit |-> limit,
   ignore |-> ignore, health |-> health]

(* The hooks of a job, on its allocations; ignore is WithContinueOnFailure. *)
ExecuteHook(selection, limit, ignore) ==
  /\ ToSet(selection) \subseteq Hosts
  /\ Begin(Command("hook", selection, limit, ignore, FALSE))

RunWorkerBatches(selection, limit) ==
  /\ ToSet(selection) \subseteq Hosts
  /\ Begin(Command("rollout", selection, limit, FALSE, FALSE))

(* A worker the catalog does not know refuses the command. *)
ExecuteRunCommand(selection, limit, ignore, health) ==
  /\ ToSet(selection) \subseteq Hosts
  /\ Begin(Command("script", selection, limit, ignore, health))

(* Likewise one that workers.conf does not list. *)
ExecuteCollect(selection, limit, ignore) ==
  /\ ToSet(selection) \subseteq Hosts
  /\ Begin(Command("probe", selection, limit, ignore, FALSE))

Return(r) ==
  /\ pc' = "done" /\ result' = r
  /\ UNCHANGED <<run, stage, base, next, session, failed, errs, cancelled>>

Returns(r) == Return(r) /\ UNCHANGED applied

-----------------------------------------------------------------------------
(* The dispatch loop.                                                       *)

Target == run.targets[next]

SkipTarget(record) ==
  /\ failed' = IF record THEN failed \cup {Target} ELSE failed
  /\ next' = next + 1 /\ pc' = "loop"
  /\ UNCHANGED <<run, stage, base, session, errs, applied, cancelled, result>>

GoTo(label) ==
  /\ pc' = label
  /\ UNCHANGED <<run, stage, base, next, session, failed, errs, applied, cancelled, result>>

StartSession ==
  /\ session' = [session EXCEPT ![Target] = IF cancelled THEN "doomed" ELSE "running"]
  /\ next' = next + 1 /\ pc' = "loop"
  /\ UNCHANGED <<run, stage, base, failed, errs, applied, cancelled, result>>

(* The head of the loop.  The prerequisite check returns at once, without   *)
(* waiting for the sessions it started; a script records the cancellation   *)
(* for every worker it no longer reaches; the others leave the loop.        *)
LoopTop ==
  /\ pc = "loop" /\ next < BatchEnd
  /\ IF ~cancelled THEN IF stage = "prereq" THEN StartSession ELSE GoTo("slot")
     ELSE IF stage = "prereq" THEN Returns("cancelled")
     ELSE IF run.kind = "script" THEN SkipTarget(TRUE)
     ELSE GoTo("wait")

LoopEnds == pc = "loop" /\ next = BatchEnd /\ GoTo("wait")

(* The select: a token or the cancellation.  When both are there either may *)
(* be taken; only the probes look at the context again.                     *)
TakeToken ==
  /\ pc = "slot" /\ Cardinality(Running) < Concurrency
  /\ IF cancelled /\ run.kind = "probe" THEN GoTo("wait") ELSE StartSession

SeeCancel ==
  /\ pc = "slot" /\ cancelled
  /\ IF run.kind = "probe" THEN GoTo("wait") ELSE SkipTarget(run.kind = "script")

(* A session started under a cancelled context fails; one that was cut off  *)
(* may still have succeeded.                                                *)
EndSession(h, ok) ==
  /\ session[h] \in {"running", "doomed"}
  /\ ok => session[h] = "running"
  /\ session' = [session EXCEPT ![h] = IF ok THEN "ok" ELSE "failed"]
  /\ failed' = IF ok THEN failed ELSE failed \cup {h}
  /\ UNCHANGED <<run, stage, pc, base, next, errs, applied, cancelled, result>>

Cancel ==
  /\ pc \notin {"idle", "done"} /\ ~cancelled
  /\ cancelled' = TRUE
  /\ UNCHANGED <<run, stage, pc, base, next, session, failed, errs, applied, result>>

-----------------------------------------------------------------------------
(* Once the loop is over and every session has ended.                       *)

(* checkPrerequisites: failures of the check are the command's failures.    *)
PrerequisitesChecked ==
  /\ pc = "wait" /\ stage = "prereq" /\ Running = {}
  /\ IF cancelled THEN Returns("cancelled")
     ELSE IF failed # {} THEN Returns("failures")
     ELSE /\ stage' = "work" /\ pc' = IF InBatches(run) THEN "batch" ELSE "loop"
          /\ next' = 1 /\ session' = NoSessions
          /\ UNCHANGED <<run, base, failed, errs, applied, cancelled, result>>

BatchTargets == {run.targets[i] : i \in base .. BatchEnd - 1}

(* Mutant: the errors of earlier batches are dropped. *)
NextBatchForgets ==
  /\ pc = "batch"
  /\ IF cancelled /\ (base <= Len(run.targets) \/ run.kind = "script") THEN Returns("cancelled")
     ELSE IF base > Len(run.targets)
     THEN Returns(IF run.kind = "script" /\ failed # {} THEN "failures" ELSE "nil")
     ELSE GoTo("loop")

(* The head of the batch loop.  The loop over scripts looks at the context  *)
(* before it looks for another batch.                                       *)
NextBatch ==
  /\ pc = "batch"
  /\ IF cancelled /\ (base <= Len(run.targets) \/ run.kind = "script") THEN Returns("cancelled")
     ELSE IF base > Len(run.targets)
     THEN Returns(IF errs \/ (run.kind = "script" /\ failed # {}) THEN "failures" ELSE "nil")
     ELSE GoTo("loop")

AdvanceBatch(err) ==
  /\ base' = BatchEnd /\ next' = BatchEnd /\ pc' = "batch" /\ errs' = (errs \/ err)
  /\ UNCHANGED <<run, stage, session, failed, applied, cancelled, result>>

(* RunHookOnWorkers prepares the files of the whole batch before it starts  *)
(* the first session; when it cannot, the batch fails.                      *)
PrepareWorkerWorkspacesFails ==
  /\ pc = "loop" /\ run.kind = "hook" /\ next = base
  /\ IF run.ignore THEN AdvanceBatch(TRUE) ELSE Returns("failures")

(* RunHookInBatches, runWorkerBatches: a failed or cancelled batch ends the *)
(* run, or, when failures are to be ignored, is noted.                      *)
BatchEnds ==
  /\ pc = "wait" /\ stage = "work" /\ Running = {}
  /\ run.kind \in {"hook", "rollout"}
  /\ IF ~cancelled /\ BatchTargets \cap failed = {} THEN GoTo("after")
     ELSE IF run.ignore THEN AdvanceBatch(TRUE)
     ELSE Returns(IF cancelled THEN "cancelled" ELSE "failures")

ScriptsEnd ==
  /\ pc = "wait" /\ stage = "work" /\ Running = {} /\ run.kind = "script"
  /\ IF run.health
     THEN IF failed # {} /\ ~run.ignore THEN Returns("failures") ELSE GoTo("after")
     ELSE Returns(IF cancelled THEN "cancelled" ELSE IF failed # {} THEN "failures" ELSE "nil")

(* After a batch: afterBatch of a hook, promotion and health of a rollout,  *)
(* the pause and the health check after a batch of scripts.  A failure ends *)
(* the run, except that of afterBatch when failures are ignored.            *)
AfterBatch(ok) ==
  /\ pc = "after"
  /\ IF cancelled /\ run.kind = "script" THEN Returns("cancelled")
     ELSE IF ~ok /\ ~(run.kind = "hook" /\ run.ignore) THEN Returns("failures")
     ELSE AdvanceBatch(~ok)

(* probeWorkers and reportCollectResults. *)
ReportCollectResults ==
  /\ pc = "wait" /\ stage = "work" /\ Running = {} /\ run.kind = "probe"
  /\ applied' = IF cancelled \/ (failed # {} /\ ~run.ignore) THEN {}
                ELSE ToSet(run.targets) \ failed
  /\ Return(IF cancelled THEN "cancelled" ELSE IF failed # {} THEN "failures" ELSE "nil")

(* The next command starts afresh. *)
NextCommand ==
  /\ pc = "done" /\ Running = {}
  /\ run' = NoRun /\ stage' = "work" /\ pc' = "idle" /\ base' = 1 /\ next' = 1
  /\ session' = NoSessions /\ failed' = {} /\ errs' = FALSE /\ applied' = {}
  /\ cancelled' = FALSE /\ result' = "none"

Dispatcher ==
  \/ LoopTop \/ LoopEnds \/ TakeToken \/ SeeCancel \/ PrerequisitesChecked
  \/ NextBatch \/ PrepareWorkerWorkspacesFails \/ BatchEnds
  \/ ScriptsEnd \/ ReportCollectResults
  \/ \E ok \in BOOLEAN : AfterBatch(ok)

FanNext ==
  \/ \E selection \in Selections, limit \in Limits, ignore \in BOOLEAN :
       \/ ExecuteHook(selection, limit, ignore)
       \/ ExecuteCollect(selection, limit, ignore)
       \/ \E health \in BOOLEAN : ExecuteRunCommand(selection, limit, ignore, health)
  \/ \E selection \in Selections, limit \in Limits : RunWorkerBatches(selection, limit)
  \/ Dispatcher \/ Cancel \/ NextCommand
  \/ \E h \in Hosts, ok \in BOOLEAN : EndSession(h, ok)

(* The loops never rest; a session may hang for ever, but the cancellation  *)
(* kills it (exec.CommandContext).                                          *)
CutOff(h) == cancelled /\ \E ok \in BOOLEAN : EndSession(h, ok)

FanSpec == FanInit /\ [][FanNext]_fanVars

-----------------------------------------------------------------------------
(* Properties. *)

(* A command that reports success ran its step on every worker it was given *)
(* and every one of them succeeded, however it was cut into batches and     *)
(* whenever the cancellation came.                                          *)
SuccessMeansEveryWorker ==
  result = "nil" => \A h \in ToSet(run.targets) : session[h] = "ok"

(* When run_command or a probe ends with failures every worker has either   *)
(* succeeded or is named, and a script that was cancelled names every       *)
(* worker on which it is not known to have succeeded.                       *)
EveryWorkerAccounted ==
  /\ stage = "work" /\ pc = "done"
  /\ \/ run.kind = "script" /\ ~run.health
     \/ run.kind = "probe" /\ result = "failures"
  => \A h \in ToSet(run.targets) : session[h] = "ok" \/ h \in failed

(* No more sessions than -c, or than a batch, run at the same time.         *)
LimitHeld == stage = "work" => Cardinality(Running) <= run.limit

(* A batch starts only when all sessions of the one before it have ended,   *)
(* and, unless failures are to be ignored, all of them well: a release that *)
(* breaks a worker stops at the first batch.                                *)
BatchesWait ==
  \A h \in Hosts :
    /\ stage = "work" /\ InBatches(run)
    /\ session[h] = "none" /\ session'[h] # "none"
    => \A i \in 1 .. base - 1 :
         session[run.targets[i]] = "ok" \/ (run.ignore /\ session[run.targets[i]] # "running")

(* What probes found is applied for workers that answered only, and without *)
(* --ignore-failure for all the workers or for none.                        *)
AppliedWhole ==
  /\ \A h \in applied : session[h] = "ok"
  /\ applied # {} /\ ~run.ignore => applied = ToSet(run.targets)

(* A command that has returned left no session behind, but for the          *)
(* prerequisite check, which does not wait when it is cancelled.            *)
NoneLeftBehind == pc = "done" /\ stage = "work" => Running = {}

(* A cancelled command returns, even when its sessions hang.                *)
CancelReturns == cancelled ~> (pc = "done")
=============================================================================
