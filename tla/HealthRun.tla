----------------------------- MODULE HealthRun -----------------------------
(***************************************************************************)
(* kive health_check as a command (healthcheck.ExecuteContext).  One       *)
(* goroutine dials every worker's SSH port in parallel while the main one  *)
(* checks the jobs in turn; both store what they found through a second    *)
(* database handle, in short transactions under a mutex, and the main one  *)
(* joins the two at the end.  What a job's check does is module Health:    *)
(* here it ends in one of its outcomes.                                    *)
(***************************************************************************)
EXTENDS Integers, Sequences

CONSTANTS
  Jobs, Workers,
  PersistLockAttempts,  \* persistLockAttempts, 5 in the code
  MaxRuns               \* bound on commands

VARIABLES
  run,        \* number of this command
  cancelled,  \* ctx.Err() # nil
  main,       \* the main goroutine: "idle", "loop", "checked", "store", "join", "done"
  todo,       \* jobs not looked at yet
  cur,        \* the job being checked and the outcome of its check
  failed,     \* jobs in failures
  dial,       \* the dialling goroutine: "off", "dial", "store", "sent"
  reach,      \* answers of the workers: "none", "healthy", "unhealthy"
  workerErr,  \* the error it sends
  lock,       \* holder of persistMu: "free", "main", "dial"
  attempt,    \* attempts of the holder
  snapshot,   \* worker_health_status and health_status
  history,    \* the rows of each in their history tables, in order of id
  result      \* what the command returned

hrVars == <<run, cancelled, main, todo, cur, failed, dial,
            reach, workerErr, lock, attempt, snapshot, history, result>>

Nobody == [job |-> "none", outcome |-> "none"]
NoRow == [status |-> "none", run |-> 0]
Keys == Jobs \cup Workers

HrInit ==
  /\ run = 0 /\ cancelled = FALSE /\ main = "idle" /\ todo = {}
  /\ cur = Nobody /\ failed = {} /\ dial = "off"
  /\ reach = [w \in Workers |-> "none"] /\ workerErr = FALSE
  /\ lock = "free" /\ attempt = 0
  /\ snapshot = [k \in Keys |-> NoRow] /\ history = [k \in Keys |-> << >>] /\ result = "none"

-----------------------------------------------------------------------------
(* The command starts with the jobs it was asked for; the other goroutine   *)
(* starts with it.                                                        *)
ExecuteContext(jobs) ==
  /\ main \in {"idle", "done"} /\ run < MaxRuns /\ dial \in {"off", "sent"}
  /\ run' = run + 1 /\ main' = "loop" /\ todo' = jobs /\ cur' = Nobody /\ failed' = {}
  /\ cancelled' = FALSE /\ dial' = "dial"
  /\ reach' = [w \in Workers |-> "none"] /\ workerErr' = FALSE /\ result' = "none"
  /\ lock' = "free" /\ attempt' = 0
  /\ UNCHANGED <<snapshot, history>>

(* probeTCP: a worker answers or not; after a cancellation it does not. *)
ProbeTCP(w) ==
  /\ dial = "dial" /\ reach[w] = "none"
  /\ \E a \in {"healthy", "unhealthy"} :
       /\ a = "healthy" => ~cancelled
       /\ reach' = [reach EXCEPT ![w] = a]
  /\ UNCHANGED <<run, cancelled, main, todo, cur, failed, dial,
                 workerErr, lock, attempt, snapshot, history, result>>

(* All have answered (wg.Wait). *)
DialWorkers ==
  /\ dial = "dial" /\ \A w \in Workers : reach[w] # "none"
  /\ workerErr' = (\E w \in Workers : reach[w] = "unhealthy")
  /\ dial' = "store"
  /\ UNCHANGED <<run, cancelled, main, todo, cur, failed,
                 reach, lock, attempt, snapshot, history, result>>

(* The jobs the loop may still take: none once ctx is cancelled. *)
LoopTop == IF cancelled THEN {} ELSE todo

(* A check passes, fails, finds no allocation, or finds nothing configured. *)
CheckJob(j) ==
  /\ main = "loop" /\ j \in LoopTop
  /\ todo' = todo \ {j}
  /\ \E o \in {"healthy", "unhealthy", "none", "skipped"} :
       /\ cur' = [job |-> j, outcome |-> o]
       /\ main' = IF o = "none" THEN "checked" ELSE "store"
  /\ UNCHANGED <<run, cancelled, failed, dial, reach, workerErr,
                 lock, attempt, snapshot, history, result>>

JobReturns ==
  /\ main = "checked"
  /\ failed' = IF cur.outcome = "unhealthy" THEN failed \cup {cur.job} ELSE failed
  /\ main' = "loop" /\ cur' = Nobody
  /\ UNCHANGED <<run, cancelled, todo, dial, reach, workerErr,
                 lock, attempt, snapshot, history, result>>

LoopEnds ==
  /\ main = "loop" /\ LoopTop = {}
  /\ main' = "join"
  /\ UNCHANGED <<run, cancelled, todo, cur, failed, dial, reach,
                 workerErr, lock, attempt, snapshot, history, result>>

-----------------------------------------------------------------------------
(* Storing. *)

Pc(p) == IF p = "main" THEN main ELSE dial

AcquirePersistMu(p) ==
  /\ Pc(p) = "store" /\ lock = "free"
  /\ lock' = p /\ attempt' = 1
  /\ UNCHANGED <<run, cancelled, main, todo, cur, failed, dial,
                 reach, workerErr, snapshot, history, result>>

(* The rows of the holder: of its job, or of all workers. *)
KeysToStore(p) == IF p = "main" THEN {cur.job} ELSE Workers

RowToStore(p, k) ==
  IF p = "main" THEN [status |-> cur.outcome, run |-> run]
  ELSE [status |-> reach[k], run |-> run]

Upsert(p) ==
  snapshot' = [k \in Keys |-> IF k \in KeysToStore(p) THEN RowToStore(p, k) ELSE snapshot[k]]

AppendHistory(p) ==
  history' = [k \in Keys |-> IF k \in KeysToStore(p) THEN Append(history[k], RowToStore(p, k))
                             ELSE history[k]]

(* Latest row and history in one transaction, rolled back when one fails. *)
PersistOnce(p, ok) ==
  IF ok THEN Upsert(p) /\ AppendHistory(p) ELSE UNCHANGED <<snapshot, history>>

(* A store's error is the job's, or the workers' unless they had one. *)
ReportStore(p, err) ==
  IF p = "main"
  THEN /\ main' = "checked"
       /\ cur' = IF err THEN [cur EXCEPT !.outcome = "unhealthy"] ELSE cur
       /\ UNCHANGED <<dial, workerErr>>
  ELSE /\ dial' = "sent" /\ workerErr' = (workerErr \/ err)
       /\ UNCHANGED <<main, cur>>

(* Mutant: the mutex is released on success only. *)
ReleaseOnSuccess(p, err) == lock' = IF err THEN lock ELSE "free"

Release(p, err) == lock' = "free"

PersistWith(p) ==
  /\ lock = p /\ Pc(p) = "store"
  /\ \E outcome \in {"committed", "locked", "error"} :
       LET ok == outcome = "committed"
           again == outcome = "locked" /\ attempt < PersistLockAttempts
       IN
       /\ PersistOnce(p, ok)
       /\ IF again
          THEN attempt' = attempt + 1 /\ UNCHANGED <<lock, main, dial, cur, workerErr>>
          ELSE attempt' = 0 /\ Release(p, ~ok) /\ ReportStore(p, ~ok)
  /\ UNCHANGED <<run, cancelled, todo, failed, reach, result>>

-----------------------------------------------------------------------------
(* The end. *)

JoinHealthRunErrors == IF workerErr \/ failed # {} THEN "failed" ELSE "ok"

(* The receive from workerCh. *)
Received == dial = "sent"

RunJobsReturns ==
  /\ main = "join" /\ Received
  /\ main' = "done"
  /\ result' = IF cancelled THEN "cancelled" ELSE JoinHealthRunErrors
  /\ UNCHANGED <<run, cancelled, todo, cur, failed, dial, reach,
                 workerErr, lock, attempt, snapshot, history>>

Cancel ==
  /\ main \notin {"idle", "done"} /\ ~cancelled /\ cancelled' = TRUE
  /\ UNCHANGED <<run, main, todo, cur, failed, dial, reach,
                 workerErr, lock, attempt, snapshot, history, result>>

MainStep ==
  \/ \E j \in Jobs : CheckJob(j)
  \/ JobReturns \/ LoopEnds
  \/ AcquirePersistMu("main") \/ PersistWith("main")
  \/ RunJobsReturns

DialStep ==
  \/ \E w \in Workers : ProbeTCP(w)
  \/ DialWorkers
  \/ AcquirePersistMu("dial") \/ PersistWith("dial")

HrNext ==
  \/ \E jobs \in SUBSET Jobs : ExecuteContext(jobs)
  \/ MainStep \/ DialStep \/ Cancel

(* Both goroutines run; a check and a dial end, each by its own timeout.    *)
(* The runtime hands the mutex to a goroutine that waits for it.            *)
HrSpec == HrInit /\ [][HrNext]_hrVars /\ WF_hrVars(MainStep) /\ WF_hrVars(DialStep)

-----------------------------------------------------------------------------
(* Properties. *)

(* A command that returned success has dialled every worker and found it    *)
(* reachable, no job it was asked for failed, and all of it is stored under *)
(* its run: the two goroutines' errors, those of the stores included, reach *)
(* the result (RunJobsWithOptions).                                         *)
SuccessIsStored ==
  result = "ok" =>
    /\ \A w \in Workers : snapshot[w].run = run /\ snapshot[w].status = "healthy"
    /\ \A j \in Jobs : snapshot[j].run = run => snapshot[j].status # "unhealthy"

(* One unhealthy job or worker does not keep the others from being looked   *)
(* at: a command that was not cancelled has checked every job and waited    *)
(* for every worker, and no goroutine of it outlives it.                    *)
NobodySkipped ==
  main = "done" =>
    /\ dial = "sent"
    /\ ~cancelled => todo = {} /\ \A w \in Workers : reach[w] # "none"

(* The latest row of a worker or job is the newest of its history, however  *)
(* the stores of the two goroutines, of several commands and failed stores  *)
(* interleave.                                                              *)
SnapshotIsNewest ==
  \A k \in Keys :
    snapshot[k] = IF history[k] = << >> THEN NoRow ELSE history[k][Len(history[k])]

(* Every command returns, also when the database stays locked or the        *)
(* operator cancels it while a store waits.                                 *)
RunReturns == main # "idle" ~> main = "done"

=============================================================================
