--------------------------- MODULE MCTermination ----------------------------
(***************************************************************************)
(* What has to come to an end, on small instances: a deploy, the calls      *)
(* queued at a hook semaphore, the batches of sessions on the workers, a    *)
(* health check and the command that runs it, and restores of one snapshot  *)
(* to one place. The components share no state and are explored one at a    *)
(* time.                                                                    *)
(***************************************************************************)
EXTENDS MCDeploy, Restore

VARIABLES
  scenario,  \* the component that runs
  capacity, holders, waiters, notified, call, mu,
  config, up, flips, at, left, batch, downProbe, downHook, recorder, rows, checks, last,
  answered,
  repRun, repCancelled, main, repTodo, repCur, repFailed, dial, reach, workerErr, lock,
  attempt, snapshot, history, repResult,
  fanRun, fanStage, fanPc, base, next, session, fanFailed, errs, applied, fanCancelled,
  fanResult

ThreeAllocations == {"a1", "a2", "a3"}

MCSelections == {<<1>>, <<1, 2>>, <<2, 2, 1>>, <<3, 1, 2>>, <<1, 2, 3, 1>>, <<1, 4>>}

queueVars == <<capacity, holders, waiters, notified, call, mu>>
healthVars == <<config, up, flips, at, left, batch, downProbe, downHook, recorder, rows,
                checks, last, answered>>
hrVars == <<repRun, repCancelled, main, repTodo, repCur, repFailed, dial, reach,
            workerErr, lock, attempt, snapshot, history, repResult>>
fanVars == <<fanRun, fanStage, fanPc, base, next, session, fanFailed, errs, applied,
             fanCancelled, fanResult>>

-----------------------------------------------------------------------------
Q == INSTANCE HookSemaphore WITH
  Allocations <- ThreeAllocations, Requested <- {0, 1, 2, 3},
  DefaultSemaphoreCapacity <- 1, MaxSemaphoreCapacity <- 2, Faults <- {}

H == INSTANCE Health WITH
  Targets <- {"w1", "w2"}, BatchWidth <- 1, Attempts <- 2, MaxFlips <- 1, MaxChecks <- 1

R == INSTANCE HealthRun WITH
  Jobs <- {"j1", "j2"}, Workers <- {"w1"}, PersistLockAttempts <- 2, MaxRuns <- 1,
  run <- repRun, cancelled <- repCancelled, todo <- repTodo, cur <- repCur,
  failed <- repFailed, result <- repResult

F == INSTANCE FanOut WITH
  Hosts <- {1, 2, 3}, Selections <- MCSelections, Limits <- {1, 2}, run <- fanRun,
  stage <- fanStage, pc <- fanPc, failed <- fanFailed, cancelled <- fanCancelled,
  result <- fanResult

-----------------------------------------------------------------------------
(* The components that do not run stay in an initial state. *)
MCInit ==
  /\ scenario \in {"deploy", "queue", "health", "report", "fan", "restore"}
  /\ Init
  /\ Q!Init
  /\ H!HealthInit /\ (scenario # "health" => config = {} /\ up = {})
  /\ R!HrInit
  /\ F!FanInit
  /\ RestoreInit

MCNext ==
  \/ /\ scenario = "deploy" /\ Next
     /\ UNCHANGED <<scenario, queueVars, healthVars, hrVars, fanVars, restoreVars>>
  \/ /\ scenario = "queue" /\ Q!Next
     /\ UNCHANGED <<scenario, vars, healthVars, hrVars, fanVars, restoreVars>>
  \/ /\ scenario = "health" /\ H!HealthNext
     /\ UNCHANGED <<scenario, vars, queueVars, hrVars, fanVars, restoreVars>>
  \/ /\ scenario = "report" /\ R!HrNext
     /\ UNCHANGED <<scenario, vars, queueVars, healthVars, fanVars, restoreVars>>
  \/ /\ scenario = "fan" /\ F!FanNext
     /\ UNCHANGED <<scenario, vars, queueVars, healthVars, hrVars, restoreVars>>
  \/ /\ scenario = "restore" /\ RestoreNext
     /\ UNCHANGED <<scenario, vars, queueVars, healthVars, hrVars, fanVars>>

mcVars == <<scenario, vars, queueVars, healthVars, hrVars, fanVars, restoreVars>>

(* The fairness each component assumes, while it is the one that runs. *)
MCSpec ==
  /\ MCInit /\ [][MCNext]_mcVars
  /\ WF_vars(scenario = "deploy" /\ RunStep)
  /\ WF_queueVars(scenario = "queue" /\ Q!GrantNextWaiter)
  /\ WF_queueVars(scenario = "queue" /\ Q!Unlock)
  /\ \A a \in ThreeAllocations :
       /\ WF_queueVars(scenario = "queue" /\ Q!Notified(a))
       /\ WF_queueVars(scenario = "queue" /\ Q!CancelWait(a))
       /\ SF_queueVars(scenario = "queue" /\ call[a] = "holding" /\ Q!Release(a))
  /\ WF_healthVars(scenario = "health" /\ H!CheckStep)
  /\ WF_hrVars(scenario = "report" /\ R!MainStep)
  /\ WF_hrVars(scenario = "report" /\ R!DialStep)
  /\ WF_fanVars(scenario = "fan" /\ F!Dispatcher)
  /\ \A h \in {1, 2, 3} : WF_fanVars(scenario = "fan" /\ F!CutOff(h))
  /\ \A r \in Restorers : WF_restoreVars(scenario = "restore" /\ RestoreStep(r))

-----------------------------------------------------------------------------
(* Properties, each of the component it is named after. *)

(* With every holder releasing and no deadline passing, each queued call    *)
(* gets its slot.                                                           *)
EveryoneServed == Q!EveryoneServed

(* A health check ends, the command that runs it for all jobs and workers   *)
(* returns, and a cancelled command returns even when its sessions hang.    *)
CommandsReturn == H!CheckReturns /\ R!RunReturns /\ F!CancelReturns

(* Success means that every worker was reached and succeeded, failures name *)
(* the others, no more sessions than allowed run and none is left behind, a *)
(* batch waits for the one before it, and facts are applied whole, whenever *)
(* the cancellation comes.                                                  *)
SessionsAccounted ==
  [][scenario = "fan" =>
       /\ F!SuccessMeansEveryWorker'
       /\ F!EveryWorkerAccounted'
       /\ F!LimitHeld'
       /\ F!NoneLeftBehind'
       /\ F!AppliedWhole'
       /\ F!BatchesWait]_mcVars

(* However often it is killed or fails, a restore called again ends with    *)
(* success.                                                                 *)
RestoreSucceeds == scenario = "restore" => CalledAgainSucceeds

=============================================================================
