------------------------------ MODULE MCShared ------------------------------
(***************************************************************************)
(* Two jobs on one worker, deployed together and one by one; and the health *)
(* check of a job and the command that runs it for all jobs and workers;    *)
(* and the pinning of their host keys; and the signing of jobs. The         *)
(* components share no state here and are explored one at a time.           *)
(***************************************************************************)
EXTENDS MCDeploy

CONSTANTS None

VARIABLES
  scenario,  \* the component that runs
  config, up, flips, at, left, batch, downProbe, downHook, recorder, rows, checks, last,
  answered,
  repRun, repCancelled, main, repTodo, repCur, repFailed, dial, reach, workerErr, lock,
  attempt, snapshot, history, repResult,
  known, exists, hostkey, trRun, before, unspawned, task, tries, copy, failures,
  trCancelled, unlisted, trPc, runs,
  sgTree, sig, crt, key, minted, trusted, expired, op, unread, snap, cert, row,
  signings, intact, killed, edits, commands

healthVars == <<config, up, flips, at, left, batch, downProbe, downHook, recorder, rows,
                checks, last, answered>>
hrVars == <<repRun, repCancelled, main, repTodo, repCur, repFailed, dial, reach,
            workerErr, lock, attempt, snapshot, history, repResult>>
trustVars == <<known, exists, hostkey, trRun, before, unspawned, task, tries, copy,
               failures, trCancelled, unlisted, trPc, runs>>
signVars == <<sgTree, sig, crt, key, minted, trusted, expired, op, unread, snap, cert,
              row, signings, intact, killed, edits, commands>>

-----------------------------------------------------------------------------
H == INSTANCE Health WITH
  Targets <- {"w1", "w2"}, BatchWidth <- 1, Attempts <- 2, MaxFlips <- 2, MaxChecks <- 2

R == INSTANCE HealthRun WITH
  Jobs <- {"j1", "j2"}, Workers <- {"w1"}, PersistLockAttempts <- 2, MaxRuns <- 2,
  run <- repRun, cancelled <- repCancelled, todo <- repTodo, cur <- repCur,
  failed <- repFailed, result <- repResult

T == INSTANCE Trust WITH
  Hosts <- {1, 2, 3}, Keys <- {"k1", "k2"}, Selections <- {{1, 2}}, Limits <- {1, 2},
  MaxAttempts <- 2, MaxRuns <- 1, run <- trRun, cancelled <- trCancelled, pc <- trPc

G == INSTANCE Signing WITH
  Files <- {"f1", "f2"}, Texts <- {"t1", "t2"}, CAs <- {"ca1", "ca2"}, MaxEdits <- 2,
  MaxCommands <- 3, tree <- sgTree

-----------------------------------------------------------------------------
(* The components that do not run stay in an initial state. *)
MCInit ==
  /\ scenario \in {"deploy", "health", "report", "trust", "signing"}
  /\ Init
  /\ H!HealthInit /\ (scenario # "health" => config = {} /\ up = {})
  /\ R!HrInit
  /\ T!TrustInit /\ (scenario # "trust" => ~exists /\ hostkey[1] = "k1")
  /\ G!SigningInit

MCNext ==
  \/ /\ scenario = "deploy" /\ Next
     /\ UNCHANGED <<scenario, healthVars, hrVars, trustVars, signVars>>
  \/ /\ scenario = "health" /\ H!HealthNext
     /\ UNCHANGED <<scenario, vars, hrVars, trustVars, signVars>>
  \/ /\ scenario = "report" /\ R!HrNext
     /\ UNCHANGED <<scenario, vars, healthVars, trustVars, signVars>>
  \/ /\ scenario = "trust" /\ T!TrustNext
     /\ UNCHANGED <<scenario, vars, healthVars, hrVars, signVars>>
  \/ /\ scenario = "signing" /\ G!SigningNext
     /\ UNCHANGED <<scenario, vars, healthVars, hrVars, trustVars>>

mcVars == <<scenario, vars, healthVars, hrVars, trustVars, signVars>>

MCSpec == MCInit /\ [][MCNext]_mcVars

-----------------------------------------------------------------------------
(* Properties, each of the component it is named after. *)

(* A check passes on the strength of single attempts, its rows and colour   *)
(* never hide a failure; and a command that ran checks beside the dials     *)
(* looked at every job and worker, reports success only for what it stored, *)
(* and leaves the latest rows equal to the newest of the history.           *)
HealthIsTrue ==
  /\ scenario = "health" =>
       H!PassIsOneAttempt /\ H!ColorFollowsLastCheck /\ H!RowsMatchTheAttempt
  /\ scenario = "report" =>
       R!SuccessIsStored /\ R!NobodySkipped /\ R!SnapshotIsNewest

(* A trust command that succeeds leaves its workers passing                 *)
(* CheckTrustedHosts, though its goroutines rewrite one file; other workers *)
(* keep their pins, and without --force a pin is neither removed nor joined *)
(* by a second key.                                                         *)
PinsAreTrusted ==
  scenario = "trust" =>
    T!TrustedPassesPrerequisites /\ T!OthersKeepPins /\ T!PinsAreSticky

(* A job recorded as signed holds files its vendor signed as a whole, one   *)
(* untouched since it was signed is recorded so, and the signing CA is a    *)
(* pair unless a command was killed half-way.                               *)
SignaturesAreTrue ==
  [][scenario = "signing" =>
       /\ G!SignedIsWhatWasSigned'
       /\ G!PairUnlessKilled'
       /\ G!SignThenBuild]_mcVars

=============================================================================
