------------------------------- MODULE Trust -------------------------------
(***************************************************************************)
(* kive worker trust: pin the SSH host key of each selected worker in the  *)
(* bucket's known_hosts file.  Up to `limit` goroutines work at once, and  *)
(* they share one file that three tools write in three ways: kive creates  *)
(* it when it is missing, ssh-keygen -R copies it and renames the copy     *)
(* over it, and kive appends the scanned keys.  None of them locks it, so  *)
(* a rename may undo an append; the command reads every pin back at the    *)
(* end.                                                                    *)
(***************************************************************************)
EXTENDS Naturals, FiniteSets, FiniteSetsExt

CONSTANTS
  Hosts,        \* worker addresses, numbers in workers.conf order
  Keys,         \* host keys
  Selections,   \* the target sets used, subsets of Hosts
  Limits,       \* the values of -c used
  MaxAttempts,  \* ssh-keyscan attempts per host (5 in the code)
  MaxRuns       \* bound on the number of commands

VARIABLES
  known,      \* [Hosts -> SUBSET Keys], the pins in known_hosts
  exists,     \* known_hosts is there
  hostkey,    \* the key each worker presents
  run,        \* the command's arguments
  before,     \* known_hosts when the command started
  unspawned,  \* hosts the loop has not come to
  task,       \* where each host's goroutine is
  tries,      \* scans made for each host
  copy,       \* what ssh-keygen -R read, per host
  failures,   \* hosts in the failures map
  cancelled,  \* ctx is done
  unlisted,   \* hosts whose fingerprints are still to print
  pc,         \* where the command is
  runs        \* commands started

trustVars == <<known, exists, hostkey, run, before, unspawned, task, tries, copy,
               failures, cancelled, unlisted, pc, runs>>

NoPins == [h \in Hosts |-> {}]

Active == {h \in Hosts : task[h] \notin {"out", "done"}}

TrustInit ==
  /\ known \in {NoPins} \cup {[h \in Hosts |-> {k}] : k \in Keys}
  /\ exists \in (IF known = NoPins THEN BOOLEAN ELSE {TRUE})
  /\ hostkey \in {[h \in Hosts |-> k] : k \in Keys}
  /\ run = [targets |-> {}, force |-> FALSE, ignore |-> FALSE, limit |-> 1]
  /\ before = known /\ unspawned = {} /\ failures = {} /\ unlisted = {}
  /\ task = [h \in Hosts |-> "out"] /\ tries = [h \in Hosts |-> 0]
  /\ copy = [h \in Hosts |-> NoPins]
  /\ cancelled = FALSE /\ pc = "idle" /\ runs = 0

(* External: the worker is reinstalled and presents another key. *)
Reinstall(h, k) ==
  /\ pc = "idle" /\ k # hostkey[h]
  /\ hostkey' = [hostkey EXCEPT ![h] = k]
  /\ UNCHANGED <<known, exists, run, before, unspawned, task, tries, copy, failures,
                 cancelled, unlisted, pc, runs>>

(* Select the workers and start the loop; an empty selection is refused.   *)
ExecuteTrust(targets, force, ignore, limit) ==
  /\ pc \in {"idle", "ok", "failed"} /\ runs < MaxRuns
  /\ targets # {}
  /\ run' = [targets |-> targets, force |-> force, ignore |-> ignore, limit |-> limit]
  /\ before' = known /\ unspawned' = targets
  /\ task' = [h \in Hosts |-> "out"] /\ tries' = [h \in Hosts |-> 0]
  /\ copy' = [h \in Hosts |-> NoPins]
  /\ failures' = {} /\ cancelled' = FALSE /\ unlisted' = {}
  /\ pc' = "spawn" /\ runs' = runs + 1
  /\ UNCHANGED <<known, exists, hostkey>>

Cancel ==
  /\ pc \in {"spawn", "wait", "list"} /\ ~cancelled
  /\ cancelled' = TRUE
  /\ UNCHANGED <<known, exists, hostkey, run, before, unspawned, task, tries, copy,
                 failures, unlisted, pc, runs>>

(* The loop takes the next host once the semaphore has room; a cancelled   *)
(* context ends the loop instead.                                          *)
Spawn ==
  /\ pc = "spawn"
  /\ \/ /\ unspawned = {} \/ cancelled
        /\ pc' = "wait"
        /\ UNCHANGED <<unspawned, task>>
     \/ /\ unspawned # {} /\ ~cancelled
        /\ Cardinality(Active) < run.limit
        /\ task' = [task EXCEPT ![Min(unspawned)] = "ensure"]
        /\ unspawned' = unspawned \ {Min(unspawned)}
        /\ UNCHANGED pc
  /\ UNCHANGED <<known, exists, hostkey, run, before, tries, copy, failures, cancelled,
                 unlisted, runs>>

-----------------------------------------------------------------------------
(* One goroutine. *)

To(h, s) == task' = [task EXCEPT ![h] = s]

Fail(h) ==
  /\ To(h, "done")
  /\ failures' = failures \cup {h}

AfterEnsure == IF run.force THEN "remove" ELSE "lookup"

(* Ask whether known_hosts is there ... *)
EnsureKnownHostsDir(h) ==
  /\ task[h] = "ensure"
  /\ To(h, IF exists THEN AfterEnsure ELSE "create")
  /\ UNCHANGED <<known, exists, failures, tries, copy>>

(* ... and, when it was not, write an empty file: over whatever another    *)
(* goroutine has put there meanwhile.                                      *)
CreateKnownHosts(h) ==
  /\ task[h] = "create"
  /\ known' = NoPins /\ exists' = TRUE
  /\ To(h, AfterEnsure)
  /\ UNCHANGED <<failures, tries, copy>>

(* External: ssh-keygen -R reads the file ... *)
RemoveBegins(h) ==
  /\ task[h] = "remove"
  /\ copy' = [copy EXCEPT ![h] = known]
  /\ To(h, "rename")
  /\ UNCHANGED <<known, exists, failures, tries>>

(* ... and renames its copy without the host over it, if it found the      *)
(* host.  Its outcome is ignored: killed by the context it changes nothing *)
(* and the scan goes on.                                                   *)
RemoveEnds(h) ==
  /\ task[h] = "rename"
  /\ \/ known' = IF copy[h][h] = {} THEN known ELSE [copy[h] EXCEPT ![h] = {}]
     \/ cancelled /\ UNCHANGED known
  /\ To(h, "scan")
  /\ UNCHANGED <<exists, failures, tries, copy>>

(* Without --force a host that has a pin is left alone. *)
IsHostTrusted(h) ==
  /\ task[h] = "lookup"
  /\ \/ /\ cancelled
        /\ Fail(h)
     \/ /\ To(h, IF known[h] # {} THEN "done" ELSE "scan")
        /\ UNCHANGED failures
  /\ UNCHANGED <<known, exists, tries, copy>>

(* One ssh-keyscan: keys, no keys, an error worth another attempt after a  *)
(* pause that ends early on cancellation, or another error.                *)
RunSSHKeyscan(h) ==
  /\ task[h] = "scan"
  /\ tries' = [tries EXCEPT ![h] = @ + 1]
  /\ \/ /\ To(h, "append")
        /\ UNCHANGED failures
     \/ Fail(h)
     \/ /\ tries[h] + 1 < MaxAttempts /\ ~cancelled
        /\ UNCHANGED <<task, failures>>
  /\ UNCHANGED <<known, exists, copy>>

AppendKnownHostLines(h) ==
  /\ task[h] = "append"
  /\ \/ /\ exists
        /\ known' = [known EXCEPT ![h] = @ \cup {hostkey[h]}]
        /\ To(h, "done")
        /\ UNCHANGED failures
     \/ Fail(h) /\ UNCHANGED known
  /\ UNCHANGED <<exists, tries, copy>>

TrustHost(h) ==
  /\ \/ EnsureKnownHostsDir(h)
     \/ CreateKnownHosts(h)
     \/ RemoveBegins(h)
     \/ RemoveEnds(h)
     \/ IsHostTrusted(h)
     \/ RunSSHKeyscan(h)
     \/ AppendKnownHostLines(h)
  /\ UNCHANGED <<hostkey, run, before, unspawned, cancelled, unlisted, pc, runs>>

-----------------------------------------------------------------------------
(* wg.Wait(); then a cancelled run fails, and failures end the command     *)
(* unless --ignore-failure.                                                *)
TrustHostsReturns ==
  /\ pc = "wait" /\ Active = {}
  /\ \/ /\ cancelled \/ (failures # {} /\ ~run.ignore)
        /\ pc' = "failed"
        /\ UNCHANGED unlisted
     \/ /\ ~cancelled /\ (failures = {} \/ run.ignore)
        /\ pc' = "list"
        /\ unlisted' = run.targets \ failures
  /\ UNCHANGED <<known, exists, hostkey, run, before, unspawned, task, tries, copy,
                 failures, cancelled, runs>>

(* Mutant: a host without a fingerprint is passed over. *)
HostKeyFingerprintsUnchecked ==
  /\ pc = "list" /\ unlisted # {}
  /\ unlisted' = unlisted \ {Min(unlisted)}
  /\ UNCHANGED pc
  /\ UNCHANGED <<known, exists, hostkey, run, before, unspawned, task, tries, copy,
                 failures, cancelled, runs>>

(* Print the pinned fingerprints of one host; the command fails if there   *)
(* are none, or on cancellation.                                           *)
HostKeyFingerprints ==
  /\ pc = "list" /\ unlisted # {}
  /\ \/ /\ known[Min(unlisted)] # {}
        /\ unlisted' = unlisted \ {Min(unlisted)}
        /\ UNCHANGED pc
     \/ /\ known[Min(unlisted)] = {} \/ cancelled
        /\ pc' = "failed"
        /\ UNCHANGED unlisted
  /\ UNCHANGED <<known, exists, hostkey, run, before, unspawned, task, tries, copy,
                 failures, cancelled, runs>>

EndTrust ==
  /\ pc = "list" /\ unlisted = {}
  /\ pc' = IF failures = {} THEN "ok" ELSE "failed"
  /\ UNCHANGED <<known, exists, hostkey, run, before, unspawned, task, tries, copy,
                 failures, cancelled, unlisted, runs>>

TrustNext ==
  \/ \E h \in Hosts, k \in Keys : Reinstall(h, k)
  \/ \E S \in Selections, f, i \in BOOLEAN, n \in Limits : ExecuteTrust(S, f, i, n)
  \/ Cancel
  \/ Spawn
  \/ \E h \in Hosts : TrustHost(h)
  \/ TrustHostsReturns
  \/ HostKeyFingerprints
  \/ EndTrust

TrustSpec == TrustInit /\ [][TrustNext]_trustVars

-----------------------------------------------------------------------------
(* The prerequisite check that opens a deploy: every worker has a pin. *)
CheckTrustedHosts(S) == \A h \in S : known[h] # {}

(* A trust command that succeeds leaves its workers ready for deploy: each *)
(* passes CheckTrustedHosts.  The goroutines alone do not give this: under *)
(* --force the rename of one removes what another has appended, and on the *)
(* first run one may empty the file another has filled.  The fingerprints  *)
(* ExecuteTrust reads back at the end do.                                  *)
TrustedPassesPrerequisites == pc = "ok" => CheckTrustedHosts(run.targets)

(* Workers that were not selected keep exactly the pins they had, however  *)
(* the goroutines of the selected ones rewrite the shared file.            *)
OthersKeepPins == \A h \in Hosts \ run.targets : known[h] = before[h]

(* Without --force a pin that was there when the command started is never  *)
(* removed and gains no second key, though the worker may present a new    *)
(* one (prepare-worker.md: re-pin with --force).                           *)
PinsAreSticky ==
  ~run.force => \A h \in Hosts : before[h] # {} => known[h] = before[h]

=============================================================================
