---------------------------- MODULE HookSemaphore ----------------------------
(***************************************************************************)
(* One named semaphore of the hook runtime API.  The hooks of an event run *)
(* for many allocations at once, one process per allocation; they ask for  *)
(* a slot with POST /semaphore/acquire and give it back with /release.     *)
(* Semaphores of different names share nothing but the coordinator's       *)
(* mutex.  A call that is refused (another capacity, a slot that is not    *)
(* held) changes nothing and is no step.                                   *)
(***************************************************************************)
EXTENDS Naturals, Sequences, FiniteSets

CONSTANTS
  Allocations,              \* allocations whose hooks use the semaphore
  Requested,                \* the capacities scripts ask for
  DefaultSemaphoreCapacity,
  MaxSemaphoreCapacity,
  Faults                    \* what may go wrong: "timeout", "exit"

ASSUME SemaphoreAssumption ==
  /\ IsFiniteSet(Allocations)
  /\ Requested \subseteq Nat
  /\ DefaultSemaphoreCapacity \in Nat \ {0}
  /\ MaxSemaphoreCapacity \in Nat

VARIABLES
  capacity,  \* of the semaphore, 0 = not created yet
  holders,   \* allocations with a slot
  waiters,   \* queued calls, oldest first
  notified,  \* calls whose notify channel is closed
  call,      \* where the hook of each allocation is
  mu         \* the mutex is held by a release that hands out slots

vars == <<capacity, holders, waiters, notified, call, mu>>

(* "cancelling": the deadline has won the select, cancelWait has not run;  *)
(* "holding": the script was told that it has a slot.                       *)
Calls == {"idle", "waiting", "cancelling", "holding"}

Queued == {waiters[i] : i \in DOMAIN waiters}

TypeOK ==
  /\ capacity \in 0 .. MaxSemaphoreCapacity
  /\ holders \subseteq Allocations /\ notified \subseteq Allocations
  /\ waiters \in Seq(Allocations)
  /\ call \in [Allocations -> Calls]
  /\ mu \in BOOLEAN

Init ==
  /\ capacity = 0 /\ holders = {} /\ waiters = <<>> /\ notified = {}
  /\ call = [a \in Allocations |-> "idle"]
  /\ mu = FALSE

-----------------------------------------------------------------------------
NormalCapacity(c) == IF c < 1 THEN DefaultSemaphoreCapacity ELSE c

(* Mutant: one slot too many. *)
RegisterWaitOneMore(a, c) ==
  /\ call[a] = "idle" /\ ~mu
  /\ NormalCapacity(c) <= MaxSemaphoreCapacity
  /\ capacity \in {0, NormalCapacity(c)}
  /\ capacity' = NormalCapacity(c)
  /\ IF a \in holders \/ Cardinality(holders) <= NormalCapacity(c)
     THEN /\ holders' = holders \cup {a}
          /\ call' = [call EXCEPT ![a] = "holding"]
          /\ UNCHANGED waiters
     ELSE /\ waiters' = Append(waiters, a)
          /\ call' = [call EXCEPT ![a] = "waiting"]
          /\ UNCHANGED holders
  /\ UNCHANGED <<notified, mu>>

(* registerWait, under the mutex: the slot is held already, is free, or     *)
(* the call joins the queue.                                                *)
RegisterWait(a, c) ==
  /\ call[a] = "idle" /\ ~mu
  /\ NormalCapacity(c) <= MaxSemaphoreCapacity
  /\ capacity \in {0, NormalCapacity(c)}
  /\ capacity' = NormalCapacity(c)
  /\ IF a \in holders \/ Cardinality(holders) < NormalCapacity(c)
     THEN /\ holders' = holders \cup {a}
          /\ call' = [call EXCEPT ![a] = "holding"]
          /\ UNCHANGED waiters
     ELSE /\ waiters' = Append(waiters, a)
          /\ call' = [call EXCEPT ![a] = "waiting"]
          /\ UNCHANGED holders
  /\ UNCHANGED <<notified, mu>>

(* The select of acquire takes the closed channel. *)
Notified(a) ==
  /\ call[a] = "waiting" /\ a \in notified
  /\ call' = [call EXCEPT ![a] = "holding"]
  /\ notified' = notified \ {a}
  /\ UNCHANGED <<capacity, holders, waiters, mu>>

(* The select takes the deadline or the broken connection; a channel that   *)
(* is closed by now does not prevent it.                                    *)
TimesOut(a) ==
  /\ call[a] = "waiting" /\ "timeout" \in Faults
  /\ call' = [call EXCEPT ![a] = "cancelling"]
  /\ UNCHANGED <<capacity, holders, waiters, notified, mu>>

(* A call is queued at most once, so filtering it out removes one element.  *)
Without(s, a) ==
  IF \E i \in DOMAIN s : s[i] = a
  THEN LET k == CHOOSE i \in DOMAIN s : s[i] = a
       IN  [i \in 1 .. Len(s) - 1 |-> IF i < k THEN s[i] ELSE s[i + 1]]
  ELSE s

(* The call leaves the queue and the script is told that it timed out.  If  *)
(* a release got in first, the slot stays with the allocation.              *)
CancelWait(a) ==
  /\ call[a] = "cancelling" /\ ~mu
  /\ waiters' = Without(waiters, a)
  /\ notified' = notified \ {a}
  /\ call' = [call EXCEPT ![a] = "idle"]
  /\ UNCHANGED <<capacity, holders, mu>>

(* Mutant: the mutex is given up before the slots are handed out. *)
ReleaseUnlocks(a) ==
  /\ call[a] \in {"holding", "idle"} /\ ~mu
  /\ a \in holders
  /\ holders' = holders \ {a}
  /\ call' = [call EXCEPT ![a] = "idle"]
  /\ UNCHANGED <<capacity, waiters, notified, mu>>

(* A script may release what it holds, and also what it was told it does    *)
(* not.  The mutex is kept while grantNextWaiterLocked runs.                *)
Release(a) ==
  /\ call[a] \in {"holding", "idle"} /\ ~mu
  /\ a \in holders
  /\ holders' = holders \ {a}
  /\ call' = [call EXCEPT ![a] = "idle"]
  /\ mu' = TRUE
  /\ UNCHANGED <<capacity, waiters, notified>>

(* Mutant: the newest waiter is served. *)
GrantNewest ==
  /\ mu /\ Cardinality(holders) < capacity /\ waiters # <<>>
  /\ LET next == waiters[Len(waiters)]
     IN  /\ holders' = holders \cup {next}
         /\ notified' = notified \cup {next}
  /\ waiters' = SubSeq(waiters, 1, Len(waiters) - 1)
  /\ UNCHANGED <<capacity, call, mu>>

(* One turn of the loop of grantNextWaiterLocked. *)
GrantNextWaiter ==
  /\ mu /\ Cardinality(holders) < capacity /\ waiters # <<>>
  /\ holders' = holders \cup {Head(waiters)}
  /\ notified' = notified \cup {Head(waiters)}
  /\ waiters' = Tail(waiters)
  /\ UNCHANGED <<capacity, call, mu>>

Unlock ==
  /\ mu /\ ~(Cardinality(holders) < capacity /\ waiters # <<>>)
  /\ mu' = FALSE
  /\ UNCHANGED <<capacity, holders, waiters, notified, call>>

(* The script ends without giving its slot back; nothing does it for it.    *)
HookExits(a) ==
  /\ call[a] = "holding" /\ "exit" \in Faults
  /\ call' = [call EXCEPT ![a] = "idle"]
  /\ UNCHANGED <<capacity, holders, waiters, notified, mu>>

Next ==
  \/ \E a \in Allocations :
       \/ \E c \in Requested : RegisterWait(a, c)
       \/ Notified(a)
       \/ TimesOut(a)
       \/ CancelWait(a)
       \/ Release(a)
       \/ HookExits(a)
  \/ GrantNextWaiter
  \/ Unlock

Spec == Init /\ [][Next]_vars

(* The server's goroutines run, and a script that holds a slot releases it. *)
(* Other calls keep taking the mutex, so its release is enabled again and   *)
(* again only: sync.Mutex serves the goroutine that has waited longest, and *)
(* that is strong fairness.                                                 *)
Fairness ==
  /\ WF_vars(GrantNextWaiter) /\ WF_vars(Unlock)
  /\ \A a \in Allocations :
       /\ WF_vars(Notified(a)) /\ WF_vars(CancelWait(a))
       /\ SF_vars(call[a] = "holding" /\ Release(a))

FairSpec == Spec /\ Fairness

-----------------------------------------------------------------------------
(* No more allocations hold the semaphore than it has slots, and each hook  *)
(* that was told it has one is among them: capacity 1 is a mutex.           *)
MutualExclusion ==
  /\ Cardinality(holders) <= capacity
  /\ \A a \in Allocations : call[a] = "holding" => a \in holders

(* No slot stays free while a call is queued, whatever calls are cancelled  *)
(* around a release: a grant is never lost to a waiter that has gone.       *)
NoIdleSlot == ~mu /\ waiters # <<>> => Cardinality(holders) = capacity

(* The queue holds exactly the calls that wait and have not been notified,  *)
(* each once; every slot handed over has its call or its cancel pending.    *)
QueueMatchesCalls ==
  /\ Queued = {a \in Allocations : call[a] \in {"waiting", "cancelling"}} \ notified
  /\ \A i, k \in DOMAIN waiters : waiters[i] = waiters[k] => i = k
  /\ \A a \in notified : a \in holders /\ call[a] \in {"waiting", "cancelling"}
  /\ Queued \cap holders = {}

(* A call that finds the queue occupied never gets a slot before the call   *)
(* at its head.                                                             *)
NobodyOvertakes ==
  [][\A a \in holders' \ holders : waiters = <<>> \/ a = Head(waiters)]_vars

(* A semaphore with a queue has been created. *)
QueueHasCapacity == waiters # <<>> => capacity > 0

(* With every holder releasing and no deadline passing, each queued call    *)
(* gets its slot.                                                           *)
EveryoneServed ==
  \A a \in Allocations : call[a] = "waiting" ~> call[a] = "holding"

(* "Timed out waiting for semaphore" is the answer to a call that did not   *)
(* get a slot: each slot belongs to a hook that was told so or is about to  *)
(* be.                                                                      *)
TimedOutHoldsNothing ==
  \A a \in holders : call[a] \in {"holding", "waiting"} \/ a \in notified

=============================================================================
