------------------------- MODULE HookSemaphoreProofs -------------------------
(* Safety of the hook semaphore for any number of allocations and slots.    *)
EXTENDS HookSemaphore, FiniteSetTheorems, TLAPS

IInv ==
  /\ TypeOK
  /\ MutualExclusion
  /\ NoIdleSlot
  /\ QueueMatchesCalls
  /\ QueueHasCapacity

(* The elements of a queue without repetitions, before and after the three  *)
(* operations on it.                                                        *)
Elements(s) == {s[i] : i \in DOMAIN s}
Distinct(s) == \A i, k \in DOMAIN s : s[i] = s[k] => i = k

(* Joining the queue (registerWait). *)
LEMMA AppendElements ==
  ASSUME NEW S, NEW s \in Seq(S), NEW a \in S, Distinct(s), a \notin Elements(s)
  PROVE  /\ Append(s, a) \in Seq(S) /\ Append(s, a) # <<>>
         /\ Distinct(Append(s, a))
         /\ Elements(Append(s, a)) = Elements(s) \cup {a}
<1>1. /\ Append(s, a) \in Seq(S) /\ Append(s, a) # <<>>
      /\ DOMAIN s = 1 .. Len(s) /\ Len(s) \in Nat
      /\ DOMAIN Append(s, a) = 1 .. Len(s) + 1
      /\ \A i \in 1 .. Len(s) : Append(s, a)[i] = s[i]
      /\ Append(s, a)[Len(s) + 1] = a
  OBVIOUS
<1>2. Elements(Append(s, a)) = Elements(s) \cup {a}
  BY <1>1 DEF Elements
<1>3. Distinct(Append(s, a))
  BY <1>1 DEF Elements, Distinct
<1> QED BY <1>1, <1>2, <1>3

(* Leaving it at the head (grantNextWaiterLocked). *)
LEMMA TailElements ==
  ASSUME NEW S, NEW s \in Seq(S), s # <<>>, Distinct(s)
  PROVE  /\ Head(s) \in S /\ Tail(s) \in Seq(S) /\ Head(s) \in Elements(s)
         /\ Distinct(Tail(s))
         /\ Elements(Tail(s)) = Elements(s) \ {Head(s)}
<1>1. /\ Head(s) = s[1] /\ s[1] \in S /\ Tail(s) \in Seq(S)
      /\ DOMAIN s = 1 .. Len(s) /\ Len(s) \in Nat /\ Len(s) > 0
      /\ DOMAIN Tail(s) = 1 .. Len(s) - 1
      /\ \A i \in 1 .. Len(s) - 1 : Tail(s)[i] = s[i + 1]
  OBVIOUS
<1>2. Distinct(Tail(s))
  BY <1>1 DEF Distinct
<1>3. \A i \in 2 .. Len(s) : i - 1 \in 1 .. Len(s) - 1 /\ Tail(s)[i - 1] = s[i]
  BY <1>1
<1>4. Elements(Tail(s)) = Elements(s) \ {Head(s)}
  <2>1. \A x \in Elements(Tail(s)) : x \in Elements(s) \ {Head(s)}
    BY <1>1 DEF Elements, Distinct
  <2>2. ASSUME NEW x \in Elements(s) \ {Head(s)} PROVE x \in Elements(Tail(s))
    <3>1. PICK i \in 1 .. Len(s) : x = s[i]
      BY <1>1 DEF Elements
    <3>2. i \in 2 .. Len(s)
      BY <1>1, <3>1
    <3> QED BY <1>1, <1>3, <3>1, <3>2 DEF Elements
  <2> QED BY <2>1, <2>2
<1>5. Head(s) \in Elements(s)
  BY <1>1 DEF Elements
<1> QED BY <1>1, <1>2, <1>4, <1>5

(* Leaving it anywhere (cancelWait). *)
LEMMA WithoutElements ==
  ASSUME NEW S, NEW s \in Seq(S), NEW a, Distinct(s)
  PROVE  /\ Without(s, a) \in Seq(S)
         /\ Distinct(Without(s, a))
         /\ Elements(Without(s, a)) = Elements(s) \ {a}
         /\ s = <<>> => Without(s, a) = <<>>
<1>0. DOMAIN s = 1 .. Len(s) /\ Len(s) \in Nat /\ \A i \in 1 .. Len(s) : s[i] \in S
  OBVIOUS
<1>1. CASE ~ \E i \in DOMAIN s : s[i] = a
  <2>1. Without(s, a) = s
    BY <1>1 DEF Without
  <2> QED BY <1>1, <2>1 DEF Elements
<1>2. CASE \E i \in DOMAIN s : s[i] = a
  <2> DEFINE k == CHOOSE i \in DOMAIN s : s[i] = a
             t == [i \in 1 .. Len(s) - 1 |-> IF i < k THEN s[i] ELSE s[i + 1]]
  <2>1. k \in 1 .. Len(s) /\ s[k] = a
    BY <1>0, <1>2
  <2>2. Without(s, a) = t
    BY <1>2 DEF Without
  <2> HIDE DEF k
  <2>3. /\ t \in Seq(S) /\ DOMAIN t = 1 .. Len(s) - 1
        /\ \A i \in 1 .. Len(s) - 1 : i < k => t[i] = s[i]
        /\ \A i \in 1 .. Len(s) - 1 : ~(i < k) => t[i] = s[i + 1]
    <3>1. \A i \in 1 .. Len(s) - 1 : (IF i < k THEN s[i] ELSE s[i + 1]) \in S
      BY <1>0
    <3>2. Len(s) - 1 \in Nat
      BY <1>0, <2>1
    <3>3. t \in [1 .. Len(s) - 1 -> S]
      BY <3>1
    <3>4. t \in Seq(S)
      BY <3>2, <3>3
    <3>5. DOMAIN t = 1 .. Len(s) - 1
      BY Zenon
    <3>6. \A i \in 1 .. Len(s) - 1 : i < k => t[i] = s[i]
      OBVIOUS
    <3>7. \A i \in 1 .. Len(s) - 1 : ~(i < k) => t[i] = s[i + 1]
      OBVIOUS
    <3> QED BY <3>4, <3>5, <3>6, <3>7, Zenon
  <2> HIDE DEF t
  <2>4. Distinct(t)
    <3> SUFFICES ASSUME NEW i \in 1 .. Len(s) - 1, NEW j \in 1 .. Len(s) - 1, t[i] = t[j]
                 PROVE  i = j
      BY <2>3 DEF Distinct
    <3>1. \A m, n \in 1 .. Len(s) : s[m] = s[n] => m = n
      BY <1>0 DEF Distinct
    <3>2. CASE i < k /\ j < k
      BY <1>0, <2>1, <2>3, <3>1, <3>2
    <3>3. CASE i < k /\ ~(j < k)
      BY <1>0, <2>1, <2>3, <3>1, <3>3
    <3>4. CASE ~(i < k) /\ j < k
      BY <1>0, <2>1, <2>3, <3>1, <3>4
    <3>5. CASE ~(i < k) /\ ~(j < k)
      BY <1>0, <2>1, <2>3, <3>1, <3>5
    <3> QED BY <3>2, <3>3, <3>4, <3>5
  <2>5. Elements(t) = Elements(s) \ {a}
    <3>1. ASSUME NEW x \in Elements(t) PROVE x \in Elements(s) \ {a}
      <4>1. PICK i \in 1 .. Len(s) - 1 : x = t[i]
        BY <2>3 DEF Elements
      <4>2. \A m, n \in 1 .. Len(s) : s[m] = s[n] => m = n
        BY <1>0 DEF Distinct
      <4>3. CASE i < k
        BY <1>0, <2>1, <2>3, <4>1, <4>2, <4>3 DEF Elements
      <4>4. CASE ~(i < k)
        <5>1. x = s[i + 1] /\ i + 1 \in 1 .. Len(s) /\ i + 1 # k
          BY <1>0, <2>1, <2>3, <4>1, <4>4
        <5> QED BY <1>0, <2>1, <4>2, <5>1 DEF Elements
      <4> QED BY <4>3, <4>4
    <3>2. ASSUME NEW x \in Elements(s) \ {a} PROVE x \in Elements(t)
      <4>1. PICK i \in 1 .. Len(s) : x = s[i]
        BY <1>0 DEF Elements
      <4>2. CASE i < k
        <5>1. i \in 1 .. Len(s) - 1 /\ t[i] = s[i]
          BY <1>0, <2>1, <2>3, <4>2
        <5> QED BY <2>3, <4>1, <5>1 DEF Elements
      <4>3. CASE i > k
        <5>1. i - 1 \in 1 .. Len(s) - 1 /\ ~(i - 1 < k) /\ t[i - 1] = s[i]
          BY <1>0, <2>1, <2>3, <4>3
        <5> QED BY <2>3, <4>1, <5>1 DEF Elements
      <4>4. i # k
        BY <2>1, <4>1
      <4> QED BY <1>0, <2>1, <4>2, <4>3, <4>4
    <3> QED BY <3>1, <3>2
  <2>6. s # <<>>
    BY <1>0, <2>1
  <2> QED BY <2>2, <2>3, <2>4, <2>5, <2>6
<1> QED BY <1>1, <1>2

(* Slots taken and given back one at a time. *)
LEMMA SlotCount ==
  ASSUME NEW H \in SUBSET Allocations
  PROVE  /\ Cardinality(H) \in Nat
         /\ \A a : a \notin H => Cardinality(H \cup {a}) = Cardinality(H) + 1
         /\ \A a : a \in H => Cardinality(H \ {a}) = Cardinality(H) - 1
<1>1. IsFiniteSet(H)
  BY SemaphoreAssumption, FS_Subset
<1> QED BY <1>1, FS_CardinalityType, FS_AddElement, FS_RemoveElement

-----------------------------------------------------------------------------
(* A state is well typed when its parts are. *)
LEMMA TypeStep ==
  ASSUME IInv, mu' \in BOOLEAN,
         capacity' \in 0 .. MaxSemaphoreCapacity, holders' \subseteq Allocations, notified' \subseteq Allocations,
         waiters' \in Seq(Allocations), call' \in [Allocations -> Calls]
  PROVE  TypeOK'
BY DEF TypeOK

(* The queue as the lemmas see it. *)
LEMMA QueueFacts ==
  IInv => Queued = Elements(waiters) /\ Distinct(waiters)
BY DEF IInv, Queued, QueueMatchesCalls, Elements, Distinct

(* What the actions on the queue do to it. *)
LEMMA QueueStep ==
  ASSUME IInv, waiters' \in Seq(Allocations), Distinct(waiters')
  PROVE  Queued' = Elements(waiters')
BY DEF Queued, Elements

LEMMA RegisterWaitStep ==
  ASSUME IInv, NEW a \in Allocations, NEW c \in Requested, RegisterWait(a, c)
  PROVE  IInv'
<1> DEFINE n == NormalCapacity(c)
<1>1. n \in Nat /\ n > 0
  BY SemaphoreAssumption DEF NormalCapacity
<1> HIDE DEF n
<1>2. /\ call[a] = "idle" /\ ~mu /\ mu' = mu /\ capacity \in {0, n} /\ capacity' = n
      /\ notified' = notified /\ a \notin notified /\ a \notin Queued
  BY DEF RegisterWait, n, IInv, QueueMatchesCalls
<1>0. capacity' \in 0 .. MaxSemaphoreCapacity
  BY <1>1, SemaphoreAssumption DEF RegisterWait, n
<1>3. CASE a \in holders \/ Cardinality(holders) < n
  <2>1. holders' = holders \cup {a} /\ waiters' = waiters
        /\ call' = [call EXCEPT ![a] = "holding"]
    BY <1>3 DEF RegisterWait, n
  <2>2. TypeOK' /\ Queued' = Queued
    <3>1. mu' \in BOOLEAN /\ call' \in [Allocations -> Calls]
      BY <1>2, <2>1, Zenon DEF IInv, TypeOK, Calls
    <3> QED BY <1>0, <1>2, <2>1, <3>1, TypeStep DEF IInv, TypeOK, Queued
  <2>3. Cardinality(holders) <= capacity /\ Cardinality(holders) \in Nat
    BY SlotCount, SemaphoreAssumption DEF IInv, TypeOK, MutualExclusion
  <2>4. Cardinality(holders') <= n
    <3>1. CASE a \in holders
      <4>1. holders' = holders
        BY <2>1, <3>1
      <4> QED BY <1>1, <1>2, <2>3, <4>1
    <3>2. CASE a \notin holders
      <4>1. Cardinality(holders') = Cardinality(holders) + 1
        BY <2>1, <3>2, SlotCount DEF IInv, TypeOK
      <4> QED BY <1>1, <1>3, <2>3, <3>2, <4>1
    <3> QED BY <3>1, <3>2
  <2>5. MutualExclusion'
    BY <1>2, <2>1, <2>4 DEF IInv, MutualExclusion, TypeOK
  <2>6. waiters # <<>> => a \in holders /\ capacity = n
    BY <1>1, <1>2, <1>3 DEF IInv, NoIdleSlot, QueueHasCapacity
  <2>7. NoIdleSlot' /\ QueueHasCapacity'
    <3>1. a \in holders => holders' = holders
      BY <2>1
    <3> QED BY <1>1, <1>2, <2>1, <2>6, <3>1 DEF IInv, NoIdleSlot, QueueHasCapacity
  <2>8. QueueMatchesCalls'
    BY <1>2, <2>1, <2>2 DEF IInv, QueueMatchesCalls, TypeOK
  <2> QED BY <2>2, <2>5, <2>7, <2>8 DEF IInv
<1>4. CASE ~(a \in holders \/ Cardinality(holders) < n)
  <2>1. holders' = holders /\ waiters' = Append(waiters, a)
        /\ call' = [call EXCEPT ![a] = "waiting"]
    BY <1>4 DEF RegisterWait, n
  <2>2. /\ waiters' \in Seq(Allocations) /\ waiters' # <<>> /\ Distinct(waiters')
        /\ Elements(waiters') = Elements(waiters) \cup {a}
    BY <1>2, <2>1, QueueFacts, AppendElements DEF IInv, TypeOK
  <2>3. Queued' = Queued \cup {a}
    BY <2>2, QueueFacts, QueueStep
  <2>4. TypeOK'
    <3>1. mu' \in BOOLEAN /\ call' \in [Allocations -> Calls]
      BY <1>2, <2>1, Zenon DEF IInv, TypeOK, Calls
    <3> QED BY <1>0, <1>2, <2>1, <2>2, <3>1, TypeStep DEF IInv, TypeOK
  <2>5. Cardinality(holders) = n
    <3>1. Cardinality(holders) <= capacity /\ Cardinality(holders) \in Nat
      BY SlotCount, SemaphoreAssumption DEF IInv, TypeOK, MutualExclusion
    <3> QED BY <1>1, <1>2, <1>4, <3>1
  <2>6. MutualExclusion'
    BY <1>1, <1>2, <2>1, <2>5 DEF IInv, MutualExclusion, TypeOK
  <2>7. NoIdleSlot' /\ QueueHasCapacity'
    BY <1>1, <1>2, <2>1, <2>5 DEF NoIdleSlot, QueueHasCapacity
  <2>8. QueueMatchesCalls'
    <3>1. \A i, k \in DOMAIN waiters' : waiters'[i] = waiters'[k] => i = k
      BY <2>2 DEF Distinct
    <3>2. Queued' = {b \in Allocations : call'[b] \in {"waiting", "cancelling"}} \ notified'
      BY <1>2, <2>1, <2>3 DEF IInv, QueueMatchesCalls, TypeOK
    <3>3. \A b \in notified' : b \in holders' /\ call'[b] \in {"waiting", "cancelling"}
      BY <1>2, <2>1 DEF IInv, QueueMatchesCalls, TypeOK
    <3>4. Queued' \cap holders' = {}
      BY <1>4, <2>1, <2>3 DEF IInv, QueueMatchesCalls
    <3> QED BY <3>1, <3>2, <3>3, <3>4 DEF QueueMatchesCalls
  <2> QED BY <2>4, <2>6, <2>7, <2>8 DEF IInv
<1> QED BY <1>3, <1>4

(* Steps of the waiting goroutine or of the script that leave the semaphore *)
(* itself alone.                                                            *)
LEMMA CallStep ==
  ASSUME IInv, NEW a \in Allocations, Notified(a) \/ TimesOut(a) \/ HookExits(a)
  PROVE  IInv'
<1>1. /\ capacity' = capacity /\ holders' = holders /\ waiters' = waiters /\ mu' = mu
      /\ Queued' = Queued
  BY DEF Notified, TimesOut, HookExits, Queued
<1>2. /\ notified' \subseteq notified
      /\ \E v \in Calls : call' = [call EXCEPT ![a] = v]
  BY DEF Notified, TimesOut, HookExits, Calls
<1>3. TypeOK'
  <2>1. mu' \in BOOLEAN /\ call' \in [Allocations -> Calls]
    BY <1>1, <1>2, Zenon DEF IInv, TypeOK
  <2> QED BY <1>1, <1>2, <2>1, TypeStep DEF IInv, TypeOK
<1>4. NoIdleSlot' /\ QueueHasCapacity'
  BY <1>1 DEF IInv, NoIdleSlot, QueueHasCapacity
<1>5. MutualExclusion'
  BY <1>1 DEF IInv, MutualExclusion, QueueMatchesCalls, TypeOK, Notified, TimesOut, HookExits
<1>6. QueueMatchesCalls'
  <2>1. \A i, k \in DOMAIN waiters' : waiters'[i] = waiters'[k] => i = k
    BY <1>1 DEF IInv, QueueMatchesCalls
  <2>2. Queued' = {b \in Allocations : call'[b] \in {"waiting", "cancelling"}} \ notified'
    BY <1>1 DEF IInv, QueueMatchesCalls, TypeOK, Notified, TimesOut, HookExits
  <2>3. \A b \in notified' : b \in holders' /\ call'[b] \in {"waiting", "cancelling"}
    BY <1>1 DEF IInv, QueueMatchesCalls, TypeOK, Notified, TimesOut, HookExits
  <2>4. Queued' \cap holders' = {}
    BY <1>1 DEF IInv, QueueMatchesCalls
  <2> QED BY <2>1, <2>2, <2>3, <2>4 DEF QueueMatchesCalls
<1> QED BY <1>3, <1>4, <1>5, <1>6 DEF IInv

LEMMA CancelWaitStep ==
  ASSUME IInv, NEW a \in Allocations, CancelWait(a)
  PROVE  IInv'
<1>1. /\ capacity' = capacity /\ holders' = holders /\ mu' = mu
      /\ call[a] = "cancelling" /\ call' = [call EXCEPT ![a] = "idle"]
      /\ notified' = notified \ {a} /\ waiters' = Without(waiters, a)
  BY DEF CancelWait
<1>2. /\ waiters' \in Seq(Allocations) /\ Distinct(waiters')
      /\ Elements(waiters') = Elements(waiters) \ {a}
      /\ waiters' # <<>> => waiters # <<>>
  BY <1>1, QueueFacts, WithoutElements DEF IInv, TypeOK
<1>3. Queued' = Queued \ {a}
  BY <1>2, QueueFacts, QueueStep
<1>4. TypeOK'
  <2>1. mu' \in BOOLEAN /\ call' \in [Allocations -> Calls]
    BY <1>1, Zenon DEF IInv, TypeOK, Calls
  <2> QED BY <1>1, <1>2, <2>1, TypeStep DEF IInv, TypeOK
<1>5. NoIdleSlot' /\ QueueHasCapacity'
  BY <1>1, <1>2 DEF IInv, NoIdleSlot, QueueHasCapacity
<1>6. MutualExclusion'
  BY <1>1 DEF IInv, MutualExclusion, TypeOK
<1>7. QueueMatchesCalls'
  <2>1. \A i, k \in DOMAIN waiters' : waiters'[i] = waiters'[k] => i = k
    BY <1>2 DEF Distinct
  <2>2. Queued' = {b \in Allocations : call'[b] \in {"waiting", "cancelling"}} \ notified'
    BY <1>1, <1>3 DEF IInv, QueueMatchesCalls, TypeOK
  <2>3. \A b \in notified' : b \in holders' /\ call'[b] \in {"waiting", "cancelling"}
    BY <1>1 DEF IInv, QueueMatchesCalls, TypeOK
  <2>4. Queued' \cap holders' = {}
    BY <1>1, <1>3 DEF IInv, QueueMatchesCalls
  <2> QED BY <2>1, <2>2, <2>3, <2>4 DEF QueueMatchesCalls
<1> QED BY <1>4, <1>5, <1>6, <1>7 DEF IInv

LEMMA ReleaseStep ==
  ASSUME IInv, NEW a \in Allocations, Release(a)
  PROVE  IInv'
<1>1. /\ capacity' = capacity /\ holders' = holders \ {a} /\ a \in holders
      /\ call[a] \in {"holding", "idle"} /\ call' = [call EXCEPT ![a] = "idle"]
      /\ notified' = notified /\ waiters' = waiters /\ mu' = TRUE /\ Queued' = Queued
  BY DEF Release, Queued
<1>2. TypeOK'
  <2>1. mu' \in BOOLEAN /\ call' \in [Allocations -> Calls]
    BY <1>1, Zenon DEF IInv, TypeOK, Calls
  <2> QED BY <1>1, <2>1, TypeStep DEF IInv, TypeOK
<1>3. NoIdleSlot' /\ QueueHasCapacity'
  BY <1>1 DEF IInv, NoIdleSlot, QueueHasCapacity
<1>4. Cardinality(holders') <= capacity'
  <2>1. Cardinality(holders) \in Nat /\ Cardinality(holders') = Cardinality(holders) - 1
    BY <1>1, SlotCount DEF IInv, TypeOK
  <2> QED BY <1>1, <2>1 DEF IInv, MutualExclusion, TypeOK
<1>5. MutualExclusion'
  BY <1>1, <1>4 DEF IInv, MutualExclusion, TypeOK
<1>6. QueueMatchesCalls'
  BY <1>1 DEF IInv, QueueMatchesCalls, TypeOK
<1> QED BY <1>2, <1>3, <1>5, <1>6 DEF IInv

LEMMA GrantNextWaiterStep ==
  ASSUME IInv, GrantNextWaiter
  PROVE  IInv'
<1> DEFINE h == Head(waiters)
<1>1. /\ capacity' = capacity /\ holders' = holders \cup {h} /\ call' = call /\ mu' = mu /\ mu
      /\ notified' = notified \cup {h} /\ waiters' = Tail(waiters) /\ waiters # <<>>
      /\ Cardinality(holders) < capacity
  BY DEF GrantNextWaiter
<1>2. /\ h \in Allocations /\ waiters' \in Seq(Allocations) /\ h \in Elements(waiters)
      /\ Distinct(waiters') /\ Elements(waiters') = Elements(waiters) \ {h}
  BY <1>1, QueueFacts, TailElements DEF IInv, TypeOK
<1> HIDE DEF h
<1>3. Queued' = Queued \ {h} /\ h \in Queued
  BY <1>2, QueueFacts, QueueStep
<1>4. h \notin holders /\ h \notin notified /\ call[h] \in {"waiting", "cancelling"}
  BY <1>3 DEF IInv, QueueMatchesCalls
<1>5. TypeOK'
  <2>1. mu' \in BOOLEAN
    BY <1>1, Zenon DEF IInv, TypeOK
  <2> QED BY <1>1, <1>2, <2>1, TypeStep DEF IInv, TypeOK
<1>6. Cardinality(holders') <= capacity'
  <2>1. Cardinality(holders) \in Nat /\ Cardinality(holders') = Cardinality(holders) + 1
    BY <1>1, <1>2, <1>4, SlotCount DEF IInv, TypeOK
  <2> QED BY <1>1, <2>1 DEF IInv, TypeOK
<1>7. MutualExclusion'
  BY <1>1, <1>6 DEF IInv, MutualExclusion
<1>8. NoIdleSlot' /\ QueueHasCapacity'
  BY <1>1 DEF IInv, NoIdleSlot, QueueHasCapacity
<1>9. QueueMatchesCalls'
  <2>1. \A i, k \in DOMAIN waiters' : waiters'[i] = waiters'[k] => i = k
    BY <1>2 DEF Distinct
  <2>2. Queued' = {b \in Allocations : call'[b] \in {"waiting", "cancelling"}} \ notified'
    BY <1>1, <1>3 DEF IInv, QueueMatchesCalls
  <2>3. \A b \in notified' : b \in holders' /\ call'[b] \in {"waiting", "cancelling"}
    BY <1>1, <1>4 DEF IInv, QueueMatchesCalls
  <2>4. Queued' \cap holders' = {}
    BY <1>1, <1>3 DEF IInv, QueueMatchesCalls
  <2> QED BY <2>1, <2>2, <2>3, <2>4 DEF QueueMatchesCalls
<1> QED BY <1>5, <1>7, <1>8, <1>9 DEF IInv

LEMMA UnlockStep ==
  ASSUME IInv, Unlock
  PROVE  IInv'
<1>1. /\ capacity' = capacity /\ holders' = holders /\ call' = call /\ mu' = FALSE
      /\ notified' = notified /\ waiters' = waiters /\ Queued' = Queued
      /\ ~(Cardinality(holders) < capacity /\ waiters # <<>>)
  BY DEF Unlock, Queued
<1>2. TypeOK'
  <2>1. mu' \in BOOLEAN
    BY <1>1, Zenon
  <2> QED BY <1>1, <2>1, TypeStep DEF IInv, TypeOK
<1>3. NoIdleSlot'
  <2>1. Cardinality(holders) \in Nat /\ capacity \in Nat /\ Cardinality(holders) <= capacity
    BY SlotCount, SemaphoreAssumption DEF IInv, TypeOK, MutualExclusion
  <2> QED BY <1>1, <2>1 DEF NoIdleSlot
<1> QED BY <1>1, <1>2, <1>3 DEF IInv, MutualExclusion, QueueHasCapacity, QueueMatchesCalls

-----------------------------------------------------------------------------
LEMMA InitInv == Init => IInv
<1> SUFFICES ASSUME Init PROVE IInv
  OBVIOUS
<1>1. Cardinality(holders) = 0
  BY FS_EmptySet DEF Init
<1>2. TypeOK
  <2>1. mu \in BOOLEAN /\ call \in [Allocations -> Calls]
    BY Zenon DEF Init, Calls
  <2> QED BY <2>1, SemaphoreAssumption DEF Init, TypeOK
<1>3. Queued = {}
  BY DEF Init, Queued
<1> QED BY <1>1, <1>2, <1>3
        DEF Init, IInv, MutualExclusion, NoIdleSlot, QueueMatchesCalls, QueueHasCapacity

LEMMA NextInv == IInv /\ [Next]_vars => IInv'
<1> SUFFICES ASSUME IInv, [Next]_vars PROVE IInv'
  OBVIOUS
<1>1. ASSUME NEW a \in Allocations, NEW c \in Requested, RegisterWait(a, c) PROVE IInv'
  BY <1>1, RegisterWaitStep
<1>2. ASSUME NEW a \in Allocations, Notified(a) \/ TimesOut(a) \/ HookExits(a) PROVE IInv'
  BY <1>2, CallStep
<1>3. ASSUME NEW a \in Allocations, CancelWait(a) PROVE IInv'
  BY <1>3, CancelWaitStep
<1>4. ASSUME NEW a \in Allocations, Release(a) PROVE IInv'
  BY <1>4, ReleaseStep
<1>5. CASE GrantNextWaiter
  BY <1>5, GrantNextWaiterStep
<1>6. CASE Unlock
  BY <1>6, UnlockStep
<1>7. CASE UNCHANGED vars
  BY <1>7 DEF vars, IInv, TypeOK, MutualExclusion, NoIdleSlot, QueueMatchesCalls,
              QueueHasCapacity, Queued
<1> QED BY <1>1, <1>2, <1>3, <1>4, <1>5, <1>6, <1>7, Zenon DEF Next

(* The inductive invariant of the coordinator. *)
THEOREM SemaphoreInvariance == Spec => []IInv
BY InitInv, NextInv, PTL DEF Spec

(* registerWait, release and the grant loop never exceed the capacity, and  *)
(* a hook that was told it has a slot has one.                              *)
THEOREM SlotsAreExclusive == Spec => []MutualExclusion
<1>1. IInv => MutualExclusion
  BY DEF IInv
<1> QED BY <1>1, SemaphoreInvariance, PTL

(* No order of cancelWait and release leaves a slot free and a call queued. *)
THEOREM SlotsAreUsed == Spec => []NoIdleSlot
<1>1. IInv => NoIdleSlot
  BY DEF IInv
<1> QED BY <1>1, SemaphoreInvariance, PTL

(* The queue of the coordinator and the waiting goroutines agree. *)
THEOREM QueueIsExact == Spec => []QueueMatchesCalls
<1>1. IInv => QueueMatchesCalls
  BY DEF IInv
<1> QED BY <1>1, SemaphoreInvariance, PTL

(* The fast path of registerWait never serves a newcomer before the queue.  *)
THEOREM ServedInOrder == Spec => NobodyOvertakes
<1>1. ASSUME IInv, [Next]_vars
      PROVE  [\A a \in holders' \ holders : waiters = <<>> \/ a = Head(waiters)]_vars
  <2> SUFFICES ASSUME NEW a \in holders' \ holders, waiters # <<>>
               PROVE  a = Head(waiters)
    OBVIOUS
  <2>1. CASE GrantNextWaiter
    BY <2>1 DEF GrantNextWaiter
  <2>2. ASSUME NEW b \in Allocations, NEW c \in Requested, RegisterWait(b, c) PROVE FALSE
    <3>1. a = b /\ b \notin holders /\ Cardinality(holders) < NormalCapacity(c)
          /\ ~mu /\ capacity \in {0, NormalCapacity(c)}
      BY <2>2 DEF RegisterWait
    <3>2. capacity > 0 /\ Cardinality(holders) = capacity
      BY <1>1, <3>1 DEF IInv, NoIdleSlot, QueueHasCapacity
    <3>3. Cardinality(holders) \in Nat
      BY <1>1, <3>1, <2>2, SlotCount DEF IInv, TypeOK
    <3> QED BY <3>1, <3>2, <3>3
  <2>3. ASSUME NEW b \in Allocations,
               Notified(b) \/ TimesOut(b) \/ HookExits(b) \/ CancelWait(b) \/ Release(b)
        PROVE  FALSE
    BY <2>3 DEF Notified, TimesOut, HookExits, CancelWait, Release
  <2>4. CASE Unlock
    BY <2>4 DEF Unlock
  <2>5. CASE UNCHANGED vars
    BY <2>5 DEF vars
  <2> QED BY <1>1, <2>1, <2>2, <2>3, <2>4, <2>5, Zenon DEF Next
<1> QED BY <1>1, SemaphoreInvariance, PTL DEF Spec, NobodyOvertakes

=============================================================================
