--------------------------- MODULE MCHookSemaphore ---------------------------
(* Four hooks that agree on the capacity, or do not. *)
EXTENDS HookSemaphore

FourAllocations  == {"a1", "a2", "a3", "a4"}
ThreeAllocations == {"a1", "a2", "a3"}
AnyCapacity  == {0, 1, 2, 3}
TimeoutOnly  == {"timeout"}
AllFaults    == {"timeout", "exit"}
NoFaults     == {}

=============================================================================
