SPECIFICATION Spec
CONSTANTS
  Allocations <- FourAllocations
  Requested <- AnyCapacity
  DefaultSemaphoreCapacity = 1
  MaxSemaphoreCapacity = 2
  Faults <- TimeoutOnly
INVARIANT TimedOutHoldsNothing
