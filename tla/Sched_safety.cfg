CONSTANTS
  N = 2
  TaskCount = 3
  Instance = {1, 2}
  Owner <- MixedOwner
  Access <- MixedAccess
  Programs <- Descriptor
  GcTask = {1}
  Start <- AnyStart
SPECIFICATION MCSpec
CHECK_DEADLOCK FALSE
INVARIANTS Isolation OnOneList PointsAreSkips AbortsOnlyInPoll NoLostWakeup  
