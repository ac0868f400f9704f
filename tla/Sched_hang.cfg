CONSTANTS
  N = 2
  TaskCount = 3
  Instance = {1, 2}
  Owner <- MixedOwner
  Access <- MixedAccess
  Programs <- Plain
  GcTask = {}
  Start <- AnyStart
SPECIFICATION Spec
CHECK_DEADLOCK FALSE
PROPERTIES Terminates
