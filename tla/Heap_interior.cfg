CONSTANTS
  Slots = 4
  Roots = 1
  MaxHeaps = 3
  MaxSize = 2
  MaxOps = 6
  Locks = {"Write"}
  Interior = TRUE
  Transaction = {1}
SPECIFICATION Spec
CHECK_DEADLOCK FALSE
PROPERTIES KeepsReachable
