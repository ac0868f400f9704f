CONSTANTS
  Slots = 6
  Roots = 1
  MaxHeaps = 3
  MaxSize = 2
  MaxOps = 5
  Locks = {"Read", "Write"}
  Interior = FALSE
  Transaction = {1, 2}
SPECIFICATION Spec
CHECK_DEADLOCK FALSE
INVARIANTS HeapRestored
