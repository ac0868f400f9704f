CONSTANTS
  Slots = 6
  Roots = 1
  MaxHeaps = 3
  MaxSize = 2
  MaxOps = 6
  Locks = {"Write"}
  Interior = FALSE
  Transaction = {1}
SPECIFICATION Spec
CHECK_DEADLOCK FALSE
INVARIANTS StorageAccounted LinksLeadToChildren HeapRestored
PROPERTIES KeepsReachable ControlSpec
