CONSTANTS
  Thread = {e1, e2, e3}
  Instance = {1, 2, 3}
  Action = {1, 2, 3, 4}
  ActionsOf <- ThreeActionsOf
  Access <- ThreeAccess
  Changes <- ThreeChanges
  Pulls <- ThreePulls
  Calls = {2}
  MaxEnable = 1
SPECIFICATION Spec
CHECK_DEADLOCK FALSE
INVARIANTS Isolation LocksGivenBack  
PROPERTY Terminates
