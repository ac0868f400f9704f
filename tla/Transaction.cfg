CONSTANTS
  Instances = {1, 2, 3}
  Bindings <- MCBindings
  Pull <- MCPull
  MaxStatements <- MCMaxStatements
  MaxLocals = 2
SPECIFICATION Spec
CHECK_DEADLOCK FALSE
INVARIANTS SymbolsKeepTheirWords BodiesRunInReverse OpenHeapsStand
