\* Byzantium rules with the Byzantium instruction set configured explicitly
CONSTANTS
  Code <- MCCode
  AddrMod = 16
  WordMod = 1048576
  Uint64Max = 65535
  StackLimit = 3
  CallCreateDepth = 3
  IsByzantium = TRUE
  ConfigJumpTable = "byzantium"
  DisableGasMetering = FALSE
  Debug = TRUE
  Origin = 0
  Entries = {1, 4, 5, 6, 7, 8, 9, 10, 11}
  Values = {0, 1}
  Budgets = {100, 45000, 100000}
  InitBalance <- MCBalance

SPECIFICATION Spec
INVARIANT TypeOK
INVARIANT GasNotCreated
INVARIANT ReturnDataOfLastCall
 
PROPERTY StaticCallNoStateChange
PROPERTY MemoryCoversStore
PROPERTY TracedOnce
PROPERTY Termination
