\* Byzantium chain rules with the zero vm.Config{} that eth/api.go passes: NewInterpreter keeps the Homestead table
CONSTANTS
  Code <- MCCode
  AddrMod = 16
  WordMod = 1048576
  Uint64Max = 65535
  StackLimit = 3
  CallCreateDepth = 3
  IsByzantium = TRUE
  ConfigJumpTable = "unset"
  DisableGasMetering = FALSE
  Debug = TRUE
  Origin = 0
  Entries = {1, 4, 5, 6, 7, 8, 9, 10}
  Values = {0, 1}
  Budgets = {100, 45000, 100000}
  InitBalance <- MCBalance

SPECIFICATION Spec
INVARIANT RevertRoundTrip
