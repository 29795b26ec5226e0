\* The extra data typed at makeGenesis: 0, 5 and 40 bytes
CONSTANTS
  Precompiles = 3
  AddrInputs = {1, 4}
  PreFund = 100
  ChainIds = {7}
  ExtraLens = {0, 5, 40}
  ForkInputs = {0}
  Default = Default
  NoGenesis = NoGenesis
  NoFile = NoFile
  MaxSteps = 3
SPECIFICATION Spec
INVARIANT MakeGenesisReturns
