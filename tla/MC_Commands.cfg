\* every console command, "js" with up to two files; the genesis wizard
\* with three precompile addresses, user addresses inside and outside
\* their range, answers for the extra data of 0, 5 and 40 bytes
CONSTANTS
  Commands = {"console", "attach", "js"}
  MaxFiles = 2
  Precompiles = 3
  AddrInputs = {1, 4}
  PreFund = 100
  ChainIds = {7}
  ExtraLens = {0, 5, 40}
  ForkInputs = {0}
  Default = Default
  NoGenesis = NoGenesis
  NoFile = NoFile
  MaxSteps = 3
SPECIFICATION Spec
INVARIANT ConsoleBeforeNode
INVARIANT TornDown
