\* Two RPC goroutines whose handlers interleave
CONSTANTS
  Clients = {c1, c2}
  Prices = {20, 30}
  InitGasPrice = 18
  InitPoolPrice = 1
  ThreadArgs = {0, 2}
  NoThreads = NoThreads
  NoPrice = NoPrice
  EngineThreaded = TRUE
  Accounts = {a1, a2}
  NoAccount = NoAccount
  Extras = {"boker"}
  MaxCalls = 3
SPECIFICATION Spec
INVARIANT PoolPriceAgrees
