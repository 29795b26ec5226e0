\* One RPC client issuing four requests in any order: the handlers never overlap
CONSTANTS
  Clients = {c1}
  Prices = {20, 30}
  InitGasPrice = 18
  InitPoolPrice = 1
  ThreadArgs = {0, 2}
  NoThreads = NoThreads
  NoPrice = NoPrice
  EngineThreaded = TRUE
  Accounts = {a1, a2}
  NoAccount = NoAccount
  Extras = {"boker"}
  MaxCalls = 4
SPECIFICATION Spec
INVARIANT TypeOK
INVARIANT PoolPriceAgrees
