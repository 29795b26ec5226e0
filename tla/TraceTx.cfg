\* Blocks of up to three transactions, every target index including one
\* past the end, both tracer kinds, and both TraceTransaction and traceBlock
CONSTANTS
  TxKinds = {"ok", "bad"}
  MaxTxs = 3
  Steps = 3
  Tracers = {"js", "struct"}
  Requests = {"tx", "block"}
SPECIFICATION Spec
INVARIANT ReplayPrefix
