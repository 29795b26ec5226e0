\* A JavaScript tracer whose deadline may pass during the traced run
CONSTANTS
  TxKinds = {"ok", "bad"}
  MaxTxs = 2
  Steps = 3
  Tracers = {"js"}
  Requests = {"tx"}
SPECIFICATION Spec
PROPERTY TimeoutStopsRun
