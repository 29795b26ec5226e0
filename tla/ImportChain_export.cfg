\* A two-block chain exported to a ".gz" file whose deferred gzip Close
\* may fail to flush, then imported back; the import bounds as for
\* ImportChain.cfg
CONSTANTS
  Blocks = {b1, b2, b3}
  Corrupt = Corrupt
  Invalid = {b3}
  Cap = 2
  MaxLen = 5
  InitChains = {{}, {b1}, {b1, b2}}
  MaxSource = 2
  CloseMayFail = TRUE
SPECIFICATION Spec
INVARIANT ExportRoundTrip
