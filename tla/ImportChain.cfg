\* Files of up to five entries over three blocks (one invalid) and a corrupt
\* entry, batches of two, imported into an empty or partly synced chain;
\* or a two-block chain exported first, its deferred gzip flush failing or
\* not
CONSTANTS
  Blocks = {b1, b2, b3}
  Corrupt = Corrupt
  Invalid = {b3}
  Cap = 2
  MaxLen = 5
  InitChains = {{}, {b1}, {b1, b2}}
  MaxSource = 2
  CloseMayFail = TRUE
SPECIFICATION Spec
INVARIANT ImportedAll
INVARIANT ErrorLocatesEntry
PROPERTY ImportReturns
