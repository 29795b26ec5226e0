\* Three blocks over two accounts with two states each, one account without
\* a recorded preimage; every argument of both RPCs.  The older block may
\* hold an account the newer one deleted.
CONSTANTS
  Accounts = {a1, a2}
  Values = {v1, v2}
  Absent = Absent
  Head = 2
  UnknownHash = UnknownHash
  NoNumber = NoNumber
  NoPreimage = {a2}
SPECIFICATION Spec
INVARIANT ReportsAllChanges
