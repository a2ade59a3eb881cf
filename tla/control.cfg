SPECIFICATION Spec
CONSTANTS
  a1 = a1
  a2 = a2
  a3 = a3
  k1 = k1
  k2 = k2
  r1 = r1
  r2 = r2
  r3 = r3
  Account = {a1, a2, a3}
  NoAccount = NoAccount
  Admin = {a1, a2}
  Key = {k1}
  NoKey = NoKey
  Reference <- References
  NoReference = NoReference
  MaxBalance = 2
  OpeningBalance <- OneEach
  Workload <- ControlWorkload
  Request = {r1, r2, r3}
  MaxAttempts = 1
  PoolSize = 3
  AdvisoryHash <- OneHash
  Rank <- OppositeRank
SYMMETRY Symmetric
INVARIANTS TypeOK NoMoneyDeadlock
PROPERTIES ActsAtomically BlockedAccountsFrozen
