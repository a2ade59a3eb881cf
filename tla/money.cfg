SPECIFICATION Spec
CONSTANTS
  a1 = a1
  a2 = a2
  a3 = a3
  k1 = k1
  k2 = k2
  r1 = r1
  r2 = r2
  r3 = r3
  Account = {a1, a2}
  NoAccount = NoAccount
  Admin = {}
  Key = {k1, k2}
  NoKey = NoKey
  Reference <- References
  NoReference = NoReference
  MaxBalance = 4
  OpeningBalance <- MoneyOpening
  Workload <- MoneyWorkload
  Request = {r1, r2, r3}
  MaxAttempts = 1
  PoolSize = 3
  AdvisoryHash <- OneHash
  Rank <- OppositeRank
SYMMETRY Symmetric
INVARIANTS EntitiesCurrent LedgerReconciles MoneyConserved
PROPERTIES ActsAtomically
