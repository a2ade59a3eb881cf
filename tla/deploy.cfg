SPECIFICATION Spec
CONSTANTS
  Instance = {i1, i2}
  Operator = Operator
  Phone = {p1, p2}
  Environments <- AnyEnvironment
  MaxCrashes = 2
  MaxReverts = 2
INVARIANTS TypeOK SchemaMatchesJournal ServesComplete
PROPERTIES FailuresExplained
