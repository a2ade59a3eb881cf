SPECIFICATION FairSpec
CONSTANTS
  Instance = {i1, i2, i3}
  Operator = Operator
  Phone = {p1, p2}
  Environments <- Configured
  MaxCrashes = 1
  MaxReverts = 0
PROPERTIES EveryStartEnds SomebodyServes
