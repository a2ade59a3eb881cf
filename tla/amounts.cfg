SPECIFICATION Spec
CONSTANTS
  MaxMajor = 3
  Character = {0, 1, 9, 10, 11}
  MaxLength = 7
INVARIANTS TypeOK AmountsExact TakesExactly ShownIsAmount
