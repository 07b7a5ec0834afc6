SPECIFICATION Spec
CHECK_DEADLOCK FALSE
CONSTANTS
  Keys <- MCKeys
  HashOf <- MCHash
  PrimeTab <- MCPrimes
  InitSizes = {5, 32}
  EmptyAbove = 8
  EmptyTo = 4
  EMPTY = EMPTY
  DELETED = DELETED
  NoKey = NoKey
INVARIANTS
  TypeOK
  CountsExact
  ProbesEnd
PROPERTY
  ImplementsSet
