SPECIFICATION FairSpec
CONSTANTS
  N = 4
  Forever = {2}
  Signs <- MCSigns
  Plussed = {2, 3}
  MaxFaults = 2
  MaxEarly = 1
INVARIANTS
  TypeOK
  ExecutionsExplained
  
  MistakenAfterTwo
PROPERTIES
  ImplementsCalls
  CallsReturn
CHECK_DEADLOCK FALSE
