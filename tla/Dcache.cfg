SPECIFICATION Spec
CHECK_DEADLOCK FALSE
CONSTANTS
  Lines = 2
  LineSize = 2
  Top = 6
  Values = {0, 1}
  Accesses = {{0}, {1, 2}, {4}}
  Changing = {1}
  TargetMap <- NoMap
  UserRegions <- OverlappingRegions
INVARIANTS
  TypeOK
  RegionsApart
  CoherentWhileSynced
  DirtyTracked
PROPERTY
  NoDirtyLost
