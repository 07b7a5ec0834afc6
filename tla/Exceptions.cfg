SPECIFICATION Spec
CONSTANTS
  Cleanups = {c1, c2}
  Uis = {cli, mi}
  StdUi = cli
  NoCleanup = NoCleanup
  MaxDepth = 6
INVARIANTS
  TypeOK
  JumpTargetsLive
  CleanupsOnce
PROPERTY ImplementsScopes
