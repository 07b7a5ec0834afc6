SPECIFICATION Spec
CONSTANTS
  Types = {t1, t2, t3}
  Libs = {a, b}
  NoLib = NoLib
  NoType = NoType
  Epoch = 1
  MaxRefs = 3
INVARIANTS
  TypeOK
  NoDanglingViewer
  HandlesExplained
  CleanupsCoverHeap
PROPERTIES
  ImplementsTable
