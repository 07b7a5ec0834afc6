SPECIFICATION Spec
CONSTANTS
  Addr = {a, b, rom}
  Unwritable = {rom}
  MaxBreakpoints = 2
  a = a
  b = b
  rom = rom
SYMMETRY Symmetry
INVARIANTS
  TypeOK
  ReadsHideTraps
  MemoryRestored
  TrapsAreBreakpoints
CHECK_DEADLOCK FALSE
