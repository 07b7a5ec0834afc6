SPECIFICATION Spec
CONSTANTS
  Addr = {a, b}
  Unwritable = {}
  MaxBreakpoints = 1
  a = a
  b = b
  rom = rom
INVARIANT AllInserted
CHECK_DEADLOCK FALSE
