SPECIFICATION Spec
CONSTANTS
  Addr = {a, b, rom}
  Unwritable = {rom}
  MaxBreakpoints = 1
  a = a
  b = b
  rom = rom
INVARIANT SlotsSuffice
CHECK_DEADLOCK FALSE
