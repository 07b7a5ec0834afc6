SPECIFICATION Spec
CHECK_DEADLOCK FALSE
CONSTANTS
  Word = 4
  Top = 9
  Bases = {0, 1}
  Starts = {0, 1, 3}
  Lengths = {0, 5, 9}
  CharSizes = {0, 1, 2, 3, 5}
INVARIANTS
  TypeOK
  BufferFits
  ResultCorrect
