SPECIFICATION Spec
CHECK_DEADLOCK FALSE
CONSTANTS
  Word = 4
  Top = 6
  Bases = {0}
  Starts = {0, 1}
  Lengths = {4}
  CharSizes = {1, 2}
INVARIANT PluginStringTerminated
