SPECIFICATION FairSpec
CONSTANTS
  Fds = {"stdin", "dev"}
  Signals <- MCSignals
  MaxTyped = 4
  MaxReceived = 3
  MaxSignals = 2
  MaxWaiting = 2
INVARIANTS
  TypeOK
  ScheduleAgrees
  NoDeafDescriptor
  TerminalAgrees
  MarksKept
PROPERTIES
  ReadAheadKept
  StdinServed
  ClientNotified
  SignalsServed
CHECK_DEADLOCK FALSE
