SPECIFICATION Spec
CONSTANTS
  Fds = {"stdin", "dev"}
  Signals <- MCSignals
  MaxTyped = 4
  MaxReceived = 3
  MaxSignals = 2
  MaxWaiting = 2
INVARIANT StdinEnabledAgain
CHECK_DEADLOCK FALSE
