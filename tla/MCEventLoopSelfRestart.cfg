SPECIFICATION Spec
CONSTANTS
  Loop = Loop
  Clients = {}
  Timers = {t1, t2}
  ClientTimers = {}
  Owner <- MCOwner
  Fds = {f1}
  None = None
  Intervals = {0, 1}
  WaitTime = 2
  Half = 8
  MaxCalls = 1
  MaxOps = 2
  MaxLag = 1
  MaxPipe = 3
  MaxLate = 1
  SelfRestart = TRUE
  Turns = FALSE
  Duplicates = FALSE
CHECK_DEADLOCK FALSE
INVARIANTS
  NoTimerTwice
