SPECIFICATION FairSpec
CONSTANTS
  Loop = Loop
  Clients = {c1}
  Timers = {t1}
  ClientTimers = {t1}
  Owner <- MCOwner
  Fds = {f1, f2}
  None = None
  Intervals = {1}
  WaitTime = 1
  Half = 8
  MaxCalls = 2
  MaxOps = 1
  MaxLag = 0
  MaxPipe = 1
  MaxLate = 0
  SelfRestart = FALSE
  Turns = FALSE
  Duplicates = FALSE
CHECK_DEADLOCK FALSE
INVARIANTS
  CallbackHasData
PROPERTIES
  DueTimerRuns
  DataIsDispatched
  TerminateEnds
