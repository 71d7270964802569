SPECIFICATION Spec
CONSTANTS
  Loop = Loop
  Clients = {c1}
  Timers = {t1, t2}
  ClientTimers = {t1}
  Owner <- MCOwner
  Fds = {}
  None = None
  Intervals = {1, 2}
  WaitTime = 2
  Half = 8
  MaxCalls = 2
  MaxOps = 1
  MaxLag = 1
  MaxPipe = 2
  MaxLate = 1
  SelfRestart = FALSE
  Turns = FALSE
  Duplicates = FALSE
CHECK_DEADLOCK FALSE
INVARIANTS
  LoopInv
  NoTimerTwice
  FrontIsEarliest
  NoOversleep
