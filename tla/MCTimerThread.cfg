\* The owner starts and stops the timer at any time; sleeps may last for ever.
SPECIFICATION FairTimerSpec
CONSTANTS
  Owners = {o1}
  Workers = {w1, w2}
  None = None
INVARIANTS
  TimerInv
PROPERTIES
  KeepsPromise
  StartedTimerFires
  TimerStopReturns
