\* Two owner threads that take turns, or stop doing so at some point.
SPECIFICATION FairTurnsSpec
CONSTANTS
  Owners = {o1, o2}
  Workers = {w1, w2}
  None = None
INVARIANTS
  StartOwnsItsWorker
  OneWorkerByTurns
  TurnsInv
PROPERTIES
  StopReturns
