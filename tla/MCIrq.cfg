\* Two value files: one may be leaked by a failed start and the other used.
SPECIFICATION FairIrqSpec
CONSTANTS
  Owners = {o1}
  Workers = {w1, w2}
  None = None
  Files = {f1, f2}
  MaxPipe = 2
INVARIANTS
  IrqInv
PROPERTIES
  IrqStopReturns
  InterruptIsServed
