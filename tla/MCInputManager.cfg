\* Two keys and a device that comes and goes.
SPECIFICATION FairSpec
CONSTANTS
  Keys = {a, b}
  Devices = {d1}
  None = None
  MaxPlugs = 2
  MaxEvents = 1
  MaxPipe = 1
CHECK_DEADLOCK FALSE
INVARIANTS
  InputInv
  RepeatsOnlyPressedKeys
PROPERTIES
  NoRepeatAfterRelease
  ReleaseWaitsForHandler
  WorkerComesBack
