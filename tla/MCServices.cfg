\* Four numbers: SSDP, its web server and a connection to the supplicant, which
\* takes two; a client or another thread has those that are left.
SPECIFICATION Spec
CONSTANTS
  Numbers = {3, 4, 5, 6}
  None = None
  MaxTries = 2
  MaxOwed = 1
CHECK_DEADLOCK FALSE
INVARIANTS
  ServicesInv
  StrayOnlyAfterBindFailed
