SPECIFICATION FairSpec
CONSTANTS
  Containers = {c1, c2}
  Messages = {m1}
  Widgets = {w1}
  None = None
  MaxPending = 2
  MaxPipe = 2
INVARIANTS
  ContainerInv
  AppearsPainted
PROPERTIES
  KeepsProtocol
  RequestsTakeEffect
