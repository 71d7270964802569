\* Every callback may change the list twice.
SPECIFICATION Spec
CONSTANTS
  Listener = {l1, l2, l3}
  None = None
  MaxListed = 4
  MaxMessages = 2
  MaxOps = 2
SYMMETRY Symmetry
INVARIANTS
  CallsWhatIsDue
  WalkInv
