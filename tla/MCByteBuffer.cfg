\* One writer and one reader, a ring of three bytes, all three timeouts.
SPECIFICATION Spec
CONSTANTS
  Writers = {w1}
  Readers = {r1}
  Byte = {0, 1}
  Capacity = 3
  MaxLen = 2
  Timeouts = {"0", "-1", "ms"}
  FlushAnytime = FALSE
INVARIANTS
  BufferInv
  WriterWaitsForSpace
  NoWaitAtTheEnd
PROPERTIES
  IsAStream
