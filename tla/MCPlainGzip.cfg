SPECIFICATION Spec
CONSTANTS
  members <- MCMembers
  length = 148
  GarbageXlens = {4, 200}
  BufferSizes = {0, 2}
  Offsets = {0, 3}
  MaxOps = 4
INVARIANTS
  PlainGzipIsRead
CHECK_DEADLOCK FALSE
