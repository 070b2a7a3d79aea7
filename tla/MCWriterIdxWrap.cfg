SPECIFICATION Spec
CONSTANTS
  U16Space = 32
  block_size = 1
  group_blocks = 3
  compression_batch_size = 2
  WriteSizes = {1, 2}
  BodySizes = {3}
  TornSizes = {}
  MaxInput = 4
  MaxSessions = 1
INVARIANTS
  FinishedReadable
\* A finished, failed or dropped writer takes no more calls.
CHECK_DEADLOCK FALSE
