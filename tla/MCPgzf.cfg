SPECIFICATION PgzfSpec
CONSTANTS
  U16Space = 65536
  block_size = 2
  group_blocks = 3
  compression_batch_size = 2
  readahead_size = 2
  WriteSizes = {0, 2, 5}
  BodySizes = {3, 4}
  TornSizes = {0, 11, 32, 43}
  MaxInput = 7
  MaxSessions = 2
INVARIANTS
  PgzfTypeOK
  BuffersInOrder
  IndexFindsBlocks
  FinishedReadable
  MembersTile
  ReaderSeesPrefix
  OpenReaderNeverFails
  PromisesKept
  IndexIsWellFormed
PROPERTIES
  ImplementsDurableStream
  CallsReturn
  ReaderEnds
\* A finished, failed or dropped writer takes no more calls.
CHECK_DEADLOCK FALSE
