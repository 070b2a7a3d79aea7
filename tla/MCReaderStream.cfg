SPECIFICATION Spec
CONSTANTS
  block_count = 3
  uncompressed_offsets <- MCUncompressed
  compressed_offsets <- MCCompressed
  Ops = {"seek", "seek_end", "read_blocks", "set"}
  ReadSizes = {0, 1, 3}
  SeekTargets = {0, 1, 2, 3, 5, 6}
  Shifts <- MCShifts
  BlockIndices = {0, 1, 2, 3}
  BlockCounts = {0, 1, 2}
  ReadaheadSizes = {1, 2, 3}
  ReadaheadLimits <- MCUnlimited
  MaxFaults = 1
  OffsetSpace = 16
  Caches <- MCPairCacheStates
  FreshCaches <- MCPairCaches
  CacheContents <- MCContents
  CacheMemory <- MCMemory
  CacheTouch <- MCTouch
  CacheInsert <- MCInsert
CONSTRAINT
  KeepsPlace
INVARIANTS
  FetchesWhereBuffersEnd
PROPERTIES
  ImplementsByteStream
\* The client may stop calling at any time.
CHECK_DEADLOCK FALSE
