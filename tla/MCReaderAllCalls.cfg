SPECIFICATION Spec
CONSTANTS
  block_count = 3
  uncompressed_offsets <- MCUncompressed
  compressed_offsets <- MCCompressed
  Ops = {"seek", "seek_end", "seek_current", "seek_block", "read_blocks", "raw", "set"}
  ReadSizes = {1, 3}
  SeekTargets = {1, 3, 6}
  Shifts <- MCShifts
  BlockIndices <- MCIndices
  BlockCounts = {2}
  ReadaheadSizes = {0, 1, 3}
  ReadaheadLimits <- MCReadaheadLimits
  MaxFaults = 1
  OffsetSpace = 16
  Caches <- MCLimitedCacheStates
  FreshCaches <- MCLimitedCaches
  CacheContents <- MCContents
  CacheMemory <- MCMemory
  CacheTouch <- MCTouch
  CacheInsert <- MCInsert
INVARIANTS
  TypeOK
  CacheCoherent
  BuffersInOrder
PROPERTIES
  NeverSkips
  RawLabelsCorrect
  RawWalk
\* The client may stop calling at any time.
CHECK_DEADLOCK FALSE
