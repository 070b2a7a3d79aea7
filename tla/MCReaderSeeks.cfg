SPECIFICATION Spec
CONSTANTS
  block_count = 3
  uncompressed_offsets <- MCUncompressed
  compressed_offsets <- MCCompressed
  Ops = {"seek_block", "seek_current"}
  ReadSizes = {1, 3}
  SeekTargets = {0, 1, 2, 3, 5, 6}
  Shifts <- MCBackward
  BlockIndices = {0, 1, 2}
  BlockCounts = {0, 1, 2}
  ReadaheadSizes = {0, 1, 2, 3}
  ReadaheadLimits <- MCUnlimited
  MaxFaults = 0
  OffsetSpace = 16
  Caches <- MCNoCacheStates
  FreshCaches <- MCNoCache
  CacheContents <- MCContents
  CacheMemory <- MCMemory
  CacheTouch <- MCTouch
  CacheInsert <- MCInsert
PROPERTIES
  ReadsFromTarget
\* The client may stop calling at any time.
CHECK_DEADLOCK FALSE
