SPECIFICATION FairSpec
CONSTANTS
  block_count = 3
  uncompressed_offsets <- MCUncompressed
  compressed_offsets <- MCCompressed
  Ops = {"seek", "seek_block"}
  ReadSizes = {0, 3}
  SeekTargets = {1, 6}
  Shifts <- MCShifts
  BlockIndices = {2}
  BlockCounts = {2}
  ReadaheadSizes = {1, 3}
  ReadaheadLimits <- MCReadaheadLimits
  MaxFaults = 1
  OffsetSpace = 16
  Caches <- MCLimitedCacheStates
  FreshCaches <- MCLimitedCaches
  CacheContents <- MCContents
  CacheMemory <- MCMemory
  CacheTouch <- MCTouch
  CacheInsert <- MCInsert
PROPERTIES
  DrainEnds
\* The client may stop calling at any time.
CHECK_DEADLOCK FALSE
