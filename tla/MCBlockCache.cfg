SPECIFICATION Spec
CONSTANTS
  Blocks = {0, 1, 2}
  Datas <- MCDatas
  Size <- MCSize
  Capacities = {0, 1, 2, 3}
  Limits <- MCLimits
  MaxOps = 5
INVARIANTS
  TypeOK
  MemoryIsExact
  WithinLimits
  HoldsLatest
PROPERTIES
  EvictsOldestFirst
  EvictsUnderPressure
\* The client stops after MaxOps calls.
CHECK_DEADLOCK FALSE
