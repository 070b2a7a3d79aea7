SPECIFICATION Spec
CONSTANTS
  N = 3
  Sizes = {0, 2}
INVARIANTS
  TypeOK
  NothingLeaks
  RangesAreDone
PROPERTIES
  ImplementsOrderedMap
\* The batch stops at its answer.
CHECK_DEADLOCK FALSE
