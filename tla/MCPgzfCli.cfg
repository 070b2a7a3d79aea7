SPECIFICATION FairSpec
CONSTANTS
  Invocations <- MCInvocations
  InitialDisk <- MCDisk
  Names = {"a", "b", "e", "g", "m", "gz", "out"}
  Data = {"x", "y", "z"}
  ShortData = {"y"}
  MaxRuns = 3
INVARIANTS
  TypeOK
  DataSurvives
  OnlyInputsGo
  SuccessMeansDone
PROPERTIES
  Terminates
\* The client may stop calling.
CHECK_DEADLOCK FALSE
