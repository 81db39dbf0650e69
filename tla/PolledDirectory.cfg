\* Two swaps of a Secret volume; any changes of a directory with two possible
\* entries, while the watch is removed and added again.
SPECIFICATION Spec
CONSTANTS
  Names <- AllNames
  Entries = {"a", "b"}
  Stamps = {0, 1}
  MaxStamp = 2
  Goroutines = {1, 2}
  MaxFaults = 1
  MaxChanges = 2
  MaxVersion = 2
INVARIANTS
  TypeOK
  SeenIsRead
PROPERTIES
  CatchesUp
  FallsSilent
  CloseEnds
  ReportsSomething
  EveryVersionRead
CHECK_DEADLOCK FALSE
