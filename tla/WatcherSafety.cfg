\* Every interleaving of three configuration changes with the restart loop,
\* one spurious notification and one failure, with and without -exit-on-failure.
SPECIFICATION Spec
CONSTANTS
  MaxVersion = 3
  Compressed <- Gzip02
  ExitModes = {FALSE, TRUE}
  MaxQueue = 1
  MaxNoise = 1
  MaxFaults = 1
INVARIANTS
  TypeOK
  NoStaleChild
  RestsServing
PROPERTIES
  ImplementsReload
CHECK_DEADLOCK FALSE
