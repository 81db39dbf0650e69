\* The documented behaviour that the code does not have: see the findings.
SPECIFICATION Spec
CONSTANTS
  MaxVersion = 0
  Compressed = {}
  ExitModes = {FALSE}
  MaxQueue = 1
  MaxNoise = 0
  MaxFaults = 34
INVARIANTS
  AlwaysDelayed
CHECK_DEADLOCK FALSE
