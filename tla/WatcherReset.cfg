\* The documented behaviour that the code does not have: see the findings.
SPECIFICATION Spec
CONSTANTS
  MaxVersion = 1
  Compressed = {}
  ExitModes = {FALSE}
  MaxQueue = 1
  MaxNoise = 0
  MaxFaults = 1
PROPERTIES
  ResetTakesEffect
CHECK_DEADLOCK FALSE
