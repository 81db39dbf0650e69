\* Four versions, compressed and not, with scripts that come and go, and two
\* faults at any place.
SPECIFICATION FairSpec
CONSTANTS
  MaxVersion = 3
  Compressed <- Gzip023
  Scripts <- AllScripts
  ScriptsOf <- ScriptsOf0123
  Suffixed <- Lua
  MaxFaults = 2
INVARIANTS TypeOK WholeOrOwed
PROPERTIES FailsOnlyWhileOwed EditsArrive
CHECK_DEADLOCK FALSE
