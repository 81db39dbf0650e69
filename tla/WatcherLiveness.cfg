\* The restart loop settles on the newest version; a termination request ends
\* the wrapper, and with -exit-on-failure a failed process does.
SPECIFICATION FairSpec
CONSTANTS
  MaxVersion = 1
  Compressed <- Gzip1
  ExitModes = {FALSE, TRUE}
  MaxQueue = 1
  MaxNoise = 1
  MaxFaults = 1

  
PROPERTIES
  Converges
  ShutdownOrLateChild
  ExitsOnFailure
CHECK_DEADLOCK FALSE
