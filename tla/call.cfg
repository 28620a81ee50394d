SPECIFICATION CallSpec
CONSTANTS
  MaxFiles = 2
  MaxPolls = 2
  MaxEvents = 3
INVARIANT TextIndependentOfChunks
PROPERTY CallsEndClean
CHECK_DEADLOCK FALSE
