\* The test's verdict against the files it compares.
CONSTANTS
  Size = 3
  MaxWorkers = 1
  Missing = Missing
  Stop = Stop
  NoPool = NoPool

SPECIFICATION Spec
INVARIANT VerdictSound
CHECK_DEADLOCK FALSE
