\* The round trip with a 4-byte file and 0 to 3 worker threads per pool.
CONSTANTS
  Size = 4
  MaxWorkers = 3
  Missing = Missing
  Stop = Stop
  NoPool = NoPool

SPECIFICATION Spec
INVARIANT DrainCompletesPass
PROPERTY TestTerminates
PROPERTY MirrorSyncSpec
CHECK_DEADLOCK FALSE
