\* The supervisor ends once the application exits or SIGINT arrives.
CONSTANTS
  c1 = c1
  c2 = c2
  e1 = e1
  e2 = e2
  Conns <- MCConns
  Endpoints <- MCEndpoints
  E0 = e1
  BadPath = BadPath
  TooLong = TooLong
  MaxWrites = 2
  UnlinkAtEnd = TRUE


SPECIFICATION Spec
PROPERTY SupervisorEndsOnExitOrSignal
CHECK_DEADLOCK FALSE
