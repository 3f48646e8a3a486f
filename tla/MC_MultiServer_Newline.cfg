\* Spec 6: a newline-terminated path written to the control FIFO is used.
CONSTANTS
  c1 = c1
  c2 = c2
  e1 = e1
  e2 = e2
  Conns <- MCConns
  Endpoints <- MCEndpoints
  E0 = e1
  BadPath = BadPath
  TooLong = TooLong
  MaxWrites = 2
  UnlinkAtEnd = TRUE


SPECIFICATION Spec
PROPERTY SingleWriteHonoured
CHECK_DEADLOCK FALSE
