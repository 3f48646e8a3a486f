\* update_connections abandons a reconnection only on a refused channel.
CONSTANTS
  c1 = c1
  c2 = c2
  e1 = e1
  e2 = e2
  Conns <- MCConns
  Endpoints <- MCEndpoints
  E0 = e1
  BadPath = BadPath
  TooLong = TooLong
  MaxWrites = 2
  UnlinkAtEnd = TRUE


SPECIFICATION Spec
PROPERTY GiveUpOnlyWhenUnreachable
CHECK_DEADLOCK FALSE
