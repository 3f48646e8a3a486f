\* Safety and liveness of the oneshot session and its reconnector.
CONSTANTS
  e1 = e1
  e2 = e2
  Endpoints <- MCEndpoints
  E0 = e1
  BadPath = BadPath
  TooLong = TooLong
  MaxWrites = 2
  UnlinkAtEnd = TRUE
SPECIFICATION Spec
INVARIANTS
  TypeOK
  ReconnectorFdIsolation
PROPERTIES
  ReconnectorEndsWithSession
\* The session may end and both processes stop: that is termination.
CHECK_DEADLOCK FALSE
