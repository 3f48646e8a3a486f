\* An invalid path in the control FIFO is ignored (spec 4.G, S6).
CONSTANTS
  e1 = e1
  e2 = e2
  Endpoints <- MCEndpoints
  E0 = e1
  BadPath = BadPath
  TooLong = TooLong
  MaxWrites = 2
  UnlinkAtEnd = TRUE
SPECIFICATION Spec
PROPERTY ReconnectorSurvivesBadInput
\* The session may end and both processes stop: that is termination.
CHECK_DEADLOCK FALSE
