\* Safety of the multi-connection supervisor with reconnection.
CONSTANTS
  c1 = c1
  c2 = c2
  e1 = e1
  e2 = e2
  Conns <- MCConns
  Endpoints <- MCEndpoints
  E0 = e1
  BadPath = BadPath
  TooLong = TooLong
  MaxWrites = 2
  UnlinkAtEnd = TRUE

SPECIFICATION Spec
SYMMETRY ConnSymmetry

INVARIANT TypeOK
INVARIANT TokenDiscipline
INVARIANT EndpointAgreement
INVARIANT SupervisorFdsExact
INVARIANT WorkerFdIsolation
INVARIANT ReconnectablePromiseKept

PROPERTY MigrationSpec

\* The supervisor blocks in poll() forever once the bounded environment
\* has no more connections or FIFO writes to offer.
CHECK_DEADLOCK FALSE
