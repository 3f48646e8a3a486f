\* run_server's setup and teardown in both modes, with every failure path.
SPECIFICATION Spec
INVARIANTS
  DisplaySocketRemoved
  AppFdIsolation
\* run_server returns once; the model stops there.
CHECK_DEADLOCK FALSE
