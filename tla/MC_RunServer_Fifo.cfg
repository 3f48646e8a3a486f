\* Spec 4.F: a control FIFO run_server created is unlinked on exit.
SPECIFICATION Spec
INVARIANT ControlPipeReleased
\* run_server returns once; the model stops there.
CHECK_DEADLOCK FALSE
