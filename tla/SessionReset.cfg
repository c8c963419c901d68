SPECIFICATION SessionSpec
CONSTANTS
  Conn = {c1}
  Backends = {"thread"}
  SessionCap = 1
  ControlRunsOut = TRUE
  MaxOut = 1
CHECK_DEADLOCK FALSE
INVARIANT ReservedBeforeWorker
