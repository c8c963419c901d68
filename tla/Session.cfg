SPECIFICATION SessionLive
CONSTANTS
  Conn = {c1}
  Backends = {"thread", "process"}
  SessionCap = 1
  ControlRunsOut = TRUE
  MaxOut = 2
CHECK_DEADLOCK FALSE
INVARIANTS WireDiscipline NothingKept ExitIsTruthful
PROPERTIES ConnectionEnds WorkerReaped
