SPECIFICATION TabsSpec
CONSTANTS
    Tab = {t1, t2}
    Tickets = 3
    MaxAttempts = 1
    MaxConns = 2
CHECK_DEADLOCK FALSE
INVARIANT ClosedIsOver
