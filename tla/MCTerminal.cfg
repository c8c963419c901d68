SPECIFICATION TerminalSpec
CONSTANTS
    Backends = {"thread", "process"}
    ChunkBytes = 2
    MaxPending = 4
    MarkerBytes = 1
    PipeBytes = 2
    SendQueue = 4
    QueuedOut = 5
    Window = 5
    MaxOutstanding = 3
    RenewMessages = 3
    WriteSizes <- MCWriteSizes
    MaxBytes = 7
    MaxRefused = 1
    WorkerKinds = {"thread", "process"}
    LineChars = 1
    Plans <- MCPlans
    ExitCode = 3
    MaxKeys = 3
    Bursts <- MCBursts
    MaxUnread = 1
    MaxSignals = 1
    Tab = {t1, t2}
    Tickets = 2
    MaxAttempts = 1
    MaxConns = 2
CHECK_DEADLOCK FALSE
INVARIANTS InOrder WindowIsExact KeysKept ExitsOnce AdmittedOnce
PROPERTIES Flows KeepsCredit Answered Settles RevokedIsOut
