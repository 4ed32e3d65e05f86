CONSTANTS
    Callers = {a, b}
    Streams = {s}
    Calls = {k}
    Conns = {c1}
    NoConn = NoConn
    Rows = 2
    Buffer = 1
    MaxPanics = 1
SPECIFICATION FairSpec
INVARIANTS AnswerIsFramed NothingRefused
PROPERTIES ShutdownReturns WorkerIsFreed
