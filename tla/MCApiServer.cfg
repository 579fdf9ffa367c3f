\* Every kind of request, on two workers; a SQL statement may run forever.
CONSTANTS
    Conns = {c1, c2}
    NoConn = NoConn
    Requests = {"health", "metrics", "insert", "select", "badsql", "empty", "unknown", "malformed"}
    QueueCapacity = 1
    ThreadCount = 2
SPECIFICATION StuckEngineSpec
INVARIANTS
    StatementsSerialised
    ReadYourWrites
    ClosedSocketIsForgotten
    ReleasedUnused
    MetricsCountClosed
    MetricsExact
PROPERTIES
    EveryConnectionEnds
    ShutdownCompletes
    HealthWithoutDb
