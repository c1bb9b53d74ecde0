CONSTANTS
    Workers = {w1, w2}
    ListenConns = {t1, t2, t3}
    QueueCap = 1
    Failure = Failure
    NoConn = NoConn
SPECIFICATION PoolFairSpec
INVARIANTS
    OpenConnHasOneHolder
PROPERTIES
    IdleListensTornDown
    CloseEndsWorkers
CHECK_DEADLOCK FALSE
