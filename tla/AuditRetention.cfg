CONSTANTS
    p1 = p1
    p2 = p2
    c1 = c1
    c2 = c2
    c3 = c3
    e1 = e1
    e2 = e2
    e3 = e3
    login = login
    rest = rest
    Processes = {p1, p2}
    Conns = {c1, c2, c3}
    PoolOf <- Pools
    NoConn = NoConn
    MaxDepth = 2
    Entries = {e1, e2, e3}
    Buckets = {login, rest}
    BucketOf <- BucketMap
    PassOrder <- Order
    Retention <- Days
    Oldest = 2
    BatchSize = 2
    MaxFaults = 2
SPECIFICATION Spec
INVARIANTS RetentionTypeOK DeletedWereAppended ArchivedOncePerFailure
