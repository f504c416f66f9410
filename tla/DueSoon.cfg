CONSTANTS
    p1 = p1
    p2 = p2
    c1 = c1
    c2 = c2
    c3 = c3
    r1 = r1
    Processes = {p1, p2}
    Conns = {c1, c2, c3}
    PoolOf <- Pools
    NoConn = NoConn
    MaxDepth = 2
    Reminders = {r1}
    Lookahead = 2
    Window = 2
    MaxTime = 3
    MaxFaults = 2
SPECIFICATION Spec
INVARIANTS ScannerTypeOK ScanExclusive OwnRemindersSpaced
