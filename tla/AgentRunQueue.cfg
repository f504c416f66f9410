CONSTANTS
    k1 = k1
    k2 = k2
    t1 = t1
    s1 = s1
    s2 = s2
    Keys = {k1, k2}
    Tickets = {t1}
    TicketOf <- OneTicket
    Sessions = {s1, s2}
    Pollers = {s1}
    Modes <- OneDrain
    NoKey = NoKey
    MaxFaults = 1
SPECIFICATION FairSpec
INVARIANTS TypeOK AtMostOnce RowsTellTheTruth
PROPERTIES DispatchSpec EveryRunIsDecided
