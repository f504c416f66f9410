CONSTANTS
    t1 = t1
    s1 = s1
    s2 = s2
    u1 = u1
    a1 = a1
    Tickets = {t1}
    Sessions = {s1, s2}
    People = {u1, a1}
    Agents = {a1}
    Nobody = Nobody
    NoSession = NoSession
    FirstStatus <- TodoFirst
    ReporterOf <- ByU1
    WatchersOf <- WatchedByBoth
    Window = TRUE
    Targets = {"in_progress", "done"}
    MaxVersion <- Bounds
    MaxRemarks = 1
    MaxFaults = 1
SYMMETRY Writers
SPECIFICATION Spec
INVARIANTS WorkflowTypeOK HistoryUnbroken InboxFitsHistory
PROPERTIES ReplacedKnowingly RegisterSpec
