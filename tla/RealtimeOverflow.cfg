CONSTANTS
    r1 = r1
    r2 = r2
    b1 = b1
    b2 = b2
    h1 = h1
    h2 = h2
    h3 = h3
    l1 = l1
    l2 = l2
    l3 = l3
    n1 = n1
    n2 = n2
    ann = ann
    bob = bob
    bot = bot
    Requests = {r1, r2}
    Notices = {n1, n2}
    BusSockets = {b1, b2}
    HubSockets = {h1, h2, h3}
    LegacySockets = {l1, l2, l3}
    Users = {ann, bob}
    Agents = {bot}
    User <- MCUser
    CreatedBy <- MCCreatedBy
    Bus = Bus
    Nobody = Nobody
    BusQueueMax = 2
    HubQueueMax = 1
    MaxStaged = 2
    Scenes <- MCScenes
CHECK_DEADLOCK FALSE
SPECIFICATION Spec
INVARIANT NewestEventKept
