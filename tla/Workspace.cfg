CONSTANTS
    s1 = s1
    s2 = s2
    ann = ann
    kim = kim
    root = root
    bot = bot
    p1 = p1
    p2 = p2
    x1 = x1
    x2 = x2
    t1 = t1
    t2 = t2
    c1 = c1
    l1 = l1
    f1 = f1
    k1 = k1
    m1 = m1
    m2 = m2
    e1 = e1
    e2 = e2
    base = base
    keyA = keyA
    keyB = keyB
    Sessions = {s1, s2}
    UserIds = {ann, kim, root}
    AgentIds = {bot}
    Emails = {e1, e2}
    Bases = {base}
    ProjectIds = {p1, p2}
    Keys = {keyA, keyB}
    SprintIds = {x1, x2}
    ComponentIds = {c1}
    TicketIds = {t1, t2}
    LessonIds = {k1}
    FileIds = {f1}
    CommentIds = {l1}
    TokenIds = {m1, m2}
    Names = {base}
    LinkTypes = {"blocks", "is_blocked_by", "relates_to", "clones", "is_cloned_by"}
    BaseOf <- MCBaseOf
    Absent = Absent
    Nobody = Nobody
    Idle = Idle
    MaxSeq = 2
    MaxHandle = 3
    MaxVersion = 3
    Menus <- MCMenus
SYMMETRY Symmetry
CHECK_DEADLOCK FALSE
SPECIFICATION Spec
INVARIANTS WorkspaceTypeOK NumbersAhead OneActiveSprint LinksPaired OneAccount NamedOnce
