CONSTANTS
    s1 = s1
    s2 = s2
    ann = ann
    root = root
    bot = bot
    p1 = p1
    p2 = p2
    g1 = g1
    x1 = x1
    x2 = x2
    c1 = c1
    c2 = c2
    c3 = c3
    o1 = o1
    o2 = o2
    b1 = b1
    f1 = f1
    f2 = f2
    t1 = t1
    t2 = t2
    k1 = k1
    k2 = k2
    text1 = text1
    text2 = text2
    Sessions = {s1, s2}
    Users = {ann, root}
    Admins = {root}
    Agents = {bot}
    Absent = Absent
    Nobody = Nobody
    Idle = Idle
    ProblemIds = {p1, p2}
    SuggestionIds = {g1}
    SolutionIds = {x1, x2}
    CommentIds = {c1, c2, c3}
    PostIds = {o1}
    BountyIds = {b1}
    FileIds = {f1, f2}
    TagIds = {t1, t2}
    CategoryIds = {k1, k2}
    Texts = {text1, text2}
    MaxPinned = 1
    MaxTotal = 1
    MaxNumber = 2
    MaxVersion = 3
    Menus <- MCMenus
SYMMETRY Symmetry
CHECK_DEADLOCK FALSE
SPECIFICATION Spec
INVARIANTS BoardTypeOK CurrentIsLatest VotesCounted ThreadsWhole
PROPERTIES BountySpec
