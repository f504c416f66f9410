CONSTANTS
    t1 = t1
    t2 = t2
    t3 = t3
    s1 = s1
    s2 = s2
    Tickets = {t1, t2, t3}
    Sessions = {s1, s2}
    Projects = {"p", "q"}
    None = None
    Absent = Absent
    Kinds = {"epic", "story", "task", "subtask"}
SYMMETRY Symmetry
SPECIFICATION Spec
INVARIANTS HierarchyTypeOK ParentsFit
PROPERTIES ForestSpec
