SPECIFICATION ReadingSpec
CONSTANTS
    Lists <- LowLists
    Ids <- MCIds
    MaxKey = 2
    MaxRank = 2
    ArmOf <- MCArmOf
    Weight <- MCWeight
    Mine <- MCMine
    ArmCap = 1
    Surplus = 1
    PageSizes = {1, 2}
    MaxChanges = 0
    MaxPages = 5
    Absent = Absent
INVARIANT LowHitsSeenOnce
CHECK_DEADLOCK FALSE
