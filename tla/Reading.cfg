SPECIFICATION ReadingSpec
CONSTANTS
    Lists <- ServedLists
    Ids <- MCIds
    MaxKey = 2
    MaxRank = 2
    ArmOf <- MCArmOf
    Weight <- MCWeight
    Mine <- MCMine
    ArmCap = 1
    Surplus = 1
    PageSizes = {1, 2}
    MaxChanges = 1
    MaxPages = 4
    Absent = Absent
INVARIANT ReadingTypeOK
INVARIANT ReadOnceInOrder
INVARIANT LossIsBounded
INVARIANT TotalsHonest
INVARIANT BestFirst
CHECK_DEADLOCK FALSE
