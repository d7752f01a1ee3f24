SPECIFICATION Spec
CONSTANTS
    Bugs = {"BUG_C1", "BUG_C2", "BUG_S1"}
    Times = {0}
    Durations = {1, 2}
    MaxByHand = 1
INVARIANTS RowsAreOwn ScoresAreEarned CreditIsReal
PROPERTIES OwnRowsReachTheTable
CHECK_DEADLOCK FALSE
