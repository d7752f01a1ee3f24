SPECIFICATION Spec
CONSTANTS
    Files = {f1, f2}
    Traces <- MCTraces
    Times <- MCTimes
    START_EPOCH = 10
    TARGET = "sqlite"
INVARIANTS
    TypeOK
    FirstSeenIsEarliest
    EveryIdentifiedCrashCounts
    NoUnearnedCredit
CHECK_DEADLOCK FALSE
