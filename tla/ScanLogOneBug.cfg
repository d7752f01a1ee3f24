SPECIFICATION Spec
CONSTANTS
    Files = {f1}
    Traces <- MCTraces
    Times <- MCTimes
    START_EPOCH = 10
    TARGET = "sqlite"
INVARIANT EachLoggedBugReported
CHECK_DEADLOCK FALSE
