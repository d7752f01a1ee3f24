SPECIFICATION Spec
CONSTANTS
    Files = {f1}
    Traces <- MCTraces
    Times <- MCTimes
    START_EPOCH = 10
    TARGET = "sqlite"
INVARIANT EveryReplayIsNamed
CHECK_DEADLOCK FALSE
