SPECIFICATION Spec
CONSTANTS
    r1 = r1
    r2 = r2
    Runs = {r1, r2}
    Saved <- Files
    SafeSeeds = FALSE
    MaxClock = 1
    MaxVersion = 2
    MaxErrors = 1
INVARIANTS TypeOK OneBinaryPerRow  OwnCrashes
           UnitsAreMeasured LatestIsNewest
SYMMETRY Symmetry
CHECK_DEADLOCK FALSE
