SPECIFICATION MeasurementSpec
CONSTANTS
    Files = {f1, f2, f3}
    Targets = {"sqlite", "rhash", "cjson", "re2"}
    MaxCalls = 3
    Units = {0, 1, 7}
    Rates = {5}
    Epochs = {10, 11, 13}
    Percents = {0, 4200, 7350}
INVARIANTS
    NothingLeaks
    ProfilesComplete
    ExecsAreEarned
    WinnerIsBest
SYMMETRY Symmetry
CHECK_DEADLOCK FALSE
