SPECIFICATION Spec
CONSTANTS
    Commands = {"run_all", "build_all"}
    Durations = {1}
    HostAfl = FALSE
    TornWrites <- AllWrites
    MaxVersion = 2
    MaxFaults = 2
INVARIANTS
    SkippedMeansPresent
