SPECIFICATION Spec
CONSTANTS
    Commands = {"run_all"}
    Durations = {1, 2}
    HostAfl = FALSE
    TornWrites <- AllWrites
    MaxVersion = 2
    MaxFaults = 3
INVARIANTS
    TypeOK
    BenchmarksFindTheirBinaries
    RowsAreComparable
PROPERTIES
    RunsEndPublished
