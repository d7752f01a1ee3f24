SPECIFICATION Spec
CONSTANTS
    Commands = {"run_all", "build_all", "build", "benchmark"}
    Durations = {1, 2}
    HostAfl = FALSE
    TornWrites <- AllWrites
    MaxVersion = 1
    MaxFaults = 1
INVARIANTS
    BuildDirIsThere
    CorporaAreNotEmpty
    RowsMatchHeader
PROPERTIES
    ResultsOnlyFromFullRuns
    ImplementsResultsTable
