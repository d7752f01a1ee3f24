SPECIFICATION FairSpec
CONSTANTS
    Commands = {"run_all"}
    Durations = {1}
    HostAfl = TRUE
    TornWrites <- AllWrites
    MaxVersion = 2
    MaxFaults = 2
PROPERTIES
    EventuallyPublished
    StepsRunOut
