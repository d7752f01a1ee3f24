SPECIFICATION Spec
CONSTANTS
    Objs = {o1, o2, o3}
    HostAfl = FALSE
    SamePath = FALSE
INVARIANTS
    BinariesAreOwn
    
