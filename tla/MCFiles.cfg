SPECIFICATION Spec
CONSTANTS
    p0 = p0
    p1 = p1
    p2 = p2
    Procs = {p0, p1, p2}
    Workloads <- MCWorkloads
    Paths = {"/a", "/b", "/none"}
    Decoy = "/a"
    Block = 2
    MaxFd <- MCMaxFd
    Offsets <- MCOffsets
SYMMETRY Symmetry
INVARIANTS
    BlocksAreOwned

    
