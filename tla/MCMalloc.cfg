SPECIFICATION MallocSpec
CONSTANTS
    NULL = null
    Block = block
    Threads = {t1, t2}
    Frames = {f1, f2, f3, f4}
    Lo = 4
    Hi = 7
    MaxSize = 2
    CacheSize <- MCCacheSize
    SlabBytes = 64
    Requests <- MCRequests
SYMMETRY Symmetry
INVARIANTS
    SlabsAreIntact
    BlocksAreBacked
    FramesAreAccounted
PROPERTIES
    ImplementsAddressSpace
