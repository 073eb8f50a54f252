SPECIFICATION PmmSpec
CONSTANTS
    NULL = null
    PAGE_SIZE = 64
    MinPages = 2
    NumTables <- MCNumTables
    Start <- MCStart
    End <- MCEnd
    Foreign <- MCForeign
    Batch = 2
INVARIANTS
    FreeListIsFree
    AssertionsHold
    EstablishesPmm
PROPERTIES
    ImplementsPageAllocator
