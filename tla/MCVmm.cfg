SPECIFICATION Spec
CONSTANTS
    NULL = null
    Frames <- MCFrames
    Levels = 3
    Entries = 2
    Half = 1
    UserAddrs <- MCUser
    KernelAddrs <- MCKAddrs
    Procs = {p1, p2}
    Fb = fb
    FbAddr <- MCFbAddr
SYMMETRY ProcSymmetry
INVARIANTS
    WalksLiveTables
    TranslationIsExact
    NoFrameIsLost
