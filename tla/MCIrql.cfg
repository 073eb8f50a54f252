SPECIFICATION Spec
CONSTANTS
    Threads = {t1, t2}
    Locks <- MCLocks
    Machines <- MCMachines
    Uninit <- MCUninit
    MaxDepth = 4
SYMMETRY ThreadSymmetry
INVARIANTS
    LevelsProtect
    
