SPECIFICATION FairSpec
CONSTANTS
    Procs = {p1, p2}
    Idle = idle
    Reaper = reaper
    Shell = shell
    Boot = boot
    NULL = null
    MaxSleep = 1
INVARIANTS
    RingIsOneCycle
    NothingInUseIsFreed
    UserRegistersAreOwn
PROPERTIES
    ImplementsThreadLife
    
    ExitedIsFreed
