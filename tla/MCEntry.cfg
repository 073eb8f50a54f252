SPECIFICATION Spec
CONSTANTS
    t1 = t1
    t2 = t2
    Threads = {t1, t2}
    Program <- MCProgram
    MaxLive = 3
    MaxNested = 2
    None = None
INVARIANTS
    KernelContext
    UserStateComesBack
    
    PanicIsFinal
