SPECIFICATION Spec
CONSTANTS
    Keys = {30}
    Moves <- MCMoves
    Config = 36
    Size = 3
    FlushReads = 4
    Tries = 2
    MaxKeys = 1
VIEW View
INVARIANTS
    ConfigIsKept
    MouseIsFollowed
PROPERTIES
    RawIsQueue
CHECK_DEADLOCK FALSE
