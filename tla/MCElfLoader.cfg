SPECIFICATION ElfSpec
CONSTANTS
    PAGE_SIZE = 4
    Lo = 1
    Hi = 10
    MaxSize = 2
    Headers <- MCHeaders
    Programs <- AlignedPrograms
    Table = 2
    StackPages = 1
    FbPages = {9}
INVARIANTS
    ImageIsLoaded
