SPECIFICATION TerminalSpec
CONSTANTS
    Chars = {"a", "A", "LF", "CR", "BS", "CTRL", "NUL"}
    Letters = {"a", "A"}
    Scancodes <- MCScancodes
    asciiNoShift <- MCNoShift
    asciiShift <- MCShift
    Size = 3
    MaxRead = 1
    BashLine <- MCBash
    CreditsLine <- MCCredits
    PanicLine <- MCPanic
    ShellSize = 3
    LINE_BUF_SIZE = 3
    Pages = 1
    Procs = {bash}
    UninitChar = {"NUL", "LF", "a"}
VIEW View
INVARIANTS
    LineIsWhatWasEchoed
PROPERTIES
    KbdIsQueue
    
