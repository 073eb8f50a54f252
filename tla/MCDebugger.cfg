SPECIFICATION DebuggerSpec
CONSTANTS
    Scripts <- MCScripts
    Memory <- MCMemory
    RegBytes = 2
    Code <- MCCode
    Noise <- MCNoise
    MaxFaults = 3
    MaxNacks = 1
    DBGSTUB_PACKET_BUFFER_SIZE = 30
    Slack = 2
    Length = 5
    Targets = {2}
CHECK_DEADLOCK FALSE

    
PROPERTIES
    
    RunsAsAsked
    
