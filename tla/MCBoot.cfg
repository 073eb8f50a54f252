SPECIFICATION BootSpec
CONSTANTS
  Freq = 12
  Second = 10
  Wrap = 8
  Word = 32
  PitMin = 3
  PitMax = 7
  Requests = {0, 1, 3, 12}
  MaxGap = 9
  MaxTime = 20
  Boards <- MCBoards
CHECK_DEADLOCK FALSE
INVARIANTS
    EarlyOnlyInX2apic
    
    RoutedAsWired
PROPERTIES
    DevicesAreServed
