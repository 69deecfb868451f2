SPECIFICATION Spec
CONSTANTS
  Acts <- LibcGuest
  Modes <- BothModes
  MaxMem = 2
  MaxInjects = 1
PROPERTY TerminalIsLast
