SPECIFICATION Spec
CONSTANTS
  Acts <- NoBridgeEnd
  Modes <- BothModes
  MaxMem = 3
  MaxInjects = 1
INVARIANT LastFrame
PROPERTY StreamSpec
