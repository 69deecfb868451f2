SPECIFICATION FairSpec
CONSTANTS
  Acts <- EveryAct
  Modes <- BothModes
  MaxMem = 2
  MaxInjects = 1
INVARIANTS TypeOK NoUseAfterClose ParityAgrees EndIsTold PausedIsCurrent
PROPERTIES CloseCompletes PauseEndsSession
