SPECIFICATION FairSessionSpec
CONSTANTS
  Acts <- PrintingGuest
  Modes <- OneMode
  MaxMem = 1
  MaxInjects = 0
  Messages <- EveryMessage
  MaxInbox = 1
  MayLeave = TRUE
PROPERTY MainEndsSession
CHECK_DEADLOCK FALSE
