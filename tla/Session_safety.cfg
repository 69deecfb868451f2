SPECIFICATION SessionSpec
CONSTANTS
  Acts <- TalkingGuest
  Modes <- OneMode
  MaxMem = 1
  MaxInjects = 1
  Messages <- EveryMessage
  MaxInbox = 1
  MayLeave = TRUE
INVARIANTS SessionTypeOK GuestDiesWithSession ClientTold
CHECK_DEADLOCK FALSE
