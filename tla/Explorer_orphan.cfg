SPECIFICATION FairSpec
CONSTANTS
  MaxVms = 1
  MaxSockets = 2
  MaxLoads = 1
  MaxQueue = 1
PROPERTIES GuestShown
