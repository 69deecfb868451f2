SPECIFICATION Spec
CONSTANTS
  MaxVms = 2
  MaxSockets = 2
  MaxLoads = 2
  MaxQueue = 1
INVARIANTS TypeOK RunFlagAgrees LoopNotFreed OneEngine
