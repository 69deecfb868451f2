SPECIFICATION Spec
CONSTANTS
  MaxVms = 2
  MaxSockets = 1
  MaxLoads = 1
  MaxQueue = 1
INVARIANTS VmMounted
