SPECIFICATION Spec
CONSTANTS
  TrueLabel <- MCTrue
  FalseLabel <- MCFalse
  ReturnLabel <- MCReturn
  CalleeLabel <- MCCallee
  AddressOf <- MCAddressOf
  InitialStack <- MCInitialStack
  Insns <- MCInsns
  Functions <- MCFunctions
  RegFiles <- MCRegFiles
  Garbage <- MCGarbage
  MaxRetired = 1
  None = None
INVARIANTS MachineTypeOK MovOnly TablesInBounds StackInBounds
PROPERTY ImplementsX86
CHECK_DEADLOCK FALSE
