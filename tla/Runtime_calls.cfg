SPECIFICATION Spec
CONSTANTS
  IntBits = 14
  Exp32 = 6
  Exp64 = 9
  Width = 5
  Pow2 <- MCPow2
  Floats <- MCFloats
  Doubles <- MCDoubles
  Ints <- MCInts
  Longs <- MCLongs
  ByteBits = 2
  LastAddress = 7
  Blocks <- MCBlocks
  Contents <- MCContents
  ISelBits = 5
  Vectors <- MCVectors
INVARIANTS
  RuntimeTypeOK AddRight MulRight QuotientRight CompareRight FromIntRight ToIntRight
  WidthRight FRoundRight ShiftsDefined DivRight InOrder LoadsRight InlineRight
PROPERTY DivisionReturns
CHECK_DEADLOCK FALSE
