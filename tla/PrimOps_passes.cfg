CONSTANTS
  ByteBits = 3
  PtrBits = 6
  MaxBits = 24
  Widths = {3, 6, 12, 24}
  MCByteBits = 3
  MCPtrBits = 6
  MCLongBits = 12
  MCMaxBits = 24
  Types <- MCTypes
  Objects <- MCObjects
  Arguments <- MCArguments
  SizeOf <- MCSizeOf
  AlignOf <- MCAlignOf
  BitAnd <- MCBitAnd
  BitOr <- MCBitOr
  BitXor <- MCBitXor
  Ops <- Primitives
  ArgLists <- MCArgLists
SPECIFICATION Spec
INVARIANTS
  AssertionsHold
  CompileTimeEqualsRunTime
  CheckedIsExact
CHECK_DEADLOCK FALSE
