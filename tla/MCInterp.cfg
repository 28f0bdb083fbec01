SPECIFICATION Spec
CONSTANTS
  Blocks <- MCBlocks
  Functions = {1}
  Bodies = {3}
  Region <- MCRegion
  Programs <- MCPrograms
  MaxLen = 2
  MaxFrames = 3
  MaxCalls = 2
  MaxClock = 8
INVARIANTS
  TypeOK
  ReadsRight
  SetsOnce
  Balanced
CHECK_DEADLOCK FALSE
