SPECIFICATION DecodeSpec
CONSTANTS
  Size = 4
  UBatch = 2
  MaxBatch = 4
  MaxPos = 6
  NThreads = 2
  NNodes = 3
  MayAbort = TRUE
  NoThread = none
  MatMul <- Products
  NChunks <- Chunks
INVARIANTS MemoryGapless ReturnTells PartsInOrder WholeNodes NoLostWakeup
PROPERTIES ImplementsMemory DecodeReturns
CHECK_DEADLOCK FALSE
