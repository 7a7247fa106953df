SPECIFICATION Spec
CONSTANTS
  Files = {f1, f2}
  MaxCalls = 2
  MaxTaps = 1
  MaxChunks = 1
  None = None
INVARIANTS CompleteIsWhole AwakeWhileActive StopsWhenIdle LockFreed NeverUnderLocked EntriesCleared
SYMMETRY Symmetry
CHECK_DEADLOCK FALSE
