SPECIFICATION FairSpec
CONSTANTS
  Jobs = {1, 2, 3, 4}
  NoJob = 0
  NLen = 3
  Capacity = 1
  BatchCap = 4
  PromptLens = {1, 2, 5}
  DecodeMayFail = TRUE
INVARIANTS HeapAccounted CacheOwned Gapless ParkedIffOverfull QueueSound
PROPERTIES EveryCallEnds EveryTokenCollected
ACTION_CONSTRAINT Numbered
CHECK_DEADLOCK FALSE
