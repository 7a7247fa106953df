SPECIFICATION Spec
CONSTANTS
  Jobs = {1, 2, 3, 4}
  NoJob = 0
  NLen = 4
  Capacity = 1
  BatchCap = 3
  PromptLens = {1, 2, 5}
  DecodeMayFail = TRUE
INVARIANTS HandlesKept OwnContext
PROPERTY ImplementsResource
ACTION_CONSTRAINT Numbered
CHECK_DEADLOCK FALSE
