SPECIFICATION Spec
CONSTANTS
  Jobs = {j1, j2}
  NoJob = NoJob
  NLen = 2
  Capacity = 1
  BatchCap = 2
  PromptLens = {1}
  DecodeMayFail = TRUE
INVARIANT UnloadFreesResources
CHECK_DEADLOCK FALSE
