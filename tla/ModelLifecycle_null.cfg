SPECIFICATION Spec
CONSTANTS
  Models = {m1, m2}
  Loaders = {t1}
  MaxJobs = 3
  MaxDeaths = 1
  None = None
INVARIANT SendHasModel
CHECK_DEADLOCK FALSE
