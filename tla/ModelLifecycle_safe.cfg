SPECIFICATION Spec
CONSTANTS
  Models = {m1, m2}
  None = None
  Loaders = {t1, t2}
  MaxJobs = 3
  MaxDeaths = 1
INVARIANT SequentialUseAgrees
SYMMETRY Symmetry
CHECK_DEADLOCK FALSE
