SPECIFICATION Spec
CONSTANTS
  MaxChats = 3
  MaxSends = 1
  MaxDeaths = 1
  MaxFaults = 1
INVARIANTS IdsDistinct ListIsIndex OpensOwn SavedSurvives DeletedGone
CHECK_DEADLOCK FALSE
