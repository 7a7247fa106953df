SPECIFICATION Spec
CONSTANTS
  Answers = {a1, a2}
  MaxBytes = 4
INVARIANTS ValidIsWellFormed WholeCharacters LongestPrefixSent
SYMMETRY Symmetry
CHECK_DEADLOCK FALSE
