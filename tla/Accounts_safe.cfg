SPECIFICATION Spec
CONSTANTS
  Mail = m1
  NameWords = {w1, w2}
  Secret = p1
  OtherSecret = p2
  Words <- AllWords
  Emails <- TypedEmails
  Names <- TypedNames
  Passwords <- TypedPasswords
  MaxDeaths = 1
  None = None
INVARIANTS SeesOwnData DataFollowsName SessionHasRow CanSignIn
SYMMETRY Symmetry
CONSTRAINT Explored
CHECK_DEADLOCK FALSE
