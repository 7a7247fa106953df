SPECIFICATION Spec
CONSTANTS
  a = a
  b = b
  w = w
  Letters <- AllLetters
  Wide <- WideLetters
  Stops <- Listed
  Texts <- EmittedTwo
  Chats = {c1, c2}
  MaxTokens = 2
  MaxGens = 2
  MaxEmit = 2
INVARIANT SafetyLimit
CHECK_DEADLOCK FALSE
