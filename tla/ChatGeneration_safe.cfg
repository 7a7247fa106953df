SPECIFICATION Spec
CONSTANTS
  a = a
  b = b
  w = w
  Letters <- AllLetters
  Wide <- WideLetters
  Stops <- Listed
  Texts <- Emitted
  Chats = {c1, c2}
  MaxTokens = 2
  MaxGens = 2
  MaxEmit = 3
INVARIANTS StopSequenceHidden OwnTokensOrdered SavedBelongs FinishedIsSaved
CHECK_DEADLOCK FALSE
