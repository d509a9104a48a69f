SPECIFICATION Spec
CONSTANTS
  ParamsSize = 3
  DataSize = 2
  Alphabets <- MCAlphabets
  Samples <- MCSamples
  MaxParam = 10
  MaxBytes = 5
  StyleSet <- MCStyles
  AllSwitches = FALSE
  TokenSets <- MCTokens
  Limits = {2, 3}
  MaxTokens = 5
  Breakpoints = {}
INVARIANTS SequencesAreRead
  ReadersAgree PenFollows TextsAreRight
CHECK_DEADLOCK FALSE
