\* Three threads, resized at will around one search, or a long search of all.
CONSTANTS
  MaxThreads = 3
  InitialThreads = 3
  Positions <- MCPositions
  InitialPosition = "open"
  Moves <- OneMove
  LegalMoves <- OneLegalMove
  MaxDepth = 2
  Scores <- OneScore
  MateScores = {}
  Commands <- PoolCommands
  MaxSearches = 1
SPECIFICATION PoolSpec
INVARIANTS
  PoolChangesSafely
  HelpersAreHeard
