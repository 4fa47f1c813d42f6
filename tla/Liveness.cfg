\* One search of any mode, under fairness.
CONSTANTS
  MaxThreads = 2
  InitialThreads = 2
  Positions <- MCPositions
  InitialPosition = "open"
  Moves <- OneMove
  LegalMoves <- OneLegalMove
  MaxDepth = 2
  Scores <- OneScore
  MateScores = {}
  Commands <- LifecycleCommands
  MaxSearches = 1
SPECIFICATION FairSpec
PROPERTIES
  ImplementsSession
  QuitTerminates
