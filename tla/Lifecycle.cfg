\* Two threads, two searches of every mode, stop and quit at any moment; or two
\* searches on two positions with legal and illegal searchmoves.
CONSTANTS
  MaxThreads = 2
  InitialThreads = 2
  Positions <- MCPositions
  InitialPosition = "open"
  Moves <- TwoMoves
  LegalMoves <- TwoLegalMoves
  MaxDepth = 2
  Scores <- TwoScores
  MateScores <- MCMateScores
  Commands <- SearchCommands
  MaxSearches = 2
SPECIFICATION SearchSpec
INVARIANTS
  TypeOK
  ExclusiveWhenIdle
  NoSpuriousRefusal
  HelpersInsideMainSearch
  NoLostWakeup
  OneAnswerEach
  ResultsAreSound
PROPERTIES
  ImplementsSessionSafety
