\* Three moves, depth 2 of 3 skipped, searches that agree and searches that do not.
CONSTANTS
  Moves <- ThreeMoves
  Values <- Apart
  Evaluations <- FarApart
  Inf = 4
  AspirationWindow = 1
  MaxDepth = 3
  Skipped = {2}
  Mates = {3}
SPECIFICATION Spec
INVARIANTS
  RootIsSound
PROPERTIES
  EveryMoveWeighed
  SearchEnds
