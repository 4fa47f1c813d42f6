\* Two threads that race, or one alone, on one cluster of two.
CONSTANTS
  Worker = {w1, w2}
  Keys <- MCKeys
  Moves <- OneMove
  Depths <- TwoDepths
  Salt <- MCSalt
  Pack <- MCPack
  ClusterSize = 2
  GenerationCount = 2
  MaxStores = 3
  MaxGenerations = 1
  RacingStores = 2
SPECIFICATION MCSpec
INVARIANTS
  TypeOK
  ProbeIsGenuine
  ReplacementIsSound
SYMMETRY Interchangeable
