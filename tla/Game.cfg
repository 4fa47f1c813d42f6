SPECIFICATION Spec
CONSTANTS
  Starts <- Games
INVARIANTS StateIsFresh UnmakeRestores RulesAreExact DrawsMatchHistory ReloadsSame
