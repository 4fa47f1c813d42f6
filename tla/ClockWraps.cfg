SPECIFICATION Spec
CONSTANTS
  Starts <- LongClock
PROPERTIES FiftyMovesStand
