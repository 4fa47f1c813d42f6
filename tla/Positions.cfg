SPECIFICATION Spec
INVARIANTS ExchangeIsSound CountIsExact NoColourFavoured FeaturesAreExact
CHECK_DEADLOCK FALSE
