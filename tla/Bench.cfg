SPECIFICATION Spec
CONSTANT MaxInfos = 3
INVARIANT RowIsSound
PROPERTY RunEnds
CHECK_DEADLOCK FALSE
