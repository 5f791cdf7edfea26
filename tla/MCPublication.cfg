CONSTANTS
  Tags = {1, 2}
  Serialized = FALSE
SPECIFICATION Spec
INVARIANT LatestPairServed
\* every workflow ends
CHECK_DEADLOCK FALSE
