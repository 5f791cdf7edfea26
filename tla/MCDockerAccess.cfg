CONSTANTS
  m1 = m1
  m2 = m2
  Members <- SudoGroup
  NoAccount = NoAccount
SPECIFICATION Spec
INVARIANTS
  TypeOK
  NothingLeftBehind
  EveryoneTried
PROPERTY NeverBlocks
\* the loop ends
CHECK_DEADLOCK FALSE
