CONSTANTS
  Contents = {old, new, newer}
  NoFile = NoFile
  Torn = Torn
SPECIFICATION Spec
INVARIANTS
  TypeOK
  NeverTorn
  ReturnedSurvives
  NoTemporaryLeft
PROPERTY KeepsCell
