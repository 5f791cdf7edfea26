CONSTANTS
  unit = unit  first = first  second = second
  f1 = f1  f2 = f2  f3 = f3  f4 = f4
  NoProc = NoProc  NoFile = NoFile
  Unit = unit
  Procs <- MCProcs
  Files <- MCFiles
SYMMETRY Interchangeable
SPECIFICATION Spec
INVARIANTS
  TypeOK
  OneInstaller
  NothingAfterCompletion
PROPERTY GivesUpOnlyToRival
