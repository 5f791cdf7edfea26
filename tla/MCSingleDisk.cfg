CONSTANTS
  Devices = {nvme, sata}
  Sections = {"storage", "identity"}
  Minimum = 2
  NoDevice = NoDevice
SPECIFICATION Spec
INVARIANTS
  TypeOK
  ErasesTheOnlyDisk
  ConfirmationKept
\* the command runs once
CHECK_DEADLOCK FALSE
