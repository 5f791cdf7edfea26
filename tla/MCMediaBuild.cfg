CONSTANTS
  PointRelease <- MCPointRelease
  Worlds <- MCWorlds
  Later <- MCLater
  Faults <- MCFaults
  MaxBuilds = 2
SPECIFICATION Spec
INVARIANTS
  MediaTypeOK
  AuthenticBase
  AcceptedInstallIsSafe
  NoFixtureReleased
  BootsGladys
  MediaCheckIsExact
  SameBootEquipment
  ReleasedIsInspected
\* after MaxBuilds builds nothing is left to do
CHECK_DEADLOCK FALSE
