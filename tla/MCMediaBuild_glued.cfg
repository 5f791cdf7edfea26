CONSTANTS
  PointRelease <- MCPointRelease
  Worlds <- MCWorlds
  Later <- MCLater
  Faults <- MCFaults
  MaxBuilds = 2
SPECIFICATION Spec
INVARIANT AddsOnlyAutoinstall
\* after MaxBuilds builds nothing is left to do
CHECK_DEADLOCK FALSE
