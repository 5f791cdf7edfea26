CONSTANTS
  Flaws <- AnyFlaw
  Watched <- NoArchiveFlaw
SPECIFICATION ViewSpec
INVARIANTS
  TypeOK
  SetupPageYields
  ReadyMeansDeployed
  FatalKeepsSetupPage
  ViewTypeOK
  TicksAreTrue
PROPERTIES
  ReadinessIsGladys
  KeepsContract
  Settles
  PortServed
  LateIsStale
  PageLetsGo
  ConsoleSettles
\* the appliance may rest: FATAL, a finished first boot
CHECK_DEADLOCK FALSE
