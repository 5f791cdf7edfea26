CONSTANT Flaws <- NoFlaw
SPECIFICATION LiveSpec
PROPERTY AlwaysSettles
CHECK_DEADLOCK FALSE
