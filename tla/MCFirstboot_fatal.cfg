CONSTANT Flaws <- NoFlaw
SPECIFICATION Spec
PROPERTY FatalOnlyIfFlawed
CHECK_DEADLOCK FALSE
