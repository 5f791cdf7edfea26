--------------------------- MODULE MCDockerAccess ----------------------------
(* Two members of the sudo group, of any kind. *)
EXTENDS DockerAccess

CONSTANTS m1, m2

SudoGroup == {m1, m2}
=============================================================================
