--------------------------- MODULE MCInstallerLock ---------------------------
(* Two processes by hand beside systemd's, interchangeable, and one lock file
   more than there are processes. *)
EXTENDS InstallerLock, TLC

CONSTANTS unit, first, second, f1, f2, f3, f4

MCProcs == {unit, first, second}
MCFiles == {f1, f2, f3, f4}
Interchangeable == Permutations({first, second}) \cup Permutations(MCFiles)
=============================================================================
