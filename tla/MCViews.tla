------------------------------- MODULE MCViews -------------------------------
(***************************************************************************)
(* The first boot with its viewers, for TLC.  The state space is finite    *)
(* without any bound: faults are unlimited in number.                      *)
(***************************************************************************)
EXTENDS Views

AnyFlaw == InstalledFlaw

(* Once it has healed, an archive looks like one in order. *)
NoArchiveFlaw == InstalledFlaw \ {"archive"}
=============================================================================
