----------------------------- MODULE MCFirstboot -----------------------------
(***************************************************************************)
(* Instances of Firstboot for TLC.  The state space is finite without any  *)
(* bound: faults are unlimited in number.                                  *)
(***************************************************************************)
EXTENDS Firstboot

(* Every kind of image, and an image and archive in order. *)
AnyFlaw == InstalledFlaw
NoFlaw  == {"none"}
=============================================================================
