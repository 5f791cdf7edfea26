-------------------------- MODULE ApplianceContract --------------------------
(***************************************************************************)
(* What first boot promises to whoever looks at the appliance from outside *)
(* (ARCHITECTURE.md, "First boot state machine" and "Port 80 handoff"):    *)
(* provisioning may be repeated and interrupted at will until it is        *)
(* recorded as complete; it is recorded only for a deployed appliance and  *)
(* never while the setup page answers; from then on the installer never    *)
(* starts again, the setup page never answers again and the deployment     *)
(* stays.  The promise is the installer's: that Watchtower replaces the    *)
(* container of Gladys when its image is updated is no part of it.         *)
(***************************************************************************)
VARIABLES
  working,   \* the installer is at work
  complete,  \* provisioning is recorded as complete
  deployed,  \* Docker is enabled, both containers exist
  port       \* who answers on port 80

vars == <<working, complete, deployed, port>>

Init ==
  /\ working = FALSE
  /\ complete = FALSE
  /\ deployed = FALSE
  /\ port = "none"

(* Before: anything, except that the installer takes nothing deployed away. *)
Provision ==
  /\ ~complete
  /\ working' \in BOOLEAN
  /\ deployed' \in BOOLEAN /\ (deployed => deployed')
  /\ port' \in {"none", "setup", "gladys"}
  /\ UNCHANGED complete

Complete ==
  /\ ~complete /\ working /\ deployed /\ port # "setup"
  /\ complete' = TRUE
  /\ UNCHANGED <<working, deployed, port>>

(* After: Gladys comes and goes; the installer can only end. *)
Operate ==
  /\ complete
  /\ working' \in {FALSE, working}
  /\ port' \in {"none", "gladys"}
  /\ UNCHANGED <<complete, deployed>>

Next == Provision \/ Complete \/ Operate

Spec == Init /\ [][Next]_vars
=============================================================================
