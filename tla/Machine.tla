------------------------------- MODULE Machine -------------------------------
(***************************************************************************)
(* The part of the appliance that first boot acts on and that moves by     *)
(* itself: the setup page's systemd unit, the Docker daemon with the two   *)
(* containers of compose.yaml, and the package database.  Both the setup   *)
(* page and the Gladys container (host network, SERVER_PORT 80) listen on  *)
(* port 80, so who owns the port is derived from their two states.         *)
(***************************************************************************)

VARIABLES
  web,         \* gladys-setup-web.service; "pending": started, port not bound
  gladys,      \* container "gladys"; "starting": running, port not bound yet
  watchtower,  \* container "watchtower"
  docker,      \* docker.service; "installed": unpacked, not enabled at boot
  dpkg         \* "interrupted": apt refuses until "dpkg --configure -a"

machine == <<web, gladys, watchtower, docker, dpkg>>

WebStates        == {"inactive", "pending", "active"}
GladysStates     == {"absent", "exited", "starting", "listening"}
WatchtowerStates == {"absent", "exited", "running"}
DockerStates     == {"absent", "installed", "stopped", "active"}
DpkgStates       == {"clean", "interrupted"}

MachineTypeOK ==
  /\ web \in WebStates
  /\ gladys \in GladysStates
  /\ watchtower \in WatchtowerStates
  /\ docker \in DockerStates
  /\ dpkg \in DpkgStates

(* The image as the Ubuntu installer leaves it: the units are enabled, no
   Docker, and a package database in order. *)
MachineInit ==
  /\ web = "pending"
  /\ gladys = "absent"
  /\ watchtower = "absent"
  /\ docker = "absent"
  /\ dpkg = "clean"

-----------------------------------------------------------------------------
(* Who answers http://127.0.0.1/ : both servers answer "/" with a status
   below 400, and the readiness check does not look at which one did. *)
Listener == IF web = "active" THEN "setup"
            ELSE IF gladys = "listening" THEN "gladys"
            ELSE "none"

(* "docker compose ps --status running" lists the container. *)
GladysRunning     == docker = "active" /\ gladys \in {"starting", "listening"}
WatchtowerRunning == docker = "active" /\ watchtower = "running"

(* A container that exists stops with the daemon and, having
   "restart: always", starts with it, even after "docker compose stop". *)
Stopped(container)     == IF container = "absent" THEN "absent" ELSE "exited"
Started(container, up) == IF container = "absent" THEN "absent" ELSE up

-----------------------------------------------------------------------------
(* What the two servers and the daemon do by themselves. *)

(* The status server binds port 80; while another listener holds the port its
   bind fails and systemd starts it again 3 s later. *)
WebBinds ==
  /\ web = "pending" /\ Listener = "none"
  /\ web' = "active"
  /\ UNCHANGED <<gladys, watchtower, docker, dpkg>>

(* Gladys binds port 80; while the setup page holds the port, Gladys exits and
   Docker restarts its container. *)
GladysListens ==
  /\ GladysRunning /\ gladys = "starting" /\ web # "active"
  /\ gladys' = "listening"
  /\ UNCHANGED <<web, watchtower, docker, dpkg>>

(* systemd starts an enabled Docker at boot, and again after it died. *)
DockerStarts ==
  /\ docker = "stopped"
  /\ docker' = "active"
  /\ gladys' = Started(gladys, "starting")
  /\ watchtower' = Started(watchtower, "running")
  /\ UNCHANGED <<web, dpkg>>

-----------------------------------------------------------------------------
(* What can go wrong with them. *)

WebCrashes ==
  /\ web = "active"
  /\ web' = "pending"
  /\ UNCHANGED <<gladys, watchtower, docker, dpkg>>

GladysCrashes ==
  /\ gladys = "listening"
  /\ gladys' = "starting"
  /\ UNCHANGED <<web, watchtower, docker, dpkg>>

DockerDies ==
  /\ docker = "active"
  /\ docker' = "stopped"
  /\ gladys' = Stopped(gladys)
  /\ watchtower' = Stopped(watchtower)
  /\ UNCHANGED <<web, dpkg>>
=============================================================================
