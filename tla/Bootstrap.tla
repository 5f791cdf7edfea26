------------------------------ MODULE Bootstrap ------------------------------
(***************************************************************************)
(* bootstrap.py under gladys-firstboot.service: one run of the installer,  *)
(* as the operations it performs in order, each retried until it succeeds, *)
(* with what a failed attempt may leave behind.  The value of pc names the *)
(* operation whose attempt comes next.  An attempt that fails and leaves   *)
(* nothing behind changes no variable: it and the backoff that follows it  *)
(* are stuttering.  Test mode (CI only) is not modelled.                   *)
(***************************************************************************)
EXTENDS Machine, Integers

CONSTANT
  Flaws  \* what may be wrong with the installed image, see InstalledFlaw

(* "payload": a file preflight requires is missing; "compose": compose.yaml is
   invalid; "archive": the Ubuntu archive lacks one of PACKAGES. *)
InstalledFlaw == {"none", "payload", "compose", "archive"}

ASSUME FlawsAssumption == Flaws \subseteq InstalledFlaw

VARIABLES
  unit,        \* gladys-firstboot.service
  pc,          \* the operation under way in the bootstrap process
  shown,       \* the phase in state.json
  completed,   \* the completion marker exists
  inspection,  \* loop counter of install_packages
  failures,    \* the checks failed so far in the current verify_final pass
  flaw         \* what is wrong with the image this machine was installed from

control == <<unit, shown, completed, flaw>>
vars == <<machine, unit, pc, shown, completed, inspection, failures, flaw>>

UnitStates == {"waiting", "running", "done", "failed"}

(* The operations of a run under the phase that is published before them. *)
PhaseOps ==
  [PREFLIGHT             |-> {"preflight"},
   WAIT_NETWORK          |-> {"wait_for_internet"},
   APT_UPDATE            |-> {"configure_timezone", "apt_update"},
   INSTALL_PACKAGES      |-> {"dpkg_configure", "fix_install", "dpkg_reconfigure",
                              "inspect", "refresh", "install"},
   START_SYSTEM_SERVICES |-> {"start_system_services"},
   DOCKER_PREFLIGHT      |-> {"docker_version", "compose_config"},
   PULL_GLADYS           |-> {"pull_application"},
   START_GLADYS          |-> {"stop_web", "probe_port", "up", "wait_running", "wait_http",
                              "restore_stop", "restore_start"},
   VERIFY_GLADYS         |-> {"verify_running", "verify_http"},
   START_WATCHTOWER      |-> {"pull_watchtower", "up_watchtower", "require_watchtower"},
   FINALIZE              |-> {"grant_docker_access", "quiet_login", "final_docker",
                              "final_running", "final_http", "final_watchtower",
                              "image_metadata"},
   READY                 |-> {"mark", "exit"},
   FATAL                 |-> {"fatal"}]

Phases == DOMAIN PhaseOps
Ops == UNION {PhaseOps[p] : p \in Phases}
PhaseOf == [op \in Ops |-> CHOOSE p \in Phases : op \in PhaseOps[p]]

BootstrapTypeOK ==
  /\ MachineTypeOK
  /\ unit \in UnitStates
  /\ pc \in Ops \cup {"idle"}
  /\ unit = "running" <=> pc # "idle"
  /\ shown \in Phases
  /\ completed \in BOOLEAN
  /\ inspection \in 0..2
  /\ failures \subseteq PhaseOps.FINALIZE
  /\ flaw \in InstalledFlaw

(* The first boot of a freshly installed machine; without a state.json the
   pages show PREFLIGHT. *)
BootstrapInit ==
  /\ MachineInit
  /\ unit = "waiting"
  /\ pc = "idle"
  /\ shown = "PREFLIGHT"
  /\ completed = FALSE
  /\ inspection = 0
  /\ failures = {}
  /\ flaw \in Flaws

-----------------------------------------------------------------------------
(* The process moves from one operation to another; the phase it is in has
   been published. *)
Step(from, to) ==
  /\ unit = "running" /\ pc = from /\ shown = PhaseOf[from]
  /\ pc' = to
  /\ UNCHANGED control

(* ... with no effect but that. *)
Move(from, to) == Step(from, to) /\ UNCHANGED <<inspection, failures, machine>>

(* Bootstrap.state: state.json is replaced before the phase's operations. *)
Publish ==
  /\ unit = "running"
  /\ shown # PhaseOf[pc]
  /\ shown' = PhaseOf[pc]
  /\ UNCHANGED <<machine, unit, pc, completed, inspection, failures, flaw>>

-----------------------------------------------------------------------------
(* The unit. *)

(* Mutant: the unit lacks Wants=gladys-setup-web.service. *)
BeginWithoutWants ==
  /\ unit = "waiting"
  /\ IF completed
       THEN unit' = "done" /\ UNCHANGED pc
       ELSE unit' = "running" /\ pc' = "preflight"
  /\ UNCHANGED <<machine, shown, completed, inspection, failures, flaw>>

(* systemd starts the unit at boot and 10 s after a failure.  The condition on
   the marker skips it for good; otherwise Wants= also starts the setup page. *)
Begin ==
  /\ unit = "waiting"
  /\ IF completed
       THEN unit' = "done" /\ UNCHANGED <<pc, web>>
       ELSE /\ unit' = "running" /\ pc' = "preflight"
            /\ web' = IF web = "inactive" THEN "pending" ELSE web
  /\ UNCHANGED <<gladys, watchtower, docker, dpkg, shown, completed,
                 inspection, failures, flaw>>

(* The process is gone: its local state with it, and what dpkg was doing. *)
Gone(state) ==
  /\ unit' = state /\ pc' = "idle"
  /\ inspection' = 0 /\ failures' = {}
  /\ dpkg' \in {dpkg} \cup (IF pc \in {"fix_install", "install"} THEN {"interrupted"} ELSE {})
  /\ UNCHANGED <<shown, completed, flaw>>

(* An exception other than the two the bootstrap handles, or a kill: exit
   status 1, Restart=on-failure. *)
ProcessCrashes ==
  /\ unit = "running"
  /\ Gone("waiting")
  /\ UNCHANGED <<web, gladys, watchtower, docker>>

(* Mutant: the setup page's unit lacks ConditionPathExists=. *)
RebootUnconditionally ==
  /\ Gone("waiting")
  /\ web' = "pending"
  /\ docker' = IF docker = "active" THEN "stopped" ELSE docker
  /\ gladys' = Stopped(gladys)
  /\ watchtower' = Stopped(watchtower)

(* Power loss or reset, and boot: the setup page starts unless the marker
   exists, an enabled Docker is started later. *)
Reboot ==
  /\ Gone("waiting")
  /\ web' = IF completed THEN "inactive" ELSE "pending"
  /\ docker' = IF docker = "active" THEN "stopped" ELSE docker
  /\ gladys' = Stopped(gladys)
  /\ watchtower' = Stopped(watchtower)

(* execute, main: the exit status decides what systemd does next. *)
Exit(op, state) ==
  /\ unit = "running" /\ pc = op /\ shown = PhaseOf[op]
  /\ Gone(state)
  /\ UNCHANGED <<web, gladys, watchtower, docker>>

ExitFatal == Exit("fatal", "failed")   \* 78, RestartPreventExitStatus
ExitDone  == Exit("exit", "done")      \* 0

-----------------------------------------------------------------------------
(* Before Docker. *)

Preflight == Move("preflight", IF flaw = "payload" THEN "fatal" ELSE "wait_for_internet")

WaitForInternet == Move("wait_for_internet", "configure_timezone")

(* Any failure of the lookup or of timedatectl keeps UTC and goes on. *)
ConfigureTimezone == Move("configure_timezone", "apt_update")

AptUpdate == Move("apt_update", "dpkg_configure")

(* repair_package_manager: an interrupted installation is completed here. *)
DpkgConfigure ==
  /\ Step("dpkg_configure", "fix_install")
  /\ dpkg' = "clean"
  /\ docker' \in {docker} \cup
       (IF dpkg = "interrupted" /\ docker = "absent" THEN {"installed"} ELSE {})
  /\ UNCHANGED <<web, gladys, watchtower, inspection, failures>>

(* Its failure is logged and swallowed; apt then refuses if it was needed. *)
DpkgConfigureFails == Move("dpkg_configure", "fix_install")

FixInstall == Move("fix_install", IF dpkg = "clean" THEN "dpkg_reconfigure" ELSE "dpkg_configure")

(* A failure or a timeout that kills apt and dpkg; the whole cycle again. *)
FixInstallFails ==
  /\ Step("fix_install", "dpkg_configure")
  /\ dpkg' \in DpkgStates
  /\ UNCHANGED <<web, gladys, watchtower, docker, inspection, failures>>

DpkgReconfigure == Move("dpkg_reconfigure", "inspect")

DpkgReconfigureFails == Move("dpkg_reconfigure", "dpkg_configure")

(* Mutant: one refresh too many. *)
InspectOnceMore ==
  /\ Step("inspect", IF flaw # "archive" THEN "install"
                     ELSE IF inspection <= 2 THEN "refresh" ELSE "fatal")
  /\ UNCHANGED <<inspection, failures, machine>>

(* The inspections of install_packages: at most three, with a metadata refresh
   after the first two. *)
Inspect ==
  /\ Step("inspect", IF flaw # "archive" THEN "install"
                     ELSE IF inspection < 2 THEN "refresh" ELSE "fatal")
  /\ UNCHANGED <<inspection, failures, machine>>

Refresh ==
  /\ Step("refresh", "inspect")
  /\ inspection' = inspection + 1
  /\ UNCHANGED <<failures, machine>>

(* The archive gets the missing package. *)
ArchiveHeals ==
  /\ flaw = "archive"
  /\ flaw' = "none"
  /\ UNCHANGED <<machine, unit, pc, shown, completed, inspection, failures>>

(* apt-get install, which refuses an interrupted database. *)
Install ==
  /\ dpkg = "clean"
  /\ Step("install", "start_system_services")
  /\ docker' = IF docker = "absent" THEN "installed" ELSE docker
  /\ inspection' = 0
  /\ UNCHANGED <<web, gladys, watchtower, dpkg, failures>>

(* PACKAGE_OPERATION_TIMEOUT kills apt and dpkg; apt-get install alone, not the
   repair before it, is tried again. *)
InstallKilled ==
  /\ Step("install", "install")
  /\ dpkg' \in DpkgStates
  /\ UNCHANGED <<web, gladys, watchtower, docker, inspection, failures>>

-----------------------------------------------------------------------------
(* Docker and the image. *)

StartSystemServices ==
  /\ Step("start_system_services", "docker_version")
  /\ docker' = "active"
  /\ IF docker = "active" THEN UNCHANGED <<gladys, watchtower>>
     ELSE /\ gladys' = Started(gladys, "starting")
          /\ watchtower' = Started(watchtower, "running")
  /\ UNCHANGED <<web, dpkg, inspection, failures>>

DockerVersion == docker = "active" /\ Move("docker_version", "compose_config")

ComposeConfig == Move("compose_config", IF flaw = "compose" THEN "fatal" ELSE "pull_application")

(* A timeout or an OSError of "docker compose config" is fatal too. *)
ComposeConfigFails == Move("compose_config", "fatal")

PullApplication == docker = "active" /\ Move("pull_application", "stop_web")

-----------------------------------------------------------------------------
(* start_application: one attempt hands port 80 over; a failed one restores
   the setup page and the next begins. *)

(* Mutant: the exit status of "systemctl stop" is ignored. *)
StopWebUnchecked ==
  /\ Step("stop_web", "probe_port")
  /\ web' \in {web, "inactive"}
  /\ UNCHANGED <<gladys, watchtower, docker, dpkg, inspection, failures>>

StopWeb ==
  /\ Step("stop_web", "probe_port")
  /\ web' = "inactive"
  /\ UNCHANGED <<gladys, watchtower, docker, dpkg, inspection, failures>>

StopWebFails ==
  /\ Step("stop_web", "restore_stop")
  /\ web' \in {web, "inactive"}
  /\ UNCHANGED <<gladys, watchtower, docker, dpkg, inspection, failures>>

(* Mutant: an occupied port is taken for a configuration error. *)
ProbePortFatal == Move("probe_port", IF Listener = "none" THEN "up" ELSE "fatal")

ProbePort == Move("probe_port", IF Listener = "none" THEN "up" ELSE "restore_stop")

ComposeUp ==
  /\ docker = "active"
  /\ Step("up", "wait_running")
  /\ gladys' \in {"starting"} \cup (IF gladys = "listening" THEN {"listening"} ELSE {})
  /\ UNCHANGED <<web, watchtower, docker, dpkg, inspection, failures>>

(* A failed or timed out "up" may have created or started the container. *)
ComposeUpFails ==
  /\ Step("up", "restore_stop")
  /\ gladys' \in {gladys} \cup (IF docker = "active" THEN {"exited", "starting"} ELSE {})
  /\ UNCHANGED <<web, watchtower, docker, dpkg, inspection, failures>>

(* _wait_application_ready asks Compose, then HTTP, until both agree. *)
WaitRunning == GladysRunning /\ Move("wait_running", "wait_http")

WaitHttp == Move("wait_http", IF Listener # "none" THEN "verify_running" ELSE "wait_running")

WaitHttpFails == Move("wait_http", "wait_running")

WaitTimesOut == Move("wait_running", "restore_stop")

(* Mutant: only the setup page is started again. *)
RestoreStopNothing == Step("restore_stop", "restore_start") /\ UNCHANGED <<inspection, failures, machine>>

(* _restore_status_page: the exit status of its two commands is ignored, but a
   timeout of the first one skips the second. *)
RestoreStop ==
  /\ Step("restore_stop", "restore_start")
  /\ gladys' = IF docker = "active" THEN Stopped(gladys) ELSE gladys
  /\ UNCHANGED <<web, watchtower, docker, dpkg, inspection, failures>>

RestoreStopFails ==
  /\ Step("restore_stop", "restore_start")
  /\ UNCHANGED <<inspection, failures, machine>>

RestoreStopTimesOut ==
  /\ Step("restore_stop", "stop_web")
  /\ gladys' \in {gladys} \cup (IF docker = "active" THEN {Stopped(gladys)} ELSE {})
  /\ UNCHANGED <<web, watchtower, docker, dpkg, inspection, failures>>

(* Mutant: the next attempt resumes after the stop of the setup page. *)
RestoreStartResumes ==
  /\ Step("restore_start", "probe_port")
  /\ web' = IF web = "inactive" THEN "pending" ELSE web
  /\ UNCHANGED <<gladys, watchtower, docker, dpkg, inspection, failures>>

RestoreStart ==
  /\ Step("restore_start", "stop_web")
  /\ web' = IF web = "inactive" THEN "pending" ELSE web
  /\ UNCHANGED <<gladys, watchtower, docker, dpkg, inspection, failures>>

RestoreStartFails == Move("restore_start", "stop_web")

-----------------------------------------------------------------------------
(* verify_final_without_watchtower and Watchtower. *)

VerifyRunning == GladysRunning /\ Move("verify_running", "verify_http")

(* Mutant: Watchtower is left for after the completion. *)
VerifyHttpThenFinish ==
  Move("verify_http", IF Listener # "none" THEN "image_metadata" ELSE "verify_running")

VerifyHttp == Move("verify_http", IF Listener # "none" THEN "pull_watchtower" ELSE "verify_running")

VerifyHttpFails == Move("verify_http", "verify_running")

PullWatchtower == docker = "active" /\ Move("pull_watchtower", "up_watchtower")

UpWatchtower ==
  /\ docker = "active"
  /\ Step("up_watchtower", "require_watchtower")
  /\ watchtower' = "running"
  /\ UNCHANGED <<web, gladys, docker, dpkg, inspection, failures>>

UpWatchtowerFails ==
  /\ docker = "active"
  /\ Step("up_watchtower", "up_watchtower")
  /\ watchtower' \in {"exited", "running"}
  /\ UNCHANGED <<web, gladys, docker, dpkg, inspection, failures>>

RequireWatchtower == WatchtowerRunning /\ Move("require_watchtower", "grant_docker_access")

-----------------------------------------------------------------------------
(* FINALIZE, READY and the marker. *)

(* Five attempts per account, then the account goes without. *)
GrantDockerAccess == Move("grant_docker_access", "quiet_login")

QuietLogin == Move("quiet_login", "final_docker")

(* verify_final takes its four readings one after the other and judges them
   together: all four at different moments. *)
FinalCheck(op, next, passed) ==
  /\ Step(op, next)
  /\ failures' = failures \cup (IF passed THEN {} ELSE {op})
  /\ UNCHANGED <<inspection, machine>>

FinalVerdict(passed) ==
  /\ Step("final_watchtower", IF passed THEN "image_metadata" ELSE "final_docker")
  /\ failures' = {}
  /\ UNCHANGED <<inspection, machine>>

FinalDocker     == FinalCheck("final_docker", "final_running", docker = "active")
FinalRunning    == FinalCheck("final_running", "final_http", GladysRunning)
FinalHttp       == FinalCheck("final_http", "final_watchtower", Listener # "none")
FinalWatchtower == FinalVerdict(failures = {} /\ WatchtowerRunning)

(* The command of a check fails or times out: the check has failed. *)
FinalCheckFails ==
  \/ FinalCheck("final_docker", "final_running", FALSE)
  \/ FinalCheck("final_running", "final_http", FALSE)
  \/ FinalCheck("final_http", "final_watchtower", FALSE)
  \/ FinalVerdict(FALSE)

ImageMetadata == docker = "active" /\ Move("image_metadata", "mark")

(* write_completed_marker, after READY has been published. *)
Mark ==
  /\ unit = "running" /\ pc = "mark" /\ shown = PhaseOf["mark"]
  /\ completed' = TRUE
  /\ pc' = "exit"
  /\ UNCHANGED <<machine, unit, shown, inspection, failures, flaw>>
=============================================================================
