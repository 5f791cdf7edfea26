------------------------------ MODULE Firstboot ------------------------------
(***************************************************************************)
(* First boot as a whole: the installer, the setup page, Docker with its   *)
(* containers and systemd, interleaved, under command failures, crashes of *)
(* each process and power loss at any moment.                              *)
(***************************************************************************)
EXTENDS Bootstrap

TypeOK == BootstrapTypeOK

(* What the installer process does when no command fails. *)
Installer ==
  \/ Publish \/ ExitFatal \/ ExitDone
  \/ Preflight \/ WaitForInternet \/ ConfigureTimezone \/ AptUpdate
  \/ DpkgConfigure \/ FixInstall \/ DpkgReconfigure \/ Inspect \/ Refresh \/ Install
  \/ StartSystemServices \/ DockerVersion \/ ComposeConfig \/ PullApplication
  \/ StopWeb \/ ProbePort \/ ComposeUp \/ WaitRunning \/ WaitHttp
  \/ RestoreStop \/ RestoreStart
  \/ VerifyRunning \/ VerifyHttp \/ PullWatchtower \/ UpWatchtower \/ RequireWatchtower
  \/ GrantDockerAccess \/ QuietLogin
  \/ FinalDocker \/ FinalRunning \/ FinalHttp \/ FinalWatchtower
  \/ ImageMetadata \/ Mark

(* A command of the installer fails or times out. *)
CommandFails ==
  \/ DpkgConfigureFails \/ FixInstallFails \/ DpkgReconfigureFails \/ InstallKilled
  \/ ComposeConfigFails
  \/ StopWebFails \/ ComposeUpFails \/ WaitHttpFails \/ WaitTimesOut
  \/ RestoreStopFails \/ RestoreStopTimesOut \/ RestoreStartFails
  \/ VerifyHttpFails \/ UpWatchtowerFails \/ FinalCheckFails

Servers == WebBinds \/ GladysListens \/ DockerStarts

ServersFail == WebCrashes \/ GladysCrashes \/ DockerDies

(* A step of the machine, not of the installer. *)
Outside(A) == A /\ UNCHANGED <<unit, pc, shown, completed, inspection, failures, flaw>>

SystemStep == Installer \/ Begin \/ ArchiveHeals \/ Outside(Servers)
Fault      == CommandFails \/ Outside(ServersFail) \/ ProcessCrashes \/ Reboot

Init == BootstrapInit
Next == SystemStep \/ Fault
Spec == Init /\ [][Next]_vars

(* systemd starts a unit it has queued and an enabled Docker, both servers keep
   trying to bind, and the installer retries every command without end. *)
Fairness ==
  /\ WF_vars(Installer)
  /\ WF_vars(Begin)
  /\ WF_vars(Outside(WebBinds))
  /\ WF_vars(Outside(GladysListens))
  /\ WF_vars(Outside(DockerStarts))

LiveSpec == Spec /\ Fairness

-----------------------------------------------------------------------------
(* Safety. *)

(* Docker is enabled at boot and both containers exist. *)
Deployed ==
  /\ docker \in {"stopped", "active"}
  /\ gladys # "absent" /\ watchtower # "absent"

(* The operations from the proof that port 80 is free to the end of the run. *)
Handed ==
  {"probe_port", "up", "wait_running", "wait_http"}
    \cup PhaseOps.VERIFY_GLADYS \cup PhaseOps.START_WATCHTOWER
    \cup PhaseOps.FINALIZE \cup PhaseOps.READY

(* Once an attempt of start_application has stopped the setup page, nothing
   (systemd's restarts, the unit's Wants=, a crash in between) brings it back
   until that attempt fails or the process is gone; once the marker exists,
   never, whatever reboots follow. *)
SetupPageYields == (pc \in Handed \/ completed) => web = "inactive"

(* http_ready accepts any server that answers "/", the setup page included:
   whenever one of the three HTTP checks is passed, it was Gladys. *)
ReadinessIsGladys ==
  [][ \/ pc = "wait_http" /\ pc' = "verify_running"
      \/ pc = "verify_http" /\ pc' = "pull_watchtower"
      \/ pc = "final_http" /\ pc' = "final_watchtower" /\ "final_http" \notin failures'
      => Listener = "gladys" ]_vars

(* READY on the console and the completion marker are both claims about the
   deployment, and hold after any crash that follows them. *)
ReadyMeansDeployed == (completed \/ shown = "READY") => Deployed

(* A run that ends in FATAL leaves the setup page, which tells the user so, its
   unit started; and when the image is to blame, which is what FATAL is meant
   for, nothing else was ever made to listen on port 80: the page has the port
   or may bind it at once.  Only a sound image on which compose config has
   failed once, after a run before had handed the port over, may have Gladys
   on it, and the page waiting for it. *)
FatalKeepsSetupPage ==
  unit = "failed" => web # "inactive" /\ (flaw # "none" => gladys = "absent")

(* The appliance as ApplianceContract sees it. *)
Contract == INSTANCE ApplianceContract WITH
  working  <- unit = "running",
  complete <- completed,
  deployed <- Deployed,
  port     <- Listener

KeepsContract == Contract!Spec

-----------------------------------------------------------------------------
(* The inductive invariant behind the safety properties: what each stretch of
   a run can rely on, whatever happened in the runs before it. *)

BeforeHandoff ==
  PhaseOps.PREFLIGHT \cup PhaseOps.WAIT_NETWORK \cup PhaseOps.APT_UPDATE
    \cup PhaseOps.INSTALL_PACKAGES \cup PhaseOps.START_SYSTEM_SERVICES
    \cup PhaseOps.DOCKER_PREFLIGHT \cup PhaseOps.PULL_GLADYS \cup PhaseOps.FATAL

WithWatchtower == {"require_watchtower"} \cup PhaseOps.FINALIZE \cup PhaseOps.READY

WithGladys ==
  {"wait_running", "wait_http", "pull_watchtower", "up_watchtower"}
    \cup PhaseOps.VERIFY_GLADYS \cup WithWatchtower

WithDocker ==
  PhaseOps.DOCKER_PREFLIGHT \cup PhaseOps.PULL_GLADYS \cup PhaseOps.START_GLADYS \cup WithGladys

StageInv ==
  /\ pc \in BeforeHandoff => web # "inactive"
  /\ pc \in WithDocker => docker \in {"stopped", "active"}
  /\ pc \in WithGladys => gladys # "absent"
  /\ pc \in WithWatchtower => watchtower # "absent"
  /\ completed => pc \in {"exit", "idle"}
  /\ pc = "refresh" => inspection < 2
  /\ unit = "failed" => web # "inactive"

(* What a run has found out about the image by the time it does pc; before the
   last of it nothing asks for Gladys. *)
Checked ==
  [payload |-> Ops \ {"preflight", "fatal"},
   archive |-> {"install"} \cup PhaseOps.START_SYSTEM_SERVICES \cup WithDocker,
   compose |-> WithDocker \ PhaseOps.DOCKER_PREFLIGHT]

FlawInv ==
  /\ pc \in Checked.payload => flaw # "payload"
  /\ pc \in Checked.archive => flaw # "archive"
  /\ pc \in Checked.compose => flaw # "compose"
  /\ flaw # "none" => gladys = "absent"

IInv == TypeOK /\ StageInv /\ FlawInv /\ SetupPageYields /\ ReadyMeansDeployed

-----------------------------------------------------------------------------
(* Liveness. *)

(* From some moment on, no command fails, nothing crashes, the power stays. *)
FaultsCease == <>[][SystemStep]_vars

(* A timeout has left the package database interrupted under apt-get install,
   which is retried without the repair. *)
AptStuck == pc = "install" /\ dpkg = "interrupted"

(* Whatever happened before, provisioning then comes to its end, unless apt is
   stuck. *)
Settles == FaultsCease /\ <>[](~AptStuck) => <>(completed \/ unit = "failed")

(* ... and, apt stuck or not, port 80 is then answered for good, by Gladys or
   the setup page. *)
PortServed == FaultsCease => <>[](Listener # "none")

-----------------------------------------------------------------------------
(* What the documentation says and the code does not do. *)

(* OPERATIONS.md: only deterministic configuration failures enter FATAL. *)
FatalOnlyIfFlawed == [][ pc # "fatal" /\ pc' = "fatal" => flaw # "none" ]_vars

(* OPERATIONS.md: transient problems are retried, package state is repaired
   automatically; apt-get install killed by its timeout needs a reboot. *)
AlwaysSettles == FaultsCease => <>(completed \/ unit = "failed")
=============================================================================
