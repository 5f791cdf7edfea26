-------------------------- MODULE Firstboot_proofs --------------------------
(***************************************************************************)
(* Type correctness and the safety properties of Firstboot, for every set  *)
(* of flaws and with or without slow package installations, by the         *)
(* inductive invariant IInv; and that Firstboot implements                 *)
(* ApplianceContract.                                                      *)
(***************************************************************************)
EXTENDS Firstboot, TLAPS

(* The operations, spelled out for the provers. *)
LEMMA OpsEnumerated ==
  Ops = {"preflight", "wait_for_internet", "configure_timezone", "apt_update",
         "dpkg_configure", "fix_install", "dpkg_reconfigure", "inspect", "refresh", "install",
         "start_system_services", "docker_version", "compose_config", "pull_application",
         "stop_web", "probe_port", "up", "wait_running", "wait_http", "restore_stop",
         "restore_start", "verify_running", "verify_http", "pull_watchtower",
         "up_watchtower", "require_watchtower", "grant_docker_access", "quiet_login",
         "final_docker", "final_running", "final_http", "final_watchtower",
         "image_metadata", "mark", "exit", "fatal"}
<1>1. Phases = {"PREFLIGHT", "WAIT_NETWORK", "APT_UPDATE", "INSTALL_PACKAGES",
                "START_SYSTEM_SERVICES", "DOCKER_PREFLIGHT", "PULL_GLADYS", "START_GLADYS",
                "VERIFY_GLADYS", "START_WATCHTOWER", "FINALIZE", "READY", "FATAL"}
  BY DEF Phases, PhaseOps
<1>2. Ops = PhaseOps["PREFLIGHT"] \cup PhaseOps["WAIT_NETWORK"] \cup PhaseOps["APT_UPDATE"]
            \cup PhaseOps["INSTALL_PACKAGES"] \cup PhaseOps["START_SYSTEM_SERVICES"]
            \cup PhaseOps["DOCKER_PREFLIGHT"] \cup PhaseOps["PULL_GLADYS"]
            \cup PhaseOps["START_GLADYS"] \cup PhaseOps["VERIFY_GLADYS"]
            \cup PhaseOps["START_WATCHTOWER"] \cup PhaseOps["FINALIZE"]
            \cup PhaseOps["READY"] \cup PhaseOps["FATAL"]
  BY <1>1 DEF Ops
<1>3. QED  BY <1>2 DEF PhaseOps

(* Every operation belongs to the phase published before it. *)
LEMMA PhaseOfOp ==
  \A op \in Ops : PhaseOf[op] \in Phases /\ op \in PhaseOps[PhaseOf[op]]
  BY DEF Ops, PhaseOf

(* The installer's own steps. *)
LEMMA InstallerStep ==
  ASSUME IInv, Installer
  PROVE  TypeOK' /\ StageInv' /\ SetupPageYields' /\ ReadyMeansDeployed'
<1> USE OpsEnumerated
        DEF IInv, StageInv, SetupPageYields, ReadyMeansDeployed, Deployed,
            Handed, BeforeHandoff, WithDocker, WithGladys, WithWatchtower, PhaseOps,
            TypeOK, BootstrapTypeOK, MachineTypeOK, UnitStates, WebStates, GladysStates,
            WatchtowerStates, DockerStates, DpkgStates, InstalledFlaw, machine, control
<1> USE DEF Step, Move
<1>1. CASE Preflight
  BY <1>1 DEF Preflight
<1>2. CASE WaitForInternet
  BY <1>2 DEF WaitForInternet
<1>3. CASE ConfigureTimezone
  BY <1>3 DEF ConfigureTimezone
<1>4. CASE AptUpdate
  BY <1>4 DEF AptUpdate
<1>5. CASE DpkgConfigure
  BY <1>5 DEF DpkgConfigure
<1>6. CASE FixInstall
  BY <1>6 DEF FixInstall
<1>7. CASE DpkgReconfigure
  BY <1>7 DEF DpkgReconfigure
<1>8. CASE Inspect
  BY <1>8 DEF Inspect
<1>9. CASE Refresh
  BY <1>9 DEF Refresh
<1>10. CASE Install
  BY <1>10 DEF Install
<1>11. CASE StartSystemServices
  BY <1>11 DEF StartSystemServices, Started
<1>12. CASE DockerVersion
  BY <1>12 DEF DockerVersion
<1>13. CASE ComposeConfig
  BY <1>13 DEF ComposeConfig
<1>14. CASE PullApplication
  BY <1>14 DEF PullApplication
<1>15. CASE StopWeb
  BY <1>15 DEF StopWeb
<1>16. CASE ProbePort
  BY <1>16 DEF ProbePort, Listener
<1>17. CASE ComposeUp
  BY <1>17 DEF ComposeUp
<1>18. CASE WaitRunning
  BY <1>18 DEF WaitRunning
<1>19. CASE WaitHttp
  BY <1>19 DEF WaitHttp, Listener
<1>20. CASE RestoreStop
  BY <1>20 DEF RestoreStop, Stopped
<1>21. CASE RestoreStart
  BY <1>21 DEF RestoreStart
<1>22. CASE VerifyRunning
  BY <1>22 DEF VerifyRunning
<1>23. CASE VerifyHttp
  BY <1>23 DEF VerifyHttp, Listener
<1>24. CASE PullWatchtower
  BY <1>24 DEF PullWatchtower
<1>25. CASE UpWatchtower
  BY <1>25 DEF UpWatchtower
<1>26. CASE RequireWatchtower
  BY <1>26 DEF RequireWatchtower
<1>27. CASE GrantDockerAccess
  BY <1>27 DEF GrantDockerAccess
<1>28. CASE QuietLogin
  BY <1>28 DEF QuietLogin
<1>29. CASE FinalDocker
  BY <1>29 DEF FinalDocker, FinalCheck
<1>30. CASE FinalRunning
  BY <1>30 DEF FinalRunning, FinalCheck
<1>31. CASE FinalHttp
  BY <1>31 DEF FinalHttp, FinalCheck
<1>32. CASE FinalWatchtower
  BY <1>32 DEF FinalWatchtower, FinalVerdict
<1>33. CASE ImageMetadata
  BY <1>33 DEF ImageMetadata
<1>34. CASE Mark
  BY <1>34 DEF Mark
<1>35. CASE Publish
  BY <1>35, PhaseOfOp DEF Publish, Phases
<1>36. CASE ExitFatal
  BY <1>36 DEF ExitFatal, Exit, Gone
<1>37. CASE ExitDone
  BY <1>37 DEF ExitDone, Exit, Gone
<1>38. QED  BY <1>1, <1>2, <1>3, <1>4, <1>5, <1>6, <1>7, <1>8, <1>9, <1>10, <1>11,
             <1>12, <1>13, <1>14, <1>15, <1>16, <1>17, <1>18, <1>19, <1>20, <1>21,
             <1>22, <1>23, <1>24, <1>25, <1>26, <1>27, <1>28, <1>29, <1>30, <1>31,
             <1>32, <1>33, <1>34, <1>35, <1>36, <1>37 DEF Installer

(* A command that fails or times out, with what it leaves behind. *)
LEMMA CommandFailureStep ==
  ASSUME IInv, CommandFails
  PROVE  TypeOK' /\ StageInv' /\ SetupPageYields' /\ ReadyMeansDeployed'
<1> USE OpsEnumerated
        DEF IInv, StageInv, SetupPageYields, ReadyMeansDeployed, Deployed,
            Handed, BeforeHandoff, WithDocker, WithGladys, WithWatchtower, PhaseOps,
            TypeOK, BootstrapTypeOK, MachineTypeOK, UnitStates, WebStates, GladysStates,
            WatchtowerStates, DockerStates, DpkgStates, InstalledFlaw, machine, control
<1> USE DEF Step, Move
<1>1. CASE DpkgConfigureFails
  BY <1>1 DEF DpkgConfigureFails
<1>2. CASE FixInstallFails
  BY <1>2 DEF FixInstallFails
<1>3. CASE DpkgReconfigureFails
  BY <1>3 DEF DpkgReconfigureFails
<1>4. CASE InstallKilled
  BY <1>4 DEF InstallKilled
<1>5. CASE ComposeConfigFails
  BY <1>5 DEF ComposeConfigFails
<1>6. CASE StopWebFails
  BY <1>6 DEF StopWebFails
<1>7. CASE ComposeUpFails
  BY <1>7 DEF ComposeUpFails
<1>8. CASE WaitHttpFails
  BY <1>8 DEF WaitHttpFails
<1>9. CASE WaitTimesOut
  BY <1>9 DEF WaitTimesOut
<1>10. CASE RestoreStopFails
  BY <1>10 DEF RestoreStopFails
<1>11. CASE RestoreStopTimesOut
  BY <1>11 DEF RestoreStopTimesOut, Stopped
<1>12. CASE RestoreStartFails
  BY <1>12 DEF RestoreStartFails
<1>13. CASE VerifyHttpFails
  BY <1>13 DEF VerifyHttpFails
<1>14. CASE UpWatchtowerFails
  BY <1>14 DEF UpWatchtowerFails
<1>15. CASE FinalCheckFails
  <2>1. CASE FinalCheck("final_docker", "final_running", FALSE)
    BY <2>1 DEF FinalCheck
  <2>2. CASE FinalCheck("final_running", "final_http", FALSE)
    BY <2>2 DEF FinalCheck
  <2>3. CASE FinalCheck("final_http", "final_watchtower", FALSE)
    BY <2>3 DEF FinalCheck
  <2>4. CASE FinalVerdict(FALSE)
    BY <2>4 DEF FinalVerdict
  <2>5. QED  BY <1>15, <2>1, <2>2, <2>3, <2>4 DEF FinalCheckFails
<1>16. QED  BY <1>1, <1>2, <1>3, <1>4, <1>5, <1>6, <1>7, <1>8, <1>9, <1>10, <1>11,
             <1>12, <1>13, <1>14, <1>15 DEF CommandFails

(* systemd, the servers, crashes and power loss. *)
LEMMA EnvironmentStep ==
  ASSUME IInv, \/ Begin \/ ArchiveHeals \/ ProcessCrashes \/ Reboot
               \/ Outside(Servers) \/ Outside(ServersFail)
  PROVE  TypeOK' /\ StageInv' /\ SetupPageYields' /\ ReadyMeansDeployed'
<1> USE OpsEnumerated
        DEF IInv, StageInv, SetupPageYields, ReadyMeansDeployed, Deployed,
            Handed, BeforeHandoff, WithDocker, WithGladys, WithWatchtower, PhaseOps,
            TypeOK, BootstrapTypeOK, MachineTypeOK, UnitStates, WebStates, GladysStates,
            WatchtowerStates, DockerStates, DpkgStates, InstalledFlaw, machine, control
<1> USE DEF Step, Move
<1>1. CASE Begin
  BY <1>1 DEF Begin
<1>2. CASE ArchiveHeals
  BY <1>2 DEF ArchiveHeals
<1>3. CASE ProcessCrashes
  BY <1>3 DEF ProcessCrashes, Gone
<1>4. CASE Reboot
  BY <1>4 DEF Reboot, Stopped, Gone
<1>5. CASE Outside(WebBinds)
  BY <1>5 DEF WebBinds, Outside
<1>6. CASE Outside(GladysListens)
  BY <1>6 DEF GladysListens, Outside
<1>7. CASE Outside(DockerStarts)
  BY <1>7 DEF DockerStarts, Started, Outside
<1>8. CASE Outside(WebCrashes)
  BY <1>8 DEF WebCrashes, Outside
<1>9. CASE Outside(GladysCrashes)
  BY <1>9 DEF GladysCrashes, Outside
<1>10. CASE Outside(DockerDies)
  BY <1>10 DEF DockerDies, Stopped, Outside
<1>11. QED  BY <1>1, <1>2, <1>3, <1>4, <1>5, <1>6, <1>7, <1>8, <1>9, <1>10
       DEF Servers, ServersFail, Outside

(* A run gets past the checks of a flaw on an image that has not got it, and
   Gladys is only asked for behind all of them. *)
LEMMA FlawInvStep ==
  ASSUME IInv, [Next]_vars
  PROVE  FlawInv'
<1> USE OpsEnumerated
        DEF FlawInv, Checked, WithDocker, WithGladys, WithWatchtower, PhaseOps, Step, Move,
            machine, control, IInv, TypeOK, BootstrapTypeOK, MachineTypeOK, InstalledFlaw,
            Stopped, Started
<1>1. CASE Installer
  BY <1>1 DEF Installer, Publish, ExitFatal, ExitDone, Exit, Gone, Preflight, WaitForInternet,
              ConfigureTimezone, AptUpdate, DpkgConfigure, FixInstall, DpkgReconfigure,
              Inspect, Refresh, Install, StartSystemServices, DockerVersion, ComposeConfig,
              PullApplication, StopWeb, ProbePort, ComposeUp, WaitRunning, WaitHttp,
              RestoreStop, RestoreStart, VerifyRunning, VerifyHttp, PullWatchtower,
              UpWatchtower, RequireWatchtower, GrantDockerAccess, QuietLogin, FinalDocker,
              FinalRunning, FinalHttp, FinalWatchtower, ImageMetadata, Mark, FinalCheck,
              FinalVerdict
<1>2. CASE CommandFails
  BY <1>2 DEF CommandFails, DpkgConfigureFails, FixInstallFails, DpkgReconfigureFails,
              InstallKilled, ComposeConfigFails, StopWebFails, ComposeUpFails,
              WaitHttpFails, WaitTimesOut, RestoreStopFails, RestoreStopTimesOut,
              RestoreStartFails, VerifyHttpFails, UpWatchtowerFails, FinalCheckFails,
              FinalCheck, FinalVerdict
<1>3. CASE ~Installer /\ ~CommandFails
  BY <1>3 DEF Next, SystemStep, Fault, Begin, ArchiveHeals, ProcessCrashes, Reboot, Gone,
              Outside, Servers, ServersFail, WebBinds, GladysListens, DockerStarts,
              WebCrashes, GladysCrashes, DockerDies, vars
<1>4. QED  BY <1>1, <1>2, <1>3

-----------------------------------------------------------------------------
(* The three facts that make IInv an invariant. *)

LEMMA IInvInit == Init => IInv
<1> SUFFICES ASSUME Init PROVE IInv
  OBVIOUS
<1>1. completed = FALSE /\ completed \in BOOLEAN
  BY Zenon DEF Init, BootstrapInit
<1>2. TypeOK
  BY <1>1, OpsEnumerated, FlawsAssumption
     DEF Init, BootstrapInit, MachineInit, TypeOK, BootstrapTypeOK, MachineTypeOK, PhaseOps,
         Phases, UnitStates, WebStates, GladysStates, WatchtowerStates, DockerStates, DpkgStates
<1>3. StageInv /\ SetupPageYields /\ ReadyMeansDeployed
  BY <1>1 DEF Init, BootstrapInit, MachineInit, StageInv, SetupPageYields, ReadyMeansDeployed,
      PhaseOps, Handed, BeforeHandoff, WithDocker, WithGladys, WithWatchtower
<1>4. FlawInv
  BY OpsEnumerated DEF Init, BootstrapInit, MachineInit, FlawInv, Checked, WithDocker,
      WithGladys, WithWatchtower, PhaseOps
<1>5. QED  BY <1>2, <1>3, <1>4 DEF IInv

LEMMA IInvStep == IInv /\ [Next]_vars => IInv'
<1> SUFFICES ASSUME IInv, [Next]_vars PROVE IInv'
  OBVIOUS
<1> DEFINE Rest == TypeOK /\ StageInv /\ SetupPageYields /\ ReadyMeansDeployed
<1>1. CASE SystemStep
  <2>1. Rest'  BY <1>1, InstallerStep, EnvironmentStep DEF SystemStep
  <2>2. QED  BY <2>1, FlawInvStep DEF IInv
<1>2. CASE Fault
  <2>1. Rest'  BY <1>2, CommandFailureStep, EnvironmentStep DEF Fault
  <2>2. QED  BY <2>1, FlawInvStep DEF IInv
<1>3. CASE UNCHANGED vars
  <2>1. Rest'
    BY <1>3 DEF vars, machine, IInv, StageInv, SetupPageYields, ReadyMeansDeployed, Deployed,
       TypeOK, BootstrapTypeOK, MachineTypeOK
  <2>2. QED  BY <2>1, FlawInvStep DEF IInv
<1>4. QED  BY <1>1, <1>2, <1>3 DEF Next

LEMMA Invariance == Spec => []IInv
<1>1. QED  BY IInvInit, IInvStep, PTL DEF Spec

-----------------------------------------------------------------------------
(* Every variable keeps to its type. *)
THEOREM TypeCorrect == Spec => []TypeOK
<1>1. IInv => TypeOK  BY DEF IInv
<1>2. QED  BY Invariance, <1>1, PTL

(* From the moment the setup page has been stopped for Gladys, and for good
   once the marker exists, no restart or reboot puts it back on port 80. *)
THEOREM SetupPageStaysDown == Spec => []SetupPageYields
<1>1. IInv => SetupPageYields  BY DEF IInv
<1>2. QED  BY Invariance, <1>1, PTL

(* Neither READY nor the marker is ever seen on a machine that lacks an
   enabled Docker or one of the two containers. *)
THEOREM ReadyIsEarned == Spec => []ReadyMeansDeployed
<1>1. IInv => ReadyMeansDeployed  BY DEF IInv
<1>2. QED  BY Invariance, <1>1, PTL

(* After FATAL the unit of the setup page is started; when the image is to
   blame, whichever flaw it has and whatever crashes and runs came before,
   there is no Gladys that could keep the page off port 80. *)
THEOREM FatalIsExplained == Spec => []FatalKeepsSetupPage
<1>1. IInv => FatalKeepsSetupPage  BY DEF IInv, StageInv, FlawInv, FatalKeepsSetupPage
<1>2. QED  BY Invariance, <1>1, PTL

(* Every HTTP check the installer passes was answered by Gladys. *)
THEOREM ReadinessIsReal == Spec => ReadinessIsGladys
<1>1. IInv /\ [Next]_vars =>
        [ \/ pc = "wait_http" /\ pc' = "verify_running"
          \/ pc = "verify_http" /\ pc' = "pull_watchtower"
          \/ pc = "final_http" /\ pc' = "final_watchtower" /\ "final_http" \notin failures'
          => Listener = "gladys" ]_vars
  <2> SUFFICES ASSUME IInv, [Next]_vars,
                      \/ pc = "wait_http" /\ pc' = "verify_running"
                      \/ pc = "verify_http" /\ pc' = "pull_watchtower"
                      \/ pc = "final_http" /\ pc' = "final_watchtower"
                           /\ "final_http" \notin failures'
               PROVE  Listener = "gladys"
    BY DEF vars
  <2>1. web = "inactive"
    BY DEF IInv, SetupPageYields, Handed, PhaseOps
  <2>2. Listener # "none"
    <3> USE DEF Step, Move
    <3>1. CASE Installer
      BY <3>1 DEF Installer, Publish, ExitFatal, ExitDone, Exit, Gone, Preflight,
                      WaitForInternet, ConfigureTimezone, AptUpdate, DpkgConfigure,
                      FixInstall, DpkgReconfigure, Inspect, Refresh, Install,
                      StartSystemServices, DockerVersion, ComposeConfig, PullApplication,
                      StopWeb, ProbePort, ComposeUp, WaitRunning, WaitHttp, RestoreStop,
                      RestoreStart, VerifyRunning, VerifyHttp, PullWatchtower,
                      UpWatchtower, RequireWatchtower, GrantDockerAccess, QuietLogin,
                      FinalDocker, FinalRunning, FinalHttp, FinalWatchtower,
                      ImageMetadata, Mark, FinalCheck, FinalVerdict
    <3>2. CASE CommandFails
      BY <3>2 DEF CommandFails, DpkgConfigureFails, FixInstallFails, DpkgReconfigureFails,
                      InstallKilled, ComposeConfigFails, StopWebFails, ComposeUpFails,
                      WaitHttpFails, WaitTimesOut, RestoreStopFails, RestoreStopTimesOut,
                      RestoreStartFails, VerifyHttpFails, UpWatchtowerFails,
                      FinalCheckFails, FinalCheck, FinalVerdict
    <3>3. CASE ~Installer /\ ~CommandFails
      BY <3>3 DEF Next, SystemStep, Fault, Begin, ArchiveHeals, ProcessCrashes, Reboot, Gone,
          Outside, vars
    <3>4. QED  BY <3>1, <3>2, <3>3
  <2>3. QED  BY <2>1, <2>2 DEF Listener
<1>2. QED  BY Invariance, <1>1, PTL DEF Spec, ReadinessIsGladys

-----------------------------------------------------------------------------
(* What no step does, whatever its kind: undo the deployment, record the
   completion elsewhere than at "mark", or start an installer when complete. *)
LEMMA NoStepUndoes ==
  ASSUME TypeOK, [Next]_vars
  PROVE  /\ Deployed => Deployed'
         /\ completed' = completed
              \/ (~completed /\ completed' /\ unit = "running" /\ pc = "mark"
                   /\ UNCHANGED <<machine, unit>>)
         /\ completed => (unit' = "running" => unit = "running")
<1> USE DEF Step, Move, Deployed, machine, control, Stopped, Started, TypeOK, BootstrapTypeOK,
            MachineTypeOK
<1>1. CASE Installer
  BY <1>1 DEF Installer, Publish, ExitFatal, ExitDone, Exit, Gone, Preflight, WaitForInternet,
              ConfigureTimezone, AptUpdate, DpkgConfigure, FixInstall, DpkgReconfigure,
              Inspect, Refresh, Install, StartSystemServices, DockerVersion, ComposeConfig,
              PullApplication, StopWeb, ProbePort, ComposeUp, WaitRunning, WaitHttp,
              RestoreStop, RestoreStart, VerifyRunning, VerifyHttp, PullWatchtower,
              UpWatchtower, RequireWatchtower, GrantDockerAccess, QuietLogin, FinalDocker,
              FinalRunning, FinalHttp, FinalWatchtower, ImageMetadata, Mark, FinalCheck,
              FinalVerdict
<1>2. CASE CommandFails
  BY <1>2 DEF CommandFails, DpkgConfigureFails, FixInstallFails, DpkgReconfigureFails,
              InstallKilled, ComposeConfigFails, StopWebFails, ComposeUpFails, WaitHttpFails, WaitTimesOut,
              RestoreStopFails, RestoreStopTimesOut, RestoreStartFails, VerifyHttpFails,
              UpWatchtowerFails, FinalCheckFails, FinalCheck, FinalVerdict
<1>3. CASE ~Installer /\ ~CommandFails
  BY <1>3 DEF Next, SystemStep, Fault, Begin, ArchiveHeals, ProcessCrashes, Reboot, Gone,
              Outside, Servers, ServersFail, WebBinds, GladysListens, DockerStarts,
              WebCrashes, GladysCrashes, DockerDies, vars
<1>4. QED  BY <1>1, <1>2, <1>3

(* Firstboot implements ApplianceContract: provisioning is recorded once, for
   a deployed appliance and away from the setup page, and then left alone. *)
THEOREM Refinement == Spec => KeepsContract
<1> USE DEF Contract!vars, Contract!Init, Contract!Next, Contract!Provision,
            Contract!Complete, Contract!Operate
<1>1. Init => Contract!Init
  BY DEF Init, BootstrapInit, MachineInit, Deployed, Listener
<1>2. IInv /\ IInv' /\ [Next]_vars => [Contract!Next]_(Contract!vars)
  <2> SUFFICES ASSUME IInv, IInv', [Next]_vars
               PROVE  [Contract!Next]_(Contract!vars)
    OBVIOUS
  <2>1. /\ Deployed => Deployed'
        /\ completed' = completed
             \/ (~completed /\ completed' /\ unit = "running" /\ pc = "mark"
                  /\ UNCHANGED <<machine, unit>>)
        /\ completed => (unit' = "running" => unit = "running")
    BY NoStepUndoes DEF IInv
  <2>2. completed \in BOOLEAN /\ completed' \in BOOLEAN
    BY DEF IInv, TypeOK, BootstrapTypeOK
  <2>3. Listener' \in {"none", "setup", "gladys"}
    BY DEF Listener
  <2>4. CASE completed' = completed /\ ~completed
    BY <2>1, <2>2, <2>3, <2>4 DEF Deployed
  <2>5. CASE completed' = completed /\ completed
    <3>1. Deployed /\ Deployed' /\ Listener' \in {"none", "gladys"}
      BY <2>5 DEF IInv, ReadyMeansDeployed, SetupPageYields, Listener
    <3>2. QED  BY <2>1, <2>2, <2>5, <3>1
  <2>6. CASE ~completed /\ completed' /\ unit = "running" /\ pc = "mark" /\ UNCHANGED <<machine, unit>>
    <3>1. Deployed
      BY <2>6 DEF IInv, StageInv, WithDocker, WithGladys, WithWatchtower, PhaseOps, Deployed
    <3>2. Listener # "setup"
      BY <2>6 DEF IInv, SetupPageYields, Handed, PhaseOps, Listener
    <3>3. UNCHANGED <<Deployed, Listener, unit>>
      BY <2>6 DEF machine, Deployed, Listener
    <3>4. QED  BY <2>2, <2>6, <3>1, <3>2, <3>3
  <2>7. QED  BY <2>1, <2>2, <2>4, <2>5, <2>6
<1>3. QED  BY Invariance, <1>1, <1>2, PTL DEF Spec, KeepsContract, Contract!Spec
=============================================================================
