---------------------------- MODULE Views_proofs -----------------------------
(***************************************************************************)
(* Whoever watches the first boot sees the truth: every tick on tty1 or in *)
(* a browser stands for something the machine has been through, and a late *)
(* phase in a browser is never that of the run under way.                  *)
(***************************************************************************)
EXTENDS Views, Firstboot_proofs

(* The phases in which the stages with a claim are ticked. *)
AfterServices == {"READY"}
AfterDocker   == {"PULL_GLADYS", "START_GLADYS", "VERIFY_GLADYS", "START_WATCHTOWER", "FINALIZE"}
                   \cup AfterServices
AfterPackages == {"DOCKER_PREFLIGHT"} \cup AfterDocker
AfterSystem   == {"WAIT_NETWORK", "APT_UPDATE", "INSTALL_PACKAGES", "START_SYSTEM_SERVICES"}
                   \cup AfterPackages

(* What the ticks of a set of stages claim. *)
True(ticked) ==
  /\ "step_system" \in ticked => flaw # "payload"
  /\ "step_packages" \in ticked => docker \in {"stopped", "active"}
  /\ "step_docker" \in ticked => flaw # "compose"
  /\ "step_services" \in ticked => Deployed

(* Every phase that anybody may still look at was earned: the one in state.json
   and those that a page, the screen and a console between its two readings
   have kept. *)
SeenInv ==
  /\ True(Done[shown])
  /\ rendered # "none" => True(Done[rendered])
  /\ asking => True(Done["READY"])
  /\ True(screen.layout.ticked)

-----------------------------------------------------------------------------
(* The place of a phase, computed. *)
LEMMA Places ==
  /\ Place("PREFLIGHT") = 1 /\ Place("WAIT_NETWORK") = 2 /\ Place("APT_UPDATE") = 3
  /\ Place("INSTALL_PACKAGES") = 4 /\ Place("START_SYSTEM_SERVICES") = 5
  /\ Place("DOCKER_PREFLIGHT") = 6 /\ Place("PULL_GLADYS") = 7 /\ Place("START_GLADYS") = 8
  /\ Place("VERIFY_GLADYS") = 9 /\ Place("START_WATCHTOWER") = 10 /\ Place("FINALIZE") = 11
  /\ Place("READY") = 12 /\ Place("FATAL") = 1
<1>1. DOMAIN PhaseOrder = 1..12  BY DEF PhaseOrder
<1>2. /\ PhaseOrder[1] = "PREFLIGHT" /\ PhaseOrder[2] = "WAIT_NETWORK"
      /\ PhaseOrder[3] = "APT_UPDATE" /\ PhaseOrder[4] = "INSTALL_PACKAGES"
      /\ PhaseOrder[5] = "START_SYSTEM_SERVICES" /\ PhaseOrder[6] = "DOCKER_PREFLIGHT"
      /\ PhaseOrder[7] = "PULL_GLADYS" /\ PhaseOrder[8] = "START_GLADYS"
      /\ PhaseOrder[9] = "VERIFY_GLADYS" /\ PhaseOrder[10] = "START_WATCHTOWER"
      /\ PhaseOrder[11] = "FINALIZE" /\ PhaseOrder[12] = "READY"
  BY DEF PhaseOrder
<1>3. \A i \in 1..12 : i = 1 \/ i = 2 \/ i = 3 \/ i = 4 \/ i = 5 \/ i = 6 \/ i = 7 \/ i = 8
                       \/ i = 9 \/ i = 10 \/ i = 11 \/ i = 12
  OBVIOUS
<1>4. \A i, j \in 1..12 : PhaseOrder[i] = PhaseOrder[j] => i = j
  BY <1>2, <1>3
<1>5. ASSUME NEW n \in 1..12  PROVE  Place(PhaseOrder[n]) = n
  BY <1>1, <1>4 DEF Place
<1>6. \A i \in 1..12 : PhaseOrder[i] # "FATAL"
  BY <1>2, <1>3
<1>7. Place("FATAL") = 1
  BY <1>1, <1>6 DEF Place
<1>8. /\ Place(PhaseOrder[1]) = 1 /\ Place(PhaseOrder[2]) = 2 /\ Place(PhaseOrder[3]) = 3
      /\ Place(PhaseOrder[4]) = 4 /\ Place(PhaseOrder[5]) = 5 /\ Place(PhaseOrder[6]) = 6
      /\ Place(PhaseOrder[7]) = 7 /\ Place(PhaseOrder[8]) = 8 /\ Place(PhaseOrder[9]) = 9
      /\ Place(PhaseOrder[10]) = 10 /\ Place(PhaseOrder[11]) = 11 /\ Place(PhaseOrder[12]) = 12
  BY <1>5
<1>9. QED  BY <1>2, <1>7, <1>8

LEMMA PhasesEnumerated ==
  Phases = {"PREFLIGHT", "WAIT_NETWORK", "APT_UPDATE", "INSTALL_PACKAGES",
            "START_SYSTEM_SERVICES", "DOCKER_PREFLIGHT", "PULL_GLADYS", "START_GLADYS",
            "VERIFY_GLADYS", "START_WATCHTOWER", "FINALIZE", "READY", "FATAL"}
  BY DEF Phases, PhaseOps

(* A stage is ticked after the last of its phases only. *)
LEMMA DoneAfter ==
  ASSUME NEW phase \in Phases
  PROVE  /\ "step_system" \in Done[phase] => phase \in AfterSystem
         /\ "step_packages" \in Done[phase] => phase \in AfterPackages
         /\ "step_docker" \in Done[phase] => phase \in AfterDocker
         /\ "step_services" \in Done[phase] => phase \in AfterServices
<1>1. ASSUME NEW stage, stage \in Done[phase], phase # "READY"
      PROVE  \A p \in Stages[stage] : Place(phase) > Place(p)
  BY <1>1 DEF Done, StageDone
<1>2. ASSUME "step_system" \in Done[phase]  PROVE  phase \in AfterSystem
  <2>1. phase = "READY" \/ Place(phase) > Place("PREFLIGHT")
    BY <1>1, <1>2 DEF Stages
  <2>2. QED
    BY <2>1, Places, PhasesEnumerated DEF AfterSystem, AfterPackages, AfterDocker, AfterServices
<1>3. ASSUME "step_packages" \in Done[phase]  PROVE  phase \in AfterPackages
  <2>1. phase = "READY" \/ Place(phase) > Place("START_SYSTEM_SERVICES")
    BY <1>1, <1>3 DEF Stages
  <2>2. QED  BY <2>1, Places, PhasesEnumerated DEF AfterPackages, AfterDocker, AfterServices
<1>4. ASSUME "step_docker" \in Done[phase]  PROVE  phase \in AfterDocker
  <2>1. phase = "READY" \/ Place(phase) > Place("DOCKER_PREFLIGHT")
    BY <1>1, <1>4 DEF Stages
  <2>2. QED  BY <2>1, Places, PhasesEnumerated DEF AfterDocker, AfterServices
<1>5. ASSUME "step_services" \in Done[phase]  PROVE  phase \in AfterServices
  <2>1. phase = "READY" \/ Place(phase) > Place("FINALIZE")
    BY <1>1, <1>5 DEF Stages
  <2>2. QED  BY <2>1, Places, PhasesEnumerated DEF AfterServices
<1>6. QED  BY <1>2, <1>3, <1>4, <1>5

(* The layout of a screen ticks no more than the phase has done. *)
LEMMA LayoutTicks ==
  ASSUME NEW phase \in Phases
  PROVE  Layout[phase].ticked \subseteq Done[phase]
  BY DEF Layout

-----------------------------------------------------------------------------
(* Whoever watches changes nothing of the machine. *)
LEMMA ViewersOnlyWatch == [ViewNext]_viewVars => [Next]_vars
  BY DEF ViewNext, viewVars, InBrowser, OnTty1, Beside, Next, SystemStep, Fault

(* ... and each keeps to its own screen. *)
LEMMA WhoMoves ==
  ASSUME [ViewNext]_viewVars
  PROVE  /\ Browser \/ UNCHANGED view
         /\ Tty1 \/ TtyFaults \/ UNCHANGED tty
  BY DEF ViewNext, viewVars, InBrowser, OnTty1, Beside, TtyFaults

(* A first boot that is watched is a first boot: whatever is proved of Spec
   holds of it. *)
THEOREM WatchedIsFirstboot == ViewSpec => Spec
<1>1. ViewInit => Init  BY DEF ViewInit
<1>2. QED  BY <1>1, ViewersOnlyWatch, PTL DEF ViewSpec, Spec

(* What is claimed of the machine stays true of it. *)
LEMMA FindingsLast ==
  ASSUME TypeOK, [Next]_vars
  PROVE  /\ docker \in {"stopped", "active"} => docker' \in {"stopped", "active"}
         /\ flaw' = flaw \/ flaw' = "none"
<1> USE DEF Step, Move, machine, control, TypeOK, BootstrapTypeOK, MachineTypeOK
<1>1. CASE Installer
  BY <1>1 DEF Installer, Publish, ExitFatal, ExitDone, Exit, Gone, Preflight, WaitForInternet,
              ConfigureTimezone, AptUpdate, DpkgConfigure, FixInstall, DpkgReconfigure,
              Inspect, Refresh, Install, StartSystemServices, DockerVersion, ComposeConfig,
              PullApplication, StopWeb, ProbePort, ComposeUp, WaitRunning, WaitHttp,
              RestoreStop, RestoreStart, VerifyRunning, VerifyHttp, PullWatchtower,
              UpWatchtower, RequireWatchtower, GrantDockerAccess, QuietLogin, FinalDocker,
              FinalRunning, FinalHttp, FinalWatchtower, ImageMetadata, Mark, FinalCheck,
              FinalVerdict
<1>2. CASE CommandFails
  BY <1>2 DEF CommandFails, DpkgConfigureFails, FixInstallFails, DpkgReconfigureFails,
              InstallKilled, ComposeConfigFails, StopWebFails, ComposeUpFails,
              WaitHttpFails, WaitTimesOut, RestoreStopFails, RestoreStopTimesOut,
              RestoreStartFails, VerifyHttpFails, UpWatchtowerFails, FinalCheckFails,
              FinalCheck, FinalVerdict
<1>3. CASE ~Installer /\ ~CommandFails
  BY <1>3 DEF Next, SystemStep, Fault, Begin, ArchiveHeals, ProcessCrashes, Reboot, Gone,
              Outside, Servers, ServersFail, WebBinds, GladysListens, DockerStarts,
              WebCrashes, GladysCrashes, DockerDies, vars
<1>4. QED  BY <1>1, <1>2, <1>3

LEMMA TruthLasts ==
  ASSUME TypeOK, [Next]_vars, NEW ticked, True(ticked)
  PROVE  True(ticked)'
<1>1. Deployed => Deployed'  BY NoStepUndoes
<1>2. QED  BY <1>1, FindingsLast DEF True

(* The phase of the operation under way claims nothing that is not so. *)
LEMMA PhaseIsEarned ==
  ASSUME IInv, unit = "running"
  PROVE  True(Done[PhaseOf[pc]])
<1>1. pc \in Ops
  BY DEF IInv, TypeOK, BootstrapTypeOK
<1> DEFINE phase == PhaseOf[pc]
<1>2. phase \in Phases /\ pc \in PhaseOps[phase]
  BY <1>1, PhaseOfOp
<1> HIDE DEF phase
<1>3. phase \in AfterSystem => flaw # "payload"
  BY <1>1, <1>2 DEF IInv, FlawInv, Checked, AfterSystem, AfterPackages, AfterDocker,
                    AfterServices, PhaseOps
<1>4. phase \in AfterPackages => docker \in {"stopped", "active"}
  BY <1>2 DEF IInv, StageInv, AfterPackages, AfterDocker, AfterServices, PhaseOps,
              WithDocker, WithGladys, WithWatchtower
<1>5. phase \in AfterDocker => flaw # "compose"
  BY <1>2 DEF IInv, FlawInv, Checked, AfterDocker, AfterServices, PhaseOps, WithDocker,
              WithGladys, WithWatchtower
<1>6. phase \in AfterServices => Deployed
  BY <1>2 DEF IInv, StageInv, AfterServices, PhaseOps, WithDocker, WithGladys,
              WithWatchtower, Deployed
<1>7. True(Done[phase])
  BY <1>2, <1>3, <1>4, <1>5, <1>6, DoneAfter DEF True
<1>8. QED  BY <1>7 DEF phase

-----------------------------------------------------------------------------
(* SeenInv is an invariant. *)

LEMMA SeenInvInit == ViewInit => SeenInv
<1> SUFFICES ASSUME ViewInit PROVE SeenInv
  OBVIOUS
<1>1. True(Done[shown])
  <2>1. shown = "PREFLIGHT" /\ shown \in Phases
    BY PhasesEnumerated DEF ViewInit, Init, BootstrapInit
  <2>2. QED
    BY <2>1, DoneAfter DEF True, AfterSystem, AfterPackages, AfterDocker, AfterServices
<1>2. rendered = "none" /\ ~asking
  BY DEF ViewInit, PageInit, ConsoleInit
<1>3. True(screen.layout.ticked)
  BY DEF ViewInit, ConsoleInit, Drawn, Nothing, True
<1>4. QED  BY <1>1, <1>2, <1>3 DEF SeenInv

(* The machine moves on: what had been earned stays so, and what it publishes
   is earned. *)
LEMMA MachineStep ==
  ASSUME IInv, SeenInv, [Next]_vars
  PROVE  /\ \A ticked : True(ticked) => True(ticked)'
         /\ True(Done[shown])'
<1>1. \A ticked : True(ticked) => True(ticked)'
  BY TruthLasts DEF IInv
<1>2. shown' = shown \/ (unit = "running" /\ shown' = PhaseOf[pc])
  <2> USE DEF Step, Move, control
  <2>1. CASE Installer
    BY <2>1 DEF Installer, Publish, ExitFatal, ExitDone, Exit, Gone, Preflight,
                WaitForInternet, ConfigureTimezone, AptUpdate, DpkgConfigure, FixInstall,
                DpkgReconfigure, Inspect, Refresh, Install, StartSystemServices,
                DockerVersion, ComposeConfig, PullApplication, StopWeb, ProbePort,
                ComposeUp, WaitRunning, WaitHttp, RestoreStop, RestoreStart,
                VerifyRunning, VerifyHttp, PullWatchtower, UpWatchtower,
                RequireWatchtower, GrantDockerAccess, QuietLogin, FinalDocker,
                FinalRunning, FinalHttp, FinalWatchtower, ImageMetadata, Mark,
                FinalCheck, FinalVerdict
  <2>2. CASE CommandFails
    BY <2>2 DEF CommandFails, DpkgConfigureFails, FixInstallFails, DpkgReconfigureFails,
                InstallKilled, ComposeConfigFails, StopWebFails, ComposeUpFails,
                WaitHttpFails, WaitTimesOut, RestoreStopFails, RestoreStopTimesOut,
                RestoreStartFails, VerifyHttpFails, UpWatchtowerFails, FinalCheckFails,
                FinalCheck, FinalVerdict
  <2>3. CASE ~Installer /\ ~CommandFails
    BY <2>3 DEF Next, SystemStep, Fault, Begin, ArchiveHeals, ProcessCrashes, Reboot,
                Gone, Outside, vars
  <2>4. QED  BY <2>1, <2>2, <2>3
<1>3. CASE shown' = shown
  <2>1. True(Done[shown])'  BY <1>1, <1>3 DEF SeenInv, Done
  <2>2. QED  BY <1>1, <2>1
<1>4. CASE unit = "running" /\ shown' = PhaseOf[pc]
  <2>1. True(Done[PhaseOf[pc]])  BY <1>4, PhaseIsEarned
  <2>2. True(Done[shown])'  BY <1>1, <1>4, <2>1
  <2>3. QED  BY <1>1, <2>2
<1>5. QED  BY <1>2, <1>3, <1>4

(* A page takes the phase it shows from state.json, and drops it. *)
LEMMA PageStep ==
  ASSUME Browser
  PROVE  rendered' \in {rendered, shown, "none"}
  BY DEF Browser, Visit, Close, Poll, PollFails, Reload, Load

(* So does the screen, with READY kept while Docker is asked. *)
LEMMA ScreenStep ==
  ASSUME Tty1 \/ TtyFaults, shown \in Phases, asking \in BOOLEAN
  PROVE  /\ asking' => asking \/ shown = "READY"
         /\ \/ screen' = screen
            \/ screen'.layout = Layout[shown]
            \/ asking /\ screen'.layout = Layout["READY"]
            \/ screen'.layout = Nothing
<1>1. CASE ReadState
  <2>1. CASE shown = "READY"
    BY <1>1, <2>1, Zenon DEF ReadState
  <2>2. CASE shown # "READY"
    <3>1. ~asking /\ ~asking'  BY <1>1, <2>2, Zenon DEF ReadState
    <3>2. screen' = Drawn(Layout[shown], FALSE)  BY <1>1, <2>2, Zenon DEF ReadState
    <3>3. screen'.layout = Layout[shown]  BY <3>2 DEF Drawn
    <3>4. QED  BY <3>1, <3>3, Zenon
  <2>3. QED  BY <2>1, <2>2, Zenon
<1>2. ASSUME NEW answered \in BOOLEAN, DrawReady(answered)
      PROVE  asking /\ ~asking' /\ screen'.layout = Layout["READY"]
  BY <1>2 DEF DrawReady, Drawn
<1>3. CASE ConsoleDies
  BY <1>3 DEF ConsoleDies, Drawn
<1>4. QED  BY <1>1, <1>2, <1>3 DEF Tty1, TtyFaults

LEMMA SeenInvStep == IInv /\ ConsoleTypeOK /\ SeenInv /\ [ViewNext]_viewVars => SeenInv'
<1> SUFFICES ASSUME IInv, ConsoleTypeOK, SeenInv, [ViewNext]_viewVars PROVE SeenInv'
  OBVIOUS
<1>1. [Next]_vars
  BY ViewersOnlyWatch
<1>2. /\ \A ticked : True(ticked) => True(ticked)'
      /\ True(Done[shown])'
  BY <1>1, MachineStep
<1>3. rendered' \in {rendered, shown, "none"}
  BY WhoMoves, PageStep DEF view
<1>4. shown \in Phases /\ asking \in BOOLEAN
  BY DEF IInv, TypeOK, BootstrapTypeOK, ConsoleTypeOK
<1>5. (rendered # "none" => True(Done[rendered]))'
  BY <1>2, <1>3 DEF SeenInv
<1>6. CASE Tty1 \/ TtyFaults
  <2>1. \/ screen' = screen
        \/ screen'.layout = Layout[shown]
        \/ asking /\ screen'.layout = Layout["READY"]
        \/ screen'.layout = Nothing
    BY <1>4, <1>6, ScreenStep
  <2>2. asking' => asking \/ shown = "READY"
    BY <1>4, <1>6, ScreenStep
  <2>3. (asking => True(Done["READY"]))'
    <3>1. asking' => True(Done["READY"])
      BY <2>2 DEF SeenInv
    <3>2. QED  BY <1>2, <3>1
  <2>4. True(screen'.layout.ticked)
    <3>1. CASE screen' = screen
      BY <3>1 DEF SeenInv
    <3>2. CASE screen'.layout = Layout[shown]
      BY <1>4, <3>2, LayoutTicks DEF SeenInv, True
    <3>3. CASE asking /\ screen'.layout = Layout["READY"]
      BY <3>3, LayoutTicks, PhasesEnumerated DEF SeenInv, True
    <3>4. CASE screen'.layout = Nothing
      BY <3>4 DEF Nothing, True
    <3>5. QED  BY <2>1, <3>1, <3>2, <3>3, <3>4
  <2>5. True(screen.layout.ticked)'
    BY <1>2, <2>4
  <2>6. QED  BY <1>2, <1>5, <2>3, <2>5 DEF SeenInv
<1>7. CASE UNCHANGED <<asking, screen>>
  <2>1. (asking => True(Done["READY"]))'
    BY <1>2, <1>7 DEF SeenInv
  <2>2. True(screen.layout.ticked)'
    BY <1>2, <1>7 DEF SeenInv
  <2>3. QED  BY <1>2, <1>5, <2>1, <2>2 DEF SeenInv
<1>8. QED  BY <1>6, <1>7, WhoMoves DEF tty

-----------------------------------------------------------------------------
(* What a viewer sees, by its type. *)

LEMMA PageTypeStep ==
  ASSUME PageTypeOK, TypeOK, Browser
  PROVE  PageTypeOK'
<1>1. ASSUME Load
      PROVE  page' \in {"live", "gladys", "dead"} /\ rendered' = "none"
  <2>1. Listener \in {"setup", "gladys", "none"}
    BY DEF Listener
  <2>2. Listener = "setup" => page' = "live"
    BY <1>1, Zenon DEF Load
  <2>3. Listener = "gladys" => page' = "gladys"
    BY <1>1, Zenon DEF Load
  <2>4. Listener = "none" => page' = "dead"
    BY <1>1, Zenon DEF Load
  <2>5. QED  BY <1>1, <2>1, <2>2, <2>3, <2>4, Zenon DEF Load
<1>2. CASE Load
  BY <1>1, <1>2 DEF PageTypeOK, Pages
<1>3. CASE Close \/ Poll \/ PollFails
  BY <1>3 DEF Close, Poll, PollFails, PageTypeOK, Pages, TypeOK, BootstrapTypeOK
<1>4. QED  BY <1>2, <1>3 DEF Browser, Visit, Reload

LEMMA LayoutsHoldAll == Nothing \in Layouts /\ \A phase \in Phases : Layout[phase] \in Layouts
  BY DEF Layouts

LEMMA ConsoleTypeStep ==
  ASSUME ConsoleTypeOK, TypeOK, Tty1 \/ TtyFaults
  PROVE  ConsoleTypeOK'
<1>1. ASSUME NEW layout \in Layouts, NEW running \in BOOLEAN,
             running => layout.kind = "READY",
             screen' = Drawn(layout, running), asking' \in BOOLEAN
      PROVE  ConsoleTypeOK'
  BY <1>1 DEF ConsoleTypeOK, Drawn
<1>2. CASE ReadState /\ shown = "READY"
  BY <1>2 DEF ReadState, ConsoleTypeOK
<1>3. CASE ReadState /\ shown # "READY"
  <2>1. asking' \in BOOLEAN
    BY <1>3 DEF ReadState, ConsoleTypeOK
  <2>2. screen' = Drawn(Layout[shown], FALSE)
    BY <1>3, Zenon DEF ReadState
  <2>3. Layout[shown] \in Layouts
    BY LayoutsHoldAll DEF TypeOK, BootstrapTypeOK
  <2>4. QED  BY <1>1, <2>1, <2>2, <2>3
<1>4. ASSUME NEW answered \in BOOLEAN, DrawReady(answered)
      PROVE  ConsoleTypeOK'
  <2>1. screen' = Drawn(Layout["READY"], answered /\ GladysRunning) /\ asking' = FALSE
    BY <1>4, Zenon DEF DrawReady
  <2>2. Layout["READY"] \in Layouts /\ Layout["READY"].kind = "READY"
    BY LayoutsHoldAll, PhasesEnumerated DEF Layout
  <2>3. (answered /\ GladysRunning) \in BOOLEAN
    OBVIOUS
  <2>4. asking' \in BOOLEAN
    BY <2>1
  <2>5. QED  BY <1>1, <2>1, <2>2, <2>3, <2>4, Zenon
<1>5. CASE ConsoleDies
  <2>1. Nothing \in Layouts
    BY LayoutsHoldAll
  <2>2. QED  BY <1>1, <1>5, <2>1 DEF ConsoleDies
<1>6. QED  BY <1>2, <1>3, <1>4, <1>5 DEF Tty1, TtyFaults

(* What the invariance of both rests on. *)
ViewIInv == IInv /\ ViewTypeOK /\ SeenInv

LEMMA ViewIInvInit == ViewInit => ViewIInv
<1> SUFFICES ASSUME ViewInit PROVE ViewIInv
  OBVIOUS
<1>1. PageTypeOK
  BY DEF ViewInit, PageInit, PageTypeOK, Pages
<1>2. ConsoleTypeOK
  <2>1. Nothing \in Layouts /\ asking = FALSE /\ screen = [layout |-> Nothing, running |-> FALSE]
    BY LayoutsHoldAll DEF ViewInit, ConsoleInit, Drawn
  <2>2. QED  BY <2>1 DEF ConsoleTypeOK
<1>3. viewer \in Viewers
  BY DEF ViewInit, Viewers
<1>4. QED
  BY <1>1, <1>2, <1>3, IInvInit, SeenInvInit DEF ViewIInv, ViewTypeOK, ViewInit

LEMMA ViewIInvStep == ViewIInv /\ [ViewNext]_viewVars => ViewIInv'
<1> SUFFICES ASSUME ViewIInv, [ViewNext]_viewVars PROVE ViewIInv'
  OBVIOUS
<1> USE DEF ViewIInv, ViewTypeOK
<1>1. IInv'
  BY ViewersOnlyWatch, IInvStep
<1>2. SeenInv'
  BY SeenInvStep
<1>3. TypeOK /\ TypeOK'
  BY <1>1 DEF IInv
<1>4. PageTypeOK'
  <2>1. CASE Browser
    BY <1>3, <2>1, PageTypeStep
  <2>2. CASE UNCHANGED view
    BY <2>2 DEF view, PageTypeOK
  <2>3. QED  BY <2>1, <2>2, WhoMoves
<1>5. ConsoleTypeOK'
  <2>1. CASE Tty1 \/ TtyFaults
    BY <1>3, <2>1, ConsoleTypeStep
  <2>2. CASE UNCHANGED tty
    BY <2>2 DEF tty, ConsoleTypeOK
  <2>3. QED  BY <2>1, <2>2, WhoMoves
<1>6. (viewer \in Viewers)'
  BY DEF ViewNext, viewVars, InBrowser, OnTty1, Beside
<1>7. QED  BY <1>1, <1>2, <1>4, <1>5, <1>6

LEMMA ViewIInvariance == ViewSpec => []ViewIInv
<1>1. QED  BY ViewIInvInit, ViewIInvStep, PTL DEF ViewSpec

-----------------------------------------------------------------------------
(* A browser and tty1 show nothing but what they can show; Gladys is said to
   run on the ready screen only. *)
THEOREM ViewTypeCorrect == ViewSpec => []ViewTypeOK
<1>1. ViewIInv => ViewTypeOK  BY DEF ViewIInv
<1>2. QED  BY ViewIInvariance, <1>1, PTL

(* Whatever is ticked, and however late it is looked at, the machine has been
   through. *)
THEOREM TicksAreEarned == ViewSpec => []TicksAreTrue
<1>1. ASSUME SeenInv PROVE TicksAreTrue
  <2>1. True(screen.layout.ticked) /\ True(PageTicked)
    BY <1>1 DEF SeenInv, PageTicked, True
  <2>2. DOMAIN Claim = {"step_system", "step_packages", "step_docker", "step_services"}
    BY DEF Claim
  <2>3. /\ Claim["step_system"] = (flaw # "payload")
        /\ Claim["step_packages"] = (docker \in {"stopped", "active"})
        /\ Claim["step_docker"] = (flaw # "compose")
        /\ Claim["step_services"] = Deployed
    BY DEF Claim
  <2>4. \A stage \in DOMAIN Claim \cap (screen.layout.ticked \cup PageTicked) : Claim[stage]
    <3>1. TAKE stage \in DOMAIN Claim \cap (screen.layout.ticked \cup PageTicked)
    <3>2. CASE stage = "step_system"
      BY <2>1, <2>3, <3>1, <3>2, Zenon DEF True
    <3>3. CASE stage = "step_packages"
      BY <2>1, <2>3, <3>1, <3>3, Zenon DEF True
    <3>4. CASE stage = "step_docker"
      BY <2>1, <2>3, <3>1, <3>4, Zenon DEF True
    <3>5. CASE stage = "step_services"
      BY <2>1, <2>3, <3>1, <3>5, Zenon DEF True
    <3>6. QED  BY <2>2, <3>1, <3>2, <3>3, <3>4, <3>5
  <2>5. QED  BY <2>4 DEF TicksAreTrue
<1>2. ViewIInv => TicksAreTrue  BY <1>1 DEF ViewIInv
<1>3. QED  BY ViewIInvariance, <1>2, PTL

(* The setup page never reports a late phase of the run under way: what it
   reports then is the trace of one that was cut off. *)
THEOREM LatePhasesAreStale == ViewSpec => LateIsStale
<1>1. IInv /\ [ViewNext]_viewVars =>
        [ rendered' \in Late /\ rendered' # rendered
          => unit # "running" \/ shown # PhaseOf[pc] ]_<<vars, view>>
  <2> SUFFICES ASSUME IInv, [ViewNext]_viewVars,
                      rendered' \in Late, rendered' # rendered
               PROVE  unit # "running" \/ shown # PhaseOf[pc]
    OBVIOUS
  <2>1. CASE Listener = "setup" /\ rendered' = shown
    <3>1. web = "active"
      BY <2>1 DEF Listener
    <3>2. pc \notin Handed
      BY <3>1 DEF IInv, SetupPageYields
    <3>3. ASSUME unit = "running", shown = PhaseOf[pc]
          PROVE  FALSE
      <4>1. pc \in Ops
        BY <3>3 DEF IInv, TypeOK, BootstrapTypeOK
      <4>2. pc \in PhaseOps[shown] /\ shown \in Late
        BY <2>1, <3>3, <4>1, PhaseOfOp
      <4>3. QED  BY <3>2, <4>2 DEF Late, Handed, PhaseOps
    <3>4. QED  BY <3>3
  <2>2. CASE Poll /\ Listener # "setup"
    BY <2>2 DEF Poll
  <2>3. CASE rendered' = "none"
    BY <2>3 DEF Late
  <2>4. QED
    BY <2>1, <2>2, <2>3, WhoMoves
       DEF Browser, Visit, Close, Poll, PollFails, Reload, Load, view
<1>2. QED  BY ViewIInvariance, <1>1, PTL DEF ViewSpec, ViewIInv, LateIsStale

=============================================================================
