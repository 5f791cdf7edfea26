------------------------------- MODULE Console -------------------------------
(***************************************************************************)
(* The status display on tty1 (console.py under gladys-console.service),   *)
(* beside the first boot: every two seconds it reads state.json, asks      *)
(* Docker whether the container runs, and draws a screen.                  *)
(***************************************************************************)
EXTENDS Firstboot, Sequences

VARIABLES
  asking,  \* main has read READY and asks Docker before it draws
  screen   \* what tty1 shows: a layout, and whether Gladys is said to run

tty == <<asking, screen>>

-----------------------------------------------------------------------------
(* The phases in the order of a run, and the stages the user sees. *)
PhaseOrder ==
  << "PREFLIGHT", "WAIT_NETWORK", "APT_UPDATE", "INSTALL_PACKAGES",
     "START_SYSTEM_SERVICES", "DOCKER_PREFLIGHT", "PULL_GLADYS", "START_GLADYS",
     "VERIFY_GLADYS", "START_WATCHTOWER", "FINALIZE", "READY" >>

Stages ==
  [step_system   |-> {"PREFLIGHT"},
   step_network  |-> {"WAIT_NETWORK"},
   step_packages |-> {"APT_UPDATE", "INSTALL_PACKAGES", "START_SYSTEM_SERVICES"},
   step_docker   |-> {"DOCKER_PREFLIGHT"},
   step_download |-> {"PULL_GLADYS"},
   step_services |-> {"START_GLADYS", "VERIFY_GLADYS", "START_WATCHTOWER", "FINALIZE"}]

(* FATAL and whatever else has no place in the order count as the first. *)
Place(phase) ==
  IF \E i \in DOMAIN PhaseOrder : PhaseOrder[i] = phase
    THEN CHOOSE i \in DOMAIN PhaseOrder : PhaseOrder[i] = phase
    ELSE 1

(* Mutant: a stage is done when its last phase begins. *)
StageDoneEarly(stage, phase) == \A p \in Stages[stage] : Place(phase) >= Place(p)

(* _stage_lines and setSteps: the stage is ticked, "[OK]". *)
StageDone(stage, phase) ==
  phase = "READY" \/ \A p \in Stages[stage] : Place(phase) > Place(p)

Done == [phase \in Phases |-> {stage \in DOMAIN Stages : StageDone(stage, phase)}]

(* render_screen, cut down to which screen a phase has and which stages are
   ticked on it; the ready screen claims them all without listing them. *)
Layout ==
  [phase \in Phases |->
     IF phase \in {"WAIT_NETWORK", "FATAL"} THEN [kind |-> phase, ticked |-> {}]
     ELSE [kind |-> IF phase = "READY" THEN phase ELSE "progress", ticked |-> Done[phase]]]

Nothing == [kind |-> "none", ticked |-> {}]

Layouts == {Nothing} \cup {Layout[phase] : phase \in Phases}

Drawn(layout, running) == [layout |-> layout, running |-> running]

ConsoleTypeOK ==
  /\ asking \in BOOLEAN
  /\ screen \in [layout : Layouts, running : BOOLEAN]
  /\ screen.running => screen.layout.kind = "READY"

ConsoleInit == asking = FALSE /\ screen = Drawn(Nothing, FALSE)

-----------------------------------------------------------------------------
(* read_state (atomic_write_text never lets it see half a file), and the screens
   that do not show the services: what the inspect in between delays cannot be
   told from a longer sleep before. *)
ReadState ==
  /\ ~asking
  /\ IF shown = "READY"
       THEN asking' = TRUE /\ UNCHANGED screen
       ELSE screen' = Drawn(Layout[shown], FALSE) /\ UNCHANGED asking

(* Mutant: the state is not read again. *)
DrawReadyAgain(answered) ==
  /\ asking
  /\ screen' = Drawn(Layout["READY"], answered /\ GladysRunning)
  /\ UNCHANGED asking

(* service_states, render_screen: an inspect that fails or times out counts as
   "not running". *)
DrawReady(answered) ==
  /\ asking
  /\ screen' = Drawn(Layout["READY"], answered /\ GladysRunning)
  /\ asking' = FALSE

(* The process dies, and systemd clears the terminal and starts it again. *)
ConsoleDies == asking' = FALSE /\ screen' = Drawn(Nothing, FALSE)

Tty1 == ReadState \/ DrawReady(TRUE)

TtyFaults == DrawReady(FALSE) \/ ConsoleDies
=============================================================================
