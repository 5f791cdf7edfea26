-------------------------------- MODULE Views --------------------------------
(***************************************************************************)
(* The first boot and whoever watches it: a browser (StatusPage) or the    *)
(* display on tty1 (Console).  They read the machine and change nothing of *)
(* it, nor of each other: a behaviour follows one of them.                 *)
(***************************************************************************)
EXTENDS StatusPage, Console

CONSTANT Watched  \* the images (Flaws) whose first boot somebody watches

VARIABLE viewer

viewVars == <<vars, view, tty, viewer>>

Viewers == {"browser", "console", "nobody"}

ViewTypeOK == PageTypeOK /\ ConsoleTypeOK /\ viewer \in Viewers

ViewInit ==
  /\ Init /\ PageInit /\ ConsoleInit
  /\ viewer \in IF flaw \in Watched THEN {"browser", "console"} ELSE {"nobody"}

Beside(A) == A /\ UNCHANGED <<vars, viewer>>

InBrowser(A) == viewer = "browser" /\ Beside(A) /\ UNCHANGED tty
OnTty1(A)    == viewer = "console" /\ Beside(A) /\ UNCHANGED view

(* A reboot takes the console with it, not the browser on another machine. *)
ViewNext ==
  \/ (SystemStep \/ CommandFails \/ Outside(ServersFail) \/ ProcessCrashes)
       /\ UNCHANGED <<view, tty, viewer>>
  \/ Reboot /\ ConsoleDies /\ UNCHANGED <<view, viewer>>
  \/ InBrowser(Browser)
  \/ OnTty1(Tty1 \/ TtyFaults)

(* The timers of the script expire; the console's loop goes on. *)
ViewSpec ==
  /\ ViewInit /\ [][ViewNext]_viewVars
  /\ Fairness
  /\ WF_viewVars(InBrowser(Poll))
  /\ WF_viewVars(InBrowser(Reload))
  /\ WF_viewVars(OnTty1(Tty1))

-----------------------------------------------------------------------------
(* setSteps: the stages that the page ticks. *)
PageTicked == IF rendered = "none" THEN {} ELSE Done[rendered]

(* What a ticked stage claims, as far as the machine's state can tell: the
   payload is whole, Docker is installed and enabled, compose.yaml is valid,
   Gladys and Watchtower are there. *)
Claim ==
  [step_system   |-> flaw # "payload",
   step_packages |-> docker \in {"stopped", "active"},
   step_docker   |-> flaw # "compose",
   step_services |-> Deployed]

(* No stage is ticked, on tty1 or in a browser, that the machine has not been
   through, however late the screen is drawn and whichever run, long ended by
   a crash or a reboot, has left the phase it shows. *)
TicksAreTrue ==
  \A stage \in DOMAIN Claim \cap (screen.layout.ticked \cup PageTicked) : Claim[stage]

(* From some moment on nothing fails, tty1 and its process included. *)
AllWell == <>[][OnTty1(Tty1) \/ (SystemStep /\ UNCHANGED tty)]_<<vars, tty>>

(* The screen then comes to rest on what has become of the first boot: FATAL,
   or READY with Gladys said to run. *)
ConsoleSettles ==
  viewer = "console" /\ AllWell /\ <>[](~AptStuck)
    => <>[](screen \in {Drawn(Layout["FATAL"], FALSE), Drawn(Layout["READY"], TRUE)})
=============================================================================
