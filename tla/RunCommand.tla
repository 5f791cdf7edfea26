----------------------------- MODULE RunCommand ------------------------------
(***************************************************************************)
(* common.run_command: one command in a session of its own, with a process *)
(* it may leave in the background, its output pipes, and the timeout that  *)
(* ends in two signals to the process group with a grace period after      *)
(* each.  The processes owe nothing: they may ignore SIGTERM, keep the     *)
(* pipes open, never end, or be asleep in the kernel when SIGKILL comes.   *)
(***************************************************************************)

VARIABLES
  call,    \* where run_command is, or how it ended
  leader,  \* the process it started; exited with 0 or not; "stuck": killed
           \* in an uninterruptible call, and not gone before that returns
  helper   \* a descendant: in the group, "stuck" there, or in a session of
           \* its own, and whether it holds the pipes

command == <<call, leader, helper>>

NoHelper == [at |-> "none", pipes |-> FALSE]
Helpers  == [at : {"group", "stuck", "session"}, pipes : BOOLEAN] \cup {NoHelper}

Waiting == {"communicate", "terminated", "killed"}
Ended   == {"ok", "failed", "timeout"}

CommandTypeOK ==
  /\ call \in Waiting \cup Ended \cup {"none"}
  /\ leader \in {"none", "running", "stuck", "exit0", "exit1"}
  /\ helper \in Helpers

CommandInit == call = "none" /\ leader = "none" /\ helper = NoHelper

-----------------------------------------------------------------------------
(* The processes. *)

(* The command forks, or the descendant changes: it moves to a session of its
   own, closes the pipes, ends. *)
Forks == leader = "running" /\ helper = NoHelper /\ helper' = [at |-> "group", pipes |-> TRUE]

HelperMoves ==
  /\ helper.at = "group" /\ helper' = [helper EXCEPT !.at = "session"]

HelperLetsGo == helper.pipes /\ helper.at # "stuck" /\ helper' = [helper EXCEPT !.pipes = FALSE]

HelperEnds == helper # NoHelper /\ helper' = NoHelper

LeaderEnds ==
  \/ leader = "running" /\ leader' \in {"exit0", "exit1"}
  \/ leader = "stuck" /\ leader' = "exit1"

Processes ==
  \/ (Forks \/ HelperMoves \/ HelperLetsGo \/ HelperEnds) /\ UNCHANGED <<call, leader>>
  \/ LeaderEnds /\ UNCHANGED <<call, helper>>

-----------------------------------------------------------------------------
(* run_command. *)

(* Popen: the processes of earlier calls are none of this one's. *)
Popen ==
  /\ call' = "communicate" /\ leader' = "running" /\ helper' = NoHelper

(* The program is not there: OSError. *)
PopenFails == call' = "failed" /\ leader' = "none" /\ helper' = NoHelper

(* communicate has read both pipes to their end, and waited for the process. *)
Over == leader \notin {"running", "stuck"} /\ ~helper.pipes

Completes ==
  /\ call = "communicate" /\ Over
  /\ call' = IF leader = "exit0" THEN "ok" ELSE "failed"
  /\ UNCHANGED <<leader, helper>>

(* TimeoutExpired, also when the process has ended and a descendant holds a
   pipe: SIGTERM to the group, which its members may ignore. *)
TimesOut ==
  /\ call = "communicate" /\ ~Over
  /\ call' = "terminated"
  /\ UNCHANGED <<leader, helper>>

(* Mutant: only the process itself is killed. *)
KillLeader ==
  /\ call = "terminated" /\ ~Over
  /\ call' = "killed"
  /\ leader' = "exit1"
  /\ UNCHANGED helper

(* The first grace period expires: SIGKILL to what is left of the group, whose
   members do nothing more but, perhaps, sleep in the kernel. *)
Kill ==
  /\ call = "terminated" /\ ~Over
  /\ call' = "killed"
  /\ leader' \in IF leader = "running" THEN {"exit1", "stuck"} ELSE {leader}
  /\ helper' \in IF helper.at = "group" THEN {NoHelper, [helper EXCEPT !.at = "stuck"]}
                                        ELSE {helper}

(* Mutant: communicate after SIGKILL has no timeout. *)
GivesUpWhenOver ==
  /\ call \in {"terminated", "killed"} /\ Over
  /\ call' = "timeout"
  /\ UNCHANGED <<leader, helper>>

(* communicate returns within a grace period, or the second one expires too, one
   that is stuck or in a session of its own holding the pipes: TimeoutExpired
   either way. *)
GivesUp ==
  /\ call = "killed" \/ (call = "terminated" /\ Over)
  /\ call' = "timeout"
  /\ UNCHANGED <<leader, helper>>

Caller == Completes \/ TimesOut \/ Kill \/ GivesUp
=============================================================================
