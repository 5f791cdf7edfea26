----------------------------- MODULE StatusPage ------------------------------
(***************************************************************************)
(* A browser open on the appliance's address, beside the first boot: the   *)
(* setup page with its script (app.js), which polls /status.json of the    *)
(* status server and reloads itself when that fails.                       *)
(***************************************************************************)
EXTENDS Firstboot

VARIABLES
  page,      \* what the browser shows
  rendered   \* the phase on the setup page, "none" before the first answer

view == <<page, rendered>>

(* "live": the script polls; "lost": it waits for its reload; "dead": the
   browser's own error page, on which no script runs. *)
Pages == {"closed", "live", "lost", "gladys", "dead"}

PageTypeOK ==
  /\ page \in Pages
  /\ rendered \in Phases \cup {"none"}
  /\ rendered # "none" => page \in {"live", "lost"}

PageInit == page = "closed" /\ rendered = "none"

-----------------------------------------------------------------------------
(* Mutant: the phase of the page before is kept. *)
LoadOver ==
  /\ page' = CASE Listener = "setup"  -> "live"
               [] Listener = "gladys" -> "gladys"
               [] Listener = "none"   -> "dead"
  /\ UNCHANGED rendered

(* The answer to a request for "/". *)
Load ==
  /\ page' = CASE Listener = "setup"  -> "live"
               [] Listener = "gladys" -> "gladys"
               [] Listener = "none"   -> "dead"
  /\ rendered' = "none"

(* The user opens the address, or refreshes by hand. *)
Visit == page \in {"closed", "gladys", "dead"} /\ Load

Close == page # "closed" /\ page' = "closed" /\ rendered' = "none"

(* Mutant: the page shows the loss of the connection and polls again. *)
PollAgain ==
  /\ page = "live"
  /\ IF Listener = "setup" THEN rendered' = shown ELSE UNCHANGED rendered
  /\ UNCHANGED page

(* refresh, do_GET, safe_state, render: the status server reads state.json as
   it answers; Gladys has no /status.json that the script could parse. *)
Poll ==
  /\ page = "live"
  /\ IF Listener = "setup"
       THEN rendered' = shown /\ UNCHANGED page
       ELSE page' = "lost" /\ UNCHANGED rendered

PollFails == page = "live" /\ page' = "lost" /\ UNCHANGED rendered

Reload == page = "lost" /\ Load

Browser == Visit \/ Close \/ Poll \/ PollFails \/ Reload

-----------------------------------------------------------------------------
(* The phases that are published between the stop of the setup page and the
   end of a run. *)
Late == {"VERIFY_GLADYS", "START_WATCHTOWER", "FINALIZE", "READY"}

(* A late phase that a poll brings is never the progress of the run under way:
   it was left in state.json by one that a crash or a reboot has ended. *)
LateIsStale ==
  [][ rendered' \in Late /\ rendered' # rendered
      => unit # "running" \/ shown # PhaseOf[pc] ]_<<vars, view>>

(* Once Gladys answers for good, no browser stays on the setup page: its script
   finds out, whichever of its polls fails and whatever the page had shown. *)
PageLetsGo ==
  <>[](Listener = "gladys") => <>[](page \in {"closed", "gladys", "dead"})
=============================================================================
