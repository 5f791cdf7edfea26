------------------------- MODULE DockerAccess_proofs -------------------------
(***************************************************************************)
(* For any set of accounts: no command leaves its own process running,     *)
(* and every administrator is tried five times before he is given up.      *)
(***************************************************************************)
EXTENDS DockerAccess, TLAPS

(* The seconds slept before an attempt are those of the delays before it. *)
SleptBefore == <<0, 2, 6, 14, 29>>

Tried(a) == a \in granted \/ [who |-> a, tries |-> 5, slept |-> 29] \in refused

(* After SIGKILL nothing of the group runs; the exit status 0 of a usermod is
   about the account at hand; who is neither ahead nor at hand has been tried. *)
IInv ==
  /\ TypeOK
  /\ NothingLeftBehind
  /\ call = "killed" => leader # "running" /\ helper.at # "group"
  /\ call = "ok" => leader = "exit0"
  /\ account # NoAccount =>
       /\ call # "none"
       /\ attempts # 0 /\ slept = SleptBefore[attempts]
       /\ leader = "exit0" => account \in granted
  /\ \A a \in administrator_accounts : a \in todo \/ a = account \/ Tried(a)

(* The delays of the five attempts. *)
LEMMA Delays ==
  ASSUME NEW n \in 1..4
  PROVE  /\ SleptBefore[n + 1] = SleptBefore[n] + DelayAfter(n)
         /\ SleptBefore[n + 1] \in 0..29
<1>1. n = 1 \/ n = 2 \/ n = 3 \/ n = 4  OBVIOUS
<1>2. n \in DOMAIN backoff_delays  BY DEF backoff_delays
<1>3. QED  BY <1>1, <1>2 DEF SleptBefore, DelayAfter, backoff_delays

LEMMA IInvInit == Init => IInv
  BY MembersAssumption
  DEF Init, CommandInit, IInv, TypeOK, CommandTypeOK, NothingLeftBehind, Ended, Waiting, Helpers,
      NoHelper, administrator_accounts, max_attempts

-----------------------------------------------------------------------------
(* A descendant that would be left behind. *)
Left(h) == h.at = "group" /\ h.pipes = TRUE

LEMMA LeftBehind ==
  ASSUME NEW h \in Helpers
  PROVE  h \in [at : {"group"}, pipes : {TRUE}] <=> Left(h)
<1>1. CASE h = NoHelper
  BY <1>1 DEF Left, NoHelper
<1>2. CASE h \in [at : {"group", "stuck", "session"}, pipes : BOOLEAN]
  <2>1. h = [at |-> h.at, pipes |-> h.pipes]  BY <1>2
  <2>2. QED  BY <2>1 DEF Left
<1>3. QED  BY <1>1, <1>2 DEF Helpers

(* A descendant moves out of the group, closes the pipes or ends. *)
LEMMA HelperSteps ==
  ASSUME helper \in Helpers, HelperMoves \/ HelperLetsGo \/ HelperEnds
  PROVE  /\ helper' \in Helpers
         /\ helper'.at = helper.at \/ helper'.at # "group"
         /\ Left(helper') => Left(helper)
<1> USE DEF Left, Helpers, NoHelper
<1>1. CASE HelperMoves
  <2>1. helper \in [at : {"group", "stuck", "session"}, pipes : BOOLEAN]
    BY <1>1 DEF HelperMoves
  <2>2. QED  BY <1>1, <2>1 DEF HelperMoves
<1>2. CASE HelperLetsGo
  <2>1. helper # NoHelper
    <3> HIDE DEF NoHelper
    <3>1. ~NoHelper.pipes  BY DEF NoHelper
    <3>2. helper.pipes  BY <1>2 DEF HelperLetsGo
    <3>3. QED  BY <3>1, <3>2, Zenon
  <2>2. helper \in [at : {"group", "stuck", "session"}, pipes : BOOLEAN]
    BY <2>1
  <2>3. helper' = [helper EXCEPT !.pipes = FALSE]
    BY <1>2 DEF HelperLetsGo
  <2>4. helper' \in [at : {"group", "stuck", "session"}, pipes : BOOLEAN]
        /\ helper'.pipes = FALSE /\ helper'.at = helper.at
    BY <2>2, <2>3
  <2>5. QED  BY <2>4
<1>3. CASE HelperEnds
  <2>1. helper' = [at |-> "none", pipes |-> FALSE]
    BY <1>3 DEF HelperEnds
  <2>2. QED  BY <2>1
<1>4. QED  BY <1>1, <1>2, <1>3

(* What the processes do: nobody joins the group of a command that is over. *)
LEMMA ProcessStep ==
  ASSUME IInv, Processes, Honest, UNCHANGED <<kind, loop, granted>>
  PROVE  IInv'
<1> USE DEF IInv, TypeOK, loop, administrator_accounts
<1>1. CASE (Forks \/ HelperMoves \/ HelperLetsGo \/ HelperEnds) /\ UNCHANGED <<call, leader>>
  <2>1. /\ helper' \in Helpers
        /\ leader # "running" =>
             /\ helper'.at = helper.at \/ helper'.at # "group"
             /\ Left(helper') => Left(helper)
    <3>1. CASE Forks
      BY <3>1 DEF Forks, Helpers
    <3>2. CASE HelperMoves \/ HelperLetsGo \/ HelperEnds
      BY <3>2, HelperSteps DEF CommandTypeOK
    <3>3. QED  BY <1>1, <3>1, <3>2
  <2>2. CommandTypeOK' /\ NothingLeftBehind'
    BY <1>1, <2>1, LeftBehind DEF CommandTypeOK, NothingLeftBehind
  <2>3. QED  BY <1>1, <2>1, <2>2 DEF Tried
<1>2. CASE LeaderEnds /\ UNCHANGED <<call, helper>>
  <2>1. CommandTypeOK' /\ NothingLeftBehind'
    BY <1>2 DEF LeaderEnds, CommandTypeOK, NothingLeftBehind
  <2>2. account # NoAccount => (leader' = "exit0" => account \in granted)
    BY <1>2 DEF LeaderEnds, Honest
  <2>3. call # "ok"
    BY <1>2 DEF LeaderEnds
  <2>4. QED  BY <1>2, <2>1, <2>2, <2>3 DEF Tried, LeaderEnds
<1>3. QED  BY <1>1, <1>2 DEF Processes

(* What run_command does: after SIGKILL nothing of the group runs, and before it
   the call is over only when all that has the pipes is. *)
LEMMA CallerStep ==
  ASSUME IInv, account # NoAccount, Caller, UNCHANGED <<kind, loop, granted>>
  PROVE  IInv'
<1> USE DEF IInv, TypeOK, loop, administrator_accounts, CommandTypeOK, NothingLeftBehind, Ended,
            Waiting, Helpers, NoHelper
<1>1. CASE Completes
  BY <1>1 DEF Completes, Over, Tried
<1>2. CASE TimesOut
  BY <1>2 DEF TimesOut, Tried
<1>3. CASE Kill
  BY <1>3 DEF Kill, Tried
<1>4. CASE GivesUp
  BY <1>4 DEF GivesUp, Over, Tried
<1>5. QED  BY <1>1, <1>2, <1>3, <1>4 DEF Caller

(* A new attempt, successful or not, knows nothing of the one before. *)
LEMMA AttemptStarts ==
  ASSUME IInv, Popen \/ PopenFails
  PROVE  /\ CommandTypeOK' /\ NothingLeftBehind'
         /\ call' \notin {"none", "killed", "ok"} /\ leader' # "exit0"
<1>1. NoHelper \in Helpers /\ ~Left(NoHelper)  BY DEF Helpers, NoHelper, Left
<1>2. QED  BY <1>1, LeftBehind DEF Popen, PopenFails, CommandTypeOK, NothingLeftBehind, Ended,
                               Waiting

(* The loop over the accounts and the attempts of retry_operation. *)
LEMMA LoopStep ==
  ASSUME IInv, NextAccount \/ Retry \/ GiveUp \/ Succeed \/ Grants
  PROVE  IInv'
<1> USE MembersAssumption DEF IInv, TypeOK, administrator_accounts, max_attempts, loop, command
<1>1. CASE NextAccount
  <2>1. PICK a \in todo : account' = a /\ todo' = todo \ {a}
    BY <1>1 DEF NextAccount
  <2>2. attempts' = 1 /\ slept' = 0 /\ UNCHANGED <<kind, granted, refused>>
    BY <1>1 DEF NextAccount
  <2>3. SleptBefore[1] = 0  BY DEF SleptBefore
  <2>4. QED  BY <1>1, <2>1, <2>2, <2>3, AttemptStarts DEF NextAccount, Tried
<1>2. CASE Retry
  <2>1. attempts \in 1..4 /\ attempts' = attempts + 1 /\ slept' = slept + DelayAfter(attempts)
    BY <1>2 DEF Retry, Failed
  <2>2. slept' = SleptBefore[attempts'] /\ slept' \in 0..29
    BY <1>2, <2>1, Delays DEF Retry, Failed
  <2>3. UNCHANGED <<kind, todo, account, granted, refused>>
    BY <1>2 DEF Retry
  <2>4. QED  BY <1>2, <2>1, <2>2, <2>3, AttemptStarts DEF Retry, Tried
<1>3. CASE GiveUp
  <2>1. account \in administrator_accounts /\ attempts = 5 /\ slept = 29
    BY <1>3 DEF GiveUp, Failed, SleptBefore
  <2>2. refused' = refused \cup {[who |-> account, tries |-> 5, slept |-> 29]}
    BY <1>3, <2>1 DEF GiveUp
  <2>3. account' = NoAccount /\ UNCHANGED <<command, kind, todo, attempts, slept, granted>>
    BY <1>3 DEF GiveUp
  <2>4. refused' \subseteq [who : administrator_accounts, tries : 1..5, slept : 0..29]
    BY <2>1, <2>2
  <2>5. \A a \in administrator_accounts : a \in todo' \/ Tried(a)'
    BY <2>2, <2>3 DEF Tried
  <2>6. CommandTypeOK' /\ NothingLeftBehind'
    BY <2>3 DEF CommandTypeOK, NothingLeftBehind
  <2>7. QED  BY <2>3, <2>4, <2>5, <2>6
<1>4. CASE Succeed
  <2>1. account \in granted  BY <1>4 DEF Succeed
  <2>2. account' = NoAccount
        /\ UNCHANGED <<command, kind, todo, attempts, slept, granted, refused>>
    BY <1>4 DEF Succeed
  <2>3. CommandTypeOK' /\ NothingLeftBehind'
    BY <2>2 DEF CommandTypeOK, NothingLeftBehind
  <2>4. QED  BY <2>1, <2>2, <2>3 DEF Tried
<1>5. CASE Grants
  <2>1. granted' = granted \cup {account} /\ account # NoAccount
        /\ UNCHANGED <<command, kind, todo, account, attempts, slept, refused>>
    BY <1>5 DEF Grants
  <2>2. CommandTypeOK' /\ NothingLeftBehind'
    BY <2>1 DEF CommandTypeOK, NothingLeftBehind
  <2>3. QED  BY <2>1, <2>2 DEF Tried
<1>6. QED  BY <1>1, <1>2, <1>3, <1>4, <1>5

LEMMA IInvStep == IInv /\ [Next]_vars => IInv'
<1> SUFFICES ASSUME IInv, [Next]_vars PROVE IInv'
  OBVIOUS
<1>1. CASE Next
  BY <1>1, ProcessStep, CallerStep, LoopStep DEF Next, Grant
<1>2. CASE UNCHANGED vars
  BY <1>2 DEF vars, command, loop, IInv, TypeOK, CommandTypeOK, NothingLeftBehind, Tried,
     administrator_accounts
<1>3. QED  BY <1>1, <1>2

LEMMA Invariance == Spec => []IInv
  BY IInvInit, IInvStep, PTL DEF Spec

-----------------------------------------------------------------------------
(* Every variable keeps to its type: five attempts, twenty-nine seconds. *)
THEOREM TypeCorrect == Spec => []TypeOK
<1>1. IInv => TypeOK  BY DEF IInv
<1>2. QED  BY Invariance, <1>1, PTL

(* When run_command returns, whatever the command and its descendants do about
   SIGTERM and their pipes, the process it started runs no more, and what runs of
   its descendants has left the group or closed the pipes. *)
THEOREM CommandsEnd == Spec => []NothingLeftBehind
<1>1. IInv => NothingLeftBehind  BY DEF IInv
<1>2. QED  BY Invariance, <1>1, PTL

(* However many administrators there are: when the loop is over each of them is
   in the docker group, or five attempts with their delays were made for him. *)
THEOREM NobodyForgotten == Spec => []EveryoneTried
<1>1. IInv => EveryoneTried
  <2>1. 2 + 4 + 8 + 15 = 29  OBVIOUS
  <2>2. QED  BY <2>1, MembersAssumption DEF IInv, EveryoneTried, Done, Tried, administrator_accounts
<1>2. QED  BY Invariance, <1>1, PTL
=============================================================================
