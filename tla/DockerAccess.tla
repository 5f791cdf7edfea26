---------------------------- MODULE DockerAccess -----------------------------
(***************************************************************************)
(* Bootstrap.grant_docker_access: every administrator joins the docker     *)
(* group by a usermod that retry_operation tries five times, with the      *)
(* delays of backoff_delays in between.  It is a convenience: whatever     *)
(* usermod does, first boot goes on.                                       *)
(***************************************************************************)
EXTENDS RunCommand, Integers, Sequences, FiniteSets

CONSTANT Members  \* the members of the sudo group

VARIABLES
  kind,      \* what the password database says of each of them
  todo,      \* the accounts the loop has still to come to
  account,   \* the one it is at
  attempts,  \* of retry_operation
  slept,     \* the seconds it has slept
  granted,   \* the accounts in the docker group
  refused    \* the accounts given up, each after how many attempts and seconds

loop == <<todo, account, attempts, slept, refused>>
vars == <<command, kind, loop, granted>>

CONSTANT NoAccount
ASSUME MembersAssumption == NoAccount \notin Members

max_attempts == 5

(* The delay before an attempt: backoff_delays; sixty seconds go on for ever. *)
backoff_delays == <<2, 4, 8, 15, 30>>
DelayAfter(n) == IF n \in DOMAIN backoff_delays THEN backoff_delays[n] ELSE 60

(* Ordinary accounts have 1000 <= uid < 65534; a name may have no account. *)
Kinds == {"ordinary", "system", "unknown"}
administrator_accounts == {m \in Members : kind[m] = "ordinary"}

Init ==
  /\ CommandInit
  /\ kind \in [Members -> Kinds]
  /\ todo = administrator_accounts
  /\ account = NoAccount
  /\ attempts = 0 /\ slept = 0
  /\ granted = {} /\ refused = {}

TypeOK ==
  /\ CommandTypeOK
  /\ kind \in [Members -> Kinds]
  /\ todo \subseteq administrator_accounts \ {account}
  /\ account \in administrator_accounts \cup {NoAccount}
  /\ attempts \in 0..max_attempts
  /\ slept \in 0..29
  /\ granted \subseteq administrator_accounts
  /\ refused \subseteq [who : administrator_accounts, tries : 1..max_attempts, slept : 0..29]

-----------------------------------------------------------------------------
(* usermod has had its effect, whatever becomes of it afterwards. *)
Grants ==
  /\ leader \in {"running", "stuck"} /\ account # NoAccount
  /\ granted' = granted \cup {account}
  /\ UNCHANGED <<command, kind, loop>>

(* It exits with 0 only then. *)
Honest == (leader' = "exit0" /\ leader = "running") => account \in granted

(* The first attempt for the next account. *)
NextAccount ==
  /\ account = NoAccount /\ todo # {}
  /\ \E a \in todo : account' = a /\ todo' = todo \ {a}
  /\ attempts' = 1 /\ slept' = 0
  /\ (Popen \/ PopenFails)
  /\ UNCHANGED <<kind, granted, refused>>

Failed == account # NoAccount /\ call \in {"failed", "timeout"}

(* Mutant: one attempt more. *)
RetryOnceMore ==
  /\ Failed /\ attempts <= max_attempts
  /\ attempts' = attempts + 1
  /\ slept' = slept + DelayAfter(attempts)
  /\ (Popen \/ PopenFails)
  /\ UNCHANGED <<kind, todo, account, granted, refused>>

(* RetryableError, the delay, and the next attempt. *)
Retry ==
  /\ Failed /\ attempts < max_attempts
  /\ attempts' = attempts + 1
  /\ slept' = slept + DelayAfter(attempts)
  /\ (Popen \/ PopenFails)
  /\ UNCHANGED <<kind, todo, account, granted, refused>>

(* Mutant: the exception leaves the loop. *)
GiveUpAll ==
  /\ Failed /\ attempts = max_attempts
  /\ refused' = refused \cup {[who |-> account, tries |-> attempts, slept |-> slept]}
  /\ account' = NoAccount /\ todo' = {}
  /\ UNCHANGED <<command, kind, attempts, slept, granted>>

(* The last failure is raised, logged and left at that. *)
GiveUp ==
  /\ Failed /\ attempts = max_attempts
  /\ refused' = refused \cup {[who |-> account, tries |-> attempts, slept |-> slept]}
  /\ account' = NoAccount
  /\ UNCHANGED <<command, kind, todo, attempts, slept, granted>>

Succeed ==
  /\ account # NoAccount /\ call = "ok"
  /\ account' = NoAccount
  /\ UNCHANGED <<command, kind, todo, attempts, slept, granted, refused>>

Done == account = NoAccount /\ todo = {}

Grant ==
  \/ NextAccount \/ Retry \/ GiveUp \/ Succeed
  \/ (account # NoAccount /\ Caller) /\ UNCHANGED <<kind, loop, granted>>

Next ==
  \/ Grant
  \/ Grants
  \/ (Processes /\ Honest) /\ UNCHANGED <<kind, loop, granted>>

(* The installer's own steps and timers only: no process owes an end. *)
Spec == Init /\ [][Next]_vars /\ WF_vars(Grant)

-----------------------------------------------------------------------------
(* When run_command is over, the process it started runs no more, and neither
   does any descendant that stayed in its group with the pipes open; what the
   kernel still owes one of them may come.  Beyond run_command's reach, and free
   to work beside the next attempt, are descendants that have closed the pipes
   or moved to a session of their own. *)
NothingLeftBehind ==
  call \in Ended => leader # "running" /\ helper \notin [at : {"group"}, pipes : {TRUE}]

(* At the end every administrator is in the docker group or was given up after
   five attempts with the four delays between them, whatever became of the
   others. *)
EveryoneTried ==
  Done => \A a \in administrator_accounts :
            a \in granted \/ [who |-> a, tries |-> 5, slept |-> 2 + 4 + 8 + 15] \in refused

(* First boot goes on, although usermod may hang for ever, ignore SIGTERM and
   leave its pipes to a process that no signal reaches. *)
NeverBlocks == <>Done
=============================================================================
