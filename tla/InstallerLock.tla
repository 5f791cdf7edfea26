---------------------------- MODULE InstallerLock ----------------------------
(***************************************************************************)
(* main and execute of bootstrap.py as concurrent processes: the one that  *)
(* gladys-firstboot.service starts and any that an administrator starts by *)
(* hand, under the lock /run/gladys-installer/bootstrap.lock.  flock locks *)
(* the open file, not its name, so the files the name has stood for are    *)
(* told apart.  Provisioning itself is a single operation here.            *)
(***************************************************************************)
CONSTANTS
  Procs,   \* the processes that may run bootstrap.py
  Unit,    \* the one that systemd runs
  Files,   \* the lock files there may be
  NoProc, NoFile

ASSUME ProcsAssumption == Unit \in Procs /\ NoProc \notin Procs
ASSUME FilesAssumption == NoFile \notin Files

VARIABLES
  pc,         \* of each process
  handle,     \* the lock file it has open
  status,     \* how it ended last: exit status 0, 78, another, or never run
  path,       \* the file at the lock's path, NoFile in a fresh /run
  holder,     \* of each file: the process that has locked it
  completed   \* the completion marker exists

vars == <<pc, handle, status, path, holder, completed>>

Working == {"provision", "marked"}
Locked  == {"check"} \cup Working

TypeOK ==
  /\ pc \in [Procs -> {"idle", "opened"} \cup Locked]
  /\ handle \in [Procs -> Files \cup {NoFile}]
  /\ status \in [Procs -> {"none", "ok", "fatal", "failed"}]
  /\ path \in Files \cup {NoFile}
  /\ holder \in [Files -> Procs \cup {NoProc}]
  /\ completed \in BOOLEAN
  /\ \A p \in Procs : pc[p] = "idle" <=> handle[p] = NoFile

Init ==
  /\ pc = [p \in Procs |-> "idle"]
  /\ handle = [p \in Procs |-> NoFile]
  /\ status = [p \in Procs |-> "none"]
  /\ path = NoFile
  /\ holder = [f \in Files |-> NoProc]
  /\ completed = FALSE

-----------------------------------------------------------------------------
(* systemd starts the unit at boot and after a failure, never once the marker
   exists or after exit status 0 or 78; by hand, at any time. *)
MayStart(p) == p = Unit => ~completed /\ status[Unit] \in {"none", "failed"}

(* open(lock, "a+") creates the file where there is none. *)
Open(p) ==
  /\ pc[p] = "idle" /\ MayStart(p)
  /\ \E f \in Files :
       /\ IF path = NoFile THEN \A q \in Procs : handle[q] # f ELSE f = path
       /\ path' = f
       /\ handle' = [handle EXCEPT ![p] = f]
  /\ pc' = [pc EXCEPT ![p] = "opened"]
  /\ UNCHANGED <<status, holder, completed>>

(* Mutant: a lock outlives its process. *)
LeaveLocked(p, result) ==
  /\ pc' = [pc EXCEPT ![p] = "idle"]
  /\ status' = [status EXCEPT ![p] = result]
  /\ handle' = [handle EXCEPT ![p] = NoFile]
  /\ UNCHANGED <<holder, path>>

(* Mutant: the lock file is removed by the process that ends. *)
LeaveUnlinking(p, result) ==
  /\ pc' = [pc EXCEPT ![p] = "idle"]
  /\ status' = [status EXCEPT ![p] = result]
  /\ handle' = [handle EXCEPT ![p] = NoFile]
  /\ holder' = [f \in Files |-> IF holder[f] = p THEN NoProc ELSE holder[f]]
  /\ path' = NoFile

(* The process ends, whatever the way, and its lock with it: no command it ran
   has inherited the file. *)
Leave(p, result) ==
  /\ pc' = [pc EXCEPT ![p] = "idle"]
  /\ status' = [status EXCEPT ![p] = result]
  /\ handle' = [handle EXCEPT ![p] = NoFile]
  /\ holder' = [f \in Files |-> IF holder[f] = p THEN NoProc ELSE holder[f]]
  /\ UNCHANGED path

(* Mutant: the marker is left to systemd's condition. *)
LockUnchecked(p) ==
  /\ pc[p] = "opened" /\ holder[handle[p]] = NoProc
  /\ holder' = [holder EXCEPT ![handle[p]] = p]
  /\ pc' = [pc EXCEPT ![p] = "provision"]
  /\ UNCHANGED <<handle, status, path, completed>>

(* flock(LOCK_EX | LOCK_NB). *)
Lock(p) ==
  /\ pc[p] = "opened" /\ holder[handle[p]] = NoProc
  /\ holder' = [holder EXCEPT ![handle[p]] = p]
  /\ pc' = [pc EXCEPT ![p] = "check"]
  /\ UNCHANGED <<handle, status, path, completed>>

(* Mutant: the process closes the file and tries to lock it again. *)
RefusedAgain(p) ==
  /\ pc[p] = "opened" /\ holder[handle[p]] # NoProc
  /\ handle' = [handle EXCEPT ![p] = NoFile]
  /\ UNCHANGED <<pc, status, path, holder, completed>>

(* BlockingIOError: exit status 0. *)
Refused(p) ==
  /\ pc[p] = "opened" /\ holder[handle[p]] # NoProc
  /\ Leave(p, "ok")
  /\ UNCHANGED completed

(* run: is_completed, under the lock. *)
IsCompleted(p) ==
  /\ pc[p] = "check" /\ completed
  /\ Leave(p, "ok")
  /\ UNCHANGED completed

Provision(p) ==
  /\ pc[p] = "check" /\ ~completed
  /\ pc' = [pc EXCEPT ![p] = "provision"]
  /\ UNCHANGED <<handle, status, path, holder, completed>>

WriteMarker(p) ==
  /\ pc[p] = "provision"
  /\ completed' = TRUE
  /\ pc' = [pc EXCEPT ![p] = "marked"]
  /\ UNCHANGED <<handle, status, path, holder>>

Done(p) ==
  /\ pc[p] = "marked"
  /\ Leave(p, "ok")
  /\ UNCHANGED completed

Fatal(p) ==
  /\ pc[p] = "provision"
  /\ Leave(p, "fatal")
  /\ UNCHANGED completed

(* An exception nobody handles, or a kill. *)
Dies(p) ==
  /\ pc[p] # "idle"
  /\ Leave(p, "failed")
  /\ UNCHANGED completed

(* Power loss: /run is a fresh tmpfs. *)
Reboot ==
  /\ pc' = [p \in Procs |-> "idle"]
  /\ handle' = [p \in Procs |-> NoFile]
  /\ status' = [p \in Procs |-> "none"]
  /\ path' = NoFile
  /\ holder' = [f \in Files |-> NoProc]
  /\ UNCHANGED completed

Next ==
  \/ \E p \in Procs :
       \/ Open(p) \/ Lock(p) \/ Refused(p) \/ IsCompleted(p)
       \/ Provision(p) \/ WriteMarker(p) \/ Done(p) \/ Fatal(p) \/ Dies(p)
  \/ Reboot

Spec == Init /\ [][Next]_vars

-----------------------------------------------------------------------------
(* SECURITY.md: the exclusive lock prevents duplicate work.  Never do two
   processes provision at the same time. *)
OneInstaller == \A p, q \in Procs : pc[p] \in Working /\ pc[q] \in Working => p = q

(* No process is, or gets, past is_completed on an appliance that another one
   has completed: its state.json and its containers stay as they are. *)
NothingAfterCompletion == completed => \A p \in Procs : pc[p] # "provision"

(* The unit ends for good, with exit status 0, on an appliance that is not
   completed only while another process is at work under the lock: never for a
   lock that a process left behind.  (That process may still die: nothing then
   provisions until the next boot.) *)
GivesUpOnlyToRival ==
  [][status'[Unit] = "ok" /\ status[Unit] # "ok" /\ ~completed
       => \E p \in Procs \ {Unit} : pc[p] \in Locked]_vars

(* The inductive invariant: a file is locked by the process past flock that has
   it open, and every open file is the one at the path. *)
LockInv ==
  /\ \A p \in Procs :
       /\ pc[p] # "idle" => handle[p] = path
       /\ pc[p] \in Locked => holder[handle[p]] = p
  /\ \A f \in Files : holder[f] # NoProc =>
       pc[holder[f]] \in Locked /\ handle[holder[f]] = f

IInv == TypeOK /\ LockInv /\ NothingAfterCompletion
=============================================================================
