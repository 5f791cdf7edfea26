------------------------ MODULE InstallerLock_proofs -------------------------
(***************************************************************************)
(* The lock excludes, and the marker is checked under it, for any number   *)
(* of bootstrap processes.                                                 *)
(***************************************************************************)
EXTENDS InstallerLock, TLAPS

LEMMA Exclusion == IInv => OneInstaller
  BY ProcsAssumption, FilesAssumption DEF IInv, TypeOK, LockInv, OneInstaller, Working, Locked

LEMMA IInvInit == Init => IInv
  BY ProcsAssumption, FilesAssumption
  DEF Init, IInv, TypeOK, LockInv, NothingAfterCompletion, Locked, Working

(* A process that ends takes its own lock with it and no other. *)
LEMMA LeavePreserves ==
  ASSUME IInv, NEW p \in Procs, NEW result \in {"ok", "fatal", "failed"},
         pc[p] # "idle", Leave(p, result), UNCHANGED completed
  PROVE  IInv'
<1> USE ProcsAssumption, FilesAssumption DEF IInv, TypeOK, Locked, Working
<1>1. TypeOK'
  BY DEF Leave
<1>2. LockInv'
  BY DEF Leave, LockInv
<1>3. NothingAfterCompletion'
  BY DEF Leave, NothingAfterCompletion
<1>4. QED  BY <1>1, <1>2, <1>3

LEMMA IInvStep == IInv /\ [Next]_vars => IInv'
<1> SUFFICES ASSUME IInv, [Next]_vars PROVE IInv'
  OBVIOUS
<1> USE ProcsAssumption, FilesAssumption DEF IInv, TypeOK, Locked, Working
<1>1. ASSUME NEW p \in Procs, Open(p) PROVE IInv'
  <2>1. PICK f \in Files :
          /\ IF path = NoFile THEN \A q \in Procs : handle[q] # f ELSE f = path
          /\ path' = f
          /\ handle' = [handle EXCEPT ![p] = f]
    BY <1>1 DEF Open
  <2>2. pc[p] = "idle" /\ pc' = [pc EXCEPT ![p] = "opened"]
        /\ UNCHANGED <<status, holder, completed>>
    BY <1>1 DEF Open
  <2>3. TypeOK'  BY <2>1, <2>2
  <2>4. LockInv'  BY <2>1, <2>2 DEF LockInv
  <2>5. NothingAfterCompletion'  BY <2>2 DEF NothingAfterCompletion
  <2>6. QED  BY <2>3, <2>4, <2>5
<1>2. ASSUME NEW p \in Procs, Lock(p) PROVE IInv'
  <2>1. TypeOK'  BY <1>2 DEF Lock
  <2>2. LockInv'  BY <1>2 DEF Lock, LockInv
  <2>3. NothingAfterCompletion'  BY <1>2 DEF Lock, NothingAfterCompletion
  <2>4. QED  BY <2>1, <2>2, <2>3
<1>3. ASSUME NEW p \in Procs, Provision(p) PROVE IInv'
  BY <1>3 DEF Provision, LockInv, NothingAfterCompletion
<1>4. ASSUME NEW p \in Procs, WriteMarker(p) PROVE IInv'
  <2>1. \A q \in Procs : pc[q] \in Working => q = p
    BY <1>4, Exclusion DEF WriteMarker, OneInstaller
  <2>2. TypeOK'  BY <1>4 DEF WriteMarker
  <2>3. LockInv'  BY <1>4 DEF WriteMarker, LockInv
  <2>4. NothingAfterCompletion'
    BY <1>4, <2>1 DEF WriteMarker, NothingAfterCompletion
  <2>5. QED  BY <2>2, <2>3, <2>4
<1>5. ASSUME NEW p \in Procs,
             Refused(p) \/ IsCompleted(p) \/ Done(p) \/ Fatal(p) \/ Dies(p)
      PROVE  IInv'
  <2>1. pc[p] # "idle" /\ UNCHANGED completed
        /\ \E result \in {"ok", "fatal", "failed"} : Leave(p, result)
    BY <1>5 DEF Refused, IsCompleted, Done, Fatal, Dies
  <2>2. QED  BY <2>1, LeavePreserves
<1>6. CASE Reboot
  BY <1>6 DEF Reboot, LockInv, NothingAfterCompletion
<1>7. CASE UNCHANGED vars
  BY <1>7 DEF vars, LockInv, NothingAfterCompletion
<1>8. QED  BY <1>1, <1>2, <1>3, <1>4, <1>5, <1>6, <1>7 DEF Next

LEMMA Invariance == Spec => []IInv
  BY IInvInit, IInvStep, PTL DEF Spec

(* Every variable keeps to its type; a process has a lock file open from its
   start to its end. *)
THEOREM TypeCorrect == Spec => []TypeOK
<1>1. IInv => TypeOK  BY DEF IInv
<1>2. QED  BY Invariance, <1>1, PTL

(* However many processes are started, by systemd or by hand, and however they
   end, one at most is provisioning. *)
THEOREM MutualExclusion == Spec => []OneInstaller
  BY Invariance, Exclusion, PTL

(* ... and none provisions an appliance another one has completed meanwhile. *)
THEOREM CompletedIsLeftAlone == Spec => []NothingAfterCompletion
<1>1. IInv => NothingAfterCompletion  BY DEF IInv
<1>2. QED  BY Invariance, <1>1, PTL

(* Only a process that has written the marker is on its way out of run. *)
Marked == \A p \in Procs : pc[p] = "marked" => completed

LEMMA MarkedStep == IInv /\ Marked /\ [Next]_vars => Marked'
<1> SUFFICES ASSUME IInv, Marked, [Next]_vars PROVE Marked'
  OBVIOUS
<1> USE DEF IInv, TypeOK, Marked
<1>1. ASSUME NEW p \in Procs,
             Open(p) \/ Lock(p) \/ Provision(p) \/ WriteMarker(p)
      PROVE  Marked'
  BY <1>1 DEF Open, Lock, Provision, WriteMarker
<1>2. ASSUME NEW p \in Procs,
             Refused(p) \/ IsCompleted(p) \/ Done(p) \/ Fatal(p) \/ Dies(p)
      PROVE  Marked'
  BY <1>2 DEF Refused, IsCompleted, Done, Fatal, Dies, Leave
<1>3. CASE Reboot  BY <1>3 DEF Reboot
<1>4. CASE UNCHANGED vars  BY <1>4 DEF vars
<1>5. QED  BY <1>1, <1>2, <1>3, <1>4 DEF Next

(* The unit's step to exit status 0 before completion is Refused, and the file
   it was refused is locked by another. *)
LEMMA GivingUpStep ==
  ASSUME IInv, Marked, [Next]_vars,
         status'[Unit] = "ok", status[Unit] # "ok", ~completed
  PROVE  \E p \in Procs \ {Unit} : pc[p] \in Locked
<1> USE ProcsAssumption, FilesAssumption DEF IInv, TypeOK
<1>1. ASSUME NEW p \in Procs, Open(p) \/ Lock(p) \/ Provision(p) \/ WriteMarker(p)
      PROVE  FALSE
  BY <1>1 DEF Open, Lock, Provision, WriteMarker
<1>2. ASSUME NEW p \in Procs, IsCompleted(p) \/ Done(p)  PROVE  FALSE
  BY <1>2 DEF IsCompleted, Done, Leave, Marked
<1>3. ASSUME NEW p \in Procs, Fatal(p) \/ Dies(p)  PROVE  FALSE
  BY <1>3 DEF Fatal, Dies, Leave
<1>4. ASSUME NEW p \in Procs, Refused(p)
      PROVE  \E q \in Procs \ {Unit} : pc[q] \in Locked
  <2>1. p = Unit  BY <1>4 DEF Refused, Leave
  <2>2. pc[Unit] = "opened" /\ handle[Unit] \in Files /\ holder[handle[Unit]] # NoProc
    BY <1>4, <2>1 DEF Refused
  <2>3. holder[handle[Unit]] \in Procs /\ pc[holder[handle[Unit]]] \in Locked
    BY <2>2 DEF LockInv
  <2>4. holder[handle[Unit]] # Unit  BY <2>2, <2>3 DEF Locked, Working
  <2>5. QED  BY <2>3, <2>4
<1>5. CASE Reboot  BY <1>5 DEF Reboot
<1>6. CASE UNCHANGED vars  BY <1>6 DEF vars
<1>7. QED  BY <1>1, <1>2, <1>3, <1>4, <1>5, <1>6 DEF Next

(* However many processes are started: the unit gives up on an appliance that
   is not completed for another process that holds the lock, and for nothing
   else. *)
THEOREM GivesUpForOne == Spec => GivesUpOnlyToRival
<1>1. Init => Marked  BY ProcsAssumption DEF Init, Marked
<1>2. Spec => []Marked  BY Invariance, <1>1, MarkedStep, PTL DEF Spec
<1>3. IInv /\ Marked /\ [Next]_vars =>
        [status'[Unit] = "ok" /\ status[Unit] # "ok" /\ ~completed
           => \E p \in Procs \ {Unit} : pc[p] \in Locked]_vars
  BY GivingUpStep
<1>4. QED  BY Invariance, <1>2, <1>3, PTL DEF Spec, GivesUpOnlyToRival
=============================================================================
