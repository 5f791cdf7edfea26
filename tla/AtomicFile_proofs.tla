-------------------------- MODULE AtomicFile_proofs --------------------------
(***************************************************************************)
(* For any set of texts: a reader never finds a torn file, what a call has *)
(* written survives once it has returned, no call leaves a temporary file  *)
(* that it could remove, and AtomicFile implements DurableCell.            *)
(***************************************************************************)
EXTENDS AtomicFile, TLAPS

(* The data is synced before the replacement, which consumes the temporary
   file; the directory counts as synced only while the disk has what a reader
   sees. *)
IInv ==
  /\ TypeOK
  /\ NeverTorn
  /\ ReturnedSurvives
  /\ NoTemporaryLeft
  /\ pc = "replace" => temporary = "synced"
  /\ pc = "fsync_directory" => temporary = "none"

LEMMA IInvInit == Init => IInv
  BY ContentsAssumption
  DEF Init, IInv, TypeOK, NeverTorn, ReturnedSurvives, NoTemporaryLeft, Files

LEMMA IInvStep == IInv /\ [Next]_vars => IInv'
<1> SUFFICES ASSUME IInv, [Next]_vars PROVE IInv'
  OBVIOUS
<1> USE ContentsAssumption
    DEF IInv, TypeOK, NeverTorn, ReturnedSurvives, NoTemporaryLeft, Files, At
<1>1. CASE \E t \in Contents : Begin(t)
  BY <1>1 DEF Begin
<1>2. CASE Write
  BY <1>2 DEF Write
<1>3. CASE Fsync
  BY <1>3 DEF Fsync
<1>4. CASE Replace
  BY <1>4 DEF Replace
<1>5. CASE FsyncDirectory
  BY <1>5 DEF FsyncDirectory
<1>6. CASE FsyncDirectoryFails
  BY <1>6 DEF FsyncDirectoryFails
<1>7. CASE Fails
  BY <1>7 DEF Fails
<1>8. CASE Unlink
  BY <1>8 DEF Unlink
<1>9. CASE UnlinkFails
  BY <1>9 DEF UnlinkFails
<1>10. CASE Writeback
  BY <1>10 DEF Writeback
<1>11. CASE Killed
  BY <1>11 DEF Killed
<1>12. CASE PowerLoss
  BY <1>12 DEF PowerLoss
<1>13. CASE UNCHANGED vars
  BY <1>13 DEF vars
<1>14. QED
  BY <1>1, <1>2, <1>3, <1>4, <1>5, <1>6, <1>7, <1>8, <1>9, <1>10, <1>11, <1>12, <1>13 DEF Next

LEMMA Invariance == Spec => []IInv
  BY IInvInit, IInvStep, PTL DEF Spec

(* state.json, the completion marker and .env are whole whenever they are
   read, whichever call failed or was cut before. *)
THEOREM NoTornFile == Spec => []NeverTorn
<1>1. IInv => NeverTorn  BY DEF IInv
<1>2. QED  BY Invariance, <1>1, PTL

(* Every variable keeps to its type, whatever is written. *)
THEOREM TypeCorrect == Spec => []TypeOK
<1>1. IInv => TypeOK  BY DEF IInv
<1>2. QED  BY Invariance, <1>1, PTL

(* A phase, a completion or a time zone that atomic_write_text has returned
   from is still there after a power loss, unless the error of the directory's
   sync was ignored: however many calls failed or were killed before. *)
THEOREM Durable == Spec => []ReturnedSurvives
<1>1. IInv => ReturnedSurvives  BY DEF IInv
<1>2. QED  BY Invariance, <1>1, PTL

(* Between two calls there is no temporary file of a call that has ended by
   itself, but one whose removal failed as well. *)
THEOREM CleansUp == Spec => []NoTemporaryLeft
<1>1. IInv => NoTemporaryLeft  BY DEF IInv
<1>2. QED  BY Invariance, <1>1, PTL

(* atomic_write_text is a cell replaced as a whole, which shows its value or a
   not yet superseded one after a power loss. *)
THEOREM Refinement == Spec => KeepsCell
<1> USE DEF Cell!cell, Cell!Init, Cell!Next, Cell!Replace, Cell!Flush, Cell!PowerLoss
<1>1. Init => Cell!Init
  BY DEF Init
<1>2. IInv /\ [Next]_vars => [Cell!Next]_(Cell!cell)
  <2> SUFFICES ASSUME IInv, [Next]_vars PROVE [Cell!Next]_(Cell!cell)
    OBVIOUS
  <2>1. CASE Replace
    <3>1. text \in Contents /\ Cell!Replace(text)
      BY <2>1 DEF Replace, At, IInv, TypeOK
    <3>2. QED  BY <3>1
  <2>2. CASE FsyncDirectory \/ Writeback
    BY <2>2 DEF FsyncDirectory, Writeback
  <2>3. CASE PowerLoss
    BY <2>3 DEF PowerLoss
  <2>4. CASE \/ \E t \in Contents : Begin(t)
             \/ Write \/ Fsync \/ FsyncDirectoryFails \/ Fails \/ Unlink \/ UnlinkFails
             \/ Killed
             \/ UNCHANGED vars
    BY <2>4 DEF Begin, Write, Fsync, FsyncDirectoryFails, Fails, Unlink, UnlinkFails, Killed, vars
  <2>5. QED  BY <2>1, <2>2, <2>3, <2>4 DEF Next
<1>3. QED  BY Invariance, <1>1, <1>2, PTL DEF Spec, KeepsCell, Cell!Spec
=============================================================================
