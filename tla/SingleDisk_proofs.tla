-------------------------- MODULE SingleDisk_proofs --------------------------
(***************************************************************************)
(* For any set of devices, on any media: no disk is erased without its     *)
(* screen but the only one there was, and the confirmation stays.          *)
(***************************************************************************)
EXTENDS SingleDisk, FiniteSetTheorems, TLAPS

(* d was beyond doubt, and alone, when the devices were listed. *)
OnlyDisk(d) ==
  /\ d \in DOMAIN listed
  /\ ~listed[d].flagged /\ ~listed[d].mounted /\ ~OutOfTheCount(listed[d])
  /\ \A e \in DOMAIN listed \ {d} : OutOfTheCount(listed[e])

(* The document as the media have it, or as _write_atomically left it. *)
Untouched == interactive = declared /\ match = NoDevice
Preselected ==
  /\ "storage" \in declared /\ declared # {"storage"}
  /\ interactive = declared \ {"storage"} /\ match = disk /\ OnlyDisk(disk)

(* What is known at each step of the command, and of Subiquity after it. *)
IInv ==
  /\ TypeOK
  /\ pc = "lsblk" => listed = machine
  /\ pc \in {"decide", "write"} => OnlyDisk(disk)
  /\ pc \in {"lsblk", "decide", "write"} => Untouched
  /\ pc = "write" => "storage" \in interactive /\ interactive # {"storage"}
  /\ Untouched \/ Preselected
  /\ pc # "installing" => erased = NoDevice
  /\ ErasesTheOnlyDisk

(* List: one device that counts is in doubt about none. *)
LEMMA ListedAlone ==
  ASSUME TypeOK, listed = machine,
         Uncertain = {}, Cardinality(Considered) = 1, NEW d \in Considered
  PROVE  OnlyDisk(d)
<1>1. Considered \subseteq Devices  BY DEF Considered, Present, TypeOK
<1>2. IsFiniteSet(Considered)  BY <1>1, DevicesAssumption, FS_Subset
<1>3. Considered = {d}  BY <1>2, FS_Singleton
<1>4. ~machine[d].flagged /\ ~machine[d].mounted
  BY DEF Uncertain
<1>5. \A e \in Present : e \notin Considered => OutOfTheCount(machine[e])
  <2> SUFFICES ASSUME NEW e \in Present, e \notin Considered
               PROVE  OutOfTheCount(machine[e])
    OBVIOUS
  <2>1. machine[e].size \in {Minimum - 1, Minimum}  BY DEF TypeOK, Present, Reports
  <2>2. ~(machine[e].size >= Minimum) => machine[e].size < Minimum
    BY <2>1, MinimumAssumption
  <2>3. QED  BY <2>2 DEF Considered, OutOfTheCount
<1>6. ~OutOfTheCount(machine[d])
  <2>1. machine[d].size \in {Minimum - 1, Minimum}  BY DEF TypeOK, Present, Reports, Considered
  <2>2. ~(machine[d].size < Minimum)  BY <2>1, MinimumAssumption DEF Considered
  <2>3. QED  BY <2>2 DEF Considered, OutOfTheCount
<1>7. QED  BY <1>3, <1>4, <1>5, <1>6 DEF OnlyDisk, Present, Considered

LEMMA IInvInit == Init => IInv
<1> SUFFICES ASSUME Init PROVE IInv
  OBVIOUS
<1>1. DOMAIN machine \subseteq Devices /\ \A d \in DOMAIN machine : machine[d] \in Reports
  BY DEF Init
<1>2. TypeOK
  BY <1>1 DEF Init, TypeOK
<1>3. QED  BY <1>2 DEF Init, IInv, Untouched, ErasesTheOnlyDisk

(* What OnlyDisk and Preselected say stays while what they speak of does. *)
LEMMA IInvStep == IInv /\ [Next]_vars => IInv'
<1> SUFFICES ASSUME IInv, [Next]_vars PROVE IInv'
  OBVIOUS
<1> USE DevicesAssumption, SectionsAssumption DEF IInv, document
<1>1. CASE List
  <2>1. \A d \in Devices \cup {NoDevice} : OnlyDisk(d)' <=> OnlyDisk(d)
    BY <1>1 DEF List, OnlyDisk, OutOfTheCount
  <2>2. CASE Uncertain = {} /\ Cardinality(Considered) = 1
    <3>1. pc' = "decide" /\ disk' \in Considered  BY <1>1, <2>2 DEF List
    <3>2. disk' \in Devices  BY <3>1 DEF Considered, Present, TypeOK
    <3>3. OnlyDisk(disk')  BY <1>1, <2>2, <3>1, ListedAlone DEF List
    <3>4. (OnlyDisk(disk))'  BY <3>3, <1>1 DEF List, OnlyDisk, OutOfTheCount
    <3>5. QED  BY <1>1, <3>1, <3>2, <3>4 DEF List, TypeOK, Untouched, ErasesTheOnlyDisk
  <2>3. CASE ~(Uncertain = {} /\ Cardinality(Considered) = 1)
    BY <1>1, <2>3 DEF List, TypeOK, Untouched, ErasesTheOnlyDisk
  <2>4. QED  BY <2>2, <2>3
<1>2. CASE Preselect
  <2>1. (OnlyDisk(disk))'  BY <1>2 DEF Preselect, OnlyDisk, OutOfTheCount
  <2>2. TypeOK'
    BY <1>2, <2>1 DEF Preselect, TypeOK, OnlyDisk, Untouched
  <2>3. QED  BY <1>2, <2>1, <2>2 DEF Preselect, Untouched, ErasesTheOnlyDisk
<1>3. CASE Write
  <2>1. (OnlyDisk(disk))'  BY <1>3 DEF Write, OnlyDisk, OutOfTheCount
  <2>2. TypeOK'  BY <1>3 DEF Write, TypeOK
  <2>3. Preselected'
    BY <1>3, <2>1 DEF Write, Untouched, Preselected
  <2>4. QED  BY <1>3, <2>2, <2>3 DEF Write, ErasesTheOnlyDisk
<1>4. CASE Fails
  BY <1>4 DEF Fails, TypeOK, Untouched, ErasesTheOnlyDisk
<1>5. CASE Appears
  <2>1. PICK d \in Devices \ Present, r \in Reports :
          machine' = [e \in Present \cup {d} |-> IF e = d THEN r ELSE machine[e]]
    BY <1>5 DEF Appears
  <2>2. DOMAIN machine' \subseteq Devices /\ \A e \in DOMAIN machine' : machine'[e] \in Reports
    BY <2>1 DEF Present, TypeOK
  <2>3. TypeOK'
    BY <1>5, <2>2 DEF Appears, TypeOK
  <2>4. CASE pc = "lsblk"
    BY <1>5, <2>3, <2>4 DEF Appears, Untouched, ErasesTheOnlyDisk
  <2>5. CASE pc # "lsblk"
    <3>1. UNCHANGED <<pc, disk, interactive, match, declared, erased, listed>>
      BY <1>5, <2>5 DEF Appears
    <3>2. QED
      BY <2>3, <2>5, <3>1 DEF OnlyDisk, OutOfTheCount, Untouched, Preselected, ErasesTheOnlyDisk
  <2>6. QED  BY <2>4, <2>5
<1>6. CASE Install
  <2>1. TypeOK'
    BY <1>6 DEF Install, TypeOK, Present
  <2>2. (Untouched \/ Preselected)'
    BY <1>6 DEF Install, Untouched, Preselected, OnlyDisk, OutOfTheCount
  <2>3. ErasesTheOnlyDisk'
    <3>1. CASE "storage" \in interactive
      BY <1>6, <3>1 DEF Install, ErasesTheOnlyDisk
    <3>2. CASE "storage" \notin interactive /\ Untouched
      BY <1>6, <3>2 DEF Install, ErasesTheOnlyDisk, Untouched
    <3>3. CASE "storage" \notin interactive /\ Preselected
      <4>1. match # NoDevice
        BY <3>3 DEF Preselected, OnlyDisk, TypeOK
      <4>2. erased' = disk /\ UNCHANGED <<listed, declared>>
        BY <1>6, <3>3, <4>1 DEF Install, Preselected
      <4>3. QED  BY <3>3, <4>2 DEF Preselected, OnlyDisk, OutOfTheCount, ErasesTheOnlyDisk
    <3>4. QED  BY <3>1, <3>2, <3>3
  <2>4. QED  BY <1>6, <2>1, <2>2, <2>3 DEF Install
<1>7. CASE UNCHANGED vars
  BY <1>7 DEF vars, TypeOK, OnlyDisk, OutOfTheCount, Untouched, Preselected, ErasesTheOnlyDisk
<1>8. QED  BY <1>1, <1>2, <1>3, <1>4, <1>5, <1>6, <1>7 DEF Next

LEMMA Invariance == Spec => []IInv
  BY IInvInit, IInvStep, PTL DEF Spec

-----------------------------------------------------------------------------
(* Every variable keeps to its type: the command is only about to write for a
   disk it has chosen, and over a document it has not touched. *)
THEOREM TypeCorrect == Spec => []TypeOK
<1>1. IInv => TypeOK  BY DEF IInv
<1>2. QED  BY Invariance, <1>1, PTL

(* On media that have a storage screen, whatever devices there are, come late or
   are in doubt, and wherever the early command fails: the disk that Subiquity
   erases without that screen was the only one. *)
THEOREM NoOtherDiskErased == Spec => []ErasesTheOnlyDisk
<1>1. IInv => ErasesTheOnlyDisk  BY DEF IInv
<1>2. QED  BY Invariance, <1>1, PTL

(* The early command leaves an interactive section wherever there was one, so
   that Subiquity still asks before it writes to the disk. *)
THEOREM StillConfirmed == Spec => []ConfirmationKept
<1>1. IInv => ConfirmationKept
  BY DEF IInv, Untouched, Preselected, ConfirmationKept
<1>2. QED  BY Invariance, <1>1, PTL
=============================================================================
