----------------------------- MODULE SingleDisk ------------------------------
(***************************************************************************)
(* single-disk-storage.py, the Autoinstall early command, and what         *)
(* Subiquity then does with the document it left: whether a disk is erased *)
(* without the operator having picked it.                                  *)
(***************************************************************************)
EXTENDS Naturals, FiniteSets

CONSTANTS
  Devices,   \* the block devices there may be
  Sections,  \* the sections that may be interactive, "storage" among them
  Minimum,   \* MINIMUM_DISK_BYTES
  NoDevice

ASSUME DevicesAssumption == NoDevice \notin Devices /\ IsFiniteSet(Devices)
ASSUME SectionsAssumption == "storage" \in Sections
ASSUME MinimumAssumption == Minimum \in Nat \ {0}

VARIABLES
  machine,      \* what lsblk reports of each device that is there
  pc,           \* the early command, then the installer
  disk,         \* local: the disk chosen
  interactive,  \* /autoinstall.yaml: interactive-sections
  match,        \* /autoinstall.yaml: the path storage.layout.match names
  declared,     \* history: interactive-sections as the media have it
  listed,       \* history: what lsblk reports until the command has read it
  erased        \* the disk the installer erases without its storage screen

vars == <<machine, pc, disk, interactive, match, declared, listed, erased>>
document == <<interactive, match>>

(* virtual: the name matches VIRTUAL_DISK_NAME; external: USB or FireWire;
   flagged: rm, ro or hotplug; mounted: it or a device below it. *)
Reports ==
  [type : {"disk", "rom"}, virtual : BOOLEAN, external : BOOLEAN,
   size : {Minimum - 1, Minimum}, flagged : BOOLEAN, mounted : BOOLEAN]

Present == DOMAIN machine

TypeOK ==
  /\ \A seen \in {machine, listed} : /\ DOMAIN seen \subseteq Devices
                                  /\ \A d \in DOMAIN seen : seen[d] \in Reports
  /\ pc \in {"lsblk", "decide", "write", "reload", "installing"}
  /\ disk \in Devices \cup {NoDevice}
  /\ interactive \in SUBSET Sections /\ declared \in SUBSET Sections
  /\ match \in Devices \cup {NoDevice} /\ erased \in Devices \cup {NoDevice}
  /\ pc = "write" => disk # NoDevice /\ declared = interactive

Init ==
  /\ \E present \in SUBSET Devices : machine \in [present -> Reports]
  /\ pc = "lsblk"
  /\ disk = NoDevice /\ match = NoDevice /\ erased = NoDevice
  /\ interactive \in SUBSET Sections /\ declared = interactive
  /\ listed = machine

-----------------------------------------------------------------------------
(* The devices that internal_disks neither skips ... *)
Considered ==
  {d \in Present : /\ machine[d].type = "disk"
                   /\ ~machine[d].virtual /\ ~machine[d].external
                   /\ machine[d].size >= Minimum}

(* ... nor accepts: one of them raises UncertainDisk. *)
Uncertain == {d \in Considered : machine[d].flagged \/ machine[d].mounted}

-----------------------------------------------------------------------------
(* Mutant: an uncertain disk is left out of the count. *)
ListUncounted ==
  /\ pc = "lsblk"
  /\ IF Cardinality(Considered \ Uncertain) = 1
       THEN pc' = "decide" /\ disk' \in Considered \ Uncertain
       ELSE pc' = "reload" /\ UNCHANGED disk
  /\ UNCHANGED <<machine, document, declared, listed, erased>>

(* run: the only disk, or the storage screen. *)
List ==
  /\ pc = "lsblk"
  /\ IF Uncertain = {} /\ Cardinality(Considered) = 1
       THEN pc' = "decide" /\ disk' \in Considered
       ELSE pc' = "reload" /\ UNCHANGED disk
  /\ UNCHANGED <<machine, document, declared, listed, erased>>

(* Mutant: the last interactive section may go. *)
PreselectLast ==
  /\ pc = "decide"
  /\ pc' = IF "storage" \in interactive THEN "write" ELSE "reload"
  /\ UNCHANGED <<machine, disk, document, declared, listed, erased>>

(* Mutant: the sections are saved before the disk is. *)
PreselectAndSave ==
  /\ pc = "decide"
  /\ IF "storage" \in interactive /\ interactive # {"storage"}
       THEN pc' = "write" /\ interactive' = interactive \ {"storage"}
       ELSE pc' = "reload" /\ UNCHANGED interactive
  /\ UNCHANGED <<machine, disk, match, declared, listed, erased>>

(* preselect_disk: storage must be interactive, and not alone. *)
Preselect ==
  /\ pc = "decide"
  /\ pc' = IF "storage" \in interactive /\ interactive # {"storage"} THEN "write" ELSE "reload"
  /\ UNCHANGED <<machine, disk, document, declared, listed, erased>>

(* _write_atomically: both changes at once. *)
Write ==
  /\ pc = "write"
  /\ pc' = "reload"
  /\ interactive' = interactive \ {"storage"}
  /\ match' = disk
  /\ UNCHANGED <<machine, disk, declared, listed, erased>>

(* Any exception, in lsblk, in a parser or in a write, keeps the document. *)
Fails ==
  /\ pc \in {"lsblk", "decide", "write"}
  /\ pc' = "reload"
  /\ UNCHANGED <<machine, disk, document, declared, listed, erased>>

(* A device is plugged in, or found late. *)
Appears ==
  /\ pc # "installing"
  /\ \E d \in Devices \ Present, r \in Reports :
       machine' = [e \in Present \cup {d} |-> IF e = d THEN r ELSE machine[e]]
  /\ listed' = IF pc = "lsblk" THEN machine' ELSE listed
  /\ UNCHANGED <<pc, disk, document, declared, erased>>

(* Subiquity reads the document again.  Without the storage section among the
   interactive ones it installs on the disk that matches, or on one of its own
   choice where the document names none. *)
Install ==
  /\ pc = "reload"
  /\ pc' = "installing"
  /\ IF "storage" \in interactive THEN UNCHANGED erased
     ELSE IF match # NoDevice THEN erased' = match
     ELSE erased' \in Present \cup {NoDevice}
  /\ UNCHANGED <<machine, disk, document, declared, listed>>

Next == List \/ Preselect \/ Write \/ Fails \/ Appears \/ Install

Spec == Init /\ [][Next]_vars

-----------------------------------------------------------------------------
OutOfTheCount(report) ==
  \/ report.type # "disk" \/ report.virtual \/ report.external
  \/ report.size < Minimum

(* On media that have a storage screen, a disk is only erased without it if,
   when the devices were listed, that disk was there, internal beyond doubt
   (nothing flagged, nothing mounted), and every other device out of the count:
   a disk in doubt brings the screen back, and so does any failure. *)
ErasesTheOnlyDisk ==
  "storage" \in declared /\ erased # NoDevice
  => /\ erased \in DOMAIN listed
     /\ ~listed[erased].flagged /\ ~listed[erased].mounted
     /\ ~OutOfTheCount(listed[erased])
     /\ \A d \in DOMAIN listed \ {erased} : OutOfTheCount(listed[d])

(* Subiquity asks for its confirmation while a section is interactive: what the
   script does never takes it away. *)
ConfirmationKept == declared # {} => interactive # {}
=============================================================================
