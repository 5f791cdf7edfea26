----------------------------- MODULE AtomicFile ------------------------------
(***************************************************************************)
(* common.atomic_write_text, system call by system call, on a file system  *)
(* that keeps writes in memory until they are synced: the calls that write *)
(* one file (state.json, the completion marker, /opt/gladys/.env) one      *)
(* after the other, failing, killed or cut by a power loss anywhere.       *)
(***************************************************************************)
CONSTANTS
  Contents,  \* the texts written
  NoFile,    \* the destination does not exist
  Torn       \* empty or cut: a file whose data never reached the disk

ASSUME ContentsAssumption == NoFile \notin Contents /\ Torn \notin Contents /\ NoFile # Torn

VARIABLES
  pc,         \* the next system call
  text,       \* the text of the current call
  temporary,  \* the temporary file of the current call; "stuck": of the last
              \* one, whose removal failed
  visible,    \* what a reader finds at the destination
  onDisk,     \* what a reader may find there after a power loss
  directory   \* the entry of the last replacement: its directory is "synced",
              \* the sync failed and was "ignored", or there was none yet

vars == <<pc, text, temporary, visible, onDisk, directory>>

Files == Contents \cup {NoFile, Torn}

TypeOK ==
  /\ pc \in {"idle", "write", "fsync", "replace", "fsync_directory", "unlink"}
  /\ text \in Contents \cup (IF pc = "idle" THEN {NoFile} ELSE {})
  /\ temporary \in {"none", "empty", "written", "synced", "stuck"}
  /\ visible \in Files
  /\ onDisk \subseteq Files
  /\ directory \in {"unsynced", "synced", "ignored"}

Init ==
  /\ pc = "idle" /\ text = NoFile /\ temporary = "none"
  /\ visible = NoFile /\ onDisk = {NoFile}
  /\ directory = "unsynced"

-----------------------------------------------------------------------------
At(call, next) == pc = call /\ pc' = next

(* Mutant: the text of the call before is written. *)
BeginStale(t) ==
  /\ At("idle", "write")
  /\ temporary' = "empty"
  /\ UNCHANGED <<text, visible, onDisk, directory>>

(* mkdir, mkstemp, chmod. *)
Begin(t) ==
  /\ At("idle", "write")
  /\ text' = t
  /\ temporary' = "empty"
  /\ UNCHANGED <<visible, onDisk, directory>>

(* write and flush: the data is with the kernel. *)
Write ==
  /\ At("write", "fsync")
  /\ temporary' = "written"
  /\ UNCHANGED <<text, visible, onDisk, directory>>

(* Mutant: the file is replaced without a sync of its data. *)
FsyncForgotten ==
  /\ At("fsync", "replace")
  /\ UNCHANGED <<text, temporary, visible, onDisk, directory>>

Fsync ==
  /\ At("fsync", "replace")
  /\ temporary' = "synced"
  /\ UNCHANGED <<text, visible, onDisk, directory>>

(* Until the directory is synced the disk has the old entry or the new one,
   and behind the new one only the data that was synced. *)
Replace ==
  /\ At("replace", "fsync_directory")
  /\ visible' = text
  /\ onDisk' = onDisk \cup {text} \cup (IF temporary = "synced" THEN {} ELSE {Torn})
  /\ temporary' = "none"
  /\ directory' = "unsynced"
  /\ UNCHANGED text

(* Mutant: the directory is opened and closed, never synced. *)
FsyncDirectoryForgotten ==
  /\ At("fsync_directory", "idle")
  /\ directory' = "synced"
  /\ UNCHANGED <<text, temporary, visible, onDisk>>

FsyncDirectory ==
  /\ At("fsync_directory", "idle")
  /\ onDisk' = {visible}
  /\ directory' = "synced"
  /\ UNCHANGED <<text, temporary, visible>>

(* open or fsync of the directory fails: ignored. *)
FsyncDirectoryFails ==
  /\ At("fsync_directory", "idle")
  /\ directory' = "ignored"
  /\ UNCHANGED <<text, temporary, visible, onDisk>>

(* Mutant: the error path leaves the temporary file. *)
FailsUncleaned ==
  /\ pc \in {"write", "fsync", "replace"}
  /\ pc' = "idle"
  /\ UNCHANGED <<text, temporary, visible, onDisk, directory>>

(* An error of chmod, write, fsync or replace. *)
Fails ==
  /\ pc \in {"write", "fsync", "replace"}
  /\ pc' = "unlink"
  /\ UNCHANGED <<text, temporary, visible, onDisk, directory>>

(* Mutant: the error path removes the destination. *)
UnlinkDestination ==
  /\ At("unlink", "idle")
  /\ temporary' = "none"
  /\ visible' = NoFile /\ onDisk' = onDisk \cup {NoFile}
  /\ UNCHANGED <<text, directory>>

(* The temporary file is removed and the error raised again. *)
Unlink ==
  /\ At("unlink", "idle")
  /\ temporary' = "none"
  /\ UNCHANGED <<text, visible, onDisk, directory>>

(* Only FileNotFoundError is expected of unlink: any other error leaves the
   file, and is raised in place of the first. *)
UnlinkFails ==
  /\ At("unlink", "idle")
  /\ temporary' = "stuck"
  /\ UNCHANGED <<text, visible, onDisk, directory>>

-----------------------------------------------------------------------------
(* The kernel writes the directory back in its own time. *)
Writeback ==
  /\ onDisk' = {visible}
  /\ UNCHANGED <<pc, text, temporary, visible, directory>>

(* The process is killed: its temporary file stays behind, no call's any more. *)
Killed ==
  /\ pc # "idle" /\ pc' = "idle"
  /\ temporary' = "none"
  /\ UNCHANGED <<text, visible, onDisk, directory>>

PowerLoss ==
  /\ pc' = "idle"
  /\ temporary' = "none"
  /\ visible' \in onDisk
  /\ onDisk' = {visible'}
  /\ directory' = "unsynced"
  /\ UNCHANGED text

Next ==
  \/ \E t \in Contents : Begin(t)
  \/ Write \/ Fsync \/ Replace \/ FsyncDirectory \/ FsyncDirectoryFails
  \/ Fails \/ Unlink \/ UnlinkFails
  \/ Writeback \/ Killed \/ PowerLoss

Spec == Init /\ [][Next]_vars

-----------------------------------------------------------------------------
(* No reader, before or after a power loss, ever finds a file that is not one
   of the texts as it was written. *)
NeverTorn == visible # Torn /\ Torn \notin onDisk

(* What a call has written outlives a power loss once it has returned, unless
   the directory could not be synced, an error the call ignores. *)
ReturnedSurvives == directory = "synced" => onDisk = {visible}

(* No call that ends, well or badly, leaves its temporary file, unless an error
   is followed by one of the removal itself. *)
NoTemporaryLeft == pc = "idle" => temporary \in {"none", "stuck"}

(* The readers' view. *)
Cell == INSTANCE DurableCell WITH value <- visible, survivors <- onDisk

KeepsCell == Cell!Spec
=============================================================================
