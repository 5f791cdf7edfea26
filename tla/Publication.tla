----------------------------- MODULE Publication -----------------------------
(***************************************************************************)
(* publish-r2.sh as run by the workflows of several tags: each checks its  *)
(* image against its checksum and then overwrites two objects of a bucket, *)
(* one after the other.  The workflow of test tags is in a concurrency     *)
(* group; that of release tags is in none.                                 *)
(***************************************************************************)
EXTENDS Integers

CONSTANTS
  Tags,       \* the tags, in the order in which they are pushed: positive numbers
  Serialized  \* the workflows are in a concurrency group

VARIABLES
  pc,      \* of each workflow: "pushed", "build", the upload it is at, "done", "failed"
  bucket   \* the image and the checksum that are served, by their tags; 0 for none

vars == <<pc, bucket>>

Init == pc = [t \in Tags |-> "pushed"] /\ bucket = [object \in {"image", "checksum"} |-> 0]

Running(t) == pc[t] \notin {"pushed", "done", "failed"}

(* A workflow begins, behind the tags pushed before its own; in a concurrency
   group it waits until those have ended. *)
Begin(t) ==
  /\ pc[t] = "pushed"
  /\ \A u \in Tags : u < t => pc[u] # "pushed"
  /\ Serialized => \A u \in Tags : ~Running(u)
  /\ pc' = [pc EXCEPT ![t] = "build"] /\ UNCHANGED bucket

(* The gates, however long they take, and the check of the local pair. *)
Build(t) ==
  /\ pc[t] = "build" /\ pc' = [pc EXCEPT ![t] = "image"] /\ UNCHANGED bucket

UploadImage(t) ==
  /\ pc[t] = "image" /\ pc' = [pc EXCEPT ![t] = "checksum"]
  /\ bucket' = [bucket EXCEPT !.image = t]

UploadChecksum(t) ==
  /\ pc[t] = "checksum" /\ pc' = [pc EXCEPT ![t] = "done"]
  /\ bucket' = [bucket EXCEPT !.checksum = t]

(* A gate, an upload or the runner fails, and with it the workflow. *)
Fail(t) ==
  /\ Running(t) /\ pc' = [pc EXCEPT ![t] = "failed"] /\ UNCHANGED bucket

Next == \E t \in Tags : Begin(t) \/ Build(t) \/ UploadImage(t) \/ UploadChecksum(t) \/ Fail(t)

Spec == Init /\ [][Next]_vars

-----------------------------------------------------------------------------
(* release.yml, in the notes of a release: "sha256sum -c" on what was
   downloaded, and "the download link always serves the latest release".  When
   every workflow has succeeded, the image and the checksum that are served are
   those of the latest tag. *)
LatestPairServed ==
  (\A t \in Tags : pc[t] = "done") =>
    \A t \in Tags : bucket.image >= t /\ bucket.checksum >= t
=============================================================================
