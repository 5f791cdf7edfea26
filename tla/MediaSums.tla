------------------------------ MODULE MediaSums ------------------------------
(***************************************************************************)
(* update-md5.py: the list of media checksums (md5sum.txt), in which the   *)
(* patched file gets a new sum and the pruned directory loses its lines.   *)
(***************************************************************************)
EXTENDS Filter, FiniteSets

(* A line of the list: the file it names, whether with "./" in front, and the
   content its sum is of.  A line without the form of a checksum is carried
   along unread; "text" is one that names nothing. *)
SumLine(file, dotted, content) ==
  [form |-> TRUE, file |-> file, dotted |-> dotted, content |-> content]
Malformed(file) == [form |-> FALSE, file |-> file, dotted |-> FALSE, content |-> <<>>]

NotUpdated == << Malformed("error") >>   \* MediaChecksumError

(* The comparison is without "./". *)
Names(line, file) == line.form /\ line.file = file

(* Mutant: the line is dropped, which is as good as no check. *)
UpdateByDropping(document, file, content) ==
  Kept(document, {i \in DOMAIN document : ~Names(document[i], file)})

(* update_checksum: no line for the file is as good as one. *)
UpdateChecksum(document, file, content) ==
  IF Cardinality({i \in DOMAIN document : Names(document[i], file)}) > 1 THEN NotUpdated
  ELSE [i \in DOMAIN document |->
          IF Names(document[i], file) THEN [document[i] EXCEPT !.content = content]
          ELSE document[i]]

(* drop_entries: the files of a directory. *)
DropEntries(document, directory) ==
  Kept(document, {i \in DOMAIN document : ~(document[i].form /\ document[i].file \in directory)})

(* main: nothing is written after an error. *)
UpdateSums(document, file, content, directory) ==
  LET updated == UpdateChecksum(document, file, content)
  IN IF updated = NotUpdated THEN NotUpdated ELSE DropEntries(updated, directory)

(* inspect-iso.sh: no two lines for the patched file, its sum fresh, every line
   about a file that is there. *)
SumsInspected(document, file, content, files) ==
  /\ Cardinality({i \in DOMAIN document : document[i].file = file}) <= 1
  /\ \A i \in DOMAIN document :
       /\ document[i].file = file => document[i].content = content
       /\ document[i].file \in files
=============================================================================
