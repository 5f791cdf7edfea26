---------------------------- MODULE BootMetadata -----------------------------
(***************************************************************************)
(* compare-boot-metadata.py: two reports of xorriso on the El Torito boot  *)
(* equipment of an image are parsed, and compared but for the places where *)
(* things lie on the disc; a boot image without a file is compared by what *)
(* the disc holds at its place.                                            *)
(***************************************************************************)
EXTENDS Integers, Sequences, FiniteSets, FiniteSetsExt

(* The lines of a report.  What a line says of image i: its platform (for all
   that "boot img" lists) and place, a file or a partition appended to the
   image, which is named by its number and its place, its length, an option. *)
CatalogLine(lba, blocks)   == [is |-> "catalog", lba |-> lba, blocks |-> blocks]
CatPath(path)              == [is |-> "cat path", path |-> path]
BootImg(i, platform, lba)  == [is |-> "boot img", image |-> i, platform |-> platform, lba |-> lba]
ImgPath(i, path)           == [is |-> "img path", image |-> i, path |-> path]
Appended(i, path, lba)     == [is |-> "img path", image |-> i, path |-> path, lba |-> lba]
ImgBlks(i, blocks)         == [is |-> "img blks", image |-> i, blocks |-> blocks]
ImgOpts(i, opts)           == [is |-> "img opts", image |-> i, opts |-> opts]
BadLine                    == [is |-> "bad"]   \* a record with a field missing or not a number

(* A number that is not positive makes a line a bad one. *)
Positive == Nat \ {0}
AnyReportLine ==
  [is : {"catalog"}, lba : Positive, blocks : Positive] \cup [is : {"cat path"}, path : STRING]
    \cup [is : {"boot img"}, image : Positive, platform : STRING, lba : Positive]
    \cup [is : {"img path"}, image : Positive, path : STRING]
    \cup [is : {"img path"}, image : Positive, path : STRING, lba : Positive]
    \cup [is : {"img blks"}, image : Positive, blocks : Positive]
    \cup [is : {"img opts"}, image : Positive, opts : STRING] \cup [is : {"bad"}]

ImageLines == {"boot img", "img path", "img blks", "img opts"}

-----------------------------------------------------------------------------
Of(report, kind) == {n \in DOMAIN report : report[n].is = kind}
About(report, kind, i) == {n \in Of(report, kind) : report[n].image = i}

Images(report) == {report[n].image : n \in UNION {Of(report, kind) : kind \in ImageLines}}

(* What parse_report insists on: no record twice, an image complete, UEFI. *)
WellFormed(report) ==
  /\ Of(report, "bad") = {}
  /\ Cardinality(Of(report, "catalog")) = 1 /\ Cardinality(Of(report, "cat path")) = 1
  /\ Images(report) # {}
  /\ \A i \in Images(report) :
       /\ Cardinality(About(report, "boot img", i)) = 1
       /\ About(report, "img path", i) \cup About(report, "img blks", i) # {}
       /\ \A kind \in ImageLines : Cardinality(About(report, kind, i)) <= 1
  /\ \E n \in Of(report, "boot img") : report[n].platform = "UEFI"

(* What a report says but for the places: the lines without their lba.  Of the
   name of an appended partition, _image_path keeps the number. *)
Semantics(report) ==
  {[field \in DOMAIN report[n] \ {"lba"} |-> report[n][field]] : n \in DOMAIN report}

(* The images without a file. *)
Hidden(report) == {i \in Images(report) : About(report, "img path", i) = {}}

(* Where such an image lies on the disc, and on how many blocks. *)
Lba(report, i)    == report[CHOOSE n \in About(report, "boot img", i) : TRUE].lba
BlockCount(report, i) == report[CHOOSE n \in About(report, "img blks", i) : TRUE].blocks
Extent(report, i) == Lba(report, i)..Lba(report, i) + BlockCount(report, i) - 1

(* _extent_digest: nothing is read beyond the end of the disc. *)
Readable(report, disc, i) == Extent(report, i) \subseteq DOMAIN disc
Bytes(report, disc, i) ==
  SubSeq(disc, Lba(report, i), Lba(report, i) + BlockCount(report, i) - 1)

(* Mutant: the images without a file are compared by their length only. *)
SameReports(base, baseDisc, custom, customDisc) ==
  WellFormed(base) /\ WellFormed(custom) /\ Semantics(base) = Semantics(custom)

(* compare_reports. *)
SameBoot(base, baseDisc, custom, customDisc) ==
  /\ WellFormed(base) /\ WellFormed(custom)
  /\ Semantics(base) = Semantics(custom)
  /\ \A i \in Hidden(base) :
       /\ Readable(base, baseDisc, i) /\ Readable(custom, customDisc, i)
       /\ Bytes(base, baseDisc, i) = Bytes(custom, customDisc, i)
=============================================================================
