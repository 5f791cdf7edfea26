---------------------------- MODULE UbuntuSource -----------------------------
(***************************************************************************)
(* buildlib.py: which image a signed SHA256SUMS names, and whether an      *)
(* image is one of Ubuntu Server with the minimal source.                  *)
(***************************************************************************)
EXTENDS Integers, FiniteSets, Sequences, FiniteSetsExt

CONSTANT PointRelease   \* the server images there may be, each with its point release

ASSUME PointReleaseAssumption == PointRelease \in [DOMAIN PointRelease -> Nat]

(* A line of the list: the file it names, the content its sum is of, and
   whether it has the form of a checksum; if not, whether a blank stands on
   both sides of the name ("*" before a name, which marks a binary file, is
   none). *)
Listed(file, content)  == [form |-> TRUE, file |-> file, content |-> content, apart |-> TRUE]
Unlisted(file, apart)  == [form |-> FALSE, file |-> file, content |-> "none", apart |-> apart]

NoRelease == Listed("none", "none")   \* BuildInputError

ServerImages(listing) == {line \in DOMAIN listing : listing[line].file \in DOMAIN PointRelease}
Candidates(listing) == {line \in ServerImages(listing) : listing[line].form}
MalformedLines(listing) == {line \in ServerImages(listing) : ~listing[line].form /\ listing[line].apart}

(* Mutant: the line furthest down is the newest. *)
LatestListed(listing) == {Max(Candidates(listing))}

(* The lines of the newest point release, by number. *)
Latest(listing) ==
  LET release(line) == PointRelease[listing[line].file]
  IN {line \in Candidates(listing) : \A other \in Candidates(listing) : release(other) <= release(line)}

Discover(listing) ==
  IF MalformedLines(listing) = {} /\ Candidates(listing) # {} /\ Cardinality(Latest(listing)) = 1
    THEN listing[CHOOSE line \in Latest(listing) : TRUE]
    ELSE NoRelease

(* require_ubuntu_iso_info and require_minimal_source, on the image itself. *)
Minimal == "ubuntu-server-minimal"

RightSeries(info) == info = "Ubuntu-Server 26.04 amd64"
OneMinimalSource(sources) == Cardinality({n \in DOMAIN sources : sources[n] = Minimal}) = 1
=============================================================================
