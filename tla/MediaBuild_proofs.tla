------------------------- MODULE MediaBuild_proofs --------------------------
(***************************************************************************)
(* MediaBuild, for every list, base image, document, payload and fault     *)
(* that World and PossibleFaults admit, and for any number of builds: what *)
(* may be released was authenticated, validated and inspected, and what    *)
(* the inspection lets pass is as it should be.                            *)
(***************************************************************************)
EXTENDS MediaBuild, TLAPS, FiniteSetTheorems, WellFoundedInduction,
        SequenceTheorems

-----------------------------------------------------------------------------
(* Lists.  A set of numbers has a least one, which is all the induction that
   follows needs. *)
LEMMA LeastElement ==
  ASSUME NEW T, T \subseteq Nat, T # {}
  PROVE  \E x \in T : \A y \in T : x <= y
<1>1. IsWellFoundedOn(OpToRel(<, Nat), Nat)
  BY NatLessThanWellFounded, Zenon
<1>2. PICK x \in T : \A y \in T : ~(<<y, x>> \in OpToRel(<, Nat))
  BY <1>1, WFMin, Zenon
<1>3. \A y \in T : ~(y < x)
  BY <1>2 DEF OpToRel
<1>4. \A y \in T : x <= y
  BY <1>3
<1>5. QED  BY <1>4, Zenon

LEMMA Induction ==
  ASSUME NEW N \in Nat, NEW T, 0 \in T, \A n \in 1..N : n - 1 \in T => n \in T
  PROVE  N \in T
<1> SUFFICES ASSUME N \notin T PROVE FALSE
  OBVIOUS
<1> DEFINE Out == (0..N) \ T
<1>1. Out \subseteq Nat /\ Out # {}
  OBVIOUS
<1>2. PICK x \in Out : \A y \in Out : x <= y
  BY <1>1, LeastElement, Zenon
<1>3. x \in 1..N /\ x - 1 \in 0..N /\ ~(x <= x - 1)
  BY <1>2
<1>4. x - 1 \in T
  BY <1>2, <1>3
<1>5. QED  BY <1>2, <1>3, <1>4

(* What is kept of a list are the elements at the positions kept. *)
LEMMA KeptElements ==
  ASSUME NEW S, NEW list \in Seq(S), NEW kept, kept \subseteq DOMAIN list
  PROVE  /\ Kept(list, kept) \in Seq(S)
         /\ {Kept(list, kept)[i] : i \in DOMAIN Kept(list, kept)} = {list[i] : i \in kept}
<1> DEFINE N == Len(list)
           Unrolled(f, k) == IF k = 0 THEN <<>>
                             ELSE IF k \in kept THEN Append(f[k - 1], list[k]) ELSE f[k - 1]
           Upto(f, n) == f \in [0..n -> Seq(S)] /\ \A k \in 0..n : f[k] = Unrolled(f, k)
           Solved(f) == f = [n \in 0..N |-> Unrolled(f, n)]
           upto == CHOOSE f : Solved(f)
           Exact(s, n) == /\ s \in Seq(S)
                          /\ {s[i] : i \in DOMAIN s} = {list[i] : i \in kept \cap 1..n}
<1>1. N \in Nat /\ DOMAIN list = 1..N
  OBVIOUS
<1>2. Kept(list, kept) = upto[N]
  BY DEF Kept
<1> HIDE DEF N, upto
<1>3. \E f : Upto(f, N)
  <2> DEFINE Solvable(n) == \E f : Upto(f, n)
             T == {n \in 0..N : Solvable(n)}
  <2>1. Solvable(0)
    <3>1. Upto([k \in 0..0 |-> <<>>], 0)
      OBVIOUS
    <3>2. QED  BY <3>1
  <2>2. ASSUME NEW n \in 1..N, Solvable(n - 1)  PROVE  Solvable(n)
    <3>1. PICK f : Upto(f, n - 1)
      BY <2>2
    <3> DEFINE g == [k \in 0..n |-> IF k = n THEN Unrolled(f, n) ELSE f[k]]
    <3>2. Unrolled(f, n) \in Seq(S)
      BY <1>1, <3>1
    <3>3. g \in [0..n -> Seq(S)]
      BY <3>1, <3>2
    <3>4. g[0] = <<>> /\ g[n] = Unrolled(f, n) /\ \A k \in 0..n - 1 : g[k] = f[k]
      BY <3>1
    <3>5. ASSUME NEW k \in 0..n  PROVE  g[k] = Unrolled(g, k)
      <4>1. CASE k = 0
        BY <3>4, <4>1
      <4>2. CASE k # 0
        <5> HIDE DEF g
        <5>1. k - 1 \in 0..n - 1 /\ g[k - 1] = f[k - 1]
          BY <3>4, <4>2
        <5>2. Unrolled(g, k) = Unrolled(f, k)
          BY <4>2, <5>1
        <5>3. CASE k = n
          BY <3>4, <5>2, <5>3, Zenon
        <5>4. CASE k # n
          <6>1. k \in 0..n - 1
            BY <5>4
          <6>2. g[k] = f[k] /\ f[k] = Unrolled(f, k)
            BY <3>1, <3>4, <6>1, Zenon
          <6>3. QED  BY <5>2, <6>2, Zenon
        <5>5. QED  BY <5>3, <5>4
      <4>3. QED  BY <4>1, <4>2
    <3> HIDE DEF g
    <3>6. QED  BY <3>3, <3>5
  <2> HIDE DEF Solvable
  <2>3. 0 \in T /\ \A n \in 1..N : n - 1 \in T => n \in T
    BY <1>1, <2>1, <2>2
  <2> HIDE DEF T
  <2>4. N \in T
    BY <1>1, <2>3, Induction
  <2>5. QED  BY <2>4 DEF T, Solvable
<1>4. PICK f : Upto(f, N)
  BY <1>3
<1>5. Solved(f)
  BY <1>4
<1>6. Solved(upto)
  BY <1>5, Zenon DEF upto
<1>7. \A n \in 0..N : upto[n] = Unrolled(upto, n)
  BY <1>6
<1>8. Exact(upto[N], N)
  <2> DEFINE T == {n \in 0..N : Exact(upto[n], n)}
  <2>1. Exact(upto[0], 0)
    <3>1. upto[0] = <<>>
      BY <1>1, <1>7
    <3>2. Exact(<<>>, 0)
      OBVIOUS
    <3>3. QED  BY <3>1, <3>2
  <2>2. ASSUME NEW n \in 1..N, Exact(upto[n - 1], n - 1)  PROVE  Exact(upto[n], n)
    <3> DEFINE s == upto[n - 1]
    <3>1. upto[n] = IF n \in kept THEN Append(s, list[n]) ELSE s
      BY <1>7
    <3>2. s \in Seq(S) /\ {s[i] : i \in DOMAIN s} = {list[i] : i \in kept \cap 1..(n - 1)}
      BY <2>2
    <3> HIDE DEF s
    <3>3. CASE n \in kept
      <4>1. list[n] \in S /\ Len(s) \in Nat /\ DOMAIN s = 1..Len(s)
        BY <1>1, <3>2
      <4>2. DOMAIN Append(s, list[n]) = DOMAIN s \cup {Len(s) + 1}
        BY <3>2, <4>1
      <4>3. /\ \A i \in DOMAIN s : Append(s, list[n])[i] = s[i]
            /\ Append(s, list[n])[Len(s) + 1] = list[n]
        BY <3>2, <4>1
      <4>4. {Append(s, list[n])[i] : i \in DOMAIN Append(s, list[n])}
              = {s[i] : i \in DOMAIN s} \cup {list[n]}
        BY <4>2, <4>3
      <4>5. {list[i] : i \in kept \cap 1..n} = {list[i] : i \in kept \cap 1..(n - 1)} \cup {list[n]}
        BY <1>1, <3>3
      <4>6. Append(s, list[n]) \in Seq(S)
        BY <3>2, <4>1
      <4>7. QED  BY <3>1, <3>2, <3>3, <4>4, <4>5, <4>6
    <3>4. CASE n \notin kept
      <4>1. kept \cap 1..n = kept \cap 1..(n - 1)
        BY <1>1, <3>4
      <4>2. QED  BY <3>1, <3>2, <3>4, <4>1
    <3>5. QED  BY <3>3, <3>4
  <2> HIDE DEF Exact
  <2>3. 0 \in T /\ \A n \in 1..N : n - 1 \in T => n \in T
    BY <1>1, <2>1, <2>2
  <2> HIDE DEF T
  <2>4. N \in T
    BY <1>1, <2>3, Induction
  <2>5. QED  BY <2>4 DEF T
<1>9. kept \cap 1..N = kept
  BY <1>1
<1>10. QED  BY <1>2, <1>8, <1>9

-----------------------------------------------------------------------------
(* The base image. *)

(* discover_server_iso answers with the only line of the newest release, and
   with none while a line is in doubt. *)
LEMMA Discovered ==
  ASSUME NEW listing \in Seq(AnyListLine), NEW found,
         found = Discover(listing), found # NoRelease
  PROVE  /\ found.file \in DOMAIN PointRelease
         /\ found.content \in {"image", "other"}
         /\ \A n \in DOMAIN listing :
              listing[n].file \in DOMAIN PointRelease =>
                IF ~listing[n].form THEN ~listing[n].apart
                ELSE /\ PointRelease[listing[n].file] <= PointRelease[found.file]
                     /\ PointRelease[listing[n].file] = PointRelease[found.file] => listing[n] = found
<1>1. /\ MalformedLines(listing) = {} /\ Cardinality(Latest(listing)) = 1
      /\ found = listing[CHOOSE line \in Latest(listing) : TRUE]
  BY DEF Discover
<1>2. Latest(listing) \subseteq Candidates(listing) /\ Candidates(listing) \subseteq DOMAIN listing
  BY DEF Latest, Candidates, ServerImages
<1>3. IsFiniteSet(Latest(listing))
  <2>1. DOMAIN listing = 1..Len(listing) /\ Len(listing) \in Nat
    OBVIOUS
  <2>2. IsFiniteSet(DOMAIN listing)
    BY <2>1, FS_Interval
  <2>3. QED  BY <1>2, <2>2, FS_Subset
<1>4. PICK line : Latest(listing) = {line}
  BY <1>1, <1>3, FS_Singleton
<1>5. found = listing[line] /\ line \in Candidates(listing)
  BY <1>1, <1>2, <1>4
<1>6. /\ line \in DOMAIN listing /\ found.form /\ found.file \in DOMAIN PointRelease
      /\ found \in AnyListLine
  BY <1>5 DEF Candidates, ServerImages
<1>7. found.content \in {"image", "other"}
  BY <1>6 DEF AnyListLine
<1>8. \A other \in Candidates(listing) :
        PointRelease[listing[other].file] <= PointRelease[found.file]
  BY <1>4, <1>5 DEF Latest
<1>9. ASSUME NEW n \in Candidates(listing),
             PointRelease[listing[n].file] = PointRelease[found.file]
      PROVE  listing[n] = found
  <2>1. n \in Latest(listing)
    BY <1>8, <1>9 DEF Latest
  <2>2. QED  BY <1>4, <1>5, <2>1
<1>10. ASSUME NEW n \in DOMAIN listing, listing[n].file \in DOMAIN PointRelease
       PROVE  IF ~listing[n].form THEN ~listing[n].apart
              ELSE /\ PointRelease[listing[n].file] <= PointRelease[found.file]
                   /\ PointRelease[listing[n].file] = PointRelease[found.file] => listing[n] = found
  <2>1. CASE listing[n].form
    <3>1. n \in Candidates(listing)
      BY <1>10, <2>1 DEF Candidates, ServerImages
    <3>2. QED  BY <1>8, <1>9, <2>1, <3>1
  <2>2. CASE ~listing[n].form
    BY <1>1, <1>10, <2>2, Zenon DEF MalformedLines, ServerImages
  <2>3. QED  BY <2>1, <2>2
<1>11. QED  BY <1>6, <1>7, <1>10

-----------------------------------------------------------------------------
(* The new image. *)

(* No prover here finds a given string in STRING. *)
AnyBlock     == STRING \cup {"new", "changed"}
AnyDisc   == Seq(AnyBlock)
AnyReport == Seq(AnyReportLine)

(* What is known of an image that xorriso has written, however that went. *)
Made(new) ==
  /\ "profile" \in DOMAIN new
  /\ new.of.grub \in Seq(AnyGrubLine) /\ Parses(new.of.grub)
  /\ new.of.sums \in Seq(AnySumLine)
  /\ \/ /\ new.sums = UpdateSums(new.of.sums, Grub, Patch(new.of.grub), Restricted)
        /\ new.sums # NotUpdated
     \/ new.sums = new.of.sums
  /\ new.damaged \subseteq (BaseFiles \cup AddedFiles) \ ({Grub} \cup Restricted)
  /\ new.report \in AnyReport /\ new.of.report \in AnyReport
  /\ new.disc \in AnyDisc /\ new.of.disc \in AnyDisc

(* The fields of what xorriso is asked for. *)
LEMMA WrittenFields ==
  ASSUME NEW w, World(w), NEW grub, NEW sums
  PROVE  LET new == Written(w, grub, sums)
         IN /\ new = [grub |-> new.grub, sums |-> new.sums, profile |-> new.profile,
                      archive |-> new.archive, document |-> new.document, files |-> new.files,
                      damaged |-> new.damaged, report |-> new.report, disc |-> new.disc,
                      of |-> new.of]
            /\ new.sums = sums /\ new.damaged = {} /\ new.of.sums = w.sums
            /\ new.of.grub = w.grub /\ new.of.report = w.report /\ new.of.disc = w.disc
            /\ new.report \in AnyReport /\ new.of.report \in AnyReport
            /\ new.disc \in AnyDisc /\ new.of.disc \in AnyDisc /\ new.disc # <<>>
<1> DEFINE new == Written(w, grub, sums)
           moved == [n \in DOMAIN w.report |-> Replayed(w.report[n])]
<1>1. w.report \in Seq(AnyReportLine) /\ w.disc \in Seq(STRING)
  BY DEF World
<1>2. ASSUME NEW line \in AnyReportLine
      PROVE  Replayed(line) \in AnyReportLine
  <2>1. \A n \in Positive : n + 1 \in Positive
    BY DEF Positive
  <2>2. Replayed(line) = [field \in DOMAIN line |->
                            IF field = "lba" THEN line.lba + 1 ELSE line[field]]
    BY DEF Replayed
  <2>3. CASE line \in [is : {"catalog"}, lba : Positive, blocks : Positive]
    BY <2>1, <2>2, <2>3 DEF AnyReportLine
  <2>4. CASE line \in [is : {"boot img"}, image : Positive, platform : STRING, lba : Positive]
    BY <2>1, <2>2, <2>4 DEF AnyReportLine
  <2>5. CASE "lba" \notin DOMAIN line
    <3>1. line = [field \in DOMAIN line |-> line[field]]
      BY DEF AnyReportLine
    <3>2. Replayed(line) = [field \in DOMAIN line |-> line[field]]
      BY <2>2, <2>5
    <3>3. QED  BY <3>1, <3>2, Zenon
  <2>6. CASE line \in [is : {"img path"}, image : Positive, path : STRING, lba : Positive]
    BY <2>1, <2>2, <2>6 DEF AnyReportLine
  <2>7. QED  BY <2>3, <2>4, <2>5, <2>6 DEF AnyReportLine
<1>3. moved \in Seq(AnyReportLine)
  <2>1. DOMAIN w.report = 1..Len(w.report) /\ Len(w.report) \in Nat
        /\ \A n \in DOMAIN w.report : w.report[n] \in AnyReportLine
    BY <1>1
  <2>2. \A n \in DOMAIN w.report : moved[n] \in AnyReportLine
    BY <1>2, <2>1
  <2>3. moved \in [1..Len(w.report) -> AnyReportLine]
    BY <2>1, <2>2
  <2>4. QED  BY <2>1, <2>3
<1>4. w.disc \in Seq(AnyBlock) /\ <<"new">> \o w.disc \in Seq(AnyBlock) /\ <<"new">> \o w.disc # <<>>
  <2>1. <<"new">> \in Seq(AnyBlock) /\ Len(<<"new">>) = 1
    BY DEF AnyBlock
  <2>2. w.disc \in Seq(AnyBlock)
    BY <1>1 DEF AnyBlock
  <2>3. <<"new">> \o w.disc \in Seq(AnyBlock)
    BY <2>1, <2>2
  <2>4. Len(<<"new">> \o w.disc) = 1 + Len(w.disc) /\ Len(w.disc) \in Nat
    BY <2>1, <2>2
  <2>5. QED  BY <2>2, <2>3, <2>4
<1> HIDE DEF moved
<1>5. /\ new.report = moved /\ new.disc = <<"new">> \o w.disc
      /\ new.sums = sums /\ new.damaged = {} /\ new.of.sums = w.sums
      /\ new.of.grub = w.grub /\ new.of.report = w.report /\ new.of.disc = w.disc
  BY DEF Written, moved
<1>6. new = [grub |-> new.grub, sums |-> new.sums, profile |-> new.profile,
             archive |-> new.archive, document |-> new.document, files |-> new.files,
             damaged |-> new.damaged, report |-> new.report, disc |-> new.disc,
             of |-> new.of]
  BY DEF Written
<1> HIDE DEF new
<1>7. QED  BY <1>1, <1>3, <1>4, <1>5, <1>6 DEF AnyReport, AnyDisc, new

LEMMA FaultyIsMade ==
  ASSUME NEW w, World(w), NEW fault \in PossibleFaults, NEW grub, NEW sums,
         Parses(w.grub), grub = Patch(w.grub), sums = UpdateSums(w.sums, Grub, grub, Restricted), sums # NotUpdated
  PROVE  Made(Faulty(Written(w, grub, sums), fault))
<1> DEFINE new == Written(w, grub, sums)
<1>1. /\ new = [grub |-> new.grub, sums |-> new.sums, profile |-> new.profile,
                archive |-> new.archive, document |-> new.document, files |-> new.files,
                damaged |-> new.damaged, report |-> new.report, disc |-> new.disc,
                of |-> new.of]
      /\ new.sums = sums /\ new.damaged = {} /\ new.of.sums = w.sums
      /\ new.of.grub = w.grub /\ new.of.report = w.report /\ new.of.disc = w.disc
      /\ new.report \in AnyReport /\ new.of.report \in AnyReport
      /\ new.disc \in AnyDisc /\ new.of.disc \in AnyDisc /\ new.disc # <<>>
  BY WrittenFields
<1>2. /\ new.of.grub \in Seq(AnyGrubLine) /\ Parses(new.of.grub)
      /\ new.of.sums \in Seq(AnySumLine)
      /\ new.sums = UpdateSums(new.of.sums, Grub, Patch(new.of.grub), Restricted)
      /\ new.sums # NotUpdated
  BY <1>1 DEF World
<1> HIDE DEF new
<1>3. Made(new)
  BY <1>1, <1>2 DEF Made
<1>4. CASE fault.is = "none"
  <2>1. Faulty(new, fault) = new
    BY <1>4, Zenon DEF Faulty
  <2>2. QED  BY <1>3, <2>1 DEF new
<1>5. CASE fault.is = "old grub"
  <2>1. Faulty(new, fault) = [new EXCEPT !.grub = new.of.grub]
    BY <1>5, Zenon DEF Faulty
  <2>2. Made([new EXCEPT !.grub = new.of.grub])
    BY <1>1, <1>3 DEF Made
  <2>3. QED  BY <2>1, <2>2 DEF new
<1>6. CASE fault.is = "old sums"
  <2>1. Faulty(new, fault) = [new EXCEPT !.sums = new.of.sums]
    BY <1>6, Zenon DEF Faulty
  <2>2. Made([new EXCEPT !.sums = new.of.sums])
    BY <1>1, <1>3 DEF Made
  <2>3. QED  BY <2>1, <2>2 DEF new
<1>7. CASE fault.is = "old places"
  <2>1. Faulty(new, fault) = [new EXCEPT !.report = new.of.report]
    BY <1>7, Zenon DEF Faulty
  <2>2. Made([new EXCEPT !.report = new.of.report])
    BY <1>1, <1>3 DEF Made
  <2>3. QED  BY <2>1, <2>2 DEF new
<1>8. CASE fault.is = "no boot"
  <2>1. Faulty(new, fault) = [new EXCEPT !.report = <<>>]
    BY <1>8, Zenon DEF Faulty
  <2>2. <<>> \in AnyReport
    BY DEF AnyReport
  <2>3. Made([new EXCEPT !.report = <<>>])
    BY <1>1, <1>3, <2>2 DEF Made
  <2>4. QED  BY <2>1, <2>3 DEF new
<1>9. CASE fault.is = "boot image"
  <2> DEFINE disc == [new.disc EXCEPT ![Len(new.disc)] = "changed"]
  <2>1. Faulty(new, fault) = [new EXCEPT !.disc[Len(new.disc)] = "changed"]
    BY <1>9, Zenon DEF Faulty
  <2>2. [new EXCEPT !.disc[Len(new.disc)] = "changed"] = [new EXCEPT !.disc = disc]
    BY <1>1
  <2>3. disc \in AnyDisc
    <3>1. new.disc \in [1..Len(new.disc) -> AnyBlock] /\ Len(new.disc) \in Nat
      BY <1>1 DEF AnyDisc
    <3>2. "changed" \in AnyBlock
      BY DEF AnyBlock
    <3>3. disc \in [1..Len(new.disc) -> AnyBlock]
      BY <3>1, <3>2
    <3>4. QED  BY <3>1, <3>3 DEF AnyDisc
  <2> HIDE DEF disc
  <2>4. Made([new EXCEPT !.disc = disc])
    BY <1>1, <1>3, <2>3 DEF Made
  <2>5. QED  BY <2>1, <2>2, <2>4 DEF new
<1>10. CASE fault.is = "pool kept"
  <2>1. Faulty(new, fault) = [new EXCEPT !.files = new.files \cup Restricted]
    BY <1>10, Zenon DEF Faulty
  <2>2. Made([new EXCEPT !.files = new.files \cup Restricted])
    BY <1>1, <1>3 DEF Made
  <2>3. QED  BY <2>1, <2>2 DEF new
<1>11. CASE fault.is = "lost"
  <2>1. Faulty(new, fault) = [new EXCEPT !.files = new.files \ {fault.file}]
    BY <1>11, Zenon DEF Faulty
  <2>2. Made([new EXCEPT !.files = new.files \ {fault.file}])
    BY <1>1, <1>3 DEF Made
  <2>3. QED  BY <2>1, <2>2 DEF new
<1>12. CASE fault.is = "damaged"
  <2>1. Faulty(new, fault) = [new EXCEPT !.damaged = {fault.file}]
    BY <1>12, Zenon DEF Faulty
  <2>2. fault.file \in (BaseFiles \cup AddedFiles) \ ({Grub} \cup Restricted)
    BY <1>12 DEF PossibleFaults
  <2>3. Made([new EXCEPT !.damaged = {fault.file}])
    BY <1>1, <1>3, <2>2 DEF Made
  <2>4. QED  BY <2>1, <2>3 DEF new
<1>13. QED
  BY <1>4, <1>5, <1>6, <1>7, <1>8, <1>9, <1>10, <1>11, <1>12 DEF PossibleFaults

-----------------------------------------------------------------------------
(* The inductive invariant: what each step of a build can rely on, and what may
   lie in dist/. *)

Fetching   == {"fetch", "keep", "recheck"}
Documented == {"payload", "patch", "sums", "remaster", "inspect", "move", "hash"}
Authentic  == {"validate"} \cup Documented

BaseInv ==
  /\ step \in Fetching \cup Authentic => base = Discover(world.listing) /\ base # NoRelease
  /\ step \in Authentic => cache[base.file] = base.content
  /\ step \in Documented => Validated(world.production, world.ci, world.schema)

ImageInv ==
  /\ step \notin {"sums", "remaster", "inspect", "move"} => image = Nothing
  /\ step \in {"sums", "remaster"} => Parses(world.grub) /\ image.grub = Patch(world.grub)
  /\ step = "remaster" => /\ image.sums = UpdateSums(world.sums, Grub, image.grub, Restricted)
                          /\ image.sums # NotUpdated
  /\ step \in {"inspect", "move"} => Made(image)
  /\ step = "move" => Passes(image, world.profile)

Entry(d) == [image |-> d.image, of |-> d.of, sum |-> d.sum]

DistInv ==
  /\ dist = [profile \in Profiles |-> dist[profile]]
  /\ \A profile \in Profiles :
       /\ dist[profile] = Entry(dist[profile])
       /\ dist[profile].of \in 0..builds /\ dist[profile].sum \in 0..dist[profile].of
       /\ dist[profile].of = 0 => dist[profile].image = Nothing
       /\ dist[profile].of # 0 => Made(dist[profile].image) /\ Passes(dist[profile].image, profile)

IInv ==
  /\ step \in Steps /\ builds \in 0..MaxBuilds
  /\ step # "idle" => builds # 0
  /\ world \in Worlds \cup Later
  /\ cache \in [DOMAIN PointRelease -> {"absent", "partial", "image", "other"}]
  /\ BaseInv /\ ImageInv /\ DistInv

LEMMA IInvInit == Init => IInv
<1> SUFFICES ASSUME Init PROVE IInv
  OBVIOUS
<1>1. BaseInv /\ ImageInv
  BY DEF Init, BaseInv, ImageInv, Fetching, Authentic, Documented
<1>2. DistInv
  <2>1. dist = [profile \in Profiles |-> NeverBuilt]
    BY DEF Init
  <2>2. NeverBuilt = Entry(NeverBuilt) /\ NeverBuilt.of = 0 /\ NeverBuilt.sum = 0
        /\ NeverBuilt.image = Nothing
    BY DEF NeverBuilt, Entry
  <2>3. builds = 0
    BY DEF Init
  <2>4. QED  BY <2>1, <2>2, <2>3 DEF DistInv
<1>3. QED  BY <1>1, <1>2, BuildsAssumption DEF Init, IInv, Steps

LEMMA BaseInvStep ==
  ASSUME IInv, Next
  PROVE  BaseInv'
<1> USE DEF IInv, BaseInv, Fetching, Authentic, Documented, Check, Stop, inputs
<1>1. CASE Start
  BY <1>1 DEF Start
<1>2. CASE DiscoverBase
  BY <1>2 DEF DiscoverBase
<1>3. CASE Fetch
  BY <1>3 DEF Fetch
<1>4. CASE Keep
  BY <1>4 DEF Keep
<1>5. CASE Recheck
  BY <1>5 DEF Recheck
<1>6. CASE ValidateAutoinstall
  BY <1>6 DEF ValidateAutoinstall
<1>7. CASE InspectPayload
  BY <1>7 DEF InspectPayload
<1>8. CASE PatchGrub
  BY <1>8 DEF PatchGrub
<1>9. CASE RewriteSums
  BY <1>9 DEF RewriteSums
<1>10. CASE Remaster
  BY <1>10 DEF Remaster
<1>11. CASE Inspect
  BY <1>11 DEF Inspect
<1>12. CASE Move
  BY <1>12 DEF Move
<1>13. CASE Hash
  BY <1>13 DEF Hash
<1>14. CASE Crash
  BY <1>14 DEF Crash
<1>15. QED  BY <1>1, <1>2, <1>3, <1>4, <1>5, <1>6, <1>7, <1>8, <1>9, <1>10, <1>11, <1>12,
                <1>13, <1>14 DEF Next

LEMMA ImageInvStep ==
  ASSUME IInv, Next
  PROVE  ImageInv'
<1> USE DEF IInv, ImageInv, Check, Stop, inputs
<1>1. CASE Start
  BY <1>1 DEF Start
<1>2. CASE DiscoverBase
  BY <1>2 DEF DiscoverBase
<1>3. CASE Fetch
  BY <1>3 DEF Fetch
<1>4. CASE Keep
  BY <1>4 DEF Keep
<1>5. CASE Recheck
  BY <1>5 DEF Recheck
<1>6. CASE ValidateAutoinstall
  BY <1>6 DEF ValidateAutoinstall
<1>7. CASE InspectPayload
  BY <1>7 DEF InspectPayload
<1>8. CASE PatchGrub
  BY <1>8 DEF PatchGrub
<1>9. CASE RewriteSums
  BY <1>9 DEF RewriteSums
<1>10. CASE Remaster
  <2>1. PICK fault \in Faults : image' = Faulty(Written(world, image.grub, image.sums), fault)
    BY <1>10 DEF Remaster
  <2>2. World(world) /\ fault \in PossibleFaults
    BY WorldsAssumption, FaultsAssumption
  <2>3. /\ step = "remaster" /\ step' = "inspect" /\ UNCHANGED <<builds, world>>
    BY <1>10 DEF Remaster
  <2>4. Parses(world.grub) /\ image.grub = Patch(world.grub)
        /\ image.sums = UpdateSums(world.sums, Grub, image.grub, Restricted)
        /\ image.sums # NotUpdated
    BY <2>3
  <2>5. Made(image')
    BY <2>1, <2>2, <2>4, FaultyIsMade
  <2>6. QED  BY <2>3, <2>5
<1>11. CASE Inspect
  BY <1>11 DEF Inspect
<1>12. CASE Move
  BY <1>12 DEF Move
<1>13. CASE Hash
  BY <1>13 DEF Hash
<1>14. CASE Crash
  BY <1>14 DEF Crash
<1>15. QED  BY <1>1, <1>2, <1>3, <1>4, <1>5, <1>6, <1>7, <1>8, <1>9, <1>10, <1>11, <1>12,
                <1>13, <1>14 DEF Next

(* dist/ changes where a build puts its image, or the checksum of it. *)
LEMMA DistChanges ==
  ASSUME DistInv, NEW n \in Nat, builds <= n, builds' = n, builds \in Nat,
         NEW profile \in Profiles, NEW d,
         dist' = [dist EXCEPT ![profile] = d],
         d = Entry(d), d.of \in 0..n, d.sum \in 0..d.of, d.of = 0 => d.image = Nothing,
         d.of # 0 => Made(d.image) /\ Passes(d.image, profile)
  PROVE  DistInv'
<1>1. dist' = [p \in Profiles |-> IF p = profile THEN d ELSE dist[p]]
  BY DEF DistInv
<1>2. dist'[profile] = d /\ \A p \in Profiles : p # profile => dist'[p] = dist[p]
  BY <1>1
<1>3. dist' = [p \in Profiles |-> dist'[p]]
  BY <1>1
<1>4. ASSUME NEW p \in Profiles
      PROVE  /\ dist'[p] = Entry(dist'[p])
             /\ dist'[p].of \in 0..builds' /\ dist'[p].sum \in 0..dist'[p].of
             /\ dist'[p].of = 0 => dist'[p].image = Nothing
             /\ dist'[p].of # 0 => Made(dist'[p].image) /\ Passes(dist'[p].image, p)
  <2>1. CASE p = profile
    BY <1>2, <2>1
  <2>2. CASE p # profile
    <3>1. dist'[p] = dist[p]
      BY <1>2, <2>2
    <3>2. dist[p].of \in 0..builds'
      BY DEF DistInv
    <3>3. QED  BY <3>1, <3>2 DEF DistInv
  <2>3. QED  BY <2>1, <2>2
<1>5. QED  BY <1>3, <1>4 DEF DistInv

LEMMA ChecksumChanges ==
  ASSUME NEW d, d = Entry(d), NEW sum
  PROVE  [d EXCEPT !.sum = sum] = [image |-> d.image, of |-> d.of, sum |-> sum]
BY DEF Entry

LEMMA DistInvStep ==
  ASSUME IInv, Next
  PROVE  DistInv'
<1>1. world.profile \in Profiles /\ builds \in Nat /\ (step # "idle" => builds # 0)
  BY WorldsAssumption, BuildsAssumption DEF IInv, World
<1> DEFINE profile == world.profile
           before == dist[profile]
<1>2. /\ before = Entry(before) /\ before.of \in 0..builds /\ before.sum \in 0..before.of
      /\ before.of = 0 => before.image = Nothing
      /\ before.of # 0 => Made(before.image) /\ Passes(before.image, profile)
  BY <1>1 DEF IInv, DistInv
<1>3. CASE Move
  <2> DEFINE d == [image |-> image, of |-> builds, sum |-> before.sum]
  <2>1. dist' = [dist EXCEPT ![profile] = d]
    BY <1>3 DEF Move
  <2>2. Made(d.image) /\ Passes(d.image, profile)
    BY <1>3 DEF Move, IInv, ImageInv
  <2>3. d = Entry(d) /\ d.of \in 0..builds /\ d.sum \in 0..d.of /\ d.of # 0
    BY <1>1, <1>2, <1>3 DEF Entry, Move
  <2>4. builds' = builds
    BY <1>3 DEF Move, inputs
  <2>5. DistInv /\ profile \in Profiles /\ builds <= builds /\ builds \in Nat
    BY <1>1 DEF IInv
  <2> HIDE DEF d, profile
  <2>6. QED  BY <2>1, <2>2, <2>3, <2>4, <2>5, DistChanges
<1>4. ASSUME NEW sum \in {0, before.of}, dist' = [dist EXCEPT ![profile].sum = sum],
             builds' = builds
      PROVE  DistInv'
  <2> DEFINE d == [image |-> before.image, of |-> before.of, sum |-> sum]
  <2>1. dist' = [dist EXCEPT ![profile] = d]
    <3>1. [before EXCEPT !.sum = sum] = d
      BY <1>2, ChecksumChanges
    <3>2. [dist EXCEPT ![profile].sum = sum]
            = [dist EXCEPT ![profile] = [dist[profile] EXCEPT !.sum = sum]]
      BY <1>1 DEF IInv, DistInv
    <3>3. QED  BY <1>4, <3>1, <3>2
  <2>2. /\ d = Entry(d) /\ d.of \in 0..builds /\ d.sum \in 0..d.of
        /\ d.of = 0 => d.image = Nothing
        /\ d.of # 0 => Made(d.image) /\ Passes(d.image, profile)
    BY <1>2, <1>4 DEF Entry
  <2>3. DistInv /\ profile \in Profiles /\ builds <= builds /\ builds \in Nat
    BY <1>1 DEF IInv
  <2> HIDE DEF d, profile
  <2>4. QED  BY <1>4, <2>1, <2>2, <2>3, DistChanges
<1>5. CASE Hash
  BY <1>4, <1>5 DEF Hash, inputs
<1>6. ASSUME UNCHANGED dist, builds' \in Nat, builds <= builds'
      PROVE  DistInv'
  <2>1. \A p \in Profiles : dist[p].of \in 0..builds'
    BY <1>1, <1>6 DEF IInv, DistInv
  <2>2. QED  BY <1>6, <2>1 DEF IInv, DistInv
<1>7. CASE Crash
  BY <1>1, <1>4, <1>6, <1>7 DEF Crash, inputs
<1>8. CASE Start
  BY <1>1, <1>6, <1>8 DEF Start
<1>9. CASE UNCHANGED <<builds, dist>>
  BY <1>1, <1>6, <1>9
<1>10. QED
  BY <1>3, <1>5, <1>7, <1>8, <1>9
     DEF Next, DiscoverBase, Fetch, Keep, Recheck, ValidateAutoinstall, InspectPayload, PatchGrub,
         RewriteSums, Remaster, Inspect, Check, inputs

LEMMA IInvStep == IInv /\ [Next]_vars => IInv'
<1> SUFFICES ASSUME IInv, [Next]_vars PROVE IInv'
  OBVIOUS
<1>1. CASE Next
  <2>1. BaseInv' /\ ImageInv' /\ DistInv'
    BY <1>1, BaseInvStep, ImageInvStep, DistInvStep
  <2>2. (step \in Steps /\ (step # "idle" => builds # 0))'
    BY <1>1 DEF IInv, Next, Start, DiscoverBase, Fetch, Keep, Recheck, ValidateAutoinstall,
                InspectPayload, PatchGrub, RewriteSums, Remaster, Inspect, Move, Hash, Crash,
                Check, Stop, inputs, Steps
  <2>3. builds' \in 0..MaxBuilds
    BY <1>1, BuildsAssumption
       DEF IInv, Next, Start, DiscoverBase, Fetch, Keep, Recheck, ValidateAutoinstall,
           InspectPayload, PatchGrub, RewriteSums, Remaster, Inspect, Move, Hash, Crash, Check, inputs
  <2>4. world' \in Worlds \cup Later
    BY <1>1 DEF IInv, Next, Start, DiscoverBase, Fetch, Keep, Recheck, ValidateAutoinstall,
                InspectPayload, PatchGrub, RewriteSums, Remaster, Inspect, Move, Hash, Crash,
                Check, inputs
  <2>5. cache' \in [DOMAIN PointRelease -> {"absent", "partial", "image", "other"}]
    <3>1. CASE step = "keep"
      <4>1. base.content \in {"image", "other"}
        BY <3>1, WorldsAssumption, Discovered DEF IInv, BaseInv, Fetching, World
      <4>2. QED
        BY <1>1, <3>1, <4>1
           DEF IInv, Next, Start, DiscoverBase, Fetch, Keep, Recheck, ValidateAutoinstall,
               InspectPayload, PatchGrub, RewriteSums, Remaster, Inspect, Move, Hash, Crash, Check
    <3>2. CASE step # "keep"
      BY <1>1, <3>2
         DEF IInv, Next, Start, DiscoverBase, Fetch, Keep, Recheck, ValidateAutoinstall,
             InspectPayload, PatchGrub, RewriteSums, Remaster, Inspect, Move, Hash, Crash, Check
    <3>3. QED  BY <3>1, <3>2
  <2>6. QED  BY <2>1, <2>2, <2>3, <2>4, <2>5 DEF IInv
<1>2. CASE UNCHANGED vars
  BY <1>2 DEF vars, inputs, IInv, BaseInv, ImageInv, DistInv
<1>3. QED  BY <1>1, <1>2

LEMMA Invariance == Spec => []IInv
<1>1. QED  BY IInvInit, IInvStep, PTL DEF Spec

(* What the steps from the fetching on work with. *)
LEMMA KnownBase ==
  ASSUME IInv, step \notin {"idle", "discover"}
  PROVE  /\ base.file \in DOMAIN PointRelease
         /\ \A n \in DOMAIN world.listing :
              world.listing[n].file \in DOMAIN PointRelease =>
                IF ~world.listing[n].form THEN ~world.listing[n].apart
                ELSE /\ PointRelease[world.listing[n].file] <= PointRelease[base.file]
                     /\ PointRelease[world.listing[n].file] = PointRelease[base.file]
                          => world.listing[n] = base
<1>1. step \in Fetching \cup Authentic
  BY DEF IInv, Steps, Fetching, Authentic, Documented
<1>2. base = Discover(world.listing) /\ base # NoRelease /\ world.listing \in Seq(AnyListLine)
  BY <1>1, WorldsAssumption DEF IInv, BaseInv, World
<1>3. QED  BY <1>2, Discovered

(* Whatever the builds meet and wherever they stop, dist/ holds for each
   profile nothing or an image of a build that there was, and the temporary
   directory is empty outside of a build. *)
THEOREM TypeCorrect == Spec => []MediaTypeOK
<1>1. IInv => MediaTypeOK
  <2> SUFFICES ASSUME IInv PROVE MediaTypeOK
    OBVIOUS
  <2>1. ASSUME NEW profile \in Profiles
        PROVE  /\ dist[profile].of \in 0..builds /\ dist[profile].sum \in 0..dist[profile].of
               /\ dist[profile].of = 0 <=> dist[profile].image = Nothing
    <3>1. ~ Made(Nothing)
      BY DEF Made, Nothing
    <3>2. QED  BY <3>1 DEF IInv, DistInv
  <2>2. step \notin {"idle", "discover"} => base.file \in DOMAIN PointRelease
    BY KnownBase
  <2>3. step \in {"idle", "discover", "fetch", "keep", "recheck", "validate", "payload", "patch", "hash"}
          => image = Nothing
    BY DEF IInv, ImageInv
  <2>4. QED  BY <2>1, <2>2, <2>3 DEF IInv, MediaTypeOK
<1>2. QED  BY <1>1, Invariance, PTL

(* A build goes on with nothing but the image that the signed list names for
   its newest release: for any list, any numbering of the releases, and
   whatever an earlier build or a power failure has left in the cache. *)
THEOREM BaseIsAuthentic == Spec => []AuthenticBase
<1>1. IInv => AuthenticBase
  <2> SUFFICES ASSUME IInv, step \notin {"idle", "discover", "fetch", "keep", "recheck"}
               PROVE  /\ cache[base.file] = base.content
                      /\ \A n \in DOMAIN world.listing :
                           world.listing[n].file \in DOMAIN PointRelease =>
                             IF ~world.listing[n].form THEN ~world.listing[n].apart
                             ELSE /\ PointRelease[world.listing[n].file] <= PointRelease[base.file]
                                  /\ PointRelease[world.listing[n].file] = PointRelease[base.file]
                                       => world.listing[n] = base
    BY DEF AuthenticBase
  <2>1. step \in Authentic
    BY DEF IInv, Steps, Authentic, Documented
  <2>2. cache[base.file] = base.content
    BY <2>1 DEF IInv, BaseInv
  <2>3. QED  BY <2>2, KnownBase
<1>2. QED  BY <1>1, Invariance, PTL

(* An image that a release may take was written by xorriso, in whatever way,
   and the inspection let it pass. *)
LEMMA AcceptedPasses ==
  ASSUME IInv, NEW new \in Accepted
  PROVE  Made(new) /\ \E profile \in Profiles : Passes(new, profile)
<1>1. CASE step = "move" /\ new = image
  BY <1>1, WorldsAssumption DEF IInv, ImageInv, World
<1>2. CASE \E profile \in Released : new = dist[profile].image
  BY <1>2 DEF Released, IInv, DistInv
<1>3. QED  BY <1>1, <1>2 DEF Accepted

(* Media that users get never run in test mode, carry no archive of images, and
   no tag of Gladys but v5: whatever archive the payload was built as. *)
THEOREM NoFixtures == Spec => []NoFixtureReleased
<1>1. IInv => NoFixtureReleased
  <2> SUFFICES ASSUME IInv, NEW new \in Accepted, new.profile # "ci-smoke"
               PROVE  /\ Paths(new.archive)
                           \cap {TestMode, "opt/gladys/layer.tar", "opt/gladys/image.oci"} = {}
                      /\ \A n \in DOMAIN new.archive :
                           new.archive[n].small /\ new.archive[n].type = "file"
                             => "4" \notin new.archive[n].says
    BY DEF NoFixtureReleased
  <2>1. PICK profile \in Profiles : Passes(new, profile)
    BY AcceptedPasses
  <2>2. Clean(new.archive)
    BY <2>1 DEF Passes, Inspected
  <2>3. {TestMode, "opt/gladys/layer.tar", "opt/gladys/image.oci"} \subseteq Forbidden
    BY DEF TestMode, Forbidden, Fixtures, Programs
  <2>4. ASSUME NEW n \in DOMAIN new.archive, new.archive[n].small, new.archive[n].type = "file",
               "4" \in new.archive[n].says
        PROVE  FALSE
    <3>1. "4" \in Text(new.archive)
      BY <2>4, Zenon DEF Text
    <3>2. QED  BY <2>2, <3>1 DEF Clean, Tags
  <2>5. QED  BY <2>2, <2>3, <2>4 DEF Clean
<1>2. QED  BY <1>1, Invariance, PTL

(* What lies in dist/ under a checksum of its own was inspected, over any number
   of builds that stop anywhere, and however xorriso went wrong. *)
THEOREM Inspection == Spec => []ReleasedIsInspected
<1>1. IInv => ReleasedIsInspected
  <2> SUFFICES ASSUME IInv, NEW profile \in Released, NEW new, new = dist[profile].image
               PROVE  /\ new.profile = profile
                      /\ new.damaged \subseteq {"pool/main/base", SignedIndex}
                      /\ new.files \cap Restricted = {} /\ AddedFiles \cup BootChain \subseteq new.files
    BY DEF ReleasedIsInspected
  <2>1. Made(new) /\ Passes(new, profile)
    BY DEF Released, IInv, DistInv
  <2>2. new.damaged \subseteq (BaseFiles \cup AddedFiles) \ ({Grub} \cup Restricted)
    BY <2>1 DEF Made
  <2>3. new.damaged \cap (BootChain \cup AddedFiles) = {}
    BY <2>1 DEF Passes
  <2>4. new.damaged \subseteq {"pool/main/base", SignedIndex}
    BY <2>2, <2>3 DEF BaseFiles
  <2>5. QED  BY <2>1, <2>4 DEF Passes
<1>2. QED  BY <1>1, Invariance, PTL

-----------------------------------------------------------------------------
(* The documents. *)

LEMMA IndexIsFirst ==
  ASSUME NEW commands \in Seq(STRING), NEW command
  PROVE  LET at == {n \in DOMAIN commands : commands[n] = command}
         IN IF at = {} THEN Index(commands, command) = Len(commands) + 1
            ELSE Index(commands, command) \in at /\ \A n \in at : Index(commands, command) <= n
<1> DEFINE at == {n \in DOMAIN commands : commands[n] = command}
           Least(n) == n \in at /\ \A m \in at : n <= m
<1>1. CASE at = {}
  BY <1>1 DEF Index
<1>2. CASE at # {}
  <2>1. at \subseteq Nat
    OBVIOUS
  <2>2. \E n : Least(n)
    BY <1>2, <2>1, LeastElement
  <2>3. Index(commands, command) = CHOOSE n \in at : \A m \in at : n <= m
    BY <1>2 DEF Index
  <2>4. Least(CHOOSE n \in at : \A m \in at : n <= m)
    BY <2>2
  <2>5. QED  BY <1>2, <2>3, <2>4
<1>3. QED  BY <1>1, <1>2

(* An extraction has a verification in front of it. *)
LEMMA VerifiedBefore ==
  ASSUME NEW commands \in Seq(STRING), VerifiesFirst(commands),
         NEW n \in DOMAIN commands, commands[n] = "extract"
  PROVE  \E m \in 1..n - 1 : commands[m] = "verify"
<1>1. Index(commands, "extract") <= n /\ n <= Len(commands)
  BY IndexIsFirst
<1>2. Index(commands, "verify") < Index(commands, "extract")
  BY DEF VerifiesFirst
<1>3. {m \in DOMAIN commands : commands[m] = "verify"} # {}
  <2>1. SUFFICES ASSUME {m \in DOMAIN commands : commands[m] = "verify"} = {} PROVE FALSE
    OBVIOUS
  <2>2. Index(commands, "verify") = Len(commands) + 1
    BY <2>1, IndexIsFirst
  <2>3. Index(commands, "extract") \in Nat
    <3>1. n \in {m \in DOMAIN commands : commands[m] = "extract"}
      OBVIOUS
    <3>2. QED  BY <3>1, IndexIsFirst
  <2>4. QED  BY <1>1, <1>2, <2>2, <2>3
<1>4. Index(commands, "verify") \in DOMAIN commands /\ commands[Index(commands, "verify")] = "verify"
  BY <1>3, IndexIsFirst
<1>5. Index(commands, "extract") \in Nat
  <2>1. n \in {m \in DOMAIN commands : commands[m] = "extract"}
    OBVIOUS
  <2>2. QED  BY <2>1, IndexIsFirst
<1>6. Index(commands, "verify") \in 1..n - 1
  BY <1>1, <1>2, <1>4, <1>5
<1>7. QED  BY <1>4, <1>6

(* Without the storage screen four sections are left, the account among them. *)
LEMMA SectionsLeft ==
  /\ WithoutStorage(Interactive) \notin {Interactive, <<>>}
  /\ \E n \in DOMAIN WithoutStorage(Interactive) : WithoutStorage(Interactive)[n] = "identity"
  /\ \E n \in DOMAIN Interactive : Interactive[n] = "identity"
<1> DEFINE S == {"locale", "keyboard", "storage", "identity", "ssh"}
           kept == {n \in DOMAIN Interactive : Interactive[n] # "storage"}
           left == WithoutStorage(Interactive)
           Said(s) == {s[n] : n \in DOMAIN s}
<1>1. Interactive \in Seq(S) /\ DOMAIN Interactive = 1..5
      /\ Interactive[3] = "storage" /\ Interactive[4] = "identity"
  BY DEF Interactive
<1>2. kept \subseteq DOMAIN Interactive /\ 4 \in kept
  BY <1>1
<1>3. left = Kept(Interactive, kept)
  BY Zenon DEF WithoutStorage
<1> HIDE DEF left, S, kept
<1>4. {left[n] : n \in DOMAIN left} = {Interactive[n] : n \in kept}
  <2>1. {Kept(Interactive, kept)[n] : n \in DOMAIN Kept(Interactive, kept)}
          = {Interactive[n] : n \in kept}
    BY <1>1, <1>2, KeptElements, Zenon
  <2>2. QED  BY <1>3, <2>1
<1>5. "storage" \in Said(Interactive) /\ "storage" \notin Said(left)
  BY <1>1, <1>4 DEF kept
<1>6. \E n \in DOMAIN left : left[n] = "identity"
  BY <1>1, <1>2, <1>4
<1>7. left # Interactive /\ left # <<>>
  BY <1>5, <1>6
<1>8. \E n \in DOMAIN Interactive : Interactive[n] = "identity"
  BY <1>1
<1>9. QED  BY <1>6, <1>7, <1>8 DEF left

(* The fields of a document that the safety checks leave one value. *)
LEMMA SafeFields ==
  ASSUME NEW document, Safe(document)
  PROVE  /\ document.identity = "none" /\ document.match = "none"
         /\ VerifiesFirst(document.late)
         /\ {"late", "rest", "identity", "interactive", "match"} \subseteq DOMAIN document
<1>1. document = [Production EXCEPT !.late = document.late, !.rest = document.rest,
                                    !.valid = document.valid]
  BY Zenon DEF Safe
<1>2. PICK late, rest, valid :
        document = [Production EXCEPT !.late = late, !.rest = rest, !.valid = valid]
  BY <1>1, Zenon
<1>3. DOMAIN document = DOMAIN Production /\ document.identity = Production.identity
      /\ document.match = Production.match
  BY <1>2 DEF Production
<1>4. /\ Production.identity = "none" /\ Production.match = "none"
      /\ {"late", "rest", "identity", "interactive", "match"} \subseteq DOMAIN Production
  BY DEF Production
<1>5. VerifiesFirst(document.late)
  BY Zenon DEF Safe
<1>6. QED  BY <1>3, <1>4, <1>5

LEMMA Rewritten ==
  ASSUME NEW document, {"late", "identity", "interactive", "match"} \subseteq DOMAIN document,
         NEW sections, NEW disk, NEW rewritten,
         rewritten = [document EXCEPT !.interactive = sections, !.match = disk]
  PROVE  /\ rewritten.interactive = sections /\ rewritten.match = disk
         /\ rewritten.identity = document.identity /\ rewritten.late = document.late
OBVIOUS

(* The documents a build goes on with are safe to install from, the one that the
   early command makes on a machine with one disk included. *)
THEOREM SafeInstall == Spec => []AcceptedInstallIsSafe
<1>1. IInv => AcceptedInstallIsSafe
  <2> DEFINE document == world.production
             single == EarlyCommand(document, "sda")
             Asked(d) == {d.interactive[n] : n \in DOMAIN d.interactive}
             Fine(d) == /\ "identity" \in Asked(d) /\ d.identity = "none"
                        /\ "storage" \in Asked(d) \/ d.match = "sda"
                        /\ \A n \in DOMAIN d.late :
                             d.late[n] = "extract" => \E m \in 1..n - 1 : d.late[m] = "verify"
  <2> SUFFICES ASSUME IInv, step \in Documented PROVE AcceptedInstallIsSafe
    BY DEF AcceptedInstallIsSafe, Documented
  <2>1. /\ Validated(document, world.ci, world.schema) /\ document.late \in Seq(STRING)
    BY WorldsAssumption DEF IInv, BaseInv, World
  <2>2. /\ Safe(document) /\ document.interactive = Interactive
        /\ [world.ci EXCEPT !.interactive = Interactive, !.identity = "none"] = document
    BY <2>1, Zenon DEF Validated
  <2> HIDE DEF document
  <2>3. /\ document.identity = "none" /\ document.match = "none"
        /\ VerifiesFirst(document.late)
        /\ {"late", "rest", "identity", "interactive", "match"} \subseteq DOMAIN document
    BY <2>2, SafeFields
  <2>4. \A n \in DOMAIN document.late :
          document.late[n] = "extract" => \E m \in 1..n - 1 : document.late[m] = "verify"
    BY <2>1, <2>3, VerifiedBefore
  <2>5. single = [document EXCEPT !.interactive = WithoutStorage(Interactive), !.match = "sda"]
    BY <2>2, SectionsLeft, Zenon DEF EarlyCommand
  <2>6. /\ single.interactive = WithoutStorage(Interactive) /\ single.match = "sda"
        /\ single.identity = "none" /\ single.late = document.late
    BY <2>2, <2>3, <2>5, Rewritten
  <2>7. Fine(single)
    BY <2>4, <2>6, SectionsLeft, Zenon
  <2>8. Fine(document)
    <3>1. "storage" \in Asked(document)
      <4>1. Interactive[3] = "storage" /\ 3 \in DOMAIN Interactive
        BY DEF Interactive
      <4>2. QED  BY <2>2, <4>1, Zenon
    <3>2. QED  BY <2>2, <2>3, <2>4, <3>1, SectionsLeft, Zenon
  <2>9. world.ci.late = document.late /\ world.ci.rest = document.rest
    <3>1. /\ DOMAIN world.ci = DOMAIN document
          /\ \A field \in DOMAIN world.ci :
               field \notin {"interactive", "identity"} => document[field] = world.ci[field]
      BY <2>2
    <3>2. "late" \in DOMAIN world.ci /\ "rest" \in DOMAIN world.ci
      BY <2>3, <3>1
    <3>3. QED  BY <3>1, <3>2
  <2>10. document = world.production /\ single = EarlyCommand(world.production, "sda")
    BY Zenon DEF document
  <2> HIDE DEF single, Fine
  <2>11. \A d \in {document, single} : Fine(d)
    BY <2>7, <2>8, Zenon
  <2>12. QED  BY <2>3, <2>6, <2>9, <2>10, <2>11, Zenon DEF AcceptedInstallIsSafe, Fine
<1>2. QED  BY <1>1, Invariance, PTL

-----------------------------------------------------------------------------
(* The checksums of the media. *)

Dropped(sums, directory) == {i \in DOMAIN sums : sums[i].form /\ sums[i].file \in directory}

SameSubject(line, old) == line.file = old.file /\ line.form = old.form

(* The lines of the new list are those of the old that are not dropped, but for
   the content of the patched file. *)
LEMMA UpdatedLines ==
  ASSUME NEW sums \in Seq(AnySumLine), NEW content, NEW directory, NEW new,
         new = UpdateSums(sums, Grub, content, directory), new # NotUpdated
  PROVE  /\ \A n \in DOMAIN new : \E i \in DOMAIN sums \ Dropped(sums, directory) :
              SameSubject(new[n], sums[i]) /\ (sums[i].file # Grub => new[n] = sums[i])
         /\ \A i \in DOMAIN sums \ Dropped(sums, directory) :
              \E n \in DOMAIN new : SameSubject(new[n], sums[i])
<1> DEFINE updated == UpdateChecksum(sums, Grub, content)
           S == {updated[i] : i \in DOMAIN updated}
           dropped == Dropped(sums, directory)
           kept == {i \in DOMAIN updated : ~(updated[i].form /\ updated[i].file \in directory)}
<1>1. updated # NotUpdated /\ new = Kept(updated, kept)
  BY Zenon DEF UpdateSums, DropEntries
<1>2. updated = [i \in DOMAIN sums |->
                   IF Names(sums[i], Grub) THEN [sums[i] EXCEPT !.content = content] ELSE sums[i]]
  BY <1>1, Zenon DEF UpdateChecksum
<1>3. DOMAIN sums = 1..Len(sums) /\ Len(sums) \in Nat
      /\ \A i \in DOMAIN sums : sums[i] \in AnySumLine
  OBVIOUS
<1> HIDE DEF updated
<1>4. ASSUME NEW i \in DOMAIN sums
      PROVE  /\ SameSubject(updated[i], sums[i])
             /\ sums[i].file # Grub => updated[i] = sums[i]
  <2>1. CASE Names(sums[i], Grub)
    <3>1. updated[i] = [sums[i] EXCEPT !.content = content]
      BY <1>2, <2>1, Zenon
    <3>2. DOMAIN sums[i] = {"form", "file", "dotted", "content"}
      BY <1>3 DEF AnySumLine
    <3>3. updated[i].file = sums[i].file
      BY <3>1, <3>2
    <3>4. updated[i].form = sums[i].form
      BY <3>1, <3>2, Zenon
    <3>5. sums[i].file = Grub
      BY <2>1, Zenon DEF Names
    <3>6. QED  BY <3>3, <3>4, <3>5, Zenon DEF SameSubject
  <2>2. CASE ~Names(sums[i], Grub)
    BY <1>2, <2>2, Zenon DEF SameSubject
  <2>3. QED  BY <2>1, <2>2, Zenon
<1>5. DOMAIN updated = DOMAIN sums
  BY <1>2, Zenon
<1>6. kept = DOMAIN sums \ dropped
  BY <1>4, <1>5, Zenon DEF Dropped, SameSubject
<1>7. updated \in Seq(S)
  <2>1. updated \in [1..Len(sums) -> S]
    BY <1>2, <1>3, <1>5
  <2>2. QED  BY <1>3, <2>1
<1> HIDE DEF S, kept, dropped
<1>8. {new[n] : n \in DOMAIN new} = {updated[i] : i \in kept}
  <2>1. kept \subseteq DOMAIN updated
    BY DEF kept
  <2>2. {Kept(updated, kept)[n] : n \in DOMAIN Kept(updated, kept)} = {updated[i] : i \in kept}
    BY <1>7, <2>1, KeptElements, Zenon
  <2>3. QED  BY <1>1, <2>2
<1>9. ASSUME NEW n \in DOMAIN new
      PROVE  \E i \in DOMAIN sums \ dropped :
               SameSubject(new[n], sums[i]) /\ (sums[i].file # Grub => new[n] = sums[i])
  <2>1. PICK i \in kept : new[n] = updated[i]
    BY <1>8
  <2>2. i \in DOMAIN sums
    BY <1>6
  <2>3. QED  BY <1>4, <1>6, <2>1, <2>2, Zenon
<1>10. ASSUME NEW i \in DOMAIN sums \ dropped
       PROVE  \E n \in DOMAIN new : SameSubject(new[n], sums[i])
  <2>1. PICK n \in DOMAIN new : new[n] = updated[i]
    BY <1>6, <1>8
  <2>2. QED  BY <1>4, <2>1, Zenon
<1>11. QED  BY <1>9, <1>10, Zenon DEF dropped

(* Whatever lines a list that held of the base has, whether or not xorriso has
   put the new one in place and whatever it has damaged: the check of an accepted
   image stops at the damaged files that are listed, and at nothing else, and
   the list has all that stays. *)
THEOREM MediaCheck == Spec => []MediaCheckIsExact
<1>1. IInv => MediaCheckIsExact
  <2> SUFFICES ASSUME IInv, NEW new \in Accepted,
                      Mismatched(new.of.sums, new.of.grub, BaseFiles, {}) = {}
               PROVE  /\ Mismatched(new.sums, new.grub, new.files, new.damaged)
                           = new.damaged \cap {new.sums[n].file : n \in Lines(new.sums)}
                      /\ {new.sums[n].file : n \in Lines(new.sums)}
                           = {new.of.sums[n].file : n \in Lines(new.of.sums)} \ Restricted
                      /\ {new.sums[n].file : n \in DOMAIN new.sums}
                           = {new.of.sums[n].file : n \in DOMAIN new.of.sums} \ Restricted
    BY Zenon DEF MediaCheckIsExact
  <2> DEFINE sums == new.sums
             old == new.of.sums
             dropped == Dropped(old, Restricted)
  <2>1. Made(new) /\ \E profile \in Profiles : Passes(new, profile)
    BY AcceptedPasses
  <2>2. /\ SumsInspected(sums, Grub, new.grub, new.files)
        /\ MatchesBase(new.of.grub, new.grub) /\ new.files \cap Restricted = {}
    BY <2>1, Zenon DEF Passes
  <2>3. \A n \in DOMAIN sums :
          (sums[n].file = Grub => sums[n].content = new.grub) /\ sums[n].file \in new.files
    BY <2>2, Zenon DEF SumsInspected
  <2>4. /\ \A n \in DOMAIN sums : \E i \in DOMAIN old \ dropped :
             SameSubject(sums[n], old[i]) /\ (old[i].file # Grub => sums[n] = old[i])
        /\ \A i \in DOMAIN old \ dropped : old[i].file \notin Restricted
             => \E n \in DOMAIN sums : SameSubject(sums[n], old[i])
    <3>1. CASE sums = UpdateSums(old, Grub, Patch(new.of.grub), Restricted) /\ sums # NotUpdated
      <4>1. old \in Seq(AnySumLine)
        BY <2>1 DEF Made
      <4> HIDE DEF sums, old
      <4>2. /\ \A n \in DOMAIN sums : \E i \in DOMAIN old \ Dropped(old, Restricted) :
                 SameSubject(sums[n], old[i]) /\ (old[i].file # Grub => sums[n] = old[i])
            /\ \A i \in DOMAIN old \ Dropped(old, Restricted) :
                 \E n \in DOMAIN sums : SameSubject(sums[n], old[i])
        BY <3>1, <4>1, UpdatedLines
      <4>3. QED  BY <4>2, Zenon
    <3>2. CASE sums = old
      BY <2>2, <2>3, <3>2 DEF Dropped, SameSubject
    <3>3. QED  BY <2>1, <3>1, <3>2, Zenon DEF Made
  <2>5. ASSUME NEW n \in Lines(sums)
        PROVE  Matches(sums[n], new.grub, new.files, new.damaged) <=> sums[n].file \notin new.damaged
    <3>1. n \in DOMAIN sums /\ sums[n].form
      BY Zenon DEF Lines
    <3>2. sums[n].content = IF sums[n].file = Grub THEN new.grub ELSE <<>>
      <4>1. CASE sums[n].file = Grub
        BY <2>3, <3>1, <4>1, Zenon
      <4>2. CASE sums[n].file # Grub
        <5>1. PICK i \in DOMAIN old : sums[n] = old[i]
          BY <2>4, <3>1, <4>2, Zenon DEF SameSubject
        <5>2. i \in Lines(old)
          BY <3>1, <5>1, Zenon DEF Lines
        <5>3. old[i].file \notin Mismatched(old, new.of.grub, BaseFiles, {})
          BY Zenon
        <5>4. Matches(old[i], new.of.grub, BaseFiles, {})
          BY <5>2, <5>3, Zenon DEF Mismatched
        <5>5. QED  BY <4>2, <5>1, <5>4, Zenon DEF Matches
      <4>3. QED  BY <4>1, <4>2, Zenon
    <3>3. QED  BY <2>3, <3>1, <3>2, Zenon DEF Matches
  <2>6. \A n \in DOMAIN sums : sums[n].file \notin Restricted
    BY <2>2, <2>3
  <2>7. ASSUME NEW i \in DOMAIN old, old[i].file \notin Restricted
        PROVE  \E n \in DOMAIN sums : SameSubject(sums[n], old[i])
    BY <2>4, <2>7, Zenon DEF Dropped
  <2>8. \A n \in DOMAIN sums : \E i \in DOMAIN old : SameSubject(sums[n], old[i])
    BY <2>4, Zenon
  <2> HIDE DEF sums, old, dropped
  <2>9. Mismatched(sums, new.grub, new.files, new.damaged)
          = new.damaged \cap {sums[n].file : n \in Lines(sums)}
    BY <2>5 DEF Mismatched
  <2>10. {sums[n].file : n \in Lines(sums)} = {old[n].file : n \in Lines(old)} \ Restricted
    BY <2>6, <2>7, <2>8 DEF Lines, SameSubject
  <2>11. {sums[n].file : n \in DOMAIN sums} = {old[n].file : n \in DOMAIN old} \ Restricted
    BY <2>6, <2>7, <2>8 DEF SameSubject
  <2>12. QED  BY <2>9, <2>10, <2>11, Zenon DEF sums, old
<1>2. QED  BY <1>1, Invariance, PTL

-----------------------------------------------------------------------------
(* The boot equipment. *)

LEMMA LineFields ==
  ASSUME NEW line \in AnyReportLine
  PROVE  /\ "is" \in DOMAIN line
         /\ line.is \in ImageLines => "image" \in DOMAIN line
         /\ line.is = "boot img" => "platform" \in DOMAIN line /\ line.lba \in Positive
         /\ line.is = "img path" => "path" \in DOMAIN line
         /\ line.is = "img blks" => "blocks" \in DOMAIN line /\ line.blocks \in Positive
BY DEF AnyReportLine, ImageLines

Agree(a, b) == Semantics(a) = Semantics(b)
Alike(x, y) ==
  /\ y.is = x.is
  /\ x.is \in ImageLines => y.image = x.image
  /\ x.is = "boot img" => y.platform = x.platform
  /\ x.is = "img path" => y.path = x.path
  /\ x.is = "img blks" => y.blocks = x.blocks

(* Reports that agree but for the places have the same lines but for the places. *)
LEMMA SameLines ==
  ASSUME NEW a \in AnyReport, NEW b, Agree(a, b), NEW n \in DOMAIN a
  PROVE  \E m \in DOMAIN b : Alike(a[n], b[m])
<1> DEFINE Said(line) == [field \in DOMAIN line \ {"lba"} |-> line[field]]
<1>1. PICK m \in DOMAIN b : Said(b[m]) = Said(a[n])
  BY DEF Agree, Semantics
<1>2. a[n] \in AnyReportLine
  BY DEF AnyReport
<1>3. \A field \in DOMAIN a[n] \ {"lba"} : b[m][field] = a[n][field]
  <2> SUFFICES ASSUME NEW field \in DOMAIN a[n] \ {"lba"} PROVE b[m][field] = a[n][field]
    OBVIOUS
  <2>1. DOMAIN Said(a[n]) = DOMAIN a[n] \ {"lba"} /\ DOMAIN Said(b[m]) = DOMAIN b[m] \ {"lba"}
    OBVIOUS
  <2>2. field \in DOMAIN b[m] \ {"lba"}
    BY <1>1, <2>1
  <2>3. Said(b[m])[field] = b[m][field] /\ Said(a[n])[field] = a[n][field]
    BY <2>2
  <2>4. QED  BY <1>1, <2>3
<1>4. QED  BY <1>2, <1>3, LineFields DEF Alike

LEMMA SameAbout ==
  ASSUME NEW a \in AnyReport, NEW b, Agree(a, b),
         NEW kind \in ImageLines, NEW i, About(a, kind, i) # {}
  PROVE  About(b, kind, i) # {}
<1>1. PICK n \in DOMAIN a : a[n].is = kind /\ a[n].image = i
  BY DEF About, Of
<1>2. PICK m \in DOMAIN b : Alike(a[n], b[m])
  BY <1>1, SameLines
<1>3. b[m].is = kind /\ b[m].image = i
  BY <1>1, <1>2 DEF Alike
<1>4. QED  BY <1>3 DEF About, Of

LEMMA HiddenInBoth ==
  ASSUME NEW a \in AnyReport, NEW b \in AnyReport, Agree(a, b)
  PROVE  Hidden(a) \subseteq Hidden(b)
<1> SUFFICES ASSUME NEW i \in Hidden(a) PROVE i \in Hidden(b)
  OBVIOUS
<1>1. PICK kind \in ImageLines : About(a, kind, i) # {}
  BY DEF Hidden, Images, About
<1>2. About(b, kind, i) # {}
  BY <1>1, SameAbout
<1>3. i \in Images(b)
  BY <1>2 DEF Images, About
<1>4. About(b, "img path", i) = {}
  <2>1. About(a, "img path", i) = {} /\ "img path" \in ImageLines /\ Agree(b, a)
    BY DEF Hidden, ImageLines, Agree
  <2>2. QED  BY <2>1, SameAbout
<1>5. QED  BY <1>3, <1>4 DEF Hidden

LEMMA ReportLine == ASSUME NEW a \in AnyReport, NEW n \in DOMAIN a PROVE a[n] \in AnyReportLine
BY DEF AnyReport

(* A report has one line of a kind about an image. *)
LEMMA OnlyLine ==
  ASSUME NEW a \in AnyReport, NEW kind \in ImageLines, NEW i, NEW n,
         WellFormed(a), n \in About(a, kind, i)
  PROVE  About(a, kind, i) = {n}
<1>1. IsFiniteSet(About(a, kind, i))
  <2>1. DOMAIN a = 1..Len(a) /\ Len(a) \in Nat
    BY DEF AnyReport
  <2>2. IsFiniteSet(DOMAIN a)
    BY <2>1, FS_Interval
  <2>3. About(a, kind, i) \subseteq DOMAIN a
    BY DEF About, Of
  <2>4. QED  BY <2>2, <2>3, FS_Subset
<1>2. i \in Images(a)
  BY DEF Images, About
<1>3. Cardinality(About(a, kind, i)) <= 1
  BY <1>2 DEF WellFormed
<1>4. Cardinality(About(a, kind, i)) \in Nat /\ Cardinality(About(a, kind, i)) # 0
  BY <1>1, FS_CardinalityType, FS_EmptySet
<1>5. Cardinality(About(a, kind, i)) = 1
  BY <1>3, <1>4
<1>6. QED  BY <1>1, <1>5, FS_Singleton

(* The files of an image. *)
LEMMA PathsKept ==
  ASSUME NEW a \in AnyReport, NEW b, Agree(a, b), NEW i
  PROVE  {a[n].path : n \in About(a, "img path", i)} \subseteq {b[n].path : n \in About(b, "img path", i)}
<1> SUFFICES ASSUME NEW n \in About(a, "img path", i)
             PROVE  \E m \in About(b, "img path", i) : b[m].path = a[n].path
  OBVIOUS
<1>1. n \in DOMAIN a /\ a[n].is = "img path" /\ a[n].image = i
  BY DEF About, Of
<1>2. "img path" \in ImageLines
  BY DEF ImageLines
<1>3. PICK m \in DOMAIN b : Alike(a[n], b[m])
  BY <1>1, SameLines
<1>4. b[m].is = "img path" /\ b[m].image = i /\ b[m].path = a[n].path
  BY <1>1, <1>2, <1>3 DEF Alike
<1>5. QED  BY <1>4 DEF About, Of

LEMMA Span ==
  ASSUME NEW first \in Positive, NEW count \in Positive
  PROVE  Cardinality(first..first + count - 1) = count
<1>1. first \in Int /\ first + count - 1 \in Int /\ ~(first > first + count - 1)
  BY DEF Positive
<1>2. Cardinality(first..first + count - 1) = (first + count - 1) - first + 1
  BY <1>1, FS_Interval
<1>3. QED  BY <1>2 DEF Positive

(* A hidden image lies where its line says, on one block at least. *)
LEMMA Place ==
  ASSUME NEW a \in AnyReport, WellFormed(a), NEW n \in DOMAIN a, a[n].is = "boot img",
         NEW i, i = a[n].image, i \in Hidden(a)
  PROVE  /\ Lba(a, i) = a[n].lba /\ a[n].lba \in Positive
         /\ \E k \in About(a, "img blks", i) : BlockCount(a, i) = a[k].blocks
         /\ BlockCount(a, i) \in Positive
         /\ Extent(a, i) = Lba(a, i)..Lba(a, i) + BlockCount(a, i) - 1
         /\ Cardinality(Extent(a, i)) = BlockCount(a, i)
<1>1. "boot img" \in ImageLines /\ "img blks" \in ImageLines
  BY DEF ImageLines
<1>2. n \in About(a, "boot img", i)
  BY DEF About, Of
<1>3. Lba(a, i) = a[n].lba
  <2>1. About(a, "boot img", i) = {n}
    BY <1>1, <1>2, OnlyLine, Zenon
  <2>2. QED  BY <2>1 DEF Lba
<1>4. a[n] \in AnyReportLine
  BY ReportLine, Zenon
<1>5. a[n].lba \in Positive
  BY <1>4, LineFields
<1>6. PICK k : k \in About(a, "img blks", i)
  <2>1. About(a, "img path", i) = {} /\ i \in Images(a)
    BY DEF Hidden
  <2>2. About(a, "img path", i) \cup About(a, "img blks", i) # {}
    BY <2>1 DEF WellFormed
  <2>3. QED  BY <2>1, <2>2
<1>7. BlockCount(a, i) = a[k].blocks
  <2>1. About(a, "img blks", i) = {k}
    BY <1>1, <1>6, OnlyLine
  <2>2. QED  BY <2>1 DEF BlockCount
<1>8. k \in DOMAIN a /\ a[k].is = "img blks"
  BY <1>6 DEF About, Of
<1>9. a[k] \in AnyReportLine
  BY <1>8, ReportLine, Zenon
<1>10. BlockCount(a, i) \in Positive
  BY <1>7, <1>8, <1>9, LineFields
<1>11. Extent(a, i) = Lba(a, i)..Lba(a, i) + BlockCount(a, i) - 1
  BY DEF Extent
<1>12. Lba(a, i) \in Positive
  BY <1>3, <1>5, Zenon
<1>13. Cardinality(Extent(a, i)) = BlockCount(a, i)
  BY <1>10, <1>11, <1>12, Span
<1>14. QED  BY <1>3, <1>5, <1>6, <1>7, <1>10, <1>11, <1>13

(* The bytes of a hidden image, as the firmware reads them. *)
Read(disc, first, count) == [k \in 1..count |-> disc[first + k - 1]]

LEMMA BytesRead ==
  ASSUME NEW disc, NEW first \in Nat, NEW count \in Nat
  PROVE  SubSeq(disc, first, first + count - 1) = Read(disc, first, count)
BY DEF Read

(* What the firmware finds on one disc it finds on the other. *)
LEMMA FirmwareKept ==
  ASSUME NEW a \in AnyReport, NEW aDisc, NEW b \in AnyReport, NEW bDisc,
         WellFormed(a), WellFormed(b), Agree(a, b),
         \A i \in Hidden(a) : Bytes(a, aDisc, i) = Bytes(b, bDisc, i)
  PROVE  Firmware(a, aDisc) \subseteq Firmware(b, bDisc)
<1> DEFINE Files(r, i) == {r[m].path : m \in About(r, "img path", i)}
           Content(r, disc, n) ==
             IF r[n].image \in Hidden(r)
               THEN [k \in 1..Cardinality(Extent(r, r[n].image)) |-> disc[r[n].lba + k - 1]]
               ELSE <<>>
           Found(r, disc, n) == <<r[n].platform, Files(r, r[n].image), Content(r, disc, n)>>
<1>1. \A r, disc : Firmware(r, disc) = {Found(r, disc, n) : n \in Of(r, "boot img")}
  BY DEF Firmware
<1>2. Agree(b, a)
  BY DEF Agree
<1>3. Hidden(a) = Hidden(b) /\ \A i : Files(a, i) = Files(b, i)
  <2>1. Hidden(a) = Hidden(b)
    <3>1. Hidden(a) \subseteq Hidden(b)
      BY HiddenInBoth
    <3>2. Hidden(b) \subseteq Hidden(a)
      BY <1>2, HiddenInBoth
    <3>3. QED  BY <3>1, <3>2
  <2>2. ASSUME NEW i PROVE Files(a, i) = Files(b, i)
    <3>1. Files(a, i) \subseteq Files(b, i)
      BY PathsKept
    <3>2. Files(b, i) \subseteq Files(a, i)
      BY <1>2, PathsKept
    <3>3. QED  BY <3>1, <3>2
  <2>3. QED  BY <2>1, <2>2, Zenon
<1> SUFFICES ASSUME NEW n \in Of(a, "boot img")
             PROVE  \E m \in Of(b, "boot img") : Found(b, bDisc, m) = Found(a, aDisc, n)
  <2> HIDE DEF Found
  <2>1. QED  BY <1>1
<1>4. n \in DOMAIN a /\ a[n].is = "boot img" /\ a[n].is \in ImageLines
  BY DEF Of, ImageLines
<1>5. PICK m \in DOMAIN b : Alike(a[n], b[m])
  BY <1>4, SameLines
<1> DEFINE i == a[n].image
<1>6. b[m].is = "boot img" /\ b[m].image = i /\ b[m].platform = a[n].platform
  BY <1>4, <1>5 DEF Alike
<1>7. m \in Of(b, "boot img")
  BY <1>6 DEF Of
<1> HIDE DEF i
<1>8. Content(b, bDisc, m) = Content(a, aDisc, n)
  <2>1. CASE i \in Hidden(a)
    <3> DEFINE count == BlockCount(a, i)
    <3>1. /\ Lba(a, i) = a[n].lba /\ a[n].lba \in Positive /\ count \in Positive
          /\ Cardinality(Extent(a, i)) = count
      BY <1>4, <2>1, Place DEF i
    <3>2. /\ Lba(b, i) = b[m].lba /\ b[m].lba \in Positive /\ BlockCount(b, i) \in Positive
          /\ Cardinality(Extent(b, i)) = BlockCount(b, i)
      BY <1>3, <1>6, <2>1, Place
    <3>3. BlockCount(b, i) = count
      <4>1. PICK k \in About(a, "img blks", i) : count = a[k].blocks
        BY <1>4, <2>1, Place DEF i
      <4>2. k \in DOMAIN a /\ a[k].is = "img blks" /\ a[k].image = i /\ "img blks" \in ImageLines
        BY DEF About, Of, ImageLines
      <4>3. PICK l \in DOMAIN b : Alike(a[k], b[l])
        BY <4>2, SameLines
      <4>4. b[l].blocks = count
        BY <4>1, <4>2, <4>3 DEF Alike
      <4>5. About(b, "img blks", i) = {l}
        <5>1. l \in About(b, "img blks", i)
          BY <4>2, <4>3 DEF Alike, About, Of
        <5>2. "img blks" \in ImageLines
          BY DEF ImageLines
        <5>3. QED  BY <5>1, <5>2, OnlyLine
      <4>6. QED  BY <4>4, <4>5 DEF BlockCount
    <3> HIDE DEF count
    <3>4. Bytes(a, aDisc, i) = Read(aDisc, a[n].lba, count)
      BY <3>1, BytesRead DEF Bytes, Positive, count
    <3>5. Bytes(b, bDisc, i) = Read(bDisc, b[m].lba, count)
      BY <3>2, <3>3, <3>1, BytesRead DEF Bytes, Positive
    <3>6. Read(aDisc, a[n].lba, count) = Read(bDisc, b[m].lba, count)
      BY <2>1, <3>4, <3>5
    <3>7. Content(a, aDisc, n) = Read(aDisc, a[n].lba, count)
      BY <2>1, <3>1, Zenon DEF Read, i
    <3>8. Content(b, bDisc, m) = Read(bDisc, b[m].lba, count)
      BY <1>3, <1>6, <2>1, <3>2, <3>3, Zenon DEF Read
    <3>9. QED  BY <3>6, <3>7, <3>8
  <2>2. CASE i \notin Hidden(a)
    BY <1>3, <1>6, <2>2, Zenon DEF i
  <2>3. QED  BY <2>1, <2>2
<1>9. Files(b, b[m].image) = Files(a, a[n].image)
  BY <1>3, <1>6 DEF i
<1> HIDE DEF Files, Content
<1>10. Found(b, bDisc, m) = Found(a, aDisc, n)
  BY <1>6, <1>8, <1>9
<1>11. QED  BY <1>7, <1>10

(* The firmware finds on an accepted image what it finds on the base: for any
   report, wherever xorriso has put what the report is about. *)
THEOREM BootEquipment == Spec => []SameBootEquipment
<1>1. IInv => SameBootEquipment
  <2> SUFFICES ASSUME IInv, NEW new \in Accepted
               PROVE  Firmware(new.report, new.disc) = Firmware(new.of.report, new.of.disc)
    BY DEF SameBootEquipment
  <2> DEFINE a == new.of.report
             b == new.report
  <2>1. Made(new) /\ \E profile \in Profiles : Passes(new, profile)
    BY AcceptedPasses
  <2>2. SameBoot(a, new.of.disc, b, new.disc)
    BY <2>1, Zenon DEF Passes
  <2>3. a \in AnyReport /\ b \in AnyReport
    BY <2>1, Zenon DEF Made
  <2>4. WellFormed(a) /\ WellFormed(b) /\ Agree(a, b) /\ Agree(b, a)
    BY <2>2, Zenon DEF SameBoot, Agree
  <2>5. \A i \in Hidden(a) : Bytes(a, new.of.disc, i) = Bytes(b, new.disc, i)
    BY <2>2, Zenon DEF SameBoot
  <2> HIDE DEF a, b
  <2>6. Firmware(a, new.of.disc) \subseteq Firmware(b, new.disc)
    BY <2>3, <2>4, <2>5, FirmwareKept
  <2>7. \A i \in Hidden(b) : Bytes(b, new.disc, i) = Bytes(a, new.of.disc, i)
    BY <2>3, <2>4, <2>5, HiddenInBoth
  <2>8. Firmware(b, new.disc) \subseteq Firmware(a, new.of.disc)
    BY <2>3, <2>4, <2>7, FirmwareKept
  <2>9. QED  BY <2>6, <2>8 DEF a, b
<1>2. QED  BY <1>1, Invariance, PTL

-----------------------------------------------------------------------------
(* GRUB's configuration. *)

(* The lines up to j that open or close are those before i and those from it. *)
InParts(K, i, j) ==
  /\ Cardinality(K \cap (1..(i - 1))) \in Nat /\ Cardinality(K \cap (i..j)) \in Nat
  /\ Cardinality(K \cap (1..j)) = Cardinality(K \cap (1..(i - 1))) + Cardinality(K \cap (i..j))

LEMMA CountInParts ==
  ASSUME NEW K, NEW i \in Nat \ {0}, NEW j \in Nat, i - 1 <= j
  PROVE  InParts(K, i, j)
<1> DEFINE A == K \cap (1..(i - 1))
           B == K \cap (i..j)
<1>1. IsFiniteSet(A) /\ IsFiniteSet(B)
  <2>1. IsFiniteSet(1..(i - 1)) /\ IsFiniteSet(i..j)
    BY FS_Interval
  <2>2. A \subseteq 1..(i - 1) /\ B \subseteq i..j
    OBVIOUS
  <2>3. QED  BY <2>1, <2>2, FS_Subset
<1>2. A \cap B = {} /\ A \cup B = K \cap (1..j)
  OBVIOUS
<1>3. Cardinality(A) \in Nat /\ Cardinality(B) \in Nat /\ Cardinality(A \cap B) = 0
  BY <1>1, <1>2, FS_CardinalityType, FS_EmptySet
<1>4. Cardinality(A \cup B) = Cardinality(A) + Cardinality(B) - Cardinality(A \cap B)
  BY <1>1, FS_Union
<1> HIDE DEF A, B
<1>5. Cardinality(K \cap (1..j)) = Cardinality(A) + Cardinality(B)
  BY <1>2, <1>3, <1>4
<1>6. QED  BY <1>3, <1>5 DEF A, B, InParts

(* What is open after the lines from i to j beyond what was before them. *)
Between(config, i, j) ==
  /\ Open(config, j) \in Int /\ Open(config, i - 1) \in Int
  /\ Depth(config, i, j) = Open(config, j) - Open(config, i - 1)

LEMMA DepthBetween ==
  ASSUME NEW config, NEW i \in Nat \ {0}, NEW j \in Nat, i - 1 <= j
  PROVE  Between(config, i, j)
<1> DEFINE Up   == {k \in 1..j : Opens(config[k])}
           Down == {k \in 1..j : Closes(config[k])}
<1>1. /\ {k \in i..j : Opens(config[k])} = Up \cap (i..j)
      /\ {k \in i..j : Closes(config[k])} = Down \cap (i..j)
      /\ {k \in 1..(i - 1) : Opens(config[k])} = Up \cap (1..(i - 1))
      /\ {k \in 1..(i - 1) : Closes(config[k])} = Down \cap (1..(i - 1))
      /\ Up = Up \cap (1..j) /\ Down = Down \cap (1..j)
  OBVIOUS
<1>2. /\ Open(config, j) = Cardinality(Up \cap (1..j)) - Cardinality(Down \cap (1..j))
      /\ Open(config, i - 1)
           = Cardinality(Up \cap (1..(i - 1))) - Cardinality(Down \cap (1..(i - 1)))
      /\ Depth(config, i, j) = Cardinality(Up \cap (i..j)) - Cardinality(Down \cap (i..j))
  BY <1>1, Zenon DEF Open, Depth
<1> HIDE DEF Up, Down
<1>3. InParts(Up, i, j) /\ InParts(Down, i, j)
  BY CountInParts
<1>4. QED  BY <1>2, <1>3 DEF InParts, Between

(* A line opens a block, closes one, or does neither. *)
Line(config, i) ==
  /\ Open(config, 0) = 0 /\ Open(config, i) \in Int /\ Open(config, i - 1) \in Int
  /\ Opens(config[i]) => Open(config, i) = Open(config, i - 1) + 1
  /\ Closes(config[i]) => Open(config, i) = Open(config, i - 1) - 1
  /\ ~Opens(config[i]) /\ ~Closes(config[i]) => Open(config, i) = Open(config, i - 1)

LEMMA OpenStep ==
  ASSUME NEW config, NEW i \in Nat \ {0}
  PROVE  Line(config, i)
<1>1. Between(config, i, i)
  BY DepthBetween
<1>2. i..i = {i}
  OBVIOUS
<1>3. Opens(config[i]) => ~Closes(config[i])
  BY DEF Opens, Closes
<1>4. Cardinality({i}) = 1 /\ Cardinality({}) = 0
  BY FS_Singleton, FS_EmptySet
<1>5. Open(config, 0) = 0
  <2>1. {k \in 1..0 : Opens(config[k])} = {} /\ {k \in 1..0 : Closes(config[k])} = {}
    OBVIOUS
  <2>2. QED  BY <1>4, <2>1 DEF Open, Depth
<1>6. Opens(config[i]) => Depth(config, i, i) = 1
  <2> SUFFICES ASSUME Opens(config[i]) PROVE Depth(config, i, i) = 1
    OBVIOUS
  <2>1. {k \in i..i : Opens(config[k])} = {i} /\ {k \in i..i : Closes(config[k])} = {}
    BY <1>2, <1>3, Zenon
  <2>2. QED  BY <1>4, <2>1 DEF Depth
<1>7. Closes(config[i]) => Depth(config, i, i) = 0 - 1
  <2> SUFFICES ASSUME Closes(config[i]) PROVE Depth(config, i, i) = 0 - 1
    OBVIOUS
  <2>1. {k \in i..i : Opens(config[k])} = {} /\ {k \in i..i : Closes(config[k])} = {i}
    BY <1>2, <1>3, Zenon
  <2>2. QED  BY <1>4, <2>1 DEF Depth
<1>8. ~Opens(config[i]) /\ ~Closes(config[i]) => Depth(config, i, i) = 0
  <2> SUFFICES ASSUME ~Opens(config[i]), ~Closes(config[i]) PROVE Depth(config, i, i) = 0
    OBVIOUS
  <2>1. {k \in i..i : Opens(config[k])} = {} /\ {k \in i..i : Closes(config[k])} = {}
    BY <1>2, Zenon
  <2>2. QED  BY <1>4, <2>1 DEF Depth
<1>9. QED  BY <1>1, <1>5, <1>6, <1>7, <1>8 DEF Between, Line

(* An entry ends on the line that closes what its first line opens. *)
LEMMA EntryEnds ==
  ASSUME NEW S, NEW config \in Seq(S), NEW a \in DOMAIN config, NEW b, b = EndOf(config, a)
  PROVE  /\ b \in {0} \cup a..Len(config)
         /\ b # 0 /\ Opens(config[a]) =>
              /\ b \in a + 1..Len(config)
              /\ Open(config, b) = Open(config, a) - 1
              /\ \A k \in a..b - 1 : Open(config, k) >= Open(config, a)
              /\ Block(config, a) = a..b
<1> DEFINE N == Len(config)
           ends == {j \in a..N : Depth(config, a, j) = 0}
<1>1. N \in Nat /\ a \in 1..N /\ DOMAIN config = 1..N
  OBVIOUS
<1>2. /\ ends = {} => b = 0
      /\ ends # {} => b = CHOOSE j \in ends : \A k \in ends : j <= k
  BY DEF EndOf
<1>3. ends \subseteq a..N /\ ends \subseteq Nat
  BY <1>1
<1>4. ends # {} => b \in ends /\ \A k \in ends : b <= k
  <2> SUFFICES ASSUME ends # {} PROVE b \in ends /\ \A k \in ends : b <= k
    OBVIOUS
  <2> HIDE DEF ends
  <2>1. \E j \in ends : \A k \in ends : j <= k
    BY <1>3, LeastElement, Zenon
  <2>2. QED  BY <1>2, <2>1, Zenon
<1>5. b \in {0} \cup a..N
  BY <1>2, <1>3, <1>4, Zenon
<1>6. ASSUME b # 0, Opens(config[a])
      PROVE  /\ b \in a + 1..N
             /\ Open(config, b) = Open(config, a) - 1
             /\ \A k \in a..b - 1 : Open(config, k) >= Open(config, a)
             /\ Block(config, a) = a..b
  <2>1. b \in ends /\ \A k \in ends : b <= k
    BY <1>2, <1>4, <1>6, Zenon
  <2>2. \A j \in a..N : /\ Open(config, j) \in Int /\ Open(config, a - 1) \in Int
                        /\ Depth(config, a, j) = Open(config, j) - Open(config, a - 1)
    <3>1. ASSUME NEW j \in a..N PROVE Between(config, a, j)
      BY <1>1, DepthBetween
    <3>2. QED  BY <3>1 DEF Between
  <2>3. Open(config, a) = Open(config, a - 1) + 1 /\ Open(config, a) \in Int
    <3>1. Line(config, a)
      BY <1>1, OpenStep
    <3>2. QED  BY <1>6, <3>1 DEF Line
  <2>4. b \in a..N /\ Open(config, b) = Open(config, a) - 1
    BY <2>1, <2>2, <2>3
  <2>5. b \in a + 1..N
    BY <1>1, <2>3, <2>4
  <2>6. \A k \in a..b - 1 : Open(config, k) # Open(config, a) - 1
    <3> SUFFICES ASSUME NEW k \in a..b - 1, Open(config, k) = Open(config, a) - 1 PROVE FALSE
      OBVIOUS
    <3>1. k \in a..N /\ k < b
      BY <1>1, <2>4
    <3>2. Depth(config, a, k) = 0
      BY <2>2, <2>3, <3>1
    <3>3. k \in ends
      BY <3>1, <3>2
    <3>4. QED  BY <2>1, <3>1, <3>3, <1>3, <2>4
  <2> HIDE DEF ends
  <2>7. ASSUME NEW k \in a..b - 1  PROVE  Open(config, k) >= Open(config, a)
    <3> DEFINE Below == {m \in a..b - 1 : ~(Open(config, m) >= Open(config, a))}
    <3>1. Below = {}
      <4> SUFFICES ASSUME Below # {} PROVE FALSE
        OBVIOUS
      <4>1. Below \subseteq Nat
        BY <1>1, <2>4
      <4>2. PICK m \in Below : \A l \in Below : m <= l
        BY <4>1, LeastElement, Zenon
      <4>3. m # a
        BY <2>3, <4>2
      <4>4. m \in a + 1..b - 1 /\ m - 1 \in a..b - 1 /\ m \in Nat \ {0}
        BY <1>1, <2>4, <4>2, <4>3
      <4>5. m - 1 \notin Below
        BY <4>2, <4>4
      <4>6. Open(config, m - 1) >= Open(config, a)
        BY <4>4, <4>5
      <4>7. /\ Open(config, m) \in Int /\ Open(config, m - 1) \in Int
            /\ Open(config, m) >= Open(config, m - 1) - 1
        <5>1. Line(config, m)
          BY <4>4, OpenStep
        <5>2. QED  BY <5>1 DEF Line
      <4>8. Open(config, m) >= Open(config, a) - 1 /\ Open(config, m) # Open(config, a) - 1
        BY <2>3, <2>6, <4>4, <4>6, <4>7
      <4>9. QED  BY <2>3, <4>2, <4>7, <4>8
    <3>2. QED  BY <3>1
  <2>8. Block(config, a) = a..b
    <3>1. ASSUME NEW j \in Block(config, a)  PROVE  j \in a..b
      <4>1. j \in a..N /\ \A k \in a..j - 1 : Open(config, k) >= Open(config, a)
        BY <3>1 DEF Block
      <4>2. ~(b \in a..j - 1)
        BY <2>3, <2>4, <4>1
      <4>3. QED  BY <1>1, <2>4, <4>1, <4>2
    <3>2. ASSUME NEW j \in a..b  PROVE  j \in Block(config, a)
      <4>1. j \in a..N
        BY <1>1, <2>4
      <4>2. \A k \in a..j - 1 : k \in a..b - 1
        BY <1>1, <2>4
      <4>3. QED  BY <2>7, <4>1, <4>2 DEF Block
    <3>3. QED  BY <3>1, <3>2
  <2>9. QED  BY <2>4, <2>5, <2>7, <2>8
<1>7. QED  BY <1>5, <1>6

(* The parser, from line i on: what it finds are entries, each behind the one
   before, and it passes no entry over but inside of one. *)
Found(config, i, s) ==
  /\ \A n \in DOMAIN s : /\ s[n] = <<s[n][1], EndOf(config, s[n][1])>>
                         /\ s[n][1] \in i..Len(config) /\ config[s[n][1]].is = "menuentry"
  /\ \A m, n \in DOMAIN s : m < n => s[m][2] < s[n][1]
  /\ \A e \in i..Len(config) :
       config[e].is = "menuentry" => \E n \in DOMAIN s : e \in s[n][1]..s[n][2]

LEMMA Parsing ==
  ASSUME NEW S, NEW config \in Seq(S), Balanced(Entries(config))
  PROVE  Entries(config) \in Seq(Nat \X Nat) /\ Found(config, 1, Entries(config))
<1> DEFINE N == Len(config)
           Spans == Seq(Nat \X Nat)
           Rest(f, i) == IF EndOf(config, i) = 0 THEN <<>> ELSE f[EndOf(config, i) + 1]
           Unrolled(f, i) == IF i > N THEN <<>>
                             ELSE IF config[i].is # "menuentry" THEN f[i + 1]
                             ELSE << <<i, EndOf(config, i)>> >> \o Rest(f, i)
           From(f, i) == f \in [i..N + 1 -> Spans] /\ \A k \in i..N + 1 : f[k] = Unrolled(f, k)
           Solved(f) == f = [i \in 1..N + 1 |-> Unrolled(f, i)]
           from == CHOOSE f : Solved(f)
<1>1. N \in Nat /\ DOMAIN config = 1..N
  OBVIOUS
<1>2. Entries(config) = from[1]
  BY DEF Entries
<1> HIDE DEF N, from
<1>3. \A i \in 1..N : EndOf(config, i) \in {0} \cup i..N
  BY <1>1, EntryEnds DEF N
<1>4. ASSUME NEW i \in 1..N + 1, NEW f, NEW g, \A k \in i + 1..N + 1 : f[k] = g[k]
      PROVE  Unrolled(f, i) = Unrolled(g, i)
  <2>1. CASE i > N
    BY <2>1
  <2>2. CASE i \in 1..N
    <3>1. f[i + 1] = g[i + 1]
      BY <1>1, <1>4, <2>2
    <3>2. Rest(f, i) = Rest(g, i)
      BY <1>1, <1>3, <1>4, <2>2
    <3> HIDE DEF Rest
    <3>3. QED  BY <3>1, <3>2, Zenon
  <2>3. QED  BY <1>1, <2>1, <2>2
<1>5. ASSUME NEW i \in 1..N + 1, NEW f, \A k \in i + 1..N + 1 : f[k] \in Spans
      PROVE  Unrolled(f, i) \in Spans
  <2>1. CASE i > N
    BY <2>1
  <2>2. CASE i \in 1..N
    <3>1. f[i + 1] \in Spans
      BY <1>1, <1>5, <2>2
    <3>2. Rest(f, i) \in Spans
      BY <1>1, <1>3, <1>5, <2>2
    <3>3. << <<i, EndOf(config, i)>> >> \in Spans
      BY <1>1, <1>3, <2>2
    <3> HIDE DEF Rest
    <3>4. << <<i, EndOf(config, i)>> >> \o Rest(f, i) \in Spans
      BY <3>2, <3>3
    <3>5. ~(i > N)
      BY <1>1, <2>2
    <3>6. QED  BY <3>1, <3>4, <3>5, Zenon
  <2>3. QED  BY <1>1, <2>1, <2>2
<1>6. \E f : From(f, 1)
  <2> DEFINE Solvable(n) == \E f : From(f, N + 1 - n)
             T == {n \in 0..N : Solvable(n)}
  <2>1. ASSUME NEW i \in 1..N + 1, NEW f, i = N + 1 \/ From(f, i + 1)
        PROVE  \E g : From(g, i)
    <3> DEFINE g == [k \in i..N + 1 |-> IF k = i THEN Unrolled(f, i) ELSE f[k]]
    <3>1. \A k \in i + 1..N + 1 : f[k] \in Spans /\ f[k] = Unrolled(f, k) /\ g[k] = f[k]
      <4>1. CASE i = N + 1
        BY <1>1, <4>1
      <4>2. CASE From(f, i + 1)
        <5> HIDE DEF Unrolled
        <5>1. QED  BY <1>1, <4>2
      <4>3. QED  BY <2>1, <4>1, <4>2
    <3>2. Unrolled(f, i) \in Spans /\ g[i] = Unrolled(f, i)
      <4>1. \A k \in i + 1..N + 1 : f[k] \in Spans
        BY <3>1
      <4>2. Unrolled(f, i) \in Spans
        BY <1>5, <4>1
      <4>3. i \in i..N + 1
        BY <1>1
      <4> HIDE DEF Unrolled
      <4>4. QED  BY <4>2, <4>3
    <3>3. g \in [i..N + 1 -> Spans]
      <4> HIDE DEF Unrolled
      <4>1. \A k \in i..N + 1 : k = i \/ k \in i + 1..N + 1
        BY <1>1
      <4>2. QED  BY <3>1, <3>2, <4>1
    <3> HIDE DEF g
    <3>4. ASSUME NEW k \in i..N + 1  PROVE  g[k] = Unrolled(g, k)
      <4>1. k \in 1..N + 1 /\ \A l \in k + 1..N + 1 : l \in i + 1..N + 1
        BY <1>1
      <4>2. \A l \in k + 1..N + 1 : f[l] = g[l]
        BY <3>1, <4>1
      <4> HIDE DEF Unrolled
      <4>3. Unrolled(f, k) = Unrolled(g, k)
        BY <1>4, <4>1, <4>2
      <4>4. k = i \/ k \in i + 1..N + 1
        BY <1>1
      <4>5. QED  BY <3>1, <3>2, <4>3, <4>4
    <3>5. QED  BY <3>3, <3>4
  <2> HIDE DEF From
  <2>2. Solvable(0)
    BY <1>1, <2>1
  <2>3. ASSUME NEW n \in 1..N, Solvable(n - 1)  PROVE  Solvable(n)
    <3>1. PICK f : From(f, N + 1 - (n - 1))
      BY <2>3
    <3>2. N + 1 - (n - 1) = N + 1 - n + 1 /\ N + 1 - n \in 1..N + 1
      BY <1>1
    <3>3. From(f, N + 1 - n + 1)
      BY <3>1, <3>2, Zenon
    <3>4. \E g : From(g, N + 1 - n)
      BY <2>1, <3>2, <3>3
    <3>5. QED  BY <3>4
  <2> HIDE DEF Solvable
  <2>4. 0 \in T /\ \A n \in 1..N : n - 1 \in T => n \in T
    BY <1>1, <2>2, <2>3
  <2> HIDE DEF T
  <2>5. N \in T
    BY <1>1, <2>4, Induction
  <2>6. N + 1 - N = 1
    BY <1>1
  <2>7. QED  BY <2>5, <2>6, Zenon DEF T, Solvable
<1>7. PICK f : From(f, 1)
  BY <1>6, Zenon
<1>8. Solved(f)
  BY <1>7
<1>9. Solved(from)
  BY <1>8, Zenon DEF from
<1>10. \A i \in 1..N + 1 : from[i] = Unrolled(from, i)
  BY <1>9
<1>11. /\ from[N + 1] = <<>>
       /\ \A i \in 1..N : /\ config[i].is # "menuentry" => from[i] = from[i + 1]
                          /\ config[i].is = "menuentry" =>
                               from[i] = << <<i, EndOf(config, i)>> >> \o Rest(from, i)
  <2> HIDE DEF Rest
  <2>1. from[N + 1] = Unrolled(from, N + 1) /\ N + 1 > N
    BY <1>1, <1>10
  <2>2. \A i \in 1..N : from[i] = Unrolled(from, i) /\ ~(i > N)
    <3> HIDE DEF Unrolled
    <3>1. QED  BY <1>1, <1>10
  <2>3. QED  BY <2>1, <2>2, Zenon
<1> DEFINE Fine(i) == from[i] \in Spans /\ (Balanced(from[i]) => Found(config, i, from[i]))
<1>12. ASSUME NEW i \in 1..N + 1, \A k \in i + 1..N + 1 : Fine(k)
       PROVE  Fine(i)
  <2>1. from[i] \in Spans
    <3> HIDE DEF Unrolled
    <3>1. QED  BY <1>5, <1>10, <1>12
  <2> SUFFICES ASSUME Balanced(from[i]) PROVE Found(config, i, from[i])
    BY <2>1
  <2>2. CASE i = N + 1
    <3>1. from[i] = <<>> /\ i..N = {}
      BY <1>1, <1>11, <2>2
    <3>2. QED  BY <3>1 DEF Found, N
  <2>3. CASE i \in 1..N /\ config[i].is # "menuentry"
    <3>1. from[i] = from[i + 1]
      BY <1>11, <2>3, Zenon
    <3>2. i + 1 \in i + 1..N + 1
      BY <1>1, <2>3
    <3>3. Found(config, i + 1, from[i])
      BY <1>12, <3>2, <3>1
    <3>4. QED  BY <1>1, <2>3, <3>3 DEF Found, N
  <2>4. CASE i \in 1..N /\ config[i].is = "menuentry"
    <3> DEFINE end == EndOf(config, i)
               r == Rest(from, i)
               s == from[i]
    <3>1. s = << <<i, end>> >> \o r
      BY <1>11, <2>4, Zenon
    <3>2. r \in Spans
      BY <1>1, <1>3, <1>12, <2>4
    <3> HIDE DEF s, r, end
    <3>3. /\ DOMAIN s = 1..Len(r) + 1 /\ Len(r) \in Nat /\ DOMAIN r = 1..Len(r)
          /\ s[1] = <<i, end>> /\ \A n \in 1..Len(r) : s[n + 1] = r[n]
      BY <3>1, <3>2
    <3>4. end # 0 /\ Balanced(r)
      <4>1. \A n \in DOMAIN s : s[n][2] # 0
        BY DEF Balanced, s
      <4>2. end # 0
        BY <3>3, <4>1
      <4>3. ASSUME NEW n \in DOMAIN r  PROVE  r[n][2] # 0
        BY <3>3, <4>1
      <4>4. QED  BY <4>2, <4>3 DEF Balanced
    <3>5. end \in i..N
      BY <1>3, <2>4, <3>4 DEF end
    <3>6. r = from[end + 1] /\ end + 1 \in i + 1..N + 1
      BY <1>1, <3>4, <3>5 DEF r, end
    <3>7. Found(config, end + 1, r)
      BY <1>12, <3>4, <3>6
    <3>8. \A n \in DOMAIN s : n = 1 \/ (n - 1 \in DOMAIN r /\ s[n] = r[n - 1])
      BY <3>3
    <3>9. ASSUME NEW n \in DOMAIN s
          PROVE  /\ s[n] = <<s[n][1], EndOf(config, s[n][1])>>
                 /\ s[n][1] \in i..N /\ config[s[n][1]].is = "menuentry"
                 /\ n # 1 => s[n][1] \in end + 1..N
      <4>1. CASE n = 1
        BY <1>1, <2>4, <3>3, <4>1 DEF end
      <4>2. CASE n # 1
        <5>1. n - 1 \in DOMAIN r /\ s[n] = r[n - 1]
          BY <3>8, <4>2
        <5>2. /\ r[n - 1] = <<r[n - 1][1], EndOf(config, r[n - 1][1])>>
              /\ r[n - 1][1] \in end + 1..N /\ config[r[n - 1][1]].is = "menuentry"
          BY <3>7, <5>1 DEF Found, N
        <5>3. r[n - 1][1] \in i..N
          BY <1>1, <3>5, <5>2
        <5>4. QED  BY <4>2, <5>1, <5>2, <5>3, Zenon
      <4>3. QED  BY <4>1, <4>2
    <3>10. ASSUME NEW m \in DOMAIN s, NEW n \in DOMAIN s, m < n
           PROVE  s[m][2] < s[n][1]
      <4>1. n # 1 /\ n - 1 \in DOMAIN r /\ s[n] = r[n - 1]
        BY <3>3, <3>8, <3>10
      <4>2. CASE m = 1
        <5>1. s[n][1] \in end + 1..N /\ s[m][2] = end
          BY <3>3, <3>9, <4>1, <4>2
        <5>2. QED  BY <1>1, <3>5, <5>1
      <4>3. CASE m # 1
        <5>1. m - 1 \in DOMAIN r /\ s[m] = r[m - 1] /\ m - 1 < n - 1
          BY <3>3, <3>8, <3>10, <4>3
        <5>2. r[m - 1][2] < r[n - 1][1]
          BY <3>7, <4>1, <5>1 DEF Found
        <5>3. QED  BY <4>1, <5>1, <5>2
      <4>4. QED  BY <4>2, <4>3
    <3>11. ASSUME NEW e \in i..N, config[e].is = "menuentry"
           PROVE  \E n \in DOMAIN s : e \in s[n][1]..s[n][2]
      <4>1. CASE e \in i..end
        <5>1. 1 \in DOMAIN s /\ s[1][1] = i /\ s[1][2] = end
          BY <3>3
        <5>2. QED  BY <4>1, <5>1
      <4>2. CASE e \notin i..end
        <5>1. e \in end + 1..N
          BY <1>1, <3>5, <4>2
        <5>2. PICK n \in DOMAIN r : e \in r[n][1]..r[n][2]
          BY <3>7, <3>11, <5>1 DEF Found, N
        <5>3. n + 1 \in DOMAIN s /\ s[n + 1] = r[n]
          BY <3>3
        <5>4. QED  BY <5>2, <5>3, Zenon
      <4>3. QED  BY <4>1, <4>2
    <3>12. QED  BY <3>9, <3>10, <3>11 DEF Found, N, s
  <2>5. QED  BY <1>1, <2>2, <2>3, <2>4
<1> HIDE DEF Fine
<1>13. ASSUME NEW i \in 1..N + 1  PROVE Fine(i)
  <2> DEFINE Odd == {d \in 0..N : ~Fine(N + 1 - d)}
  <2>1. Odd = {}
    <3> SUFFICES ASSUME Odd # {} PROVE FALSE
      OBVIOUS
    <3>1. PICK d \in Odd : \A e \in Odd : d <= e
      <4>1. Odd \subseteq Nat
        OBVIOUS
      <4>2. QED  BY <4>1, LeastElement, Zenon
    <3>2. d \in 0..N /\ N + 1 - d \in 1..N + 1 /\ ~Fine(N + 1 - d)
      BY <1>1, <3>1
    <3>3. ASSUME NEW k \in N + 1 - d + 1..N + 1  PROVE Fine(k)
      <4>1. N + 1 - k \in 0..N /\ ~(d <= N + 1 - k) /\ N + 1 - (N + 1 - k) = k
        BY <1>1, <3>2
      <4>2. N + 1 - k \notin Odd
        BY <3>1, <4>1, Zenon
      <4>3. Fine(N + 1 - (N + 1 - k))
        BY <4>1, <4>2
      <4>4. QED  BY <4>1, <4>3, Zenon
    <3>4. QED  BY <1>12, <3>2, <3>3, Zenon
  <2>2. N + 1 - i \in 0..N /\ N + 1 - (N + 1 - i) = i
    BY <1>1
  <2>3. Fine(N + 1 - (N + 1 - i))
    BY <2>1, <2>2
  <2>4. QED  BY <2>2, <2>3, Zenon
<1>14. Fine(1)
  BY <1>1, <1>13
<1>15. QED  BY <1>2, <1>14 DEF Fine

(* GRUB and the parser agree on what the items are: the parser finds an entry
   where one begins that is not inside of another. *)
LEMMA EntriesAreItems ==
  ASSUME NEW S, NEW config \in Seq(S), Balanced(Entries(config))
  PROVE  Items(config) = {Entries(config)[n][1] : n \in DOMAIN Entries(config)}
<1> DEFINE N == Len(config)
           entries == Entries(config)
           first(n) == entries[n][1]
           last(n)  == entries[n][2]
<1>1. N \in Nat /\ DOMAIN config = 1..N
  OBVIOUS
<1>2. entries \in Seq(Nat \X Nat) /\ Found(config, 1, entries)
  BY Parsing
<1>3. \A n \in DOMAIN entries : last(n) # 0
  BY DEF Balanced
<1> HIDE DEF entries
<1>4. \A n \in DOMAIN entries : /\ last(n) = EndOf(config, first(n)) /\ first(n) \in 1..N
                                /\ config[first(n)].is = "menuentry"
  <2>1. \A n \in DOMAIN entries : entries[n] = <<first(n), EndOf(config, first(n))>>
    BY <1>2, Zenon DEF Found
  <2>2. \A n \in DOMAIN entries : first(n) \in 1..N /\ config[first(n)].is = "menuentry"
    BY <1>2, Zenon DEF Found
  <2>3. \A n \in DOMAIN entries : last(n) = EndOf(config, first(n))
    BY <2>1
  <2>4. QED  BY <2>2, <2>3, Zenon
<1>5. DOMAIN entries \subseteq Nat /\ DOMAIN entries = 1..Len(entries)
  BY <1>2
<1>6. ASSUME NEW n \in DOMAIN entries
      PROVE  /\ first(n) \in 1..N /\ last(n) \in first(n) + 1..N
             /\ Open(config, last(n)) = Open(config, first(n)) - 1
             /\ \A k \in first(n)..last(n) - 1 : Open(config, k) >= Open(config, first(n))
             /\ Block(config, first(n)) = first(n)..last(n)
  <2>1. Opens(config[first(n)])
    BY <1>4 DEF Opens
  <2>2. first(n) \in DOMAIN config /\ last(n) = EndOf(config, first(n)) /\ last(n) # 0
    BY <1>1, <1>3, <1>4
  <2> HIDE DEF first, last
  <2>3. QED  BY <1>1, <2>1, <2>2, EntryEnds
<1>7. ASSUME NEW n \in DOMAIN entries, NEW e \in MenuEntries(config), e < first(n),
             first(n) \in Block(config, e)
      PROVE  FALSE
  <2>1. e \in 1..N /\ config[e].is = "menuentry"
    BY <1>1 DEF MenuEntries
  <2>2. PICK m \in DOMAIN entries : e \in first(m)..last(m)
    BY <1>2, <2>1 DEF Found
  <2> HIDE DEF first, last
  <2>3. m = n \/ m < n \/ n < m
    BY <1>5
  <2>4. m < n
    <3>1. n < m => last(n) < first(m)
      BY <1>2 DEF Found, first, last
    <3>2. QED  BY <1>1, <1>6, <1>7, <2>1, <2>2, <2>3, <3>1
  <2>5. last(m) < first(n)
    BY <1>2, <2>4 DEF Found, first, last
  <2>6. e - 1 \in Nat /\ e \in Nat \ {0} /\ Line(config, e)
    BY <2>1, OpenStep
  <2>7. Open(config, e) = Open(config, e - 1) + 1 /\ Open(config, e) \in Int /\ Open(config, e - 1) \in Int
    BY <2>1, <2>6 DEF Line, Opens
  <2>8. first(m) \in 1..N /\ last(m) \in first(m) + 1..N /\ first(n) \in 1..N
        /\ Open(config, last(m)) = Open(config, first(m)) - 1
    BY <1>6
  <2>9. Open(config, first(m)) \in Int
    <3>1. Line(config, first(m))
      BY <2>8, OpenStep
    <3>2. QED  BY <3>1 DEF Line
  <2>10. Open(config, e) >= Open(config, first(m))
    <3>1. CASE e = first(m)
      BY <2>9, <3>1
    <3>2. CASE e # first(m)
      <4>1. e - 1 \in first(m)..last(m) - 1
        BY <2>1, <2>2, <2>8, <3>2
      <4>2. Open(config, e - 1) >= Open(config, first(m))
        BY <1>6, <4>1
      <4>3. QED  BY <2>7, <2>9, <4>2
    <3>3. QED  BY <3>1, <3>2
  <2>11. last(m) \in e..first(n) - 1
    BY <2>1, <2>2, <2>5, <2>8
  <2>12. Open(config, last(m)) >= Open(config, e)
    BY <1>7, <2>11 DEF Block
  <2>13. QED  BY <2>7, <2>8, <2>9, <2>10, <2>12
<1>8. ASSUME NEW n \in DOMAIN entries  PROVE  first(n) \in Items(config)
  <2>1. first(n) \in MenuEntries(config)
    BY <1>1, <1>4 DEF MenuEntries
  <2>2. QED  BY <1>7, <2>1 DEF Items
<1>9. ASSUME NEW i \in Items(config)  PROVE  \E n \in DOMAIN entries : i = first(n)
  <2>1. i \in MenuEntries(config) /\ i \in 1..N /\ config[i].is = "menuentry"
    BY <1>1 DEF Items, MenuEntries
  <2>2. PICK n \in DOMAIN entries : i \in first(n)..last(n)
    BY <1>2, <2>1 DEF Found
  <2>3. first(n) \in MenuEntries(config) /\ first(n) \in 1..N
    BY <1>1, <1>4 DEF MenuEntries
  <2>4. i \in Block(config, first(n))
    BY <1>6, <2>2
  <2>5. ~(first(n) < i)
    BY <2>3, <2>4 DEF Items
  <2>6. i = first(n)
    BY <2>1, <2>2, <2>3, <2>5
  <2>7. QED  BY <2>6
<1>10. Items(config) = {first(n) : n \in DOMAIN entries}
  <2> HIDE DEF first
  <2>1. QED  BY <1>8, <1>9
<1>11. QED  BY <1>10 DEF entries

(* The first of the entries is where the first block opens, unless that is a
   submenu. *)
LEMMA FirstOfTheMenu ==
  ASSUME NEW S, NEW config \in Seq(S), Balanced(Entries(config)), Entries(config) # <<>>,
         \A i \in DOMAIN config : Open(config, i) >= 0,
         \A i \in Menu(config) : config[i].is # "submenu"
  PROVE  Entries(config)[1][1] = Min(Menu(config))
<1> DEFINE N == Len(config)
           entries == Entries(config)
           first(n) == entries[n][1]
           last(n)  == entries[n][2]
           openers == {i \in 1..N : Opens(config[i])}
<1>1. N \in Nat /\ DOMAIN config = 1..N
  OBVIOUS
<1>2. entries \in Seq(Nat \X Nat) /\ Found(config, 1, entries) /\ entries # <<>>
  BY Parsing
<1>3. \A n \in DOMAIN entries : last(n) # 0
  BY DEF Balanced
<1> HIDE DEF entries
<1>4. 1 \in DOMAIN entries /\ DOMAIN entries \subseteq Nat /\ \A n \in DOMAIN entries : n >= 1
  BY <1>2
<1>5. \A n \in DOMAIN entries : first(n) \in 1..N /\ config[first(n)].is = "menuentry"
  BY <1>2, Zenon DEF Found
<1>6. first(1) \in openers
  BY <1>4, <1>5 DEF Opens
<1>7. \A n \in DOMAIN entries : first(1) <= first(n)
  <2> SUFFICES ASSUME NEW n \in DOMAIN entries PROVE first(1) <= first(n)
    OBVIOUS
  <2>1. CASE n = 1
    BY <1>5, <2>1
  <2>2. CASE n # 1
    <3>1. 1 < n
      BY <1>4, <2>2
    <3>2. last(1) < first(n)
      BY <1>2, <1>4, <3>1 DEF Found
    <3>3. last(1) = EndOf(config, first(1)) /\ last(1) # 0
      <4>1. entries[1] = <<first(1), EndOf(config, first(1))>>
        BY <1>2, <1>4, Zenon DEF Found
      <4>2. last(1) = EndOf(config, first(1))
        BY <4>1
      <4>3. QED  BY <1>3, <1>4, <4>2
    <3>4. last(1) \in first(1)..N
      <4> HIDE DEF first, last
      <4>1. first(1) \in DOMAIN config
        BY <1>1, <1>4, <1>5
      <4>2. last(1) \in {0} \cup first(1)..N
        BY <3>3, <4>1, EntryEnds
      <4>3. QED  BY <3>3, <4>2
    <3>5. first(1) \in 1..N /\ first(n) \in 1..N
      BY <1>4, <1>5
    <3> HIDE DEF first, last
    <3>6. QED  BY <1>1, <3>2, <3>4, <3>5
  <2>3. QED  BY <2>1, <2>2
<1>8. PICK f \in openers : \A i \in openers : f <= i
  <2>1. openers \subseteq Nat /\ openers # {}
    BY <1>1, <1>6
  <2> HIDE DEF openers
  <2>2. QED  BY <2>1, LeastElement, Zenon
<1>9. f \in 1..N /\ f \in Nat \ {0} /\ f - 1 \in Nat /\ Opens(config[f])
  BY <1>1, <1>8
<1>10. Open(config, f - 1) = 0
  <2>1. Open(config, f - 1) >= 0
    <3>1. CASE f = 1
      <4>1. Line(config, 1)
        BY OpenStep
      <4>2. QED  BY <3>1, <4>1 DEF Line
    <3>2. CASE f # 1
      <4>1. f - 1 \in DOMAIN config
        BY <1>1, <1>9, <3>2
      <4>2. QED  BY <4>1
    <3>3. QED  BY <3>1, <3>2
  <2>2. {k \in 1..f - 1 : Opens(config[k])} = {}
    BY <1>1, <1>8, <1>9
  <2>3. IsFiniteSet({k \in 1..f - 1 : Closes(config[k])})
    <3>1. IsFiniteSet(1..f - 1)
      BY <1>9, FS_Interval
    <3>2. {k \in 1..f - 1 : Closes(config[k])} \subseteq 1..f - 1
      OBVIOUS
    <3>3. QED  BY <3>1, <3>2, FS_Subset
  <2> DEFINE closers == {k \in 1..f - 1 : Closes(config[k])}
  <2>4. Cardinality(closers) \in Nat
    BY <2>3, FS_CardinalityType
  <2>5. Cardinality({}) = 0
    BY FS_EmptySet
  <2>6. Open(config, f - 1) = Cardinality({}) - Cardinality(closers)
    BY <2>2, Zenon DEF Open, Depth
  <2> HIDE DEF closers
  <2>7. QED  BY <2>1, <2>4, <2>5, <2>6
<1>11. f \in Menu(config) /\ \A i \in Menu(config) : f <= i
  BY <1>1, <1>8, <1>9, <1>10 DEF Menu, Top
<1>12. config[f].is = "menuentry"
  BY <1>9, <1>11 DEF Opens
<1>13. PICK n \in DOMAIN entries : f \in first(n)..last(n)
  BY <1>2, <1>9, <1>12 DEF Found
<1>14. first(n) \in openers /\ first(n) \in 1..N /\ first(1) \in 1..N
  BY <1>4, <1>5 DEF Opens
<1>15. first(1) = f
  <2> HIDE DEF first, last, openers
  <2>1. f <= first(n) /\ f <= first(1) /\ first(1) <= first(n) /\ first(n) <= f
    BY <1>6, <1>7, <1>8, <1>9, <1>13, <1>14
  <2>2. QED  BY <1>9, <1>14, <2>1
<1>16. Menu(config) \subseteq Nat
  BY <1>1 DEF Menu
<1>17. Min(Menu(config)) = f
  <2> DEFINE IsLeast(x) == \A y \in Menu(config) : x =< y
  <2>1. f \in Menu(config) /\ IsLeast(f)
    BY <1>11
  <2>2. \A x \in Menu(config) : IsLeast(x) => x = f
    BY <1>11, <1>16
  <2>3. Min(Menu(config)) = CHOOSE x \in Menu(config) : IsLeast(x)
    BY DEF Min
  <2> HIDE DEF IsLeast
  <2>4. QED  BY <2>1, <2>2, <2>3
<1>18. QED  BY <1>15, <1>17 DEF entries

(* _add_autoinstall puts the word behind nothing but what stood before the
   first dashes. *)
LEMMA AutoinstallAhead ==
  ASSUME NEW S, NEW args \in Seq(S)
  PROVE  \E n \in DOMAIN AddAutoinstall(args) :
           /\ AddAutoinstall(args)[n] = "autoinstall"
           /\ \A m \in 1..n - 1 : AddAutoinstall(args)[m] = args[m] /\ AddAutoinstall(args)[m] # Dashes
<1>1. Len(args) \in Nat /\ DOMAIN args = 1..Len(args)
  OBVIOUS
<1>2. CASE ~Has(args, Dashes)
  <2>1. AddAutoinstall(args) = Append(args, "autoinstall")
    BY <1>2 DEF AddAutoinstall
  <2>2. /\ Len(args) + 1 \in DOMAIN Append(args, "autoinstall")
        /\ Append(args, "autoinstall")[Len(args) + 1] = "autoinstall"
        /\ \A m \in 1..Len(args) : Append(args, "autoinstall")[m] = args[m]
    BY <1>1
  <2>3. \A m \in 1..Len(args) : args[m] # Dashes
    BY <1>1, <1>2 DEF Has
  <2>4. Len(args) + 1 - 1 = Len(args)
    BY <1>1
  <2>5. QED  BY <2>1, <2>2, <2>3, <2>4
<1>3. CASE Has(args, Dashes)
  <2> DEFINE IsFirst(i) == args[i] = Dashes /\ ~Has(SubSeq(args, 1, i - 1), Dashes)
             i == CHOOSE i \in DOMAIN args : IsFirst(i)
             behind == SubSeq(args, i + 1, Len(args))
             rest == IF behind = <<>> THEN <<Dashes>> ELSE <<Glued>> \o Tail(behind)
             before == SubSeq(args, 1, i - 1)
             result == before \o <<"autoinstall">> \o rest
  <2>1. AddAutoinstall(args) = result
    BY <1>3, Zenon DEF AddAutoinstall
  <2>2. i \in DOMAIN args /\ IsFirst(i)
    <3> DEFINE At == {j \in DOMAIN args : args[j] = Dashes}
    <3>1. PICK j \in At : \A k \in At : j <= k
      <4>1. At \subseteq Nat /\ At # {}
        BY <1>1, <1>3 DEF Has
      <4>2. QED  BY <4>1, LeastElement, Zenon
    <3>2. j \in 1..Len(args) /\ args[j] = Dashes
      BY <1>1, <3>1
    <3>3. DOMAIN SubSeq(args, 1, j - 1) = 1..j - 1
          /\ \A k \in 1..j - 1 : SubSeq(args, 1, j - 1)[k] = args[k]
      BY <1>1, <3>2
    <3>4. \A k \in 1..j - 1 : args[k] # Dashes
      BY <1>1, <3>1, <3>2
    <3>5. ~Has(SubSeq(args, 1, j - 1), Dashes)
      BY <3>3, <3>4 DEF Has
    <3>6. j \in DOMAIN args /\ IsFirst(j)
      BY <1>1, <3>2, <3>5
    <3> HIDE DEF IsFirst
    <3>7. QED  BY <3>6, Zenon
  <2>3. i \in 1..Len(args) /\ ~Has(before, Dashes)
    BY <1>1, <2>2
  <2> HIDE DEF i
  <2>4. before \in Seq(S) /\ Len(before) = i - 1 /\ DOMAIN before = 1..i - 1
        /\ \A k \in 1..i - 1 : before[k] = args[k]
    BY <1>1, <2>3
  <2>5. rest \in Seq(S \cup {Dashes, Glued})
    <3>1. behind \in Seq(S \cup {Dashes, Glued})
      BY <1>1, <2>3
    <3> HIDE DEF behind
    <3>2. behind # <<>> => Tail(behind) \in Seq(S \cup {Dashes, Glued})
      BY <3>1
    <3>3. <<Dashes>> \in Seq(S \cup {Dashes, Glued}) /\ <<Glued>> \in Seq(S \cup {Dashes, Glued})
      OBVIOUS
    <3>4. behind # <<>> => <<Glued>> \o Tail(behind) \in Seq(S \cup {Dashes, Glued})
      BY <3>2, <3>3
    <3>5. QED  BY <3>3, <3>4, Zenon
  <2>6. \A k \in 1..i - 1 : before[k] # Dashes
    BY <2>3, <2>4 DEF Has
  <2> HIDE DEF before, rest
  <2>7. /\ i \in DOMAIN result /\ result[i] = "autoinstall"
        /\ \A m \in 1..i - 1 : result[m] = before[m]
    <3>1. before \in Seq(S \cup {Dashes, Glued, "autoinstall"})
          /\ rest \in Seq(S \cup {Dashes, Glued, "autoinstall"})
          /\ <<"autoinstall">> \in Seq(S \cup {Dashes, Glued, "autoinstall"})
      BY <2>4, <2>5
    <3>2. QED  BY <2>3, <2>4, <3>1
  <2> HIDE DEF result
  <2>8. QED  BY <2>1, <2>3, <2>4, <2>6, <2>7
<1>4. QED  BY <1>2, <1>3

(* A configuration and the one it is made of, as far as the patch goes: the line
   s of the item and the line k of its kernel. *)
Patched(config, old, s, k) ==
  /\ s \in DOMAIN old /\ k \in DOMAIN old /\ s # k /\ config # <<>>
  /\ config \in Seq({config[i] : i \in DOMAIN config})
  /\ Len(config) = Len(old) + 2
  /\ config[Len(old) + 1] = Set("default", "0") /\ config[Len(old) + 2] = Set("timeout", "3")
  /\ \A i \in DOMAIN old : config[i].is = old[i].is /\ (i \notin {s, k} => config[i] = old[i])
  /\ old[s].is = "menuentry" /\ config[s].title = Gladys
  /\ old[k].is = "linux" /\ config[k].args = AddAutoinstall(old[k].args)
  /\ EndOf(old, s) # 0 /\ LinesOf(old, <<s, EndOf(old, s)>>, "linux") = {k}
  /\ s \in Items(old)

LEMMA Patching ==
  ASSUME NEW old \in Seq(AnyGrubLine), NEW config, config = Replace(old), config # Refused
  PROVE  \E s, k : Patched(config, old, s, k)
<1> DEFINE N == Len(old)
           entries    == Entries(old)
           candidates == {n \in DOMAIN entries :
                            Title(old, entries[n]) = Canonical /\ IsCasper(old, entries[n])}
           source     == entries[CHOOSE n \in candidates : TRUE]
           kernel     == CHOOSE i \in LinesOf(old, source, "linux") : TRUE
           s == source[1]
           k == kernel
           renamed == [old EXCEPT ![s].title = Gladys, ![k].args = AddAutoinstall(@)]
<1>1. N \in Nat /\ DOMAIN old = 1..N /\ \A i \in 1..N : old[i] \in AnyGrubLine
  OBVIOUS
<1>2. Balanced(entries) /\ Cardinality(candidates) = 1 /\ config = renamed \o BOOT_POLICY
  BY Zenon DEF Replace
<1>3. entries \in Seq(Nat \X Nat) /\ Found(old, 1, entries)
  BY <1>2, Parsing
<1>4. Items(old) = {entries[n][1] : n \in DOMAIN entries}
  BY <1>2, EntriesAreItems
<1> HIDE DEF entries
<1>5. PICK c \in DOMAIN entries : candidates = {c} /\ source = entries[c] /\ IsCasper(old, source)
  <2>1. DOMAIN entries = 1..Len(entries) /\ Len(entries) \in Nat
    BY <1>3
  <2>2. IsFiniteSet(candidates)
    <3>1. IsFiniteSet(DOMAIN entries)
      BY <2>1, FS_Interval
    <3>2. candidates \subseteq DOMAIN entries
      OBVIOUS
    <3>3. QED  BY <3>1, <3>2, FS_Subset
  <2>3. PICK c : candidates = {c}
    BY <1>2, <2>2, FS_Singleton
  <2>4. c \in DOMAIN entries /\ IsCasper(old, entries[c]) /\ source = entries[c]
    BY <2>3
  <2>5. QED  BY <2>3, <2>4
<1> HIDE DEF source
<1>6. /\ s \in 1..N /\ old[s].is = "menuentry" /\ s \in Items(old)
      /\ source = <<s, EndOf(old, s)>> /\ EndOf(old, s) # 0
  <2>1. source = <<s, EndOf(old, s)>> /\ s \in 1..N /\ old[s].is = "menuentry"
    BY <1>3, <1>5, Zenon DEF Found
  <2>2. source[2] # 0
    BY <1>2, <1>5 DEF Balanced
  <2>3. source[2] = EndOf(old, s)
    BY <2>1
  <2>4. s \in Items(old)
    BY <1>4, <1>5
  <2>5. QED  BY <2>1, <2>2, <2>3, <2>4
<1> HIDE DEF s
<1>7. EndOf(old, s) \in s + 1..N
  <2>1. Opens(old[s])
    BY <1>6 DEF Opens
  <2>2. QED  BY <1>1, <1>6, <2>1, EntryEnds
<1>8. LinesOf(old, source, "linux") = {k}
  <2> DEFINE lines == LinesOf(old, source, "linux")
  <2>1. Cardinality(lines) = 1
    BY <1>5 DEF IsCasper
  <2>2. IsFiniteSet(lines)
    <3>1. IsFiniteSet(s..EndOf(old, s))
      BY <1>1, <1>6, <1>7, FS_Interval
    <3>2. source[1] = s /\ source[2] = EndOf(old, s)
      BY <1>6
    <3>3. lines \subseteq s..EndOf(old, s)
      BY <3>2 DEF LinesOf
    <3>4. QED  BY <3>1, <3>3, FS_Subset
  <2> HIDE DEF lines
  <2>3. PICK l : lines = {l}
    BY <2>1, <2>2, FS_Singleton
  <2>4. k = CHOOSE i \in lines : TRUE
    BY DEF lines
  <2>5. QED  BY <2>3, <2>4 DEF lines
<1> HIDE DEF k
<1>9. k \in 1..N /\ old[k].is = "linux" /\ s # k
  <2>1. source[1] = s /\ source[2] = EndOf(old, s)
    BY <1>6
  <2>2. k \in s..EndOf(old, s) /\ old[k].is = "linux"
    BY <1>8, <2>1 DEF LinesOf
  <2>3. QED  BY <1>1, <1>6, <1>7, <2>2
<1>10. /\ renamed \in [1..N -> {renamed[i] : i \in 1..N}]
       /\ \A i \in 1..N : i \notin {s, k} => renamed[i] = old[i]
       /\ renamed[s] = [old[s] EXCEPT !.title = Gladys]
       /\ renamed[k] = [old[k] EXCEPT !.args = AddAutoinstall(old[k].args)]
  BY <1>1, <1>6, <1>9
<1>11. /\ old[s] \in [is : {"menuentry"}, title : STRING]
       /\ old[k] \in [is : {"linux"}, args : Seq(STRING)]
  BY <1>1, <1>6, <1>9 DEF AnyGrubLine
<1>12. renamed[s].is = "menuentry" /\ renamed[s].title = Gladys
  BY <1>10, <1>11
<1>13. renamed[k].is = "linux" /\ renamed[k].args = AddAutoinstall(old[k].args)
  BY <1>10, <1>11
<1> HIDE DEF renamed
<1>14. /\ Len(renamed) = N /\ DOMAIN renamed = 1..N
       /\ renamed \in Seq({renamed[i] : i \in 1..N})
  BY <1>1, <1>10
<1>15. /\ BOOT_POLICY \in Seq({Set("default", "0"), Set("timeout", "3")}) /\ Len(BOOT_POLICY) = 2
       /\ BOOT_POLICY[1] = Set("default", "0") /\ BOOT_POLICY[2] = Set("timeout", "3")
  BY DEF BOOT_POLICY
<1>16. /\ config = [i \in 1..N + 2 |-> config[i]]
       /\ Len(config) = N + 2 /\ DOMAIN config = 1..N + 2
       /\ \A i \in 1..N : config[i] = renamed[i]
       /\ config[N + 1] = Set("default", "0") /\ config[N + 2] = Set("timeout", "3")
  <2> DEFINE All == {renamed[i] : i \in 1..N} \cup {Set("default", "0"), Set("timeout", "3")}
  <2>1. renamed \in Seq(All) /\ BOOT_POLICY \in Seq(All)
    BY <1>14, <1>15
  <2> HIDE DEF All
  <2>2. /\ config \in Seq(All) /\ Len(config) = N + 2
        /\ \A i \in 1..N + 2 : config[i] = IF i <= N THEN renamed[i] ELSE BOOT_POLICY[i - N]
    <3>1. config \in Seq(All) /\ Len(config) = Len(renamed) + Len(BOOT_POLICY)
      BY <1>2, <2>1, ConcatProperties, Zenon
    <3>2. \A i \in 1..Len(renamed) + Len(BOOT_POLICY) :
            config[i] = IF i <= Len(renamed) THEN renamed[i] ELSE BOOT_POLICY[i - Len(renamed)]
      BY <1>2, <2>1, ConcatProperties, Zenon
    <3>3. QED  BY <1>14, <1>15, <3>1, <3>2, Zenon
  <2>3. DOMAIN config = 1..N + 2 /\ config = [i \in 1..N + 2 |-> config[i]]
    BY <2>2
  <2>4. \A i \in 1..N : i \in 1..N + 2 /\ i <= N
    BY <1>1
  <2>5. N + 1 \in 1..N + 2 /\ ~(N + 1 <= N) /\ N + 1 - N = 1
    BY <1>1
  <2>6. N + 2 \in 1..N + 2 /\ ~(N + 2 <= N) /\ N + 2 - N = 2
    BY <1>1
  <2>7. QED  BY <1>15, <2>2, <2>3, <2>4, <2>5, <2>6
<1>17. config \in Seq({config[i] : i \in DOMAIN config})
  <2>1. N + 2 \in Nat
    BY <1>1
  <2>2. QED  BY <1>16, <2>1
<1>18. config # <<>>
  BY <1>1, <1>16
<1>19. \A i \in 1..N : config[i].is = old[i].is /\ (i \notin {s, k} => config[i] = old[i])
  BY <1>6, <1>9, <1>10, <1>12, <1>13, <1>16
<1>20. /\ config[s].title = Gladys /\ config[k].args = AddAutoinstall(old[k].args)
       /\ LinesOf(old, <<s, EndOf(old, s)>>, "linux") = {k}
  BY <1>6, <1>8, <1>9, <1>12, <1>13, <1>16
<1>21. Patched(config, old, s, k)
  BY <1>1, <1>6, <1>9, <1>16, <1>17, <1>18, <1>19, <1>20 DEF Patched
<1>22. QED  BY <1>21

(* The patch opens and closes nothing, so the items stay. *)
LEMMA SameBlocks ==
  ASSUME NEW old \in Seq(AnyGrubLine), NEW config, NEW s, NEW k,
         Patched(config, old, s, k), Parses(old)
  PROVE  /\ Items(config) = Items(old)
         /\ Block(config, s) \cap DOMAIN old = Block(old, s)
         /\ \A i \in DOMAIN config : Open(config, i) >= 0
         /\ Top(config, Len(old) + 1) /\ Top(config, Len(old) + 2)
<1> DEFINE N == Len(old)
<1>1. /\ N \in Nat /\ DOMAIN old = 1..N /\ DOMAIN config = 1..N + 2 /\ Len(config) = N + 2
      /\ s \in 1..N
  BY DEF Patched
<1>2. \A i \in 1..N : config[i].is = old[i].is
  BY <1>1, Zenon DEF Patched
<1>3. config[N + 1].is = "set" /\ config[N + 2].is = "set"
  BY DEF Patched, Set
<1> HIDE DEF N
<1>4. ASSUME NEW i \in 0..N  PROVE  Open(config, i) = Open(old, i)
  <2>1. \A j \in 1..i : config[j].is = old[j].is
    BY <1>1, <1>2
  <2>2. {j \in 1..i : Opens(config[j])} = {j \in 1..i : Opens(old[j])}
    BY <2>1 DEF Opens
  <2>3. {j \in 1..i : Closes(config[j])} = {j \in 1..i : Closes(old[j])}
    BY <2>1 DEF Closes
  <2>4. QED  BY <2>2, <2>3 DEF Open, Depth
<1>5. Open(config, N) = 0
  BY <1>1, <1>4 DEF Parses, N
<1>6. ASSUME NEW h \in Nat, NEW i, i = h + 1, i = N + 1 \/ i = N + 2, Open(config, h) = 0
      PROVE  Open(config, i) = 0 /\ Top(config, i)
  <2>1. i \in Nat \ {0} /\ i - 1 = h
    BY <1>6
  <2>2. ~Opens(config[i]) /\ ~Closes(config[i])
    BY <1>3, <1>6 DEF Opens, Closes
  <2>3. Line(config, i)
    BY <2>1, OpenStep
  <2>4. QED  BY <1>6, <2>1, <2>2, <2>3 DEF Line, Top
<1>7. PICK p, q : p = N + 1 /\ q = N + 2
  OBVIOUS
<1>8. p \in Nat /\ q = p + 1
  BY <1>1, <1>7
<1>9. Open(config, p) = 0 /\ Top(config, p)
  BY <1>1, <1>5, <1>6, <1>7
<1>10. Open(config, q) = 0 /\ Top(config, q)
  BY <1>6, <1>7, <1>8, <1>9
<1>11. ASSUME NEW i \in DOMAIN config  PROVE  Open(config, i) >= 0
  <2>1. CASE i \in 1..N
    <3>1. Open(old, i) >= 0 /\ Open(config, i) = Open(old, i)
      BY <1>1, <1>4, <2>1 DEF Parses
    <3>2. QED  BY <3>1
  <2>2. CASE i \notin 1..N
    <3>1. i = p \/ i = q
      BY <1>1, <1>7, <2>2
    <3>2. QED  BY <1>9, <1>10, <3>1
  <2>3. QED  BY <2>1, <2>2
<1>12. ASSUME NEW e \in 1..N, NEW i \in 1..N
      PROVE  i \in Block(config, e) <=> i \in Block(old, e)
  <2>1. i \in e..Len(config) <=> i \in e..N
    BY <1>1
  <2>2. e \in 0..N /\ \A j \in e..i - 1 : j \in 0..N
    BY <1>1
  <2>3. Open(config, e) = Open(old, e) /\ \A j \in e..i - 1 : Open(config, j) = Open(old, j)
    BY <1>4, <2>2
  <2>4. (\A j \in e..i - 1 : Open(config, j) >= Open(config, e))
          <=> (\A j \in e..i - 1 : Open(old, j) >= Open(old, e))
    BY <2>3, Zenon
  <2>5. QED  BY <2>1, <2>4, Zenon DEF Block, N
<1>13. MenuEntries(config) = MenuEntries(old) /\ MenuEntries(old) \subseteq 1..N
  <2>1. ASSUME NEW i \in DOMAIN config, config[i].is = "menuentry"  PROVE  i \in 1..N
    <3>1. i \in 1..N \/ i = N + 1 \/ i = N + 2
      BY <1>1
    <3>2. QED  BY <1>3, <2>1, <3>1
  <2>2. 1..N \subseteq DOMAIN config
    BY <1>1
  <2>3. QED  BY <1>1, <1>2, <2>1, <2>2 DEF MenuEntries
<1>14. Items(config) = Items(old)
  BY <1>12, <1>13, Zenon DEF Items
<1>15. Block(config, s) \cap DOMAIN old = Block(old, s)
  <2>1. Block(old, s) \subseteq 1..N
    BY <1>1 DEF Block, N
  <2>2. QED  BY <1>1, <1>12, <2>1
<1>16. Top(config, N + 1) /\ Top(config, N + 2)
  BY <1>7, <1>9, <1>10, Zenon
<1>17. QED  BY <1>11, <1>14, <1>15, <1>16 DEF N

(* What BootsGladys says of one image. *)
Installs(config, old, s, k) ==
  /\ {i \in Items(config) : config[i].title = Gladys} = {s}
  /\ {i \in Block(config, s) : config[i].is = "linux"} = {k}
  /\ (\A i \in Menu(config) : config[i].is # "submenu") => s = Min(Menu(config))
  /\ InEffect(config, Set("default", "0")) /\ InEffect(config, Set("timeout", "3"))
  /\ \E n \in DOMAIN config[k].args :
       /\ config[k].args[n] = "autoinstall"
       /\ \A m \in 1..n - 1 : config[k].args[m] = old[k].args[m] /\ config[k].args[m] # Dashes
  /\ \A i \in DOMAIN old : i \in {s, k} \/ config[i] = old[i]

LEMMA PatchInstalls ==
  ASSUME NEW old \in Seq(AnyGrubLine), NEW config,
         Parses(old), config = Patch(old), config # Refused
  PROVE  \E s, k : Installs(config, old, s, k)
<1>1. config = Replace(old) /\ ValidGrub(config)
  BY DEF Patch
<1>2. PICK s, k : Patched(config, old, s, k)
  BY <1>1, Patching
<1> DEFINE N == Len(old)
           entries == Entries(config)
<1>3. /\ N \in Nat /\ DOMAIN old = 1..N /\ DOMAIN config = 1..N + 2 /\ Len(config) = N + 2
      /\ s \in 1..N /\ k \in 1..N
  BY <1>2 DEF Patched
<1>4. config \in Seq({config[i] : i \in DOMAIN config})
  BY <1>2 DEF Patched
<1>5. /\ Items(config) = Items(old) /\ Block(config, s) \cap DOMAIN old = Block(old, s)
      /\ \A i \in DOMAIN config : Open(config, i) >= 0
      /\ Top(config, N + 1) /\ Top(config, N + 2)
  BY <1>2, SameBlocks
<1>6. /\ Balanced(entries) /\ entries # <<>>
      /\ {n \in DOMAIN entries : Title(config, entries[n]) = Gladys} = {1}
  BY <1>1 DEF ValidGrub
<1>7. Items(config) = {entries[n][1] : n \in DOMAIN entries}
  BY <1>4, <1>6, EntriesAreItems
<1>8. (\A i \in Menu(config) : config[i].is # "submenu") => entries[1][1] = Min(Menu(config))
  BY <1>4, <1>5, <1>6, FirstOfTheMenu
<1> HIDE DEF entries, N
<1>9. {i \in Items(config) : config[i].title = Gladys} = {entries[1][1]}
  <2>1. \A n \in DOMAIN entries : config[entries[n][1]].title = Gladys <=> n = 1
    BY <1>6, Zenon DEF Title
  <2>2. 1 \in DOMAIN entries
    BY <1>6
  <2>3. QED  BY <1>7, <2>1, <2>2
<1>10. s = entries[1][1]
  <2>1. s \in Items(config) /\ config[s].title = Gladys
    BY <1>2, <1>5 DEF Patched
  <2>2. QED  BY <1>9, <2>1
<1>11. {i \in Block(config, s) : config[i].is = "linux"} = {k}
  <2>1. Opens(old[s]) /\ EndOf(old, s) # 0 /\ LinesOf(old, <<s, EndOf(old, s)>>, "linux") = {k}
    BY <1>2 DEF Patched, Opens
  <2>2. EndOf(old, s) \in s + 1..N /\ Block(old, s) = s..EndOf(old, s)
    BY <1>3, <2>1, EntryEnds DEF N
  <2>3. {i \in s..EndOf(old, s) : old[i].is = "linux"} = {k}
    BY <2>1 DEF LinesOf
  <2>4. \A i \in s..EndOf(old, s) : i \in 1..N /\ config[i].is = old[i].is
    <3>1. \A i \in s..EndOf(old, s) : i \in 1..N
      BY <1>3, <2>2
    <3>2. QED  BY <1>2, <1>3, <3>1, Zenon DEF Patched
  <2>5. ASSUME NEW i \in Block(config, s), config[i].is = "linux"
        PROVE  i \in s..EndOf(old, s)
    <3>1. i \in 1..N \/ i = N + 1 \/ i = N + 2
      BY <1>3 DEF Block
    <3>2. config[N + 1].is = "set" /\ config[N + 2].is = "set"
      BY <1>2 DEF Patched, Set, N
    <3>3. i \in 1..N
      BY <2>5, <3>1, <3>2
    <3>4. QED  BY <1>3, <1>5, <2>2, <3>3
  <2>6. s..EndOf(old, s) \subseteq Block(config, s)
    BY <1>5, <2>2
  <2>7. QED  BY <2>3, <2>4, <2>5, <2>6
<1>12. config[N + 1] = Set("default", "0") /\ config[N + 2] = Set("timeout", "3")
  BY <1>2 DEF Patched, N
<1>13. InEffect(config, Set("default", "0"))
  <2>1. N + 1 \in DOMAIN config /\ \A j \in N + 1 + 1..Len(config) : j = N + 2
    BY <1>3
  <2>2. config[N + 2].name # Set("default", "0").name
    BY <1>12 DEF Set
  <2>3. QED  BY <1>5, <1>12, <2>1, <2>2 DEF InEffect
<1>14. InEffect(config, Set("timeout", "3"))
  <2>1. N + 2 \in DOMAIN config /\ N + 2 + 1..Len(config) = {}
    BY <1>3
  <2>2. QED  BY <1>5, <1>12, <2>1 DEF InEffect
<1>15. \E n \in DOMAIN config[k].args :
         /\ config[k].args[n] = "autoinstall"
         /\ \A m \in 1..n - 1 : config[k].args[m] = old[k].args[m] /\ config[k].args[m] # Dashes
  <2>1. old[k] \in AnyGrubLine /\ old[k].is = "linux"
    BY <1>2, <1>3 DEF Patched, N
  <2>2. old[k].args \in Seq(STRING)
    BY <2>1 DEF AnyGrubLine
  <2>3. config[k].args = AddAutoinstall(old[k].args)
    BY <1>2 DEF Patched
  <2>4. QED  BY <2>2, <2>3, AutoinstallAhead
<1>16. \A i \in DOMAIN old : i \in {s, k} \/ config[i] = old[i]
  BY <1>2 DEF Patched
<1>17. Installs(config, old, s, k)
  BY <1>8, <1>9, <1>10, <1>11, <1>13, <1>14, <1>15, <1>16, Zenon DEF Installs
<1>18. QED  BY <1>17

(* Whatever the menu of the base image is, however its blocks are nested, and
   however xorriso went wrong: what may be released has one Gladys item with one
   kernel, told to install where it must be, and the rest of the base's menu.  In
   a menu without submenus that item is the first, hence the one that starts by
   itself. *)
THEOREM Boot == Spec => []BootsGladys
<1>1. IInv => BootsGladys
  <2> SUFFICES ASSUME IInv, NEW new \in Accepted
               PROVE  LET config == new.grub
                          old    == new.of.grub
                          gladys == {i \in Items(config) : config[i].title = Gladys}
                          kernel == {i \in UNION {Block(config, g) : g \in gladys} :
                                       config[i].is = "linux"}
                      IN /\ Cardinality(gladys) = 1 /\ Cardinality(kernel) = 1
                         /\ (\A i \in Menu(config) : config[i].is # "submenu")
                              => gladys = {Min(Menu(config))}
                         /\ InEffect(config, Set("default", "0"))
                         /\ InEffect(config, Set("timeout", "3"))
                         /\ \A i \in kernel :
                              \E n \in DOMAIN config[i].args :
                                /\ config[i].args[n] = "autoinstall"
                                /\ \A m \in 1..n - 1 : /\ config[i].args[m] = old[i].args[m]
                                                       /\ config[i].args[m] # Dashes
                         /\ \A i \in DOMAIN old : i \in gladys \cup kernel \/ config[i] = old[i]
    BY DEF BootsGladys
  <2> DEFINE config == new.grub
             old    == new.of.grub
             gladys == {i \in Items(config) : config[i].title = Gladys}
             kernel == {i \in UNION {Block(config, g) : g \in gladys} : config[i].is = "linux"}
  <2>1. Made(new) /\ \E profile \in Profiles : Passes(new, profile)
    BY AcceptedPasses
  <2>2. old \in Seq(AnyGrubLine) /\ Parses(old)
    BY <2>1 DEF Made
  <2>3. config = Patch(old) /\ config # Refused
    BY <2>1 DEF Passes, MatchesBase
  <2>4. PICK s, k : Installs(config, old, s, k)
    BY <2>2, <2>3, PatchInstalls
  <2>5. gladys = {s}
    BY <2>4 DEF Installs
  <2>6. kernel = {k}
    <3>1. UNION {Block(config, g) : g \in gladys} = Block(config, s)
      BY <2>5
    <3>2. QED  BY <2>4, <3>1 DEF Installs
  <2>7. Cardinality(gladys) = 1 /\ Cardinality(kernel) = 1
    BY <2>5, <2>6, FS_Singleton
  <2> HIDE DEF gladys, kernel
  <2>8. QED  BY <2>4, <2>5, <2>6, <2>7 DEF Installs, gladys, kernel
<1>2. QED  BY <1>1, Invariance, PTL
=============================================================================
