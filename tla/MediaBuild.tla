----------------------------- MODULE MediaBuild ------------------------------
(***************************************************************************)
(* build-iso.sh and the scripts it calls, an action for each: the base     *)
(* image is found, fetched into a cache and authenticated, the documents   *)
(* and the payload are checked, GRUB's configuration and the checksums of  *)
(* the media rewritten, the new image written by xorriso, inspected against*)
(* its base, moved to dist/ and given a checksum.  A script stops the build*)
(* at its first error, the machine anywhere; cache and dist/ stay.         *)
(***************************************************************************)
EXTENDS UbuntuSource, Autoinstall, Payload, GrubPatch, MediaSums, BootMetadata

CONSTANTS
  Worlds,     \* what the first build may meet
  Later,      \* what a build after it may meet
  Faults,     \* the ways in which xorriso may go wrong
  MaxBuilds   \* bound on the number of builds

Profiles == {"production", "ci-smoke", "ci-real"}

(* The files of a base image by what the build does with them. *)
Grub       == "boot/grub/grub.cfg"
Restricted == {"pool/restricted/nvidia"}
BootChain  == {"casper/vmlinuz"}
SignedIndex     == "dists/restricted/Packages"
BaseFiles  == {Grub, SignedIndex, "pool/main/base"} \cup Restricted \cup BootChain
AddedFiles == {"payload", "autoinstall", "single-disk-storage"}

AnyListLine ==
  [form : {TRUE}, file : STRING, content : {"image", "other"}, apart : {TRUE}]
    \cup [form : {FALSE}, file : STRING, content : {"none"}, apart : BOOLEAN]

AnySumLine == [form : BOOLEAN, file : STRING, dotted : BOOLEAN, content : Seq(AnyGrubLine)]

(* What a build meets: its profile, the signed list, what the mirror sends, and
   of the base image, of the documents and of the payload what is looked at. *)
World(w) ==
  /\ w.profile \in Profiles
  /\ w.listing \in Seq(AnyListLine)
  /\ w.production.late \in Seq(STRING)
  /\ w.grub \in Seq(AnyGrubLine)
  /\ w.sums \in Seq(AnySumLine)
  /\ w.report \in Seq(AnyReportLine) /\ w.disc \in Seq(STRING)

(* A file goes wrong as a whole: it is not written, or not as it should be; what
   GRUB's configuration then holds is that of the base. *)
NoFault == [is |-> "none"]
PossibleFaults ==
  [is : {"none", "old grub", "old sums", "old places", "no boot", "boot image", "pool kept"}]
  \cup [is : {"lost"}, file : BaseFiles \cup AddedFiles]
  \cup [is : {"damaged"}, file : (BaseFiles \cup AddedFiles) \ ({Grub} \cup Restricted)]

ASSUME WorldsAssumption == \A w \in Worlds \cup Later : World(w)
ASSUME FaultsAssumption == NoFault \in Faults /\ Faults \subseteq PossibleFaults
ASSUME BuildsAssumption == MaxBuilds \in Nat \ {0}

VARIABLES
  step,     \* what the build does next; "idle" between builds
  builds,   \* the builds begun
  world,    \* what it meets
  base,     \* the line of the list that names its base image
  image,    \* the temporary directory: the new image, as far as it has come
  cache,    \* what each file of the cache holds; "absent", "partial"
  dist      \* per profile: an image, the build it is of, the build its checksum is of

inputs == <<builds, world>>
vars == <<step, inputs, base, image, cache, dist>>

Steps == {"idle", "discover", "fetch", "keep", "recheck", "validate", "payload", "patch",
          "sums", "remaster", "inspect", "move", "hash"}

Nothing == [grub |-> Refused]
NeverBuilt == [image |-> Nothing, of |-> 0, sum |-> 0]

MediaTypeOK ==
  /\ step \in Steps /\ builds \in 0..MaxBuilds
  /\ cache \in [DOMAIN PointRelease -> {"absent", "partial", "image", "other"}]
  /\ \A profile \in Profiles :
       /\ dist[profile].of \in 0..builds /\ dist[profile].sum \in 0..dist[profile].of
       /\ dist[profile].of = 0 <=> dist[profile].image = Nothing
  /\ step \in {"idle", "discover", "fetch", "keep", "recheck", "validate", "payload", "patch", "hash"}
       => image = Nothing
  /\ step \notin {"idle", "discover"} => base.file \in DOMAIN PointRelease

Init ==
  /\ step = "idle" /\ builds = 0 /\ world \in Worlds
  /\ base = NoRelease /\ image = Nothing
  /\ cache = [file \in DOMAIN PointRelease |-> "absent"]
  /\ dist = [profile \in Profiles |-> NeverBuilt]

-----------------------------------------------------------------------------
(* Mutant: the temporary directory stays. *)
StopUncleaned == step' = "idle" /\ UNCHANGED image

(* trap cleanup EXIT. *)
Stop == step' = "idle" /\ image' = Nothing

(* A script without an effect but its exit status. *)
Check(from, passed, to) ==
  /\ step = from
  /\ IF passed THEN step' = to /\ UNCHANGED image ELSE Stop
  /\ UNCHANGED <<inputs, base, cache, dist>>

Start ==
  /\ step = "idle" /\ builds < MaxBuilds
  /\ step' = "discover" /\ builds' = builds + 1
  /\ IF builds = 0 THEN UNCHANGED world ELSE world' \in Later
  /\ UNCHANGED <<base, image, cache, dist>>

DiscoverBase ==
  /\ step = "discover"
  /\ base' = Discover(world.listing)
  /\ IF base' = NoRelease THEN Stop ELSE step' = "fetch" /\ UNCHANGED image
  /\ UNCHANGED <<inputs, cache, dist>>

(* The file of the cache, or a download that is what the list says. *)
Fetch ==
  /\ step = "fetch"
  /\ IF cache[base.file] # "absent" THEN Check("fetch", TRUE, "recheck")
     ELSE Check("fetch", world.mirror = base.content, "keep")

(* mv from the temporary directory, which may be on another file system. *)
Keep ==
  /\ step = "keep" /\ step' = "recheck"
  /\ cache' = [cache EXCEPT ![base.file] = base.content]
  /\ UNCHANGED <<inputs, base, image, dist>>

Recheck ==
  /\ step = "recheck"
  /\ Check("recheck", cache[base.file] = base.content, "validate")

ValidateAutoinstall ==
  Check("validate",
        /\ RightSeries(world.info) /\ OneMinimalSource(world.sources)
        /\ Validated(world.production, world.ci, world.schema), "payload")

InspectPayload == Check("payload", Inspected(world.archive, world.profile), "patch")

(* grub-script-check: what is opened is closed. *)
Open(config, i) == Depth(config, 1, i)
Parses(config) == Open(config, Len(config)) = 0 /\ \A i \in DOMAIN config : Open(config, i) >= 0

PatchGrub ==
  /\ step = "patch"
  /\ IF Parses(world.grub) /\ Patch(world.grub) # Refused
       THEN step' = "sums" /\ image' = [grub |-> Patch(world.grub)]
       ELSE Stop
  /\ UNCHANGED <<inputs, base, cache, dist>>

RewriteSums ==
  /\ step = "sums"
  /\ LET sums == UpdateSums(world.sums, Grub, image.grub, Restricted)
     IN IF sums = NotUpdated THEN Stop
        ELSE step' = "remaster" /\ image' = [grub |-> image.grub, sums |-> sums]
  /\ UNCHANGED <<inputs, base, cache, dist>>

-----------------------------------------------------------------------------
Document(w) == IF w.profile = "production" THEN w.production ELSE w.ci

(* A line of the report on the boot equipment once that is a block further on. *)
Replayed(line) == [field \in DOMAIN line |-> IF field = "lba" THEN line.lba + 1 ELSE line[field]]

(* What xorriso is asked for: the files, with the boot equipment replayed. *)
Written(w, grub, sums) ==
  [grub |-> grub, sums |-> sums, profile |-> w.profile, archive |-> w.archive,
   document |-> Document(w), files |-> (BaseFiles \ Restricted) \cup AddedFiles, damaged |-> {},
   report |-> [n \in DOMAIN w.report |-> Replayed(w.report[n])],
   disc |-> <<"new">> \o w.disc,
   of |-> [grub |-> w.grub, sums |-> w.sums, report |-> w.report, disc |-> w.disc]]

(* What it writes when it goes wrong. *)
Faulty(new, fault) ==
  CASE fault.is = "none"        -> new
    [] fault.is = "old grub"    -> [new EXCEPT !.grub = new.of.grub]
    [] fault.is = "old sums"    -> [new EXCEPT !.sums = new.of.sums]
    [] fault.is = "old places"  -> [new EXCEPT !.report = new.of.report]
    [] fault.is = "no boot"     -> [new EXCEPT !.report = <<>>]
    [] fault.is = "boot image"  -> [new EXCEPT !.disc[Len(new.disc)] = "changed"]
    [] fault.is = "pool kept"   -> [new EXCEPT !.files = @ \cup Restricted]
    [] fault.is = "lost"        -> [new EXCEPT !.files = @ \ {fault.file}]
    [] fault.is = "damaged"     -> [new EXCEPT !.damaged = {fault.file}]

(* Mutant: what is in dist/ is there before it is inspected. *)
RemasterIntoDist ==
  /\ step = "remaster" /\ step' = "inspect"
  /\ \E fault \in Faults : image' = Faulty(Written(world, image.grub, image.sums), fault)
  /\ dist' = [dist EXCEPT ![world.profile] = [image |-> image', of |-> builds, sum |-> builds]]
  /\ UNCHANGED <<inputs, base, cache>>

Remaster ==
  /\ step = "remaster" /\ step' = "inspect"
  /\ \E fault \in Faults : image' = Faulty(Written(world, image.grub, image.sums), fault)
  /\ UNCHANGED <<inputs, base, cache, dist>>

(* inspect-iso.sh: bytes are compared of the boot chain and of what was added. *)
Passes(new, profile) ==
  /\ BootChain \cup AddedFiles \subseteq new.files
  /\ new.damaged \cap (BootChain \cup AddedFiles) = {}
  /\ Inspected(new.archive, profile) /\ new.profile = profile
  /\ MatchesBase(new.of.grub, new.grub)
  /\ SumsInspected(new.sums, Grub, new.grub, new.files)
  /\ new.files \cap Restricted = {} /\ SignedIndex \in new.files
  /\ new.document.interactive = IF profile = "production" THEN Interactive ELSE <<>>
  /\ profile = "production" => new.document.identity = "none"
  /\ SameBoot(new.of.report, new.of.disc, new.report, new.disc)

Inspect ==
  /\ step = "inspect"
  /\ Check("inspect", Passes(image, world.profile), "move")

(* mv within one file system. *)
Move ==
  /\ step = "move" /\ step' = "hash"
  /\ dist' = [dist EXCEPT ![world.profile] = [image |-> image, of |-> builds, sum |-> @.sum]]
  /\ image' = Nothing
  /\ UNCHANGED <<inputs, base, cache>>

Hash ==
  /\ step = "hash" /\ Stop
  /\ dist' = [dist EXCEPT ![world.profile].sum = dist[world.profile].of]
  /\ UNCHANGED <<inputs, base, cache>>

(* The runner dies, or the power fails: the temporary directory is forgotten,
   the file mv was copying stays in part, the checksum may be empty. *)
Crash ==
  /\ step # "idle" /\ Stop
  /\ \/ UNCHANGED <<cache, dist>>
     \/ /\ step = "keep" /\ cache' = [cache EXCEPT ![base.file] = "partial"] /\ UNCHANGED dist
     \/ /\ step = "hash" /\ dist' = [dist EXCEPT ![world.profile].sum = 0] /\ UNCHANGED cache
  /\ UNCHANGED <<inputs, base>>

Next ==
  \/ Start \/ DiscoverBase \/ Fetch \/ Keep \/ Recheck \/ ValidateAutoinstall
  \/ InspectPayload \/ PatchGrub \/ RewriteSums \/ Remaster \/ Inspect \/ Move \/ Hash
  \/ Crash

Spec == Init /\ [][Next]_vars

-----------------------------------------------------------------------------
(* The images that inspection has let pass, or that are in dist/ under a
   checksum that is theirs, which is what a release takes. *)
Released == {profile \in Profiles : dist[profile].of # 0 /\ dist[profile].sum = dist[profile].of}
Accepted == {dist[profile].image : profile \in Released}
            \cup (IF step = "move" THEN {image} ELSE {})

(* A build goes on with nothing but the image that the list names for the
   newest of its point releases, whatever was in the cache: the image is the
   one that its only line is about, and no line about a server image is
   malformed, but for lines with an asterisk directly before the name, which
   the program does not notice, against SECURITY.md (they are not "apart"). *)
AuthenticBase ==
  step \notin {"idle", "discover", "fetch", "keep", "recheck"} =>
    /\ cache[base.file] = base.content
    /\ \A n \in DOMAIN world.listing :
         LET line == world.listing[n]
         IN line.file \in DOMAIN PointRelease =>
              IF ~line.form THEN ~line.apart
              ELSE /\ PointRelease[line.file] <= PointRelease[base.file]
                   /\ PointRelease[line.file] = PointRelease[base.file] => line = base

(* The documents a build goes on with, the one the early command writes
   included: an operator is asked before a disk is erased and for an account,
   a disk is preselected only by that command, and no extraction of the
   payload comes before its verification.  The document that CI installs from
   differs in nothing that runs. *)
AcceptedInstallIsSafe ==
  step \in {"payload", "patch", "sums", "remaster", "inspect", "move", "hash"} =>
    LET single == EarlyCommand(world.production, "sda")
        asked(document) == {document.interactive[n] : n \in DOMAIN document.interactive}
    IN /\ \A document \in {world.production, single} :
            /\ "identity" \in asked(document) /\ document.identity = "none"
            /\ "storage" \in asked(document) \/ document.match = "sda"
            /\ \A n \in DOMAIN document.late :
                 document.late[n] = "extract" => \E m \in 1..n - 1 : document.late[m] = "verify"
       /\ world.production.match = "none" /\ single.match = "sda"
       /\ world.ci.late = world.production.late /\ world.ci.rest = world.production.rest

(* What production and ci-real media install never runs in test mode, carries
   no archive that would be loaded instead of being pulled, and names no
   image of Gladys but v5 in the files small enough to be read. *)
NoFixtureReleased ==
  \A new \in Accepted : new.profile # "ci-smoke" =>
    /\ Paths(new.archive) \cap {TestMode, "opt/gladys/layer.tar", "opt/gladys/image.oci"} = {}
    /\ \A n \in DOMAIN new.archive :
         new.archive[n].small /\ new.archive[n].type = "file" => "4" \notin new.archive[n].says

(* What GRUB makes of a configuration: the menu is what stands at the top
   level, the items are the entries but for those in the block of another, and
   the last setting outside of all blocks counts. *)
Top(config, i)   == Open(config, i - 1) = 0
Menu(config)     == {i \in DOMAIN config : Opens(config[i]) /\ Top(config, i)}
Block(config, i) == {j \in i..Len(config) : \A k \in i..j - 1 : Open(config, k) >= Open(config, i)}
MenuEntries(config) == {i \in DOMAIN config : config[i].is = "menuentry"}
Items(config) ==
  {i \in MenuEntries(config) : \A e \in MenuEntries(config) : e < i => i \notin Block(config, e)}
InEffect(config, setting) ==
  \E i \in DOMAIN config :
    /\ Top(config, i) /\ config[i] = setting
    /\ \A j \in i + 1..Len(config) : Top(config, j) /\ config[j].is = "set" => config[j].name # setting.name

(* An accepted image boots the installer unattended: one item is Gladys', and
   its one kernel is told to install, in front of the dashes, behind which
   arguments go on to the installed system.  The first of the menu starts by
   itself after three seconds, and that is it in a menu without submenus: where
   it stands among submenus is beyond what the patch looks at, and another item
   may start there.  Nothing else of the base's configuration is changed. *)
BootsGladys ==
  \A new \in Accepted :
    LET config == new.grub
        old    == new.of.grub
        gladys == {i \in Items(config) : config[i].title = Gladys}
        kernel == {i \in UNION {Block(config, g) : g \in gladys} : config[i].is = "linux"}
    IN /\ Cardinality(gladys) = 1 /\ Cardinality(kernel) = 1
       /\ (\A i \in Menu(config) : config[i].is # "submenu") => gladys = {Min(Menu(config))}
       /\ InEffect(config, Set("default", "0")) /\ InEffect(config, Set("timeout", "3"))
       /\ \A i \in kernel :
            \E n \in DOMAIN config[i].args :
              /\ config[i].args[n] = "autoinstall"
              /\ \A m \in 1..n - 1 :
                   config[i].args[m] = old[i].args[m] /\ config[i].args[m] # Dashes
       /\ \A i \in DOMAIN old : i \in gladys \cup kernel \/ config[i] = old[i]

(* The arguments of the kernel are those of the base's entry and "autoinstall". *)
AddsOnlyAutoinstall ==
  \A new \in Accepted : \A i \in DOMAIN new.of.grub :
    new.of.grub[i].is = "linux" =>
      SelectSeq(new.grub[i].args, LAMBDA word : word # "autoinstall") = new.of.grub[i].args

(* The check of the media that the installer runs: the files it stops at are
   those whose line has the sum of something else than what is on the media, a
   damaged file or none included. *)
Matches(line, config, files, damaged) ==
  /\ line.file \in files \ damaged
  /\ line.content = IF line.file = Grub THEN config ELSE <<>>
Lines(sums) == {n \in DOMAIN sums : sums[n].form}
Mismatched(sums, config, files, damaged) ==
  {sums[n].file : n \in {n \in Lines(sums) : ~Matches(sums[n], config, files, damaged)}}

(* "... so the media check remains meaningful": where the list held of the base,
   the check of an accepted image stops at the damaged files that inspection
   has let pass and that are listed, and at no other; and it lists what the
   base listed and the new image still has. *)
MediaCheckIsExact ==
  \A new \in Accepted : Mismatched(new.of.sums, new.of.grub, BaseFiles, {}) = {} =>
    /\ Mismatched(new.sums, new.grub, new.files, new.damaged)
         = new.damaged \cap {new.sums[n].file : n \in Lines(new.sums)}
    /\ {new.sums[n].file : n \in Lines(new.sums)}
         = {new.of.sums[n].file : n \in Lines(new.of.sums)} \ Restricted
    /\ {new.sums[n].file : n \in DOMAIN new.sums}
         = {new.of.sums[n].file : n \in DOMAIN new.of.sums} \ Restricted

(* What the firmware finds on a disc: per image its platform, and a file or the
   bytes that lie there.  Of an accepted image it is what the base has. *)
Firmware(report, disc) ==
  {<<report[n].platform,
     {report[m].path : m \in About(report, "img path", report[n].image)},
     IF report[n].image \in Hidden(report)
       THEN [k \in 1..Cardinality(Extent(report, report[n].image)) |-> disc[report[n].lba + k - 1]]
       ELSE <<>> >> : n \in Of(report, "boot img")}
SameBootEquipment ==
  \A new \in Accepted :
    Firmware(new.report, new.disc) = Firmware(new.of.report, new.of.disc)

(* What lies in dist/ under a checksum of its own was inspected, whenever the
   builds before it stopped: it has what the build was asked to write, but for
   packages, whose bytes only the check of the media compares. *)
ReleasedIsInspected ==
  \A profile \in Released :
    LET new == dist[profile].image
    IN /\ new.profile = profile
       /\ new.damaged \subseteq {"pool/main/base", SignedIndex}
       /\ new.files \cap Restricted = {} /\ AddedFiles \cup BootChain \subseteq new.files
=============================================================================
