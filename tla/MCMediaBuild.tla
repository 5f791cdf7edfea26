---------------------------- MODULE MCMediaBuild -----------------------------
(* What the builds meet: an ordinary world, and worlds with one odd part. *)
EXTENDS MediaBuild

MCPointRelease == [file \in {"26.04", "26.04.2", "26.04.10", "26.04.0"} |->
                     CASE file = "26.04.2" -> 2 [] file = "26.04.10" -> 10 [] OTHER -> 0]

-----------------------------------------------------------------------------
Entry(title, args) == << MenuEntry(title), Linux(args), Initrd, Close >>
FirmwareEntry == << MenuEntry("UEFI Firmware Settings"), Command, Close >>

Blocks ==
  { Entry(Canonical, <<"quiet", Dashes>>), Entry(Canonical, <<Dashes, "splash">>),
    Entry(Canonical, <<>>), Entry(Canonical, <<"autoinstall", Dashes>>),
    Entry("Ubuntu Server with the HWE kernel", <<Dashes>>), Entry(Gladys, <<Dashes>>),
    FirmwareEntry, << MenuEntry(Canonical), Command, Close >>,
    << MenuEntry(Canonical), Linux(<<>>), Linux(<<>>), Initrd, Close >>,
    << MenuEntry(Canonical), Linux(<<>>), Close >>,
    << MenuEntry(Canonical), Submenu, Command, Close, Linux(<<Dashes>>), Initrd, Close >>,
    << Submenu >> \o Entry(Canonical, <<Dashes>>) \o << Close >>,
    << Submenu >> \o FirmwareEntry \o << Close >>,
    << Submenu >> \o Entry(Canonical, <<Dashes>>)
      \o << MenuEntry("Memory test"), Linux(<<>>), Linux(<<>>), Close, Close >>,
    << MenuEntry("Advanced") >> \o Entry(Gladys, <<>>) \o << Close >>,
    << MenuEntry(Canonical), Linux(<<>>), Initrd >>, << Close >> }

Grubs == {header \o blocks \o trailer :
            header  \in {<<>>, <<Comment, Set("timeout", "30")>>},
            blocks  \in Blocks \cup {first \o second : first \in Blocks, second \in Blocks},
            trailer \in {<<>>, <<Set("default", "1")>>}}

UsualGrub == <<Set("timeout", "30")>> \o Entry(Canonical, <<Dashes>>) \o FirmwareEntry

-----------------------------------------------------------------------------
SumLines == { SumLine(Grub, TRUE, UsualGrub), SumLine(Grub, FALSE, UsualGrub),
              SumLine(Grub, TRUE, <<Comment>>), SumLine("casper/vmlinuz", TRUE, <<>>),
              SumLine("pool/restricted/nvidia", TRUE, <<>>),
              SumLine("pool/restricted/nvidia", FALSE, <<>>), SumLine("gone", TRUE, <<>>),
              SumLine("pool/main/base", FALSE, <<>>), Malformed("casper/vmlinuz"), Malformed("remark") }
UsualSums == << SumLine(Grub, TRUE, UsualGrub), SumLine("casper/vmlinuz", TRUE, <<>>),
                SumLine("pool/restricted/nvidia", TRUE, <<>>) >>
Sums == {<<>>, UsualSums} \cup {<<a>> : a \in SumLines} \cup {<<a, b>> : a \in SumLines, b \in SumLines}

-----------------------------------------------------------------------------
UsualReport == << CatalogLine(1, 1), CatPath("boot.catalog"), BootImg(1, "BIOS", 2),
                  ImgPath(1, "eltorito.img"), BootImg(2, "UEFI", 3), ImgBlks(2, 2), ImgOpts(2, "") >>
Disc == <<"catalog", "eltorito", "esp 1", "esp 2">>
Reports ==
  {[UsualReport EXCEPT ![n] = BadLine] : n \in DOMAIN UsualReport}
  \cup {SubSeq(UsualReport, 1, n - 1) \o SubSeq(UsualReport, n + 1, 7) : n \in 1..7}
  \cup {UsualReport \o <<UsualReport[n]>> : n \in 1..7}
  \cup {[UsualReport EXCEPT ![6] = Appended(2, "appended_partition_2", 3)],
        [UsualReport EXCEPT ![6].blocks = 3], [UsualReport EXCEPT ![4] = ImgBlks(1, 1)]}

-----------------------------------------------------------------------------
UsualArchive == << Member(".", "dir", "755"), [Member("opt/gladys/compose.yaml", "file", "644")
                                             EXCEPT !.says = {"v5", "watchtower"}],
                Member("usr/lib/gladys-installer/bootstrap.py", "file", "755") >>
SmokeFixtures == << Member(TestMode, "file", "644"),
                    Member("etc/gladys-installer/test-compose.yaml", "file", "644"),
                    Member("etc/gladys-installer/gladys-ci-dpkg-barrier_1.0_all.deb", "file", "644"),
                    Member("usr/lib/gladys-installer/apt-power-loss-barrier.py", "file", "755") >>
Archives ==
  {UsualArchive, UsualArchive \o SmokeFixtures, UsualArchive \o Tail(SmokeFixtures), <<>>, Tail(UsualArchive),
   [UsualArchive EXCEPT ![2].says = {"v5"}], [UsualArchive EXCEPT ![2].says = {"v5", "4", "watchtower"}],
   [UsualArchive EXCEPT ![2].says = {"watchtower"}], [UsualArchive EXCEPT ![3].mode = "644"],
   [UsualArchive EXCEPT ![3].root = FALSE], [UsualArchive EXCEPT ![3].type = "link"],
   [UsualArchive EXCEPT ![3].spelled = "absolute"], [UsualArchive EXCEPT ![3].spelled = "outside"],
   [UsualArchive EXCEPT ![3].spelled = "detour"], [UsualArchive EXCEPT ![2].mode = "755"],
   [UsualArchive EXCEPT ![3].says = {"4"}, ![3].small = FALSE]}
  \cup {UsualArchive \o <<Member(path, "file", "644")>> : path \in Forbidden}
  \cup {Append(UsualArchive, UsualArchive[n]) : n \in 1..3}

-----------------------------------------------------------------------------
Documents ==
  {Production, [Production EXCEPT !.locale = "fr_FR.UTF-8"], [Production EXCEPT !.keyboard = TRUE],
   [Production EXCEPT !.source = "ubuntu-server"], [Production EXCEPT !.storage = "encrypted"],
   [Production EXCEPT !.match = "sda"], [Production EXCEPT !.early = "none"],
   [Production EXCEPT !.identity = "account"], [Production EXCEPT !.ssh = FALSE],
   [Production EXCEPT !.drivers = TRUE], [Production EXCEPT !.users = "root"],
   [Production EXCEPT !.rootLocked = FALSE], [Production EXCEPT !.pwauth = "yes"],
   [Production EXCEPT !.rest = "changed"], [Production EXCEPT !.valid = FALSE]}
  \cup {[Production EXCEPT !.interactive = sections] :
          sections \in {<<>>, <<"storage">>, <<"identity">>, Tail(Interactive)}}
  \cup {[Production EXCEPT !.late = late] :
          late \in {<<>>, <<"verify">>, <<"extract">>, <<"extract", "verify">>,
                    <<"verify", "extract", "verify">>, <<"extract", "verify", "extract">>,
                    <<"configure", "verify", "configure", "extract", "configure">>}}

-----------------------------------------------------------------------------
ListLines == {Listed(file, "image") : file \in DOMAIN MCPointRelease \cup {"desktop"}}
             \cup {Listed("26.04.10", "other"), Unlisted("26.04.10", TRUE), Unlisted("26.04.10", FALSE),
                Unlisted("desktop", TRUE)}
Listings ==
  {<<>>} \cup [1..2 -> ListLines] \cup
  {<<Listed("26.04.2", "other"), line, Listed("26.04", "other")>> : line \in ListLines}

UsualWorld ==
  [profile |-> "production", listing |-> <<Listed("26.04", "other"), Listed("26.04.2", "image")>>,
   mirror |-> "image", info |-> "Ubuntu-Server 26.04 amd64", sources |-> <<"ubuntu-server", Minimal>>,
   production |-> Production, ci |-> ForCI(Production), schema |-> "subiquity",
   archive |-> UsualArchive, grub |-> UsualGrub, sums |-> UsualSums, report |-> UsualReport,
   disc |-> Disc]

MCWorlds ==
  {UsualWorld} \cup {[UsualWorld EXCEPT !.grub = grub, !.sums[1].content = grub] : grub \in Grubs}
  \cup {[UsualWorld EXCEPT !.sums = sums] : sums \in Sums}
  \cup {[UsualWorld EXCEPT !.report = report] : report \in Reports}
  \cup {[UsualWorld EXCEPT !.archive = archive, !.profile = profile] :
          archive \in Archives, profile \in Profiles}
  \cup {[UsualWorld EXCEPT !.production = document, !.ci = ForCI(document)] : document \in Documents}
  \cup {[UsualWorld EXCEPT !.production = document] : document \in Documents}
  \cup {[UsualWorld EXCEPT !.ci = document] : document \in Documents}
  \cup {[UsualWorld EXCEPT !.listing = listing] : listing \in Listings}
  \cup {[UsualWorld EXCEPT !.mirror = "other"], [UsualWorld EXCEPT !.schema = "vacuous"],
        [UsualWorld EXCEPT !.info = "Ubuntu 26.04 desktop"]}
  \cup {[UsualWorld EXCEPT !.sources = sources] : sources \in {<<>>, <<Minimal, Minimal>>}}

MCLater == {UsualWorld, [UsualWorld EXCEPT !.profile = "ci-real"],
            [UsualWorld EXCEPT !.listing = Append(@, Listed("26.04.10", "other")), !.mirror = "other"]}

MCFaults ==
  {[is |-> kind] : kind \in {"none", "old grub", "old sums", "old places", "no boot", "boot image", "pool kept"}}
  \cup [is : {"lost"}, file : {SignedIndex, "casper/vmlinuz", "payload"}]
  \cup [is : {"damaged"}, file : {"casper/vmlinuz", "payload", "autoinstall", "pool/main/base"}]
=============================================================================
