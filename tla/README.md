# A TLA+ model of the Gladys appliance

This directory models the program that turns a freshly installed Ubuntu Server
into a Gladys appliance (`gladys-firstboot.service` and what it interacts with),
and the scripts that build the installation media and publish them. TLC checks
the models on small instances; TLAPS proves every safety property, of the first boot,
of what stands beside it and of the media that install it, for every instance.
Paths below are relative to the repository root unless they name a file of this
directory; `bootstrap.py`, `common.py`, `status_server.py`
and `console.py` are in `payload/usr/lib/gladys-installer/`, the units in
`payload/etc/systemd/system/`.

## 1. The system

### Components

| Component | State it keeps | Operations | What makes it correct |
| --- | --- | --- | --- |
| Bootstrap (`bootstrap.py`) | the phase it is in (in memory), `state.json`, the marker `completed` | the steps of `run`, each retried; `execute`, `main` | it ends, whatever failed before; the marker and READY are only claimed of a working deployment; port 80 is handed over and given back |
| systemd and its three units | unit states | start at boot, restart after a failure, conditions on the marker, `Wants=` | the setup page runs until Gladys takes over and never afterwards |
| Setup page (`status_server.py`, `app.js`) | the listening socket; the page in a browser | answer `/`, `/status.json`, `/healthz`; poll, reload | it shows the published phase; it yields port 80 |
| Console (`console.py`) | what is on tty1 | read `state.json`, ask Docker, draw, every 2 s | what it claims has happened; it comes to rest on the outcome |
| Commands (`common.run_command`, `retry_operation`) | a process group and its pipes | start, wait, terminate, kill, retry after a delay | nothing is left running; no command blocks first boot |
| Docker and the two containers (`compose.yaml`) | container states, images | up, stop, ps; `restart: always` | Gladys alone listens on port 80 after first boot |
| APT and dpkg | the package database | update, install, configure | an interrupted installation is repaired |
| Durable files (`common.atomic_write_text`) | `state.json`, `completed`, `.env` | replace | whole at any time, kept once written |
| Lock (`bootstrap.main`) | the locked file | open, flock | one bootstrap at a time |
| Time zone (`configure_timezone`) | host zone, `.env` | read, look up, set, write | the operator's zone is kept; Gladys follows the host |
| Single-disk selection (`autoinstall/single-disk-storage.py`) | the Autoinstall document | count disks, rewrite | never selects a disk in doubt, never removes the last interactive section |
| Media build (`scripts/`) | the download cache, `dist/`, a temporary directory | authenticate the base, validate the Autoinstall pair, inspect the payload, patch GRUB, repair checksums, remaster, inspect | the output is the authenticated base plus the intended changes, and boots the installer by itself |
| Publication (`publish-r2.sh`, workflows) | two objects per channel | upload the image, upload its checksum | image and checksum match |
| Translations, diagnostics, build information | none | look up, print | not modelled |

### Interactions

The bootstrap publishes its phase in `state.json` before each step, and the
setup page and the console read it; nothing else does. It drives systemd
(`systemctl stop/start gladys-setup-web`, `enable --now docker`), APT, dpkg and
Docker Compose through commands with timeouts, each of which may fail, or be
killed after it has had part or all of its effect. The setup page and Gladys
compete for port 80, and both are restarted by someone else: the one by systemd,
the other by Docker. The marker is a condition of both units. A second bootstrap
is excluded by a lock.

### What is hard here

- **Interleaving**: systemd and Docker start the two servers at moments the
  bootstrap does not choose, in particular after a reboot in the middle of a
  handoff.
- **Crash recovery**: every step may be the last; the next run starts from the
  beginning on whatever the machine has become.
- **Timeouts and partial effects**: a command that failed may have worked.
- **Weak evidence**: the readiness check does not know who answered it.
- **Termination**: most loops have no bound, so it must be shown that what they
  wait for comes.
- **Acceptance**: the build reads files of many forms (menus, lists, reports) and
  must either transform them as intended or stop; what it accepts is burnt.

The list of hazards, each with its line and the properties that cover it, is in
`PROJECT.json`.

## 2. The modules

| Module | Models | Notes |
| --- | --- | --- |
| `Machine` | the setup page's unit, the containers, Docker, dpkg | what moves by itself, and its failures |
| `Bootstrap` | `bootstrap.py` under its unit | one action per operation, one for each way it fails with an effect |
| `Firstboot` | the composition of the two | specification, fairness, properties, inductive invariant |
| `ApplianceContract` | what the documentation promises to the outside | abstract specification; `Firstboot` implements it |
| `AtomicFile` | `common.atomic_write_text` | one action per system call, on a file system with a cache |
| `DurableCell` | what readers may count on | abstract specification; `AtomicFile` implements it |
| `InstallerLock` | `main` and `execute` as concurrent processes | for any set of processes |
| `Timezone` | `configure_timezone` over several runs | |
| `StatusPage` | a browser on the setup page (`app.js`, `do_GET`, `safe_state`) | reads `Listener` and `shown` of `Firstboot` |
| `Console` | `console.py` under its unit | reads `shown` and `GladysRunning` |
| `Views` | the composition of `Firstboot` with one of the two, or nobody | what the whole first boot is checked as |
| `RunCommand` | `common.run_command` with the processes it starts | |
| `DockerAccess` | `grant_docker_access`, `administrator_accounts`, the bounded `retry_operation`, `backoff_delays` | composition: each attempt is a `RunCommand` |
| `SingleDisk` | `autoinstall/single-disk-storage.py` and Subiquity's next step | |
| `UbuntuSource` | `buildlib.py` | operators: which image a signed list names |
| `Autoinstall` | `validate-config.py` on `autoinstall.yaml` and `autoinstall-ci.yaml` | operators: which pair is accepted |
| `Payload` | `inspect-payload.py` | operators: which archive is accepted |
| `Filter` | the list comprehensions of the scripts | operator: what is kept of a list |
| `GrubPatch` | `patch-grub.py` | operators: the parser, the patch, its two checks |
| `MediaSums` | `update-md5.py`, and the check of its result in `inspect-iso.sh` | operators |
| `BootMetadata` | `compare-boot-metadata.py` | operators |
| `MediaBuild` | `build-iso.sh` with `fetch-ubuntu-base.sh`, `validate-autoinstall.sh`, `inspect-iso.sh` | state machine; composes those above from `UbuntuSource` on |
| `Publication` | `publish-r2.sh` as run by several workflows | |
| `*_proofs` | theorems about the module they are named after | |
| `MC*` | values of the constants for TLC | |

### Firstboot: state and actions against the code

`pc` names the operation whose attempt comes next; `PhaseOps` lists the
operations under the phase that `run` publishes before them, and `Publish` is
`Bootstrap.state`: an operation's guard (`Step`) requires that its phase has
been published, so a crash may fall between the two. `unit` is the state of
`gladys-firstboot.service`: `waiting` to be started (boot, or `RestartSec` after
a failure), `running`, `done` (exit 0, or skipped because of the marker),
`failed` (exit 78). `shown` is `state.json`, `completed` the marker; both
survive a crash and so does the machine, while `pc`, `inspection` and `failures`
are the process's and do not.

- An attempt that fails and leaves nothing behind is a stuttering step, together
  with the backoff that follows: `wait_for_internet`, `apt_update`,
  `pull_application`, `docker version`, `image_metadata` and so on have one
  action, their success. An attempt that fails *with* an effect, or moves
  control elsewhere, is an action of its own (`...Fails`, `...Killed`,
  `...TimesOut`).
- `repair_package_manager` is three operations; the swallowed failure of its
  first one is `DpkgConfigureFails`, which still goes on.
- `start_application`'s attempt is `StopWeb`, `ProbePort`, `ComposeUp`,
  `WaitRunning`/`WaitHttp` (the polling loop with its deadline `WaitTimesOut`);
  its `except` branch is `RestoreStop`, `RestoreStart`, and leads to the next
  attempt. A timeout of the restore's first command skips the second, as the
  common `try` does.
- `verify_final` takes its four readings in four steps and judges them at the
  last: `failures` collects the failed ones. The four need not hold at one moment, and
  no property says that they do; `ReadinessIsGladys` is about the moment of the HTTP one.
- `Begin` is systemd starting the unit: the condition on the marker, and the
  `Wants=` that also starts the setup page. `Reboot` resets the machine: the
  setup page's own condition, Docker later (`DockerStarts`) with both
  containers (`restart: always`).
- `Listener` is who answers on port 80. It is derived: the setup page only binds
  a free port (`WebBinds`), Gladys only while the setup page does not hold it
  (`GladysListens`).
- `flaw` is what may be wrong with the installed image for good: a missing
  payload file, an invalid `compose.yaml`, a package the archive lacks
  (`ArchiveHeals` ends that one). It is what `FATAL` is meant for.

Abstracted: the time zone and the accounts (modules of their own), the login
messages (one step that cannot fail), versions of packages and images, progress numbers
and messages, test mode (CI media only). Docker is not relied on to start when
its package is unpacked: the code starts it explicitly. Processes exit at any
point (`ProcessCrashes`), which also stands for every exception the code does
not handle.

### The other modules

`AtomicFile` keeps, besides what a reader sees, the set of contents a reader may
find after a power loss (`onDisk`): a replacement adds the new content to it,
and, had the data not been synced, a torn one; the sync of the directory
reduces it to the visible one. Errors of the directory sync are ignored as in
the code, and an error of the cleanup leaves the temporary file ("stuck"), since only
its absence is expected (`common.py:118-122`). One file stands for each of the three: they are in different
directories and never renamed into each other.

`InstallerLock` tells the file behind a name from the name, because `flock`
locks the former. Its processes are systemd's and any others an administrator
starts. `MayStart` is systemd's side.

`StatusPage` has one browser. An answer to `/` depends on who listens at that
moment: the setup page, whose script then polls; Gladys; or nobody, which leaves
the browser on its own error page ("dead"), where no script runs. A poll reads
`state.json` through the status server, which keeps nothing; anything else than
its answer counts as a failure, after which the script reloads the page. A poll
may also fail on its own (`PollFails`). The page that was loaded before a reboot
goes on polling after it.

`Console` splits a round of `main` at the point where Docker is asked: `ReadState`
reads `state.json`, and, if it says READY, `DrawReady` follows with what Docker
answered by then. On the other screens nothing depends on the answer, so they are
drawn at once; a slow inspect is a longer sleep. `screen` keeps the kind of screen,
the stages that are ticked, and whether Gladys is said to run. The page ticks the
same stages by the same rule (`setSteps`, `_stage_lines`), so `StageDone` stands
for both. In `Views` a behaviour has one viewer: viewers only read, so more of them
would add no behaviour of either.

`RunCommand` has the process that was started (`leader`) and one descendant
(`helper`), which may stay in the group or leave it, and hold the pipes or not.
Processes owe nothing: they may ignore SIGTERM and never end. SIGKILL ends what is
in the group, or leaves it "stuck" in the kernel, where it does nothing more but
outlives the second grace period. `communicate` returns when the leader has ended and nobody holds the
pipes, so a timeout may also strike after the command has ended. In `DockerAccess`
every account has the attempts of `retry_operation`; `usermod` may have its effect
in any attempt, also in one that is killed.

`MediaBuild` has an action per script. `world` is what a build meets: the list of
releases, the files of the base image, the documents, the payload and the profile.
`cache` and `dist` survive the end of a build; `image` is the temporary directory,
which does not. Each script either passes (`Check`) or ends the build (`Stop`, which
runs the trap). The programs are operators on the data cut down to what they tell
apart: a GRUB configuration is a sequence of lines that open a block, close one, load
a kernel with arguments, set a variable, or do none of these; a list of checksums
has lines that name a file with or without `./`, or are no checksum; an archive is a
sequence of members with the attributes that are looked at. xorriso is external: it
writes what it was asked for, or one of the wrong images in `Faulty`. `mv` into the
cache may copy, so a crash may leave a part; `mv` into `dist/` is within one file
system.

`Publication` has a workflow per tag, in the order of the tags. `Serialized` tells
the workflow of test tags, which is in a concurrency group, from that of releases.

`SingleDisk` keeps what `lsblk` reports of each device, cut down to what
`internal_disks` looks at, the local `disk`, and the two fields of
`/autoinstall.yaml` that the script changes. `_write_atomically` is one step,
since a rename is; an error in any step keeps the document. A device may be
plugged in, or be found late, at any time; `listed` remembers what the script
has seen. Subiquity is external: it reads the document again, and erases the disk
it matches, or one of its own choice, when storage is not interactive.

`Timezone` keeps the zone of the host, the one in `.env`, the one the container
was created with and the run's two local variables, over runs that are cut
anywhere. Every default zone is `"UTC"`.

## 3. What TLC checks

| Run | Instance | Shows |
| --- | --- | --- |
| `views` | every kind of image; a browser, a console or nobody watching; 85250 states | `Firstboot`, the refinement of `ApplianceContract`, `StatusPage`, `Console` |
| `commands` | two members of sudo of any kind; 7237 states | `RunCommand`, `DockerAccess` |
| `atomic_file` | three texts | `AtomicFile`, and the refinement of `DurableCell` |
| `installer_lock` | systemd's process, two others, four files; symmetric in both; 1365 states | `InstallerLock` |
| `timezone` | three zones beside UTC | `Timezone` |
| `single_disk` | up to two devices, every report; two sections; 220822 states | `SingleDisk` |
| `media_build` | two builds; 1603 worlds; 78356 states | `MediaBuild` and the modules of its programs |
| `transient_fatal` | sound image | finding 1 |
| `install_killed` | sound image | finding 2 |
| `zone_unread` | two zones | finding 3 |
| `glued_argument` | as `media_build` | finding 4 |
| `publication_overlap` | two tags, no concurrency group | finding 5 |

**Bounds.** `Firstboot`, its viewers, `AtomicFile`, `InstallerLock` and `Timezone`
are finite without any bound: the number of failures, crashes, reboots, runs,
writes and processes started over time is unlimited. What is bounded is the size of
the sets: three texts (an old, a current and a new one), three concurrent processes
(two rivals and a third that comes when one has left), four lock files (one more than
can be open at once), three zones (the operator's, and two answers of the lookup).
The theorems remove these bounds. `SingleDisk` has two devices, the disk and one that
could have been the disk, each with all 64 reports (a size on either side of the
minimum), and two sections, `storage` and one that is not. In `views` nobody watches
an image whose archive lacks a package (`Watched`): once the archive has healed,
which it may at any time, such an image is like a sound one, and a viewer tells the
flaws apart by FATAL only. In `commands` two accounts are enough for one to fail
before, and after, another; a command has one descendant, since the rules do not
count them.

`media_build` is bounded in its inputs. `MaxBuilds` = 2: a first build that leaves
something behind and a second that finds it; the second meets one of three worlds
(`Later`: the same, another profile, a newer release with a bad mirror). A world has
one odd part at most, the rest being ordinary, because the scripts judge the parts
independently; the one place where two meet is the patched configuration in the list
of checksums, which every world has. A GRUB configuration has one or two blocks out
of seventeen (an entry with and without dashes, with arguments behind them, already
with `autoinstall`, of another kernel, with Gladys' title, without a kernel, with two,
without an initrd, with a block inside, with another entry inside, alone or with a
second one in a submenu, without an end, a stray brace),
with or without settings before and behind; a list of checksums up to two lines out
of ten, or the ordinary three; a list of releases up to two lines out of nine, or
three around the newest by number, which is not the one the letters sort last. Two
lines are what the interesting cases need: doubles, and an order.

**Properties of `Firstboot`** (run `views`)**.**

- `SetupPageYields`: between the proof that the port is free and the end of the
  attempt, and after completion for ever, the setup page is stopped. Violated if
  a failed `systemctl stop` went unnoticed.
- `ReadinessIsGladys`: each HTTP check that passes was answered by Gladys,
  although the check accepts the setup page too. It rests on `SetupPageYields`,
  on the restart of the whole attempt after a restore, and on `VERIFY_GLADYS`
  and later phases never restoring the page.
- `ReadyMeansDeployed`: the marker and a READY in `state.json`, also one that is
  left over after a crash, are about a machine with Docker enabled and both
  containers created.
- `FatalKeepsSetupPage`: a run that ends in FATAL leaves the unit of the page that
  says so started, and when the image is to blame no Gladys exists, so that the page
  has port 80 or may bind it at once. It does not promise the page on a sound image:
  there an earlier run may have handed the port over, Docker may have started Gladys
  after a reboot, and one failure of `docker compose config` then ends in FATAL
  (finding 1) with Gladys on the port and the page waiting for it.
- `KeepsContract`: the whole implements `ApplianceContract`: the installer loses
  nothing deployed, completion is recorded by the installer only, of a deployed appliance,
  not while the setup page answers, and is final.
- `Settles`: if from some moment on nothing fails, first boot completes or ends
  in FATAL, whatever state the failures have left, provided that apt-get install
  is not stuck behind an interrupted package database (`AptStuck`, finding 2).
- `PortServed`: ... and port 80 is then answered for good; this one also holds
  when apt is stuck.

**Properties of `StatusPage`.**

- `LateIsStale`: a browser never sees `VERIFY_GLADYS` or a later phase as the
  progress of the run under way, because the setup page is down by then; what it
  does see of them was left behind by a run that a crash or a reboot has ended.
- `PageLetsGo`: once Gladys answers for good, no browser stays on the setup page.
  The error page counts as left: its script is gone, and the user has to come
  back (hazard `app.js:114`).

**Properties of `Console` and `Views`.**

- `TicksAreTrue`: a stage that tty1 or a browser shows as done is one that the
  machine has been through (the payload is whole, Docker installed, `compose.yaml`
  valid, both containers there), however late it is drawn and whichever run has left
  the phase it is drawn from. A stage ticked with the beginning of its last phase, or
  a phase published before its predecessor's work is done, would break it.
- `ConsoleSettles`: once nothing fails any more, tty1 comes to rest on FATAL, or on
  READY with Gladys said to run; never on a phase that was left behind.

**Properties of `RunCommand` and `DockerAccess`.**

- `NothingLeftBehind`: when a command is over, the process started and every
  descendant that stayed in its group with the pipes open run no more. A descendant
  that has closed the pipes, or moved to a session of its own, is beyond the signals
  and may work on beside the attempt that replaces the command.
- `EveryoneTried`: at the end every administrator is in the group, or was given up
  after five attempts and 2 + 4 + 8 + 15 seconds, whatever became of the others.
- `NeverBlocks`: the loop ends, although processes may never do. The fairness is of
  the installer's own steps and timers only.

**Property of `InstallerLock`** beside mutual exclusion:

- `GivesUpOnlyToRival`: the unit ends with status 0 on an appliance that is not
  completed only while another process is at work under the lock. It does end so
  then: the unit is not started again before the next boot if that process dies
  (`bootstrap.py:614`), where `docs/ARCHITECTURE.md:50` says "Runs the provisioning
  bootstrap once, as root, until completion".

**Properties of `MediaBuild`.**

- `AuthenticBase`: a build goes on with nothing but the image that the list names for
  the newest point release, by number, whatever was in the cache and whatever the
  mirror sent; malformed lines stop it, but for those with `*` directly before the name
  (below).
- `AcceptedInstallIsSafe`: of the documents a build accepts, and of the one the early
  command makes on a machine with one disk, an account and something else are asked
  for before a disk is erased; the payload is verified before it is extracted; CI
  installs from the same commands.
- `NoFixtureReleased`: accepted media for users carry no test mode, no image archive
  and no tag of Gladys but `v5`.
- `BootsGladys`: in an accepted configuration, read the way GRUB does (by the depth of
  each line, a reading independent of the program's parser), there is one Gladys item
  with one kernel, told to install by an `autoinstall` ahead of which nothing has
  changed and no dashes stand. The settings in effect start the first item of the menu
  after three seconds, and in a menu without submenus that is the Gladys item; all else
  is as in the base.
- `MediaCheckIsExact`: "so the media check remains meaningful"
  (`docs/ARCHITECTURE.md:25`): where the list of checksums held of the base image, the
  check of an accepted image stops at the damaged files that are listed and that
  inspection has let pass (packages, the signed index), and at no other; and no file
  that the base listed and that stays goes unlisted.
- `SameBootEquipment`: firmware finds the same images, and behind hidden ones the same
  bytes, although xorriso has moved them.
- `ReleasedIsInspected`: what lies in `dist/` under a checksum of its own has passed
  inspection, also after a crash at any point of the build that put it there or of the
  next.

**Properties of `SingleDisk`.**

- `ErasesTheOnlyDisk`: on media with a storage screen, a disk is erased without
  that screen only if, when the devices were listed, it was internal beyond doubt
  and no other device could have counted (`docs/SECURITY.md:45`). A disk that
  appears after the listing is not seen, in the model as in the code.
- `ConfirmationKept`: media with an interactive section keep one, on which
  Subiquity's confirmation depends.

**Fairness.** Weak fairness of the installer as a whole (`retry_operation` has no
bound; systemd restarts the process, `StartLimitIntervalSec=0`), of systemd
starting the unit, of the setup page binding the port (`Restart=on-failure`,
`RestartSec=3`), of Gladys binding it (`restart: always`) and of Docker starting
(enabled); in `Views` also of the two timers of the script, 1.25 s and 3 s,
with the request each makes (a browser gives up a request in the end), and of the
console's loop, whose only wait is a command with a timeout of 5 s. In
`DockerAccess`, of the installer's steps and timers. No fairness of any failure, nor of the archive healing. Liveness is
only claimed if failures cease (`FaultsCease`), as a premise of the property and
not a restriction of the system: the states from which progress is then required
are all those any number of failures leads to. `ConsoleSettles` has the same premise
(`AllWell`) with the console's own process included. `MediaBuild` and `Publication`
have no liveness: a build is a script that ends.

**Mutants.** Each property of a passing run is violated when one definition is
replaced by the variant that `PROJECT.json` names (`... Unchecked`,
`... Forgotten`, defined beside the original and used nowhere).

### Findings

1. `FatalOnlyIfFlawed`: any failure of `docker compose config`, a timeout
   included, is FATAL (`bootstrap.py:413`); `docs/OPERATIONS.md:32` reserves FATAL
   to deterministic configuration failures. After an earlier handoff the console may
   then say FATAL while Gladys answers on port 80.
2. `AlwaysSettles`: `apt-get install` killed by its timeout leaves dpkg
   interrupted and is then retried without the repair (`bootstrap.py:347`);
   `docs/OPERATIONS.md:98`: "package state is repaired automatically".
3. `ChosenZoneKept`: a zone that cannot be read is taken for a default zone
   (`bootstrap.py:244`); `docs/ARCHITECTURE.md:32`: "A zone already set on the
   host is kept".
4. `AddsOnlyAutoinstall`: an argument behind the dashes is glued to them
   (`scripts/patch-grub.py:121`); `docs/ARCHITECTURE.md:20`: "adds only the
   `autoinstall` kernel argument". Ubuntu's own entry ends with the dashes, so
   present media are not affected.
5. `LatestPairServed`: two release workflows that overlap leave an image and a
   checksum that do not match (`scripts/publish-r2.sh:73`, and no `concurrency` in
   `.github/workflows/release.yml`); the notes of a release tell users to run
   `sha256sum -c`. With `Serialized` = TRUE, as for test tags, the property holds.

Seen while modelling, without a run: READY is published before the marker is
written (`bootstrap.py:572`), the opposite of the order in
`docs/OPERATIONS.md:28-29`, so that a power loss in between shows READY on an
appliance that is provisioned again; the unit that gives up (above); a malformed
line of `SHA256SUMS` with `*` directly before the name is skipped
(`scripts/buildlib.py:19-21`), where `docs/SECURITY.md:31` calls malformed candidate
lines fatal (`AuthenticBase` exempts such lines by `apart`).

### Limits of the program that the properties spell out

- A submenu ahead of the Gladys entry, or around it, is invisible to the patch
  (`patch-grub.py:170-173` counts `menuentry` lines only): `BootsGladys` says nothing
  of menus with submenus. An entry with two kernel lines is not counted as a casper
  entry.
- Inspection compares the bytes of the boot chain, of what was added and of hidden boot
  images. Packages, and a boot image that has a path, are left to the media check, which
  finds their damage if they are listed (`MediaCheckIsExact`).
- A part of an image that a crash leaves in the cache makes every later build stop at
  the re-check until someone removes it (`fetch-ubuntu-base.sh:97`): safe, but not live.
- An inspection that fails leaves the previous image in `dist/`, with its checksum.

## 4. What is proved

For every value of the constants, TLAPS checks:

| Theorem | Statement |
| --- | --- |
| `Firstboot_proofs!TypeCorrect` | `Spec => []TypeOK` |
| `Firstboot_proofs!SetupPageStaysDown` | `Spec => []SetupPageYields` |
| `Firstboot_proofs!ReadyIsEarned` | `Spec => []ReadyMeansDeployed` |
| `Firstboot_proofs!FatalIsExplained` | `Spec => []FatalKeepsSetupPage` |
| `Firstboot_proofs!ReadinessIsReal` | `Spec => ReadinessIsGladys` |
| `Firstboot_proofs!Refinement` | `Spec => KeepsContract` |
| `AtomicFile_proofs!TypeCorrect`, `NoTornFile`, `Durable`, `CleansUp`, `Refinement` | `Spec => []TypeOK`, `[]NeverTorn`, `[]ReturnedSurvives`, `[]NoTemporaryLeft`, `KeepsCell` |
| `InstallerLock_proofs!TypeCorrect`, `MutualExclusion`, `CompletedIsLeftAlone`, `GivesUpForOne` | `Spec => []TypeOK`, `[]OneInstaller`, `[]NothingAfterCompletion`, `GivesUpOnlyToRival` |
| `Timezone_proofs!TypeCorrect`, `ZonesAgree`, `ChoiceIsKept` | `Spec => []TypeOK`, `[]GladysFollowsHost`, `[]LostOnlyUnread` |
| `Views_proofs!WatchedIsFirstboot` | `ViewSpec => Spec`: who watches a first boot changes nothing of it |
| `Views_proofs!ViewTypeCorrect`, `TicksAreEarned`, `LatePhasesAreStale` | `ViewSpec => []ViewTypeOK`, `[]TicksAreTrue`, `LateIsStale` |
| `DockerAccess_proofs!TypeCorrect`, `CommandsEnd`, `NobodyForgotten` | `Spec => []TypeOK`, `[]NothingLeftBehind`, `[]EveryoneTried` |
| `SingleDisk_proofs!TypeCorrect`, `NoOtherDiskErased`, `StillConfirmed` | `Spec => []TypeOK`, `[]ErasesTheOnlyDisk`, `[]ConfirmationKept` |
| `MediaBuild_proofs!TypeCorrect`, `BaseIsAuthentic`, `SafeInstall`, `NoFixtures` | `Spec => []MediaTypeOK`, `[]AuthenticBase`, `[]AcceptedInstallIsSafe`, `[]NoFixtureReleased` |
| `MediaBuild_proofs!Boot`, `MediaCheck`, `BootEquipment`, `Inspection` | `Spec => []BootsGladys`, `[]MediaCheckIsExact`, `[]SameBootEquipment`, `[]ReleasedIsInspected` |

**Assumptions.** The constants that stand for "nothing" are not values
(`ContentsAssumption`, `ProcsAssumption`, `FilesAssumption`, `ZonesAssumption`,
`MembersAssumption`, `DevicesAssumption`); the flaws are among the four kinds
(`FlawsAssumption`); a machine has finitely many devices (`DevicesAssumption`: a set
that is not finite has no cardinality to compare with 1); `storage` is one of the
sections and the minimum size is positive (`SectionsAssumption`, `MinimumAssumption`,
as in the source); point releases are numbered by naturals (`PointReleaseAssumption`).
For `MediaBuild`, `WorldsAssumption` says what form the inputs have (a list of lines, a
list of reports, ...) and nothing of what they contain; `FaultsAssumption` that xorriso
goes wrong in the ways `PossibleFaults` lists, or not at all; `BuildsAssumption` that
there is a build. TLC evaluates each of them on every run that has its constants.

**The invariant of `Firstboot`.** None of the properties is inductive by itself:
`SetupPageYields` says nothing of the runs that follow a crash, and
`ReadyMeansDeployed` nothing of how a run got to READY. `StageInv` adds what each
stretch of a run can rely on: until the handoff the setup page is up or coming
(because every start of the unit wants it, so a FATAL reached there leaves it
up); from `DOCKER_PREFLIGHT` on Docker is enabled; from `up` on the container
exists; from Watchtower's `up` on both do; a run that has written the marker has
nothing left to do but exit. `FlawInv` adds what a run has found out about the image by
the time it does each operation (`Checked`), hence that a flawed image never gets as far
as a Gladys container, which is what `FatalKeepsSetupPage` needs. `IInv` is their
conjunction with the type invariant.
The proof that a step preserves it has one lemma per group of actions. An
action property and the refinement then follow from `IInv` and the step alone.

**What is watched.** A step of `Views` is a step of `Firstboot` or leaves it alone, so
its `IInv` carries over. `SeenInv` adds that every phase anybody may still look at has
been earned: the one in `state.json`, the one a page has rendered, the one a console
has read before it asks Docker, the ticks on the screen. It is not enough that the
current phase is earned, because a viewer draws an old one later. `True(Done[phase])`
is kept by every step of the machine (a flaw that is not there does not come back,
Docker once installed stays so, containers once made are not removed), and a phase is
published only after the work of those before it (`FlawInv` and `StageInv`, in `IInv`).

**The commands.** `EveryoneTried` is about the end of the loop only. `IInv` of
`DockerAccess` says where each account is (still to do, being tried, or tried), that the
time slept is what the number of attempts accounts for, and that a `usermod` that
exited with 0 has had its effect; `NothingLeftBehind` needs that a call counts as
killed only with nothing of the group running. One lemma per actor: the two processes,
the caller, the loop.

**The disk.** `ErasesTheOnlyDisk` speaks of the last step; `IInv` of `SingleDisk` says
that from the decision on the chosen device was alone and beyond doubt, and that the
document is either as the media have it or preselects that device and keeps another
section (`Untouched \/ Preselected`), whatever the command's end.

**The media.** `IInv` of `MediaBuild` says what each script can rely on (`BaseInv`: the
base image is the one the list names, and the cache holds it; `ImageInv`: what is known
of the temporary directory) and what may lie in `dist/` (`DistInv`: images that xorriso
has `Made`, in whatever way it went wrong, and that pass inspection, with a checksum no
newer than they are). `Made` matters: an image is judged by a comparison with the base,
so the proof must know that the configuration in it is that of a patch of that base and
that the base parsed. From there each property is about operators only, over inputs of
any length:

- Recursive definitions (`Kept`, `Entries`) are functions, so that a lemma first shows
  that a function with the recursion exists, by induction on its length, and a second
  what it computes. Induction is over sets of numbers: `LeastElement`, which the
  library's theorem on well-founded relations gives without an operator parameter.
- `MediaCheckIsExact` and `AcceptedInstallIsSafe` rest on `KeptElements`: what is kept of
  a list are the elements at the positions kept, no more and no fewer.
- `BootsGladys` is the one with a long way between what the program does and what is
  claimed. `OpenStep` and `EntryEnds`: a line changes the depth by one at most, so the
  line where the program's counter comes back to zero is the line that closes GRUB's
  block. `Parsing`: what the parser finds are entries in order, and no entry is passed
  over but inside of one. `EntriesAreItems`: hence its entries are GRUB's items,
  although one scans and the other looks at depths. `SameBlocks`: the patch opens and
  closes nothing, so the items of the base and of the result are the same lines, and
  what validation says of the first entry of the result is about the line that was
  renamed. `FirstOfTheMenu`: the first entry is where the first block opens, unless
  that is a submenu. `AutoinstallAhead`: the rewriting of the kernel's arguments.
- `SameBootEquipment`: what a report says of an image depends on the lines about it
  only, and the two reports agree line by line (`SameLines`); the comparison is
  one-sided, so `FirmwareKept` is proved of one direction and used both ways.

**Only model-checked:** the liveness properties `Settles`, `PortServed`,
`PageLetsGo`, `ConsoleSettles` and `NeverBlocks` (the prover handles neither fairness
nor ENABLED), and the runs that find a violation. The module `Publication`
has no theorem: its only property fails where the code allows it to. No module
declares a RECURSIVE operator.

## 5. Plan

Modelled: the first boot, because it is where the concurrency and the failures are;
what stands beside it (browser, console); the commands it runs; the one decision
before it that cannot be undone (the disk); the build of the media and their
publication. Every safety property that a run checks is proved. What is left:

1. That what the patch accepts is no accident: for a menu whose only casper entry is
   Canonical's, ahead of the others, and that has no Gladys title, `Patch` does not
   refuse (the converse of `Boot`; now shown by `media_build` reaching an accepted image).
2. `AddsOnlyAutoinstall` for kernel lines with nothing behind the dashes, which is
   Ubuntu's: finding 4 restricted to where it bites.
3. The parts of `Settles` that are safety: that from every state of `IInv` some action of
   the installer, or of those it waits for, leads on, stated without ENABLED.

## 6. Not modelled

- **Translations** (`i18n.py` and its catalogues, a third of the Python lines): data
  and a stateless lookup with an English fallback.
- **Diagnostics** (`gladys-diagnostics`) and the **login message** (`05-gladys`):
  print the output of commands, change nothing.
- **Build helpers** (`make-payload.sh`, `generate-build-info.py`,
  `generate-ci-barrier-deb.py`, `fetch-subiquity-validator.sh`): deterministic
  invocations of tools on fixed inputs. What `make-payload.sh` makes is an arbitrary
  archive in `MediaBuild`.
- The verification of the signature on `SHA256SUMS`, the extraction of Subiquity's
  schema, and the schema's own contents: tools whose verdict is taken as given.
- Watchtower at work: it replaces the containers labelled for it when an image is
  updated (`compose.yaml:10`), removing the old one first. In the model a container, once
  made, stays; "deployed" is what the installer has made.
- What the marker says: it names the image of the tag (`bootstrap.py:519`), which may
  have moved since the container was made, but no code reads more than its existence.
- Test mode, which only CI media have, and the workflows that only run tools.
- The name resolution and TLS handshake of `internet_available`: in `Bootstrap`,
  whether the network is there is the environment's choice.
- Quotes and escapes in GRUB's lines, which decide whether a brace counts: in the
  model a line opens or closes a block, or does not.
