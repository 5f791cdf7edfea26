------------------------------- MODULE Payload -------------------------------
(***************************************************************************)
(* inspect-payload.py: which archives may go on a medium of which profile. *)
(***************************************************************************)
EXTENDS Integers, FiniteSets, Sequences

(* A member of the archive: the path it comes to once normalized and how it is
   spelled (plain, the same with detours, absolute, leaving the archive), what
   it is, its mode, its owner, whether it is small enough to be read, and what
   the text then says: the images of Gladys by tag, and "watchtower". *)
Member(path, type, mode) ==
  [path |-> path, spelled |-> "plain", type |-> type, mode |-> mode, root |-> TRUE,
   small |-> TRUE, says |-> {}]

TestMode == "etc/gladys-installer/test-mode"
Fixtures == {TestMode, "etc/gladys-installer/test-compose.yaml",
             "etc/gladys-installer/gladys-ci-dpkg-barrier_1.0_all.deb",
             "usr/lib/gladys-installer/apt-power-loss-barrier.py"}

(* Of the paths the archives have: those that run, and those that no
   production-compatible archive may have (fixtures by their names, byte code,
   container storage, archives of any kind). *)
Programs == {"usr/lib/gladys-installer/bootstrap.py", "usr/lib/gladys-installer/apt-power-loss-barrier.py"}
Forbidden == (Fixtures \ Programs) \cup
             {"usr/lib/gladys-installer/__pycache__/common.pyc", "var/lib/docker/image",
              "var/lib/containerd/content", "opt/gladys/layer.tar", "opt/gladys/image.oci"}

Tags == {"v5", "4"}

-----------------------------------------------------------------------------
Mode(member) == IF member.type = "dir" \/ member.path \in Programs THEN "755" ELSE "644"

(* Each member by itself, and no path twice; the root of the archive may be. *)
Sane(archive) ==
  \A n \in DOMAIN archive :
    /\ archive[n].spelled \in {"plain", "detour"}
    /\ archive[n].root
    /\ archive[n].type \in {"file", "dir"}
    /\ archive[n].mode = Mode(archive[n])
    /\ archive[n].path = "." \/ \A m \in 1..n - 1 : archive[m].path # archive[n].path

Paths(archive) == {archive[n].path : n \in DOMAIN archive}

(* What the files that are read say. *)
Text(archive) ==
  UNION {archive[n].says : n \in {n \in DOMAIN archive : archive[n].type = "file" /\ archive[n].small}}

(* Mutant: fixtures are looked for by the whole set only. *)
CleanOfAllFixtures(archive) ==
  /\ ~(Fixtures \subseteq Paths(archive))
  /\ Text(archive) \cap Tags = {"v5"} /\ "watchtower" \in Text(archive)

Clean(archive) ==
  /\ Paths(archive) \cap Forbidden = {}
  /\ Text(archive) \cap Tags = {"v5"} /\ "watchtower" \in Text(archive)

(* inspect_payload. *)
Inspected(archive, profile) ==
  /\ Sane(archive)
  /\ IF profile = "ci-smoke" THEN Fixtures \subseteq Paths(archive) ELSE Clean(archive)
=============================================================================
