----------------------------- MODULE Autoinstall -----------------------------
(***************************************************************************)
(* validate-config.py: the pair of Autoinstall documents a build accepts,  *)
(* and what the early command makes of the one for production.             *)
(***************************************************************************)
EXTENDS Filter

(* A document: its settings that the validation looks at one by one; "rest" is
   all the others, "valid" what Subiquity's schema says of the whole. *)
Interactive == <<"locale", "keyboard", "storage", "identity", "ssh">>

Production ==
  [interactive |-> Interactive, locale |-> "en_US.UTF-8", keyboard |-> FALSE,
   source |-> "ubuntu-server-minimal", storage |-> "lvm", match |-> "none",
   early |-> "single disk", identity |-> "none", ssh |-> TRUE, drivers |-> FALSE,
   users |-> "none", rootLocked |-> TRUE, pwauth |-> "unset",
   late |-> <<"verify", "extract">>, rest |-> "agreed", valid |-> TRUE]

ForCI(document) == [document EXCEPT !.interactive = <<>>, !.identity = "account"]

-----------------------------------------------------------------------------
Index(commands, command) ==
  LET at == {n \in DOMAIN commands : commands[n] = command}
  IN IF at = {} THEN Len(commands) + 1 ELSE CHOOSE n \in at : \A m \in at : n <= m

(* Mutant: both commands are there. *)
VerifiesSomewhen(commands) ==
  {"verify", "extract"} \subseteq {commands[n] : n \in DOMAIN commands}

(* Both are there, and the first check comes before the first extraction. *)
VerifiesFirst(commands) ==
  /\ Index(commands, "extract") <= Len(commands)
  /\ Index(commands, "verify") < Index(commands, "extract")

(* _safety_checks: as Production, but for what is beyond these settings. *)
Safe(document) ==
  /\ document = [Production EXCEPT !.late = document.late, !.rest = document.rest,
                                   !.valid = document.valid]
  /\ VerifiesFirst(document.late)

WithoutStorage(sections) == Kept(sections, {n \in DOMAIN sections : sections[n] # "storage"})

(* preselect_disk on the document, as SingleDisk has it step by step. *)
EarlyCommand(document, disk) ==
  LET remaining == WithoutStorage(document.interactive)
  IN IF remaining \in {document.interactive, <<>>} THEN document
     ELSE [document EXCEPT !.interactive = remaining, !.match = disk]

SIMULATED_DISK == "nvme0n1"

(* single_disk_document and _single_disk_checks: the command applies, changes
   two settings, and leaves a section to be asked about. *)
SingleDiskChecked(document) ==
  LET rewritten == EarlyCommand(document, SIMULATED_DISK)
  IN /\ rewritten.match = SIMULATED_DISK
     /\ rewritten = [document EXCEPT !.interactive = WithoutStorage(@),
                                     !.match = SIMULATED_DISK]
     /\ rewritten.interactive # <<>>
     /\ rewritten.valid

(* validate_repository_configs: Subiquity's own schema accepts both documents,
   and they differ in nothing but the sections asked about and the account that
   stands in for one of them. *)
Validated(production, ci, schema) ==
  /\ schema = "subiquity" /\ production.valid /\ ci.valid
  /\ production.interactive = Interactive /\ ci.interactive = <<>>
  /\ ci.identity = "account"
  /\ [ci EXCEPT !.interactive = Interactive, !.identity = "none"] = production
  /\ Safe(production)
  /\ SingleDiskChecked(production)
=============================================================================
