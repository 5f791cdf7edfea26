------------------------------ MODULE GrubPatch ------------------------------
(***************************************************************************)
(* patch-grub.py: the GRUB configuration of the Ubuntu image as a sequence *)
(* of lines, the parser that finds its menu entries, the replacement of    *)
(* Canonical's entry, and the check of the finished configuration.         *)
(***************************************************************************)
EXTENDS Integers, Sequences, FiniteSets

(* The lines the program tells apart.  A submenu opens a block that is not an
   entry; a command is any line it does not look into. *)
MenuEntry(title)  == [is |-> "menuentry", title |-> title]
Linux(args)       == [is |-> "linux", args |-> args]   \* /casper/vmlinuz
Set(name, value)  == [is |-> "set", name |-> name, value |-> value]
Initrd            == [is |-> "initrd"]                 \* /casper/initrd
Submenu           == [is |-> "submenu"]
Close             == [is |-> "close"]
Command           == [is |-> "command"]
Comment           == [is |-> "comment"]

AnyGrubLine ==
  [is : {"menuentry"}, title : STRING] \cup [is : {"linux"}, args : Seq(STRING)]
    \cup [is : {"set"}, name : STRING, value : STRING]
    \cup [is : {"initrd", "submenu", "close", "command", "comment"}]

Canonical == "Try or Install Ubuntu Server"
Gladys    == "Install Gladys Assistant"

BOOT_POLICY == << Set("default", "0"), Set("timeout", "3") >>

-----------------------------------------------------------------------------
(* _brace_delta of a line is 1, -1 or 0. *)
Opens(line)  == line.is \in {"menuentry", "submenu"}
Closes(line) == line.is = "close"

(* The blocks that the lines from i to j open and do not close. *)
Depth(config, i, j) ==
  Cardinality({k \in i..j : Opens(config[k])}) - Cardinality({k \in i..j : Closes(config[k])})

(* The line that ends the entry which begins at i; 0 if there is none. *)
EndOf(config, i) ==
  LET ends == {j \in i..Len(config) : Depth(config, i, j) = 0}
  IN IF ends = {} THEN 0 ELSE CHOOSE j \in ends : \A k \in ends : j <= k

(* parse_menuentries: the entries in their order, <<first line, last line>>;
   an entry without an end has last line 0 and the parser stops there. *)
Entries(config) ==
  LET from[i \in 1..Len(config) + 1] ==
        IF i > Len(config) THEN <<>>
        ELSE IF config[i].is # "menuentry" THEN from[i + 1]
        ELSE LET end == EndOf(config, i)
             IN << <<i, end>> >> \o (IF end = 0 THEN <<>> ELSE from[end + 1])
  IN from[1]

Balanced(entries) == \A n \in DOMAIN entries : entries[n][2] # 0

Title(config, entry) == config[entry[1]].title

LinesOf(config, entry, kind) == {i \in entry[1]..entry[2] : config[i].is = kind}

(* Exactly one kernel line and one initrd line, at whatever depth. *)
IsCasper(config, entry) ==
  /\ Cardinality(LinesOf(config, entry, "linux")) = 1
  /\ Cardinality(LinesOf(config, entry, "initrd")) = 1

(* _non_menu_text: the lines outside the entries. *)
Outside(config, entries) ==
  {i \in 1..Len(config) : \A n \in DOMAIN entries : i \notin entries[n][1]..entries[n][2]}

-----------------------------------------------------------------------------
Has(args, word) == \E i \in DOMAIN args : args[i] = word

Dashes == "---"
Glued  == "---glued"   \* the dashes and the argument behind them in one word

(* Mutant: behind the three dashes. *)
AddBehind(args) == Append(args, "autoinstall")

(* _add_autoinstall: in front of the first "---", or at the end.  The white
   space behind the dashes is replaced with them, so that they stick to the
   argument that follows. *)
AddAutoinstall(args) ==
  IF ~Has(args, Dashes) THEN Append(args, "autoinstall")
  ELSE LET i == CHOOSE i \in DOMAIN args :
                  args[i] = Dashes /\ ~Has(SubSeq(args, 1, i - 1), Dashes)
           behind == SubSeq(args, i + 1, Len(args))
       IN SubSeq(args, 1, i - 1) \o <<"autoinstall">> \o
          (IF behind = <<>> THEN <<Dashes>> ELSE <<Glued>> \o Tail(behind))

-----------------------------------------------------------------------------
(* The last setting of a name outside the entries is the one in effect. *)
Effective(config, outside, name) ==
  LET settings == {i \in outside : config[i].is = "set" /\ config[i].name = name}
  IN IF settings = {} THEN "unset"
     ELSE config[CHOOSE i \in settings : \A j \in settings : j <= i].value

(* The lines of meaning outside the entries end with the policy. *)
EndsWithPolicy(config, outside) ==
  LET meaning == {i \in outside : config[i].is # "comment"}
  IN \A p \in DOMAIN BOOT_POLICY :
       \E i \in meaning :
         /\ config[i] = BOOT_POLICY[p]
         /\ Cardinality({j \in meaning : j > i}) = Len(BOOT_POLICY) - p

(* validate_patched_grub. *)
ValidGrub(config) ==
  LET entries == Entries(config)
      outside == Outside(config, entries)
  IN /\ Balanced(entries) /\ entries # <<>>
     /\ {n \in DOMAIN entries : Title(config, entries[n]) = Gladys} = {1}
     /\ \A n \in DOMAIN entries : Title(config, entries[n]) # Canonical
     /\ {n \in DOMAIN entries : IsCasper(config, entries[n])} = {1}
     /\ \A i \in LinesOf(config, entries[1], "linux") : Has(config[i].args, "autoinstall")
     /\ \A p \in DOMAIN BOOT_POLICY :
          Effective(config, outside, BOOT_POLICY[p].name) = BOOT_POLICY[p].value
     /\ EndsWithPolicy(config, outside)

-----------------------------------------------------------------------------
Refused == <<>>   \* GrubPatchError; no configuration is empty

(* The transformation, without the check of its result. *)
Replace(config) ==
  LET entries    == Entries(config)
      candidates == {n \in DOMAIN entries :
                       Title(config, entries[n]) = Canonical /\ IsCasper(config, entries[n])}
      source     == entries[CHOOSE n \in candidates : TRUE]
      kernel     == CHOOSE i \in LinesOf(config, source, "linux") : TRUE
  IN IF \/ ~Balanced(entries) \/ Cardinality(candidates) # 1
        \/ Has(config[kernel].args, "autoinstall")
       THEN Refused
       ELSE [config EXCEPT ![source[1]].title = Gladys,
                           ![kernel].args = AddAutoinstall(@)] \o BOOT_POLICY

(* patch_grub. *)
Patch(config) ==
  IF Replace(config) # Refused /\ ValidGrub(Replace(config)) THEN Replace(config) ELSE Refused

(* validate_against_base. *)
MatchesBase(base, custom) == Patch(base) # Refused /\ custom = Patch(base)
=============================================================================
