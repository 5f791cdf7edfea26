----------------------------- MODULE DurableCell -----------------------------
(***************************************************************************)
(* What the readers of state.json and of the completion marker may count   *)
(* on: a cell whose value is replaced as a whole.  After a power loss it   *)
(* shows its value, or an earlier one that has not yet been superseded on  *)
(* the disk; nothing else.                                                 *)
(***************************************************************************)
CONSTANTS
  Contents,  \* what is written to the cell
  NoFile     \* before the first write

VARIABLES
  value,     \* what a reader sees
  survivors  \* what it may see after a power loss

cell == <<value, survivors>>

Init == value = NoFile /\ survivors = {NoFile}

Replace(v) ==
  /\ value' = v
  /\ survivors' = survivors \cup {v}

Flush ==
  /\ survivors' = {value}
  /\ UNCHANGED value

PowerLoss ==
  /\ value' \in survivors
  /\ survivors' = {value'}

Next == (\E v \in Contents : Replace(v)) \/ Flush \/ PowerLoss

Spec == Init /\ [][Next]_cell
=============================================================================
