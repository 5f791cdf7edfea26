------------------------------- MODULE Filter --------------------------------
(***************************************************************************)
(* The list comprehensions of the scripts: what is kept of a list, by      *)
(* position.  It is SelectSeq, as a function defined by recursion, which   *)
(* the proof system can reason about.                                      *)
(***************************************************************************)
EXTENDS Integers, Sequences

Kept(list, kept) ==
  LET upto[n \in 0..Len(list)] ==
        IF n = 0 THEN <<>>
        ELSE IF n \in kept THEN Append(upto[n - 1], list[n]) ELSE upto[n - 1]
  IN upto[Len(list)]
=============================================================================
