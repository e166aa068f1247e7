---------------------------- MODULE RollbackLog -----------------------------
(***************************************************************************)
(* What a NarrowMerkleTree (include/ametsuchi/merkle_tree/                 *)
(* narrow_merkle_tree.h) promises: the log whose hash is the root grows by *)
(* one leaf at a time and goes back to one of its beginnings.  Nothing is  *)
(* promised while specified is FALSE, until all is dropped.                *)
(***************************************************************************)
EXTENDS Integers, Sequences

CONSTANT Leaf

VARIABLES log, specified

vars == <<log, specified>>

Init == log = << >> /\ specified = TRUE

Add(leaf) ==
  /\ specified
  /\ log' = Append(log, leaf)
  /\ UNCHANGED specified

Truncate ==
  /\ \E n \in 0..Len(log) : log' = SubSeq(log, 1, n)
  /\ UNCHANGED specified

Clear == log' = << >> /\ specified' = TRUE

Unspecified == specified' = FALSE

Next == Unspecified \/ Clear \/ (\E leaf \in Leaf : Add(leaf)) \/ Truncate

Spec == Init /\ [][Next]_vars
=============================================================================
