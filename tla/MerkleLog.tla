----------------------------- MODULE MerkleLog ------------------------------
(***************************************************************************)
(* What a MerkleTree (src/ametsuchi/merkle_tree/merkle_tree.cc) promises,  *)
(* without its arrays: hashes are pushed into a block of Leafs leaves; as  *)
(* soon as the block is full its root is the first leaf of the next block. *)
(* A block is the sequence of its leaves.                                  *)
(***************************************************************************)
EXTENDS Integers, Sequences

CONSTANTS
  Leafs,         \* leaves of a block
  BlockRoot(_)   \* the root of a block

(* Mutant of MerklePush: a block takes one leaf too many.                   *)
MerklePush_Late(leaves, leaf) ==
  IF Len(leaves) = Leafs THEN << BlockRoot(leaves), leaf >>
  ELSE Append(leaves, leaf)

MerklePush(leaves, leaf) ==
  IF Len(leaves) + 1 = Leafs THEN << BlockRoot(Append(leaves, leaf)) >>
  ELSE Append(leaves, leaf)

(* The leaves of the last block after the pushes of all of log, in order,   *)
(* into an empty tree.                                                      *)
MerkleOf(log) ==
  LET leaves[i \in 0..Len(log)] ==
        IF i = 0 THEN << >> ELSE MerklePush(leaves[i - 1], log[i])
  IN  leaves[Len(log)]
=============================================================================
