---------------------------- MODULE MCMerkleTree ----------------------------
(***************************************************************************)
(* Small instances of MerkleTree.                                          *)
(***************************************************************************)
EXTENDS MerkleTree
=============================================================================
