-------------------------------- MODULE LMDB --------------------------------
(***************************************************************************)
(* The part of the LMDB library that Ametsuchi relies on, modelled from    *)
(* the calls in src/ametsuchi/wsv.cc and src/ametsuchi/tx_store.cc.  A     *)
(* named B+tree is a partial function from keys to values; a transaction   *)
(* works on a copy of the trees, so that mdb_txn_commit installs the copy  *)
(* and mdb_txn_abort forgets it (see Ametsuchi.tla).                       *)
(***************************************************************************)

(* A tree that mdb_dbi_open(MDB_CREATE) has just created. *)
EmptyTree == [k \in {} |-> k]

(* mdb_cursor_put with flags 0 in a tree without duplicates: the pair is    *)
(* written whether or not the key is there, and MDB_KEYEXIST is not raised. *)
Put(tree, key, val) ==
  [k \in DOMAIN tree \cup {key} |-> IF k = key THEN val ELSE tree[k]]

(* mdb_cursor_del of every key in keys. *)
Del(tree, keys) == [k \in DOMAIN tree \ keys |-> tree[k]]

(* mdb_cursor_put in a MDB_DUPSORT tree, seen as a total function from keys *)
(* to their sets of duplicates: one more duplicate.                         *)
PutDup(tree, key, val) == [tree EXCEPT ![key] = @ \cup {val}]

(* tree is a partial function from K to V. *)
IsTree(tree, K, V) ==
  /\ tree = [k \in DOMAIN tree |-> tree[k]]
  /\ DOMAIN tree \subseteq K
  /\ \A k \in DOMAIN tree : tree[k] \in V
=============================================================================
