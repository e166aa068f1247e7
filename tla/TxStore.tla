------------------------------ MODULE TxStore -------------------------------
(***************************************************************************)
(* The transaction store (class TxStore, src/ametsuchi/tx_store.cc): an    *)
(* append-only tree of transactions under consecutive ids, sixteen index   *)
(* trees, and the Merkle tree of the transactions' hashes, of which the    *)
(* leaves of the last block are saved at a commit.                         *)
(*                                                                         *)
(* The index trees of the creators' keys are one function by the name of   *)
(* the command; index_transfer_sender and index_transfer_receiver are      *)
(* apart.  The Merkle tree is seen by the leaves of its last block: a      *)
(* transaction stands for the hash it carries, and the root of a full      *)
(* block for the block.                                                    *)
(***************************************************************************)
EXTENDS Schema, LMDB

CONSTANTS
  Leafs,         \* leaves of a Merkle block: AMETSUCHI_BLOCK_SIZE, 1024
  Transaction    \* the transactions that clients submit

ASSUME TxStoreAssumption ==
  /\ Leafs \in Nat /\ Leafs >= 2
  /\ \E k \in 0..Leafs : Leafs = 2 ^ k
  /\ Transaction \subseteq [creatorPubKey : PubKey, command : Command]

(* The commands that have an index of their own.                            *)
IndexedCommand ==
  {"AssetCreate", "AssetAdd", "AssetRemove", "AssetTransfer",
   "AccountAdd", "AccountAddSignatory", "AccountRemove",
   "AccountRemoveSignatory", "AccountSetUseKeys",
   "PeerAdd", "PeerChangeTrust", "PeerRemove", "PeerSetActive",
   "PeerSetTrust"}

(* The trees in the database.                                               *)
EmptyStore ==
  [tx_store    |-> EmptyTree,
   merkle_tree |-> << >>,
   index       |-> [t \in IndexedCommand |-> [k \in PubKey |-> {}]],
   transfer_sender   |-> [k \in PubKey |-> {}],
   transfer_receiver |-> [k \in PubKey |-> {}]]

(* The leaves of a block that is not full yet.                              *)
IsBlock(leaves) ==
  /\ DOMAIN leaves \in {1..n : n \in 0..Leafs - 1}
  /\ leaves = [i \in DOMAIN leaves |-> leaves[i]]

IsStore(st) ==
  /\ st = [tx_store          |-> st.tx_store,
           merkle_tree       |-> st.merkle_tree,
           index             |-> st.index,
           transfer_sender   |-> st.transfer_sender,
           transfer_receiver |-> st.transfer_receiver]
  /\ IsTree(st.tx_store, Nat, Transaction)
  /\ IsBlock(st.merkle_tree)
  /\ st.index \in [IndexedCommand -> [PubKey -> SUBSET Nat]]
  /\ st.transfer_sender \in [PubKey -> SUBSET Transaction]
  /\ st.transfer_receiver \in [PubKey -> SUBSET Transaction]

(* set_tx_total: the greatest id, 0 in an empty tree.                       *)
TxTotalOf(st) ==
  IF DOMAIN st.tx_store = {} THEN 0
  ELSE CHOOSE n \in DOMAIN st.tx_store : \A m \in DOMAIN st.tx_store : m <= n
-----------------------------------------------------------------------------
(* The hash of a full block stands for its leaves.                          *)
RootOfBlock(leaves) == [root_of |-> leaves]

INSTANCE MerkleLog WITH BlockRoot <- RootOfBlock

(* init_merkle_tree: the saved leaves are pushed again.                     *)
MerkleLoad(st) == MerkleOf(st.merkle_tree)
-----------------------------------------------------------------------------
(* mdb_cursor_put with MDB_NOOVERWRITE | MDB_APPEND: MDB_KEYEXIST unless    *)
(* the key is greater than every other.                                     *)
CanAppend(tree, id) == \A k \in DOMAIN tree : k < id

(* The trees that the switch writes: two of its cases have no break.        *)
IndexesOf(type) ==
  CASE type = "AssetAdd"    -> {"AssetAdd", "AssetRemove", "AssetTransfer"}
    [] type = "AssetRemove" -> {"AssetRemove", "AssetTransfer"}
    [] OTHER                -> {type} \cap IndexedCommand

(* Mutant of PutIndexes: the total is incremented before the index is       *)
(* written, once more.                                                      *)
PutIndexes_NextId(st, tx, id) ==
  [st EXCEPT !.index =
     [t \in IndexedCommand |->
        IF t \in IndexesOf(tx.command.type)
        THEN PutDup(st.index[t], tx.creatorPubKey, id + 1) ELSE st.index[t]]]

PutIndexes(st, tx, id) ==
  [st EXCEPT !.index =
     [t \in IndexedCommand |->
        IF t \in IndexesOf(tx.command.type)
        THEN PutDup(st.index[t], tx.creatorPubKey, id) ELSE st.index[t]]]

(* The value put for a transfer is still c_val, the transaction's blob.     *)
PutTransfer(st, tx) ==
  IF tx.command.type = "AssetTransfer"
  THEN [st EXCEPT
          !.transfer_sender =
            PutDup(st.transfer_sender, tx.command.sender, tx),
          !.transfer_receiver =
            PutDup(st.transfer_receiver, tx.command.receiver, tx)]
  ELSE st

(* Mutant of append: the id is the last one (a post-increment) and the put  *)
(* is not refused for a key that is there.                                  *)
append_LastId(s, tx) ==
  LET id == IF s.total = 0 THEN 1 ELSE s.total
      stored == [s.store EXCEPT !.tx_store = Put(s.store.tx_store, id, tx)]
  IN  IF IndexesOf(tx.command.type) = {}
      THEN [s EXCEPT !.total = s.total + 1, !.store = stored,
                     !.res = "WRONG_COMMAND"]
      ELSE [s EXCEPT !.total = s.total + 1,
                     !.store = PutTransfer(PutIndexes(stored, tx, id), tx),
                     !.leaves = MerklePush(s.leaves, tx)]

(* TxStore::append on the state s of the object: its trees, tx_store_total, *)
(* the leaves in memory and the outcome.  The id is taken before the put    *)
(* and the transaction is stored before its command is looked at.           *)
append(s, tx) ==
  LET id == s.total + 1
      stored == [s.store EXCEPT !.tx_store = Put(s.store.tx_store, id, tx)]
  IN  IF ~CanAppend(s.store.tx_store, id)
      THEN [s EXCEPT !.total = id, !.res = "FATAL"]
      ELSE IF IndexesOf(tx.command.type) = {}
      THEN [s EXCEPT !.total = id, !.store = stored, !.res = "WRONG_COMMAND"]
      ELSE [s EXCEPT !.total = id,
                     !.store = PutTransfer(PutIndexes(stored, tx, id), tx),
                     !.leaves = MerklePush(s.leaves, tx)]

(* Mutant of SaveMerkle: the tree is not emptied first.                     *)
SaveMerkle_NoDrop(st, leaves) ==
  [st EXCEPT !.merkle_tree =
     [i \in DOMAIN leaves \cup DOMAIN st.merkle_tree |->
        IF i \in DOMAIN leaves THEN leaves[i] ELSE st.merkle_tree[i]]]

(* TxStore::commit: the saved leaves are replaced by those in memory.       *)
SaveMerkle(st, leaves) == [st EXCEPT !.merkle_tree = leaves]
-----------------------------------------------------------------------------
(* getTxByKey: for every entry of the key the cursor is put, by MDB_FIRST,  *)
(* on the first transaction of the store.                                   *)
FirstTx(st) ==
  st.tx_store[CHOOSE n \in DOMAIN st.tx_store :
                   \A m \in DOMAIN st.tx_store : n <= m]

GetTxByKey(st, entries) == [e \in entries |-> FirstTx(st)]
-----------------------------------------------------------------------------
VARIABLES
  store,            \* the trees, as the append transaction sees them
  tx_store_total,   \* the last id that append took
  merkleTree        \* merkleTree_, by the leaves of its last block

(* The index trees answer for the log in st: an entry of key k in the tree  *)
(* of a command is the id of a transaction that k created, and every        *)
(* transaction of the command is among its creator's entries; a transfer is *)
(* among the entries of its sender and of its receiver, which are transfers *)
(* in the log (tx_store.cc:48-137).                                         *)
IndexCoherent(st) ==
  /\ \A t \in IndexedCommand, k \in PubKey :
       /\ \A id \in st.index[t][k] :
            id \in DOMAIN st.tx_store /\ st.tx_store[id].creatorPubKey = k
       /\ \A id \in DOMAIN st.tx_store :
            st.tx_store[id].command.type = t /\ st.tx_store[id].creatorPubKey = k
              => id \in st.index[t][k]
  /\ \A k \in PubKey :
       /\ st.transfer_sender[k] =
            {tx \in {st.tx_store[id] : id \in DOMAIN st.tx_store} :
               tx.command.type = "AssetTransfer" /\ tx.command.sender = k}
       /\ st.transfer_receiver[k] =
            {tx \in {st.tx_store[id] : id \in DOMAIN st.tx_store} :
               tx.command.type = "AssetTransfer" /\ tx.command.receiver = k}
=============================================================================
