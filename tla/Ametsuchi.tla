----------------------------- MODULE Ametsuchi ------------------------------
(***************************************************************************)
(* The database (class Ametsuchi, src/ametsuchi/ametsuchi.cc): a           *)
(* transaction store and a world state view over one LMDB environment and  *)
(* one write transaction, the append transaction.  It is the single writer *)
(* of the database, so that its calls follow each other.                   *)
(*                                                                         *)
(* store, wsv: the trees as the append transaction sees them.  durable:    *)
(* the trees in the environment.  A commit installs the former as the      *)
(* latter; a rollback, a failed commit and the end of the process forget   *)
(* them.  The objects' own fields are not part of any LMDB transaction:    *)
(* tx_store_total and created_assets_ are read again whenever an append    *)
(* transaction begins, merkleTree_ only when the database is opened.       *)
(*                                                                         *)
(* A write of the append transaction may fail because the map is full.     *)
(* From then on LMDB answers every read and write of the transaction with  *)
(* MDB_BAD_TXN, which no AMETSUCHI_CRITICAL names, and does not commit it: *)
(* appends go on, write nothing and report nothing.  store and wsv then    *)
(* stay as they were before the append that failed.                        *)
(***************************************************************************)
EXTENDS TxStore, WSV

CONSTANT MaxAppends   \* bound: calls of append in a behaviour

ASSUME AmetsuchiAssumption == MaxAppends \in Nat

VARIABLES
  durable,   \* the trees in the environment
  call,      \* the last call; result is what it returned or threw
  appends,   \* calls of append so far
  doomed,    \* a write of the append transaction failed
  synced     \* history: the hashes in merkleTree_ are those of the log

vars == <<store, tx_store_total, merkleTree, wsv, created_assets, result,
          durable, call, appends, doomed, synced>>

(* Mutants of InitAppendTx: tx_store_total, or created_assets_, keeps what  *)
(* it was.                                                                  *)
InitAppendTx_KeepsTotal(db) ==
  /\ store' = db.store
  /\ tx_store_total' = tx_store_total
  /\ wsv' = db.wsv
  /\ created_assets' = ReadCreatedAssets(db.wsv)

InitAppendTx_KeepsAssets(db) ==
  /\ store' = db.store
  /\ tx_store_total' = TxTotalOf(db.store)
  /\ wsv' = db.wsv
  /\ created_assets' = created_assets

(* init_append_tx: a new append transaction on the trees db; TxStore::init  *)
(* and WSV::init read what they keep in memory.                             *)
InitAppendTx(db) ==
  /\ store' = db.store
  /\ tx_store_total' = TxTotalOf(db.store)
  /\ wsv' = db.wsv
  /\ created_assets' = ReadCreatedAssets(db.wsv)

(* The constructor, on a new directory.                                     *)
Init ==
  /\ durable = [store |-> EmptyStore, wsv |-> EmptyWSV, synced |-> TRUE]
  /\ store = EmptyStore
  /\ tx_store_total = TxTotalOf(EmptyStore)
  /\ merkleTree = MerkleLoad(EmptyStore)
  /\ WSVInit
  /\ call = "open"
  /\ appends = 0
  /\ doomed = FALSE
  /\ synced = TRUE

(* Mutant of AppendTx: the world state is updated first, and a transaction  *)
(* that it refuses is not stored.                                           *)
AppendTx_WorldFirst(tx) ==
  /\ appends < MaxAppends
  /\ ~doomed
  /\ LET t == append([store |-> store, total |-> tx_store_total,
                      leaves |-> merkleTree, res |-> "OK"], tx)
         w == update([wsv |-> wsv, created_assets |-> created_assets,
                      res |-> "OK"], tx.command)
     IN  /\ wsv' = w.wsv
         /\ created_assets' = w.created_assets
         /\ \/ /\ w.res = "OK"
               /\ store' = t.store
               /\ tx_store_total' = t.total
               /\ merkleTree' = t.leaves
               /\ result' = t.res
            \/ /\ w.res # "OK"
               /\ result' = w.res
               /\ UNCHANGED <<store, tx_store_total, merkleTree>>
  /\ call' = "append"
  /\ appends' = appends + 1
  /\ UNCHANGED <<durable, doomed, synced>>

(* append: the store, then the world state.  An exception leaves what was   *)
(* written before it; append(batch) is a loop of these calls, which an      *)
(* exception ends.                                                          *)
AppendTx(tx) ==
  /\ appends < MaxAppends
  /\ ~doomed
  /\ LET t == append([store |-> store, total |-> tx_store_total,
                      leaves |-> merkleTree, res |-> "OK"], tx)
         w == update([wsv |-> wsv, created_assets |-> created_assets,
                      res |-> "OK"], tx.command)
     IN  /\ store' = t.store
         /\ tx_store_total' = t.total
         /\ merkleTree' = t.leaves
         /\ synced' = (synced /\ t.res = "OK")
         /\ \/ /\ t.res = "OK"
               /\ wsv' = w.wsv
               /\ created_assets' = w.created_assets
               /\ result' = w.res
            \/ /\ t.res # "OK"
               /\ result' = t.res
               /\ UNCHANGED <<wsv, created_assets>>
  /\ call' = "append"
  /\ appends' = appends + 1
  /\ UNCHANGED <<durable, doomed>>

(* mdb_cursor_del is not checked for MDB_MAP_FULL.                          *)
FailsQuietly(cmd) == cmd.type \in {"AccountRemove", "PeerRemove"}

(* append, when a write fails: one of the store, which throws, or one of    *)
(* the world state, after the hash was pushed.                              *)
AppendFails(tx) ==
  /\ appends < MaxAppends
  /\ ~doomed
  /\ tx_store_total' = tx_store_total + 1
  /\ \/ /\ result' = "FATAL"
        /\ UNCHANGED <<merkleTree, synced>>
     \/ /\ IndexesOf(tx.command.type) # {}
        /\ LET w == update([wsv |-> wsv, created_assets |-> created_assets,
                            res |-> "OK"], tx.command)
           IN  w.res = "OK" \/ w.wsv # wsv   \* there is a write
        /\ merkleTree' = MerklePush(merkleTree, tx)
        /\ synced' = FALSE
        /\ result' = IF FailsQuietly(tx.command) THEN "OK" ELSE "FATAL"
  /\ doomed' = TRUE
  /\ call' = "append"
  /\ appends' = appends + 1
  /\ UNCHANGED <<store, wsv, created_assets, durable>>

(* The world state that a doomed transaction seems to have.  A read that    *)
(* fails is taken for one that finds: an account or a peer is there, and a  *)
(* holding is the asset's own blob, without an amount.                      *)
Unreadable ==
  [assets   |-> created_assets,
   accounts |-> [k \in PubKey |-> [pubKey |-> k, alias |-> << >>]],
   peers    |-> [i \in Ip |-> [ip |-> i, publicKey |-> << >>]],
   holdings |-> [k \in PubKey \X AssetIds |->
                   [amount |-> 0, precision |-> 0, has_amount |-> FALSE]]]

(* append in a doomed transaction: the objects change, the trees do not.    *)
AppendIgnored(tx) ==
  /\ appends < MaxAppends
  /\ doomed
  /\ tx_store_total' = tx_store_total + 1
  /\ \/ /\ IndexesOf(tx.command.type) = {}
        /\ result' = "WRONG_COMMAND"
        /\ UNCHANGED <<merkleTree, created_assets, synced>>
     \/ /\ IndexesOf(tx.command.type) # {}
        /\ merkleTree' = MerklePush(merkleTree, tx)
        /\ synced' = FALSE
        /\ LET w == update(Loaded(Unreadable), tx.command)
           IN  created_assets' = w.created_assets /\ result' = w.res
  /\ call' = "append"
  /\ appends' = appends + 1
  /\ UNCHANGED <<store, wsv, durable, doomed>>

(* Mutant of Commit: the new append transaction begins before the old one   *)
(* is committed, and does not see it.                                       *)
Commit_BeginsFirst ==
  /\ ~doomed
  /\ durable' = [store |-> SaveMerkle(store, merkleTree), wsv |-> wsv,
                 synced |-> synced]
  /\ InitAppendTx(durable)
  /\ call' = "commit"
  /\ result' = "OK"
  /\ UNCHANGED <<merkleTree, appends, doomed, synced>>

(* commit, when every write of it and mdb_txn_commit succeed.               *)
Commit ==
  /\ ~doomed
  /\ durable' = [store |-> SaveMerkle(store, merkleTree), wsv |-> wsv,
                 synced |-> synced]
  /\ InitAppendTx(durable')
  /\ call' = "commit"
  /\ result' = "OK"
  /\ UNCHANGED <<merkleTree, appends, doomed, synced>>

(* The append transaction is gone and a new one begins.  merkleTree_ keeps  *)
(* the hashes of what was forgotten.                                        *)
Forget ==
  /\ InitAppendTx(durable)
  /\ doomed' = FALSE
  /\ result' = "OK"
  /\ synced' = (synced /\ store.tx_store = durable.store.tx_store)
  /\ UNCHANGED <<merkleTree, durable, appends>>

(* commit, when mdb_txn_commit fails (a doomed transaction, no space, an    *)
(* I/O error): it aborts the transaction, and its result is not looked at.  *)
(* So does a mdb_drop that fails, which dooms the transaction.              *)
CommitFails == Forget /\ call' = "commit"

(* commit, when a leaf cannot be saved: it throws before the transaction is *)
(* ended.                                                                   *)
CommitThrows ==
  /\ ~doomed
  /\ merkleTree # << >>
  /\ doomed' = TRUE
  /\ call' = "commit"
  /\ result' = "FATAL"
  /\ UNCHANGED <<store, tx_store_total, merkleTree, wsv, created_assets,
                 durable, appends, synced>>

Rollback == Forget /\ call' = "rollback"

(* The process ends, through the destructor or not, and the database is     *)
(* opened again.                                                            *)
Reopen ==
  /\ InitAppendTx(durable)
  /\ doomed' = FALSE
  /\ merkleTree' = MerkleLoad(durable.store)
  /\ synced' = durable.synced
  /\ call' = "open"
  /\ result' = "OK"
  /\ UNCHANGED <<durable, appends>>

Next ==
  \/ \E tx \in Transaction :
       AppendTx(tx) \/ AppendFails(tx) \/ AppendIgnored(tx)
  \/ Commit
  \/ CommitFails
  \/ CommitThrows
  \/ Rollback
  \/ Reopen

Spec == Init /\ [][Next]_vars
-----------------------------------------------------------------------------
IsDurable(db) ==
  /\ db = [store |-> db.store, wsv |-> db.wsv, synced |-> db.synced]
  /\ IsStore(db.store)
  /\ IsWSV(db.wsv)
  /\ db.synced \in BOOLEAN

TypeOK ==
  /\ IsStore(store)
  /\ tx_store_total \in Nat
  /\ IsBlock(merkleTree)
  /\ IsWSV(wsv)
  /\ IsTree(created_assets, AssetIds, Asset)
  /\ result \in Outcome \cup {"WRONG_COMMAND", "FATAL"}
  /\ IsDurable(durable)
  /\ call \in {"open", "append", "commit", "rollback"}
  /\ appends \in 0..MaxAppends
  /\ doomed \in BOOLEAN
  /\ synced \in BOOLEAN

(* The ids of the log are 1, 2, ... without a gap, tx_store_total is the    *)
(* last of them, and no append finds its id taken, however appends that     *)
(* threw, failed or wrote nothing, commits, rollbacks and restarts follow   *)
(* each other (tx_store.cc:33-45 and 187-201).  While a transaction is      *)
(* doomed tx_store_total counts on; only a failed write is FATAL.           *)
IdsAreGapless ==
  /\ ~doomed => DOMAIN store.tx_store = 1..tx_store_total
  /\ DOMAIN durable.store.tx_store = 1..TxTotalOf(durable.store)
  /\ result = "FATAL" => doomed

(* created_assets_ is the tree of assets, although it is written next to it *)
(* and no LMDB transaction covers it; what a doomed transaction wrote to it *)
(* alone is gone with the transaction (wsv.cc:97-109 and 162).              *)
CacheCoherent == ~doomed => created_assets = wsv.assets

(* The indexes answer for the log, before and after a commit.               *)
IndexesCoherent == IndexCoherent(store) /\ IndexCoherent(durable.store)

(* What one transaction of the log makes of the world state.                *)
Apply(w, tx) ==
  IF IndexesOf(tx.command.type) = {} THEN w
  ELSE update(Loaded(w), tx.command).wsv

(* The world state that the transactions of log lead to, in their order.    *)
Replay(log) ==
  LET w[i \in 0..Len(log)] ==
        IF i = 0 THEN EmptyWSV ELSE Apply(w[i - 1], log[i])
  IN  w[Len(log)]

(* The audit of docs/design.md:60: the world state is what the transactions *)
(* of the ledger, applied in order, give; also for the transactions that    *)
(* were refused, and for what a rollback or a restart brings back.          *)
Audit ==
  /\ wsv = Replay(store.tx_store)
  /\ durable.wsv = Replay(durable.store.tx_store)

(* The Merkle tree is the tree of the log, across blocks and restarts, as   *)
(* long as no append with a hash was forgotten and none without one was     *)
(* kept (tx_store.cc:139-144, 395-432).                                     *)
MerkleIsOfLog ==
  /\ synced => merkleTree = MerkleOf(store.tx_store)
  /\ durable.synced =>
       MerkleLoad(durable.store) = MerkleOf(durable.store.tx_store)

(* Data does not change after it was committed (docs/design.md:93): a       *)
(* checkpoint is only ever followed by one that extends it.                 *)
Immutable ==
  [][\A id \in DOMAIN durable.store.tx_store :
       /\ id \in DOMAIN durable'.store.tx_store
       /\ durable'.store.tx_store[id] = durable.store.tx_store[id]]_vars

(* The database is a ledger: its log is current, the committed log is       *)
(* checkpoint.                                                              *)
L == INSTANCE Ledger WITH current <- store.tx_store,
                          checkpoint <- durable.store.tx_store

ImplementsLedger == L!Spec
-----------------------------------------------------------------------------
(* What comments and documents say and the code does not do.                *)

(* A commit that returns has created the checkpoint                         *)
(* (include/ametsuchi/ametsuchi.h:73-76, ametsuchi.cc:71).                  *)
CommitIsCheckpoint ==
  [][call' = "commit" /\ result' = "OK"
       => durable'.store.tx_store = store.tx_store]_vars

(* A rollback goes back to the previous commit: the Merkle root, which      *)
(* append returns, is that of the checkpoint                                *)
(* (include/ametsuchi/ametsuchi.h:78-81, ametsuchi.cc:79-82).               *)
RollbackRestoresMerkle ==
  [][call' = "rollback" => merkleTree' = MerkleLoad(durable.store)]_vars

(* A query by key returns transactions of the key (tx_store.cc:272).        *)
QueryReturnsCreators ==
  \A t \in IndexedCommand, k \in PubKey :
    \A id \in store.index[t][k] :
      GetTxByKey(store, store.index[t][k])[id].creatorPubKey = k
=============================================================================
