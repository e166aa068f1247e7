-------------------------- MODULE AmetsuchiProofs ---------------------------
(***************************************************************************)
(* The invariants of the database, for every set of transactions and every *)
(* size of a Merkle block.  IInv joins them: none but TypeOK with          *)
(* CacheCoherent and IdsAreGapless is inductive on its own.  There is one  *)
(* lemma for each action, and under it one step for each conjunct.         *)
(***************************************************************************)
EXTENDS Ametsuchi, WSVProofs, TxStoreProofs

(* The committed log is the beginning of the current one.                   *)
CheckpointIsPrefix ==
  \A id \in DOMAIN durable.store.tx_store :
    /\ id \in DOMAIN store.tx_store
    /\ store.tx_store[id] = durable.store.tx_store[id]

IInv ==
  /\ TypeOK
  /\ IdsAreGapless
  /\ TxTotalOf(durable.store) \in Nat
  /\ CheckpointIsPrefix
  /\ CacheCoherent
  /\ IndexesCoherent
  /\ Audit
  /\ MerkleIsOfLog
-----------------------------------------------------------------------------
(* w[i] is the world state after the first i transactions of log.           *)
Replays(w, log, n) ==
  w = [i \in 0..n |-> IF i = 0 THEN EmptyWSV ELSE Apply(w[i - 1], log[i])]

LEMMA ReplaysExist ==
  ASSUME NEW log, NEW n \in Nat
  PROVE  \E w : Replays(w, log, n)
<1>. DEFINE T == {m \in Nat : \E w : Replays(w, log, m)}
<1>1. 0 \in T
  <2>1. Replays([i \in 0..0 |-> EmptyWSV], log, 0)
    BY DEF Replays
  <2>. QED
    BY <2>1
<1>2. ASSUME NEW m \in Nat, m \in T PROVE m + 1 \in T
  <2>1. PICK w : Replays(w, log, m)
    BY <1>2
  <2>. DEFINE v == [i \in 0..m + 1 |-> IF i = m + 1 THEN Apply(w[m], log[m + 1])
                                       ELSE w[i]]
  <2>2. ASSUME NEW i \in 0..m + 1
        PROVE  v[i] = IF i = 0 THEN EmptyWSV ELSE Apply(v[i - 1], log[i])
    BY <2>1 DEF Replays
  <2>3. Replays(v, log, m + 1)
    BY <2>2 DEF Replays
  <2>. QED
    BY <2>3
<1>. HIDE DEF T
<1>3. Nat \subseteq T
  BY <1>1, <1>2, NatInduct
<1>. QED
  BY <1>3 DEF T

LEMMA ReplaysAgree ==
  ASSUME NEW log, NEW more, NEW n \in Nat, NEW m \in Nat, n <= m,
         \A i \in 1..n : log[i] = more[i],
         NEW w, NEW v, Replays(w, log, n), Replays(v, more, m)
  PROVE  \A i \in 0..n : w[i] = v[i]
<1>. DEFINE T == {i \in Nat : i <= n => w[i] = v[i]}
<1>1. 0 \in T
  BY DEF Replays
<1>2. ASSUME NEW i \in Nat, i \in T PROVE i + 1 \in T
  <2>1. CASE i + 1 <= n
    <3>1. w[i + 1] = Apply(w[i], log[i + 1])
      BY <2>1 DEF Replays
    <3>2. v[i + 1] = Apply(v[i], more[i + 1])
      BY <2>1 DEF Replays
    <3>3. w[i] = v[i] /\ i + 1 \in 1..n
      BY <2>1, <1>2
    <3>. QED
      BY <3>1, <3>2, <3>3
  <2>. QED
    BY <2>1
<1>. HIDE DEF T
<1>3. Nat \subseteq T
  BY <1>1, <1>2, NatInduct
<1>. QED
  BY <1>3 DEF T

LEMMA ReplayIsLast ==
  ASSUME NEW log, Len(log) \in Nat
  PROVE  \E w : Replays(w, log, Len(log)) /\ Replay(log) = w[Len(log)]
<1>. DEFINE w == CHOOSE w : Replays(w, log, Len(log))
<1>1. Replays(w, log, Len(log))
  BY ReplaysExist
<1>2. Replay(log) = w[Len(log)]
  BY Zenon DEF Replay, Replays
<1>. QED
  BY <1>1, <1>2

LEMMA ReplayEmpty == Replay(<< >>) = EmptyWSV
<1>1. Len(<< >>) = 0
  BY EmptySeq
<1>2. PICK w : Replays(w, << >>, 0) /\ Replay(<< >>) = w[0]
  BY <1>1, ReplayIsLast
<1>. QED
  BY <1>2 DEF Replays

(* To replay a longer log is to replay the log and apply one more.          *)
LEMMA ReplayAppend ==
  ASSUME NEW S, NEW log \in Seq(S), NEW e \in S
  PROVE  Replay(Append(log, e)) = Apply(Replay(log), e)
<1>. DEFINE more == Append(log, e)
            n == Len(log)
<1>1. n \in Nat /\ Len(more) = n + 1 /\ \A i \in 1..n : log[i] = more[i]
  OBVIOUS
<1>2. more[n + 1] = e
  OBVIOUS
<1>. HIDE DEF more, n
<1>3. PICK w : Replays(w, log, n) /\ Replay(log) = w[n]
  BY <1>1, ReplayIsLast DEF n
<1>4. PICK v : Replays(v, more, n + 1) /\ Replay(more) = v[n + 1]
  BY <1>1, ReplayIsLast
<1>5. w[n] = v[n]
  BY <1>1, <1>3, <1>4, ReplaysAgree
<1>6. v[n + 1] = Apply(v[n], more[n + 1])
  BY <1>1, <1>4 DEF Replays
<1>. QED
  BY <1>2, <1>3, <1>4, <1>5, <1>6 DEF more
-----------------------------------------------------------------------------
(* Facts about the empty database.                                          *)
LEMMA EmptyStoreOK ==
  /\ IsStore(EmptyStore)
  /\ IndexCoherent(EmptyStore)
  /\ EmptyStore.tx_store = << >>
  /\ EmptyStore.merkle_tree = << >>
  /\ DOMAIN EmptyStore.tx_store = 1..0
  /\ TxTotalOf(EmptyStore) = 0
<1>1. EmptyTree = << >> /\ DOMAIN EmptyTree = {} /\ 1..0 = {}
  BY DEF EmptyTree
<1>2. /\ EmptyStore.tx_store = EmptyTree /\ EmptyStore.merkle_tree = << >>
      /\ EmptyStore.index = [t \in IndexedCommand |-> [k \in PubKey |-> {}]]
      /\ EmptyStore.transfer_sender = [k \in PubKey |-> {}]
      /\ EmptyStore.transfer_receiver = [k \in PubKey |-> {}]
  BY DEF EmptyStore
<1>3. IsStore(EmptyStore)
  <2>1. IsTree(EmptyTree, Nat, Transaction) /\ IsBlock(<< >>)
    BY EmptyIsTree, EmptyIsBlock
  <2>2. [t \in IndexedCommand |-> [k \in PubKey |-> {}]]
          \in [IndexedCommand -> [PubKey -> SUBSET Nat]]
    OBVIOUS
  <2>3. [k \in PubKey |-> {}] \in [PubKey -> SUBSET Transaction]
    OBVIOUS
  <2>4. EmptyStore = [tx_store          |-> EmptyStore.tx_store,
                      merkle_tree       |-> EmptyStore.merkle_tree,
                      index             |-> EmptyStore.index,
                      transfer_sender   |-> EmptyStore.transfer_sender,
                      transfer_receiver |-> EmptyStore.transfer_receiver]
    BY DEF EmptyStore
  <2>. QED
    BY <1>2, <2>1, <2>2, <2>3, <2>4 DEF IsStore
<1>4. IndexCoherent(EmptyStore)
  BY <1>1, <1>2 DEF IndexCoherent
<1>5. TxTotalOf(EmptyStore) = 0
  BY <1>1, <1>2 DEF TxTotalOf
<1>. QED
  BY <1>1, <1>2, <1>3, <1>4, <1>5

LEMMA InitIInv == Init => IInv
<1>. SUFFICES ASSUME Init PROVE IInv
  OBVIOUS
<1>. USE DEF Init
<1>1. merkleTree = << >> /\ MerkleOf(<< >>) = << >>
  BY EmptyStoreOK, MerkleOfEmpty DEF MerkleLoad
<1>2. /\ wsv = EmptyWSV /\ created_assets = EmptyWSV.assets /\ result = "OK"
      /\ IsWSV(EmptyWSV)
  BY EmptyWSVIsWSV DEF WSVInit, ReadCreatedAssets
<1>3. TypeOK
  <2>1. IsDurable(durable)
    BY <1>2, EmptyStoreOK DEF IsDurable
  <2>2. doomed \in BOOLEAN /\ synced \in BOOLEAN
    OBVIOUS
  <2>3. IsStore(store) /\ tx_store_total \in Nat /\ IsBlock(merkleTree)
    BY <1>1, EmptyStoreOK, EmptyIsBlock
  <2>4. /\ IsWSV(wsv) /\ IsTree(created_assets, AssetIds, Asset)
        /\ result \in Outcome
    BY <1>2 DEF IsWSV, Outcome
  <2>5. appends \in 0..MaxAppends
    BY AmetsuchiAssumption
  <2>. QED
    BY <2>1, <2>2, <2>3, <2>4, <2>5 DEF TypeOK
<1>4. IdsAreGapless
  BY <1>2, EmptyStoreOK DEF IdsAreGapless
<1>5. /\ CacheCoherent /\ CheckpointIsPrefix
      /\ TxTotalOf(durable.store) \in Nat
  BY <1>2, EmptyStoreOK DEF CheckpointIsPrefix, CacheCoherent
<1>6. IndexesCoherent
  BY EmptyStoreOK DEF IndexesCoherent
<1>7. Audit
  BY <1>2, EmptyStoreOK, ReplayEmpty DEF Audit
<1>8. MerkleIsOfLog
  BY <1>1, EmptyStoreOK DEF MerkleIsOfLog, MerkleLoad
<1>. QED
  BY <1>3, <1>4, <1>5, <1>6, <1>7, <1>8 DEF IInv
-----------------------------------------------------------------------------
(* One append, from a state of the invariant.                               *)
StoreObject == [store |-> store, total |-> tx_store_total,
                leaves |-> merkleTree, res |-> "OK"]

WSVObject == [wsv |-> wsv, created_assets |-> created_assets, res |-> "OK"]

LEMMA ObjectsOK ==
  ASSUME IInv, ~doomed
  PROVE  /\ StoreObjectOK(StoreObject)
         /\ ObjectOK(WSVObject)
         /\ WSVObject = Loaded(wsv)
<1>1. StoreObjectOK(StoreObject)
  BY DEF IInv, TypeOK, IdsAreGapless, StoreObjectOK, StoreObject
<1>2. ObjectOK(WSVObject) /\ WSVObject = Loaded(wsv)
  BY DEF IInv, TypeOK, CacheCoherent, ObjectOK, WSVObject, Loaded,
         ReadCreatedAssets, Outcome
<1>. QED
  BY <1>1, <1>2

LEMMA AppendTxEffect ==
  ASSUME IInv, NEW tx \in Transaction, AppendTx(tx)
  PROVE  /\ IsStore(store') /\ IsBlock(merkleTree')
         /\ tx_store_total' = tx_store_total + 1
         /\ store.tx_store \in Seq(Transaction)
         /\ store'.tx_store = Append(store.tx_store, tx)
         /\ DOMAIN store'.tx_store = 1..tx_store_total'
         /\ IndexCoherent(store')
         /\ IsWSV(wsv') /\ created_assets' = wsv'.assets
         /\ wsv' = Apply(wsv, tx)
         /\ result' \in Outcome \cup {"WRONG_COMMAND"}
         /\ ~doomed /\ ~doomed'
         /\ synced' \in BOOLEAN
         /\ synced' => synced /\ merkleTree' = MerklePush(merkleTree, tx)
<1>. DEFINE t == append(StoreObject, tx)
            w == update(WSVObject, tx.command)
<1>0. ~doomed /\ ~doomed'
  BY DEF AppendTx
<1>1. /\ StoreObjectOK(StoreObject) /\ StoreObject.res = "OK"
      /\ StoreObject.store = store /\ StoreObject.total = tx_store_total
      /\ StoreObject.leaves = merkleTree
      /\ ObjectOK(WSVObject) /\ WSVObject = Loaded(wsv)
  BY <1>0, ObjectsOK DEF StoreObject
<1>2. /\ StoreObjectOK(t)
      /\ t.total = tx_store_total + 1
      /\ t.store.tx_store = Append(store.tx_store, tx)
      /\ \/ /\ IndexesOf(tx.command.type) = {}
            /\ t.res = "WRONG_COMMAND"
            /\ t.leaves = merkleTree
         \/ /\ IndexesOf(tx.command.type) # {}
            /\ t.res = "OK"
            /\ t.leaves = MerklePush(merkleTree, tx)
  BY <1>1, AppendEffect
<1>3. IndexCoherent(t.store)
  BY <1>1, AppendKeepsIndexes DEF IInv, IndexesCoherent
<1>4. tx.command \in Command
  BY TxStoreAssumption
<1>5. ObjectOK(w)
  BY <1>1, <1>4, UpdateOK
<1>6. store.tx_store \in Seq(Transaction)
  <2>1. store.tx_store \in [1..tx_store_total -> Transaction] /\ tx_store_total \in Nat
    BY <1>1 DEF StoreObjectOK, IsStore, IsTree
  <2>. QED
    BY <2>1, FunctionIsSeq
<1>7. /\ store' = t.store /\ tx_store_total' = t.total /\ merkleTree' = t.leaves
      /\ synced' = (synced /\ t.res = "OK")
      /\ \/ /\ t.res = "OK" /\ wsv' = w.wsv
            /\ created_assets' = w.created_assets /\ result' = w.res
         \/ /\ t.res # "OK" /\ result' = t.res
            /\ UNCHANGED <<wsv, created_assets>>
  BY Zenon DEF AppendTx, StoreObject, WSVObject
<1>. HIDE DEF t
<1>8. /\ IsStore(store') /\ IsBlock(merkleTree') /\ IndexCoherent(store')
      /\ tx_store_total' = tx_store_total + 1
      /\ store'.tx_store = Append(store.tx_store, tx)
      /\ DOMAIN store'.tx_store = 1..tx_store_total'
  BY <1>2, <1>3, <1>7 DEF StoreObjectOK
<1>9. CASE t.res = "OK"
  <2>1. wsv' = w.wsv /\ created_assets' = w.created_assets /\ result' = w.res
    BY <1>7, <1>9
  <2>2. IndexesOf(tx.command.type) # {} /\ merkleTree' = MerklePush(merkleTree, tx)
    BY <1>2, <1>7, <1>9
  <2>3. wsv' = Apply(wsv, tx)
    BY <1>1, <2>1, <2>2 DEF Apply
  <2>4. synced' = synced /\ synced \in BOOLEAN
    BY <1>7, <1>9 DEF IInv, TypeOK
  <2>5. IsWSV(wsv') /\ created_assets' = wsv'.assets /\ result' \in Outcome
    BY <1>5, <2>1 DEF ObjectOK
  <2>. HIDE DEF w
  <2>. QED
    BY <1>0, <1>6, <1>8, <2>2, <2>3, <2>4, <2>5
<1>10. CASE t.res # "OK"
  <2>1. /\ wsv' = wsv /\ created_assets' = created_assets
        /\ result' = "WRONG_COMMAND" /\ ~synced'
        /\ IndexesOf(tx.command.type) = {}
    BY <1>2, <1>7, <1>10
  <2>2. wsv' = Apply(wsv, tx)
    BY <2>1 DEF Apply
  <2>3. IsWSV(wsv') /\ created_assets' = wsv'.assets
    BY <1>0, <2>1 DEF IInv, TypeOK, CacheCoherent
  <2>4. synced' \in BOOLEAN
    BY <1>7
  <2>. QED
    BY <1>0, <1>6, <1>8, <2>1, <2>2, <2>3, <2>4
<1>. QED
  BY <1>9, <1>10

LEMMA AppendTxIInv ==
  ASSUME IInv, NEW tx \in Transaction, AppendTx(tx)
  PROVE  IInv'
<1>1. durable' = durable /\ call' = "append" /\ appends' \in 0..MaxAppends
  BY AmetsuchiAssumption DEF AppendTx, IInv, TypeOK
<1>2. TypeOK'
  <2>1. IsStore(store') /\ tx_store_total' \in Nat /\ IsBlock(merkleTree')
    BY AppendTxEffect DEF IInv, TypeOK
  <2>2. IsWSV(wsv') /\ IsTree(created_assets', AssetIds, Asset)
    BY AppendTxEffect DEF IsWSV
  <2>3. IsDurable(durable') /\ call' = "append" /\ appends' \in 0..MaxAppends
    BY <1>1 DEF IInv, TypeOK
  <2>4. /\ result' \in Outcome \cup {"WRONG_COMMAND", "FATAL"}
        /\ synced' \in BOOLEAN
    BY AppendTxEffect
  <2>5. doomed' \in BOOLEAN
    BY DEF AppendTx, IInv, TypeOK
  <2>. QED
    BY <2>1, <2>2, <2>3, <2>4, <2>5 DEF TypeOK
<1>3. IdsAreGapless'
  BY <1>1, AppendTxEffect DEF IInv, IdsAreGapless, Outcome
<1>4. CacheCoherent' /\ TxTotalOf(durable.store)' \in Nat
  BY <1>1, AppendTxEffect DEF IInv, CacheCoherent
<1>5. IndexesCoherent'
  BY <1>1, AppendTxEffect DEF IInv, IndexesCoherent
<1>6. Audit'
  BY <1>1, AppendTxEffect, ReplayAppend DEF IInv, Audit
<1>7. MerkleIsOfLog'
  BY <1>1, AppendTxEffect, MerkleOfAppend DEF IInv, TypeOK, IsDurable, MerkleIsOfLog
<1>8. CheckpointIsPrefix'
  <2>1. \A id \in DOMAIN store.tx_store :
          /\ id \in DOMAIN store'.tx_store
          /\ store'.tx_store[id] = store.tx_store[id]
    BY AppendTxEffect
  <2>. QED
    BY <1>1, <2>1 DEF IInv, CheckpointIsPrefix
<1>. QED
  BY <1>2, <1>3, <1>4, <1>5, <1>6, <1>7, <1>8 DEF IInv
-----------------------------------------------------------------------------
(* A write that failed, and what follows it in a doomed transaction, leaves *)
(* the trees alone; merkleTree_ is as it was, or not of the log any more.   *)
LEMMA DoomedIInv ==
  ASSUME IInv, UNCHANGED <<store, wsv, durable>>, doomed' = TRUE,
         tx_store_total' \in Nat, IsTree(created_assets', AssetIds, Asset),
         result' \in Outcome \cup {"WRONG_COMMAND", "FATAL"},
         call' \in {"append", "commit"}, appends' \in 0..MaxAppends,
         \/ merkleTree' = merkleTree /\ synced' = synced
         \/ IsBlock(merkleTree') /\ synced' = FALSE
  PROVE  IInv'
<1>1. TypeOK'
  <2>1. /\ IsStore(store') /\ IsWSV(wsv') /\ IsDurable(durable')
        /\ IsBlock(merkleTree') /\ synced' \in BOOLEAN
    BY DEF IInv, TypeOK
  <2>. QED
    BY <2>1 DEF TypeOK
<1>2. IdsAreGapless' /\ CacheCoherent'
  BY DEF IInv, IdsAreGapless, CacheCoherent
<1>3. CheckpointIsPrefix' /\ TxTotalOf(durable.store)' \in Nat
  BY DEF IInv, CheckpointIsPrefix
<1>4. IndexesCoherent' /\ Audit'
  BY DEF IInv, IndexesCoherent, Audit
<1>5. MerkleIsOfLog'
  BY DEF IInv, MerkleIsOfLog
<1>. QED
  BY <1>1, <1>2, <1>3, <1>4, <1>5 DEF IInv

LEMMA AppendFailsIInv ==
  ASSUME IInv, NEW tx \in Transaction, AppendFails(tx)
  PROVE  IInv'
<1>1. /\ UNCHANGED <<store, wsv, durable>> /\ doomed' = TRUE
      /\ tx_store_total' \in Nat /\ IsTree(created_assets', AssetIds, Asset)
      /\ call' = "append" /\ appends' \in 0..MaxAppends
      /\ result' \in {"OK", "FATAL"}
      /\ \/ merkleTree' = merkleTree /\ synced' = synced
         \/ merkleTree' = MerklePush(merkleTree, tx) /\ synced' = FALSE
  BY AmetsuchiAssumption DEF AppendFails, IInv, TypeOK
<1>2. IsBlock(MerklePush(merkleTree, tx))
  BY PushIsBlock DEF IInv, TypeOK
<1>3. result' \in Outcome \cup {"WRONG_COMMAND", "FATAL"}
  BY <1>1 DEF Outcome
<1>. QED
  BY <1>1, <1>2, <1>3, DoomedIInv

(* What a doomed transaction seems to hold is a world state.                *)
LEMMA UnreadableOK ==
  ASSUME IsTree(created_assets, AssetIds, Asset)
  PROVE  ObjectOK(Loaded(Unreadable))
<1>. DEFINE none == [amount |-> 0, precision |-> 0, has_amount |-> FALSE]
            accounts == [k \in PubKey |-> [pubKey |-> k, alias |-> << >>]]
            peers == [i \in Ip |-> [ip |-> i, publicKey |-> << >>]]
            holdings == [k \in PubKey \X AssetIds |-> none]
<1>0. << >> \in Seq(STRING)
  BY EmptySeq
<1>1. none \in Holding
  BY CurrencyAssumption DEF Holding, Amount
<1>2. IsTree(accounts, PubKey, Account)
  <2>1. \A k \in PubKey, x \in Seq(STRING) : [pubKey |-> k, alias |-> x] \in Account
    BY DEF Account
  <2>2. \A k \in PubKey : accounts[k] = [pubKey |-> k, alias |-> << >>]
    OBVIOUS
  <2>3. \A k \in PubKey : accounts[k] \in Account
    BY <1>0, <2>1, <2>2, Zenon
  <2>. QED
    BY <2>3 DEF IsTree
<1>3. IsTree(peers, Ip, Peer)
  <2>1. \A i \in Ip, x \in Seq(STRING) : [ip |-> i, publicKey |-> x] \in Peer
    BY DEF Peer
  <2>2. \A i \in Ip : peers[i] = [ip |-> i, publicKey |-> << >>]
    OBVIOUS
  <2>3. \A i \in Ip : peers[i] \in Peer
    BY <1>0, <2>1, <2>2, Zenon
  <2>. QED
    BY <2>3 DEF IsTree
<1>. HIDE DEF none
<1>4. IsTree(holdings, PubKey \X AssetIds, Holding)
  BY <1>1 DEF IsTree
<1>5. Unreadable = [assets |-> created_assets, accounts |-> accounts,
                    peers |-> peers, holdings |-> holdings]
  BY DEF Unreadable, none
<1>. HIDE DEF accounts, peers, holdings
<1>6. IsWSV(Unreadable)
  BY <1>2, <1>3, <1>4, <1>5 DEF IsWSV
<1>. QED
  BY <1>6 DEF ObjectOK, Loaded, ReadCreatedAssets, Outcome

LEMMA AppendIgnoredIInv ==
  ASSUME IInv, NEW tx \in Transaction, AppendIgnored(tx)
  PROVE  IInv'
<1>. DEFINE w == update(Loaded(Unreadable), tx.command)
<1>1. tx.command \in Command
  BY TxStoreAssumption
<1>2. ObjectOK(w)
  BY <1>1, UnreadableOK, UpdateOK DEF IInv, TypeOK
<1>3. IsTree(w.created_assets, AssetIds, Asset) /\ w.res \in Outcome
  BY <1>2 DEF ObjectOK, IsWSV
<1>4. /\ UNCHANGED <<store, wsv, durable>> /\ doomed' = TRUE
      /\ call' = "append"
      /\ \/ /\ result' = "WRONG_COMMAND" /\ created_assets' = created_assets
            /\ merkleTree' = merkleTree /\ synced' = synced
         \/ /\ result' = w.res /\ created_assets' = w.created_assets
            /\ merkleTree' = MerklePush(merkleTree, tx) /\ synced' = FALSE
  BY DEF AppendIgnored, IInv, TypeOK
<1>5. tx_store_total' \in Nat /\ appends' \in 0..MaxAppends
  BY AmetsuchiAssumption DEF AppendIgnored, IInv, TypeOK
<1>6. IsBlock(MerklePush(merkleTree, tx))
  BY PushIsBlock DEF IInv, TypeOK
<1>. HIDE DEF w
<1>7. /\ result' \in Outcome \cup {"WRONG_COMMAND", "FATAL"}
      /\ IsTree(created_assets', AssetIds, Asset)
  BY <1>3, <1>4 DEF IInv, TypeOK
<1>. QED
  BY <1>4, <1>5, <1>6, <1>7, DoomedIInv

LEMMA CommitThrowsIInv ==
  ASSUME IInv, CommitThrows
  PROVE  IInv'
<1>1. /\ UNCHANGED <<store, wsv, durable>> /\ doomed' = TRUE
      /\ tx_store_total' \in Nat /\ IsTree(created_assets', AssetIds, Asset)
      /\ call' = "commit" /\ appends' \in 0..MaxAppends /\ result' = "FATAL"
      /\ merkleTree' = merkleTree /\ synced' = synced
  BY DEF CommitThrows, IInv, TypeOK
<1>. QED
  BY <1>1, DoomedIInv
-----------------------------------------------------------------------------
LEMMA CommitIInv ==
  ASSUME IInv, Commit
  PROVE  IInv'
<1>. DEFINE db == [store |-> SaveMerkle(store, merkleTree), wsv |-> wsv,
                   synced |-> synced]
<1>1. /\ durable' = db /\ InitAppendTx(durable')
      /\ call' = "commit" /\ result' = "OK"
      /\ merkleTree' = merkleTree /\ appends' = appends /\ synced' = synced
      /\ doomed = FALSE /\ doomed' = FALSE
  BY DEF Commit, IInv, TypeOK
<1>2. IsStore(store) /\ IsBlock(merkleTree) /\ tx_store_total \in Nat
  BY DEF IInv, TypeOK
<1>3. /\ IsStore(db.store) /\ db.store.tx_store = store.tx_store
      /\ db.store.merkle_tree = merkleTree
      /\ db.store.index = store.index
      /\ db.store.transfer_sender = store.transfer_sender
      /\ db.store.transfer_receiver = store.transfer_receiver
  BY <1>2 DEF SaveMerkle, IsStore
<1>4. IsDurable(db) /\ db.wsv = wsv /\ db.synced = synced
  BY <1>3 DEF IInv, TypeOK, IsDurable
<1>5. /\ DOMAIN store.tx_store = 1..tx_store_total
      /\ TxTotalOf(db.store) = tx_store_total
  BY <1>1, <1>2, <1>3, TxTotalIsLast DEF IInv, IdsAreGapless
<1>. HIDE DEF db
<1>6. /\ store' = db.store /\ tx_store_total' = tx_store_total
      /\ wsv' = wsv /\ created_assets' = wsv'.assets
      /\ IsTree(created_assets', AssetIds, Asset)
  BY <1>1, <1>3, <1>4, <1>5 DEF InitAppendTx, ReadCreatedAssets, IsDurable, IsWSV
<1>7. TypeOK'
  BY <1>1, <1>2, <1>3, <1>4, <1>6 DEF IInv, TypeOK, Outcome
<1>8. IdsAreGapless'
  BY <1>1, <1>3, <1>5, <1>6 DEF IdsAreGapless
<1>9. /\ CacheCoherent' /\ CheckpointIsPrefix'
      /\ TxTotalOf(durable.store)' \in Nat
  BY <1>1, <1>2, <1>5, <1>6 DEF CheckpointIsPrefix, CacheCoherent
<1>10. IndexesCoherent'
  BY <1>1, <1>3, <1>6 DEF IInv, IndexesCoherent, IndexCoherent
<1>11. Audit'
  BY <1>1, <1>3, <1>4, <1>6 DEF IInv, Audit
<1>12. MerkleIsOfLog'
  BY <1>1, <1>2, <1>3, <1>4, <1>6, ReloadIsSame DEF IInv, MerkleIsOfLog, MerkleLoad
<1>. QED
  BY <1>7, <1>8, <1>9, <1>10, <1>11, <1>12 DEF IInv

(* Whatever forgets the append transaction brings the checkpoint back.      *)
LEMMA BackToCheckpoint ==
  ASSUME IInv, InitAppendTx(durable), durable' = durable, result' = "OK"
  PROVE  /\ store' = durable.store /\ wsv' = durable.wsv
         /\ IsStore(store') /\ IsWSV(wsv') /\ tx_store_total' \in Nat
         /\ IsTree(created_assets', AssetIds, Asset) /\ IsDurable(durable')
         /\ IdsAreGapless' /\ TxTotalOf(durable.store)' \in Nat
         /\ CacheCoherent' /\ CheckpointIsPrefix'
         /\ IndexesCoherent' /\ Audit'
<1>1. /\ store' = durable.store /\ wsv' = durable.wsv
      /\ tx_store_total' = TxTotalOf(durable.store)
      /\ created_assets' = wsv'.assets
  BY DEF InitAppendTx, ReadCreatedAssets
<1>2. IsDurable(durable) /\ IsStore(durable.store) /\ IsWSV(durable.wsv)
  BY DEF IInv, TypeOK, IsDurable
<1>3. IsTree(created_assets', AssetIds, Asset)
  BY <1>1, <1>2 DEF IsWSV
<1>4. TxTotalOf(durable.store) \in Nat
  BY DEF IInv
<1>5. IdsAreGapless'
  BY <1>1 DEF IInv, IdsAreGapless
<1>6. CacheCoherent' /\ CheckpointIsPrefix'
  BY <1>1 DEF CacheCoherent, CheckpointIsPrefix
<1>7. IndexesCoherent'
  BY <1>1 DEF IInv, IndexesCoherent
<1>8. Audit'
  BY <1>1 DEF IInv, Audit
<1>. QED
  BY <1>1, <1>2, <1>3, <1>4, <1>5, <1>6, <1>7, <1>8

LEMMA ForgetIInv ==
  ASSUME IInv, Forget, call' \in {"commit", "rollback"}
  PROVE  IInv'
<1>1. /\ InitAppendTx(durable) /\ durable' = durable /\ result' = "OK"
      /\ merkleTree' = merkleTree /\ appends' = appends
      /\ doomed' = FALSE
      /\ synced' = (synced /\ store.tx_store = durable.store.tx_store)
  BY DEF Forget
<1>2. TypeOK'
  BY <1>1, BackToCheckpoint DEF IInv, TypeOK, Outcome
<1>3. MerkleIsOfLog'
  BY <1>1, BackToCheckpoint DEF IInv, MerkleIsOfLog
<1>. QED
  BY <1>1, <1>2, <1>3, BackToCheckpoint DEF IInv

LEMMA ReopenIInv ==
  ASSUME IInv, Reopen
  PROVE  IInv'
<1>1. /\ InitAppendTx(durable) /\ durable' = durable /\ result' = "OK"
      /\ merkleTree' = MerkleLoad(durable.store) /\ appends' = appends
      /\ doomed' = FALSE
      /\ synced' = durable.synced /\ call' = "open"
  BY DEF Reopen
<1>2. MerkleLoad(durable.store) = durable.store.merkle_tree
  BY ReloadIsSame DEF IInv, TypeOK, IsDurable, IsStore, MerkleLoad
<1>3. IsBlock(merkleTree') /\ synced' \in BOOLEAN
  BY <1>1, <1>2 DEF IInv, TypeOK, IsDurable, IsStore
<1>4. TypeOK'
  BY <1>1, <1>3, BackToCheckpoint DEF IInv, TypeOK, Outcome
<1>5. MerkleIsOfLog'
  BY <1>1, BackToCheckpoint DEF IInv, MerkleIsOfLog
<1>. QED
  BY <1>1, <1>4, <1>5, BackToCheckpoint DEF IInv

LEMMA NextIInv == IInv /\ [Next]_vars => IInv'
<1>. SUFFICES ASSUME IInv, [Next]_vars PROVE IInv'
  OBVIOUS
<1>1. ASSUME NEW tx \in Transaction, AppendTx(tx) PROVE IInv'
  BY <1>1, AppendTxIInv
<1>2. ASSUME NEW tx \in Transaction, AppendFails(tx) PROVE IInv'
  BY <1>2, AppendFailsIInv
<1>3. ASSUME NEW tx \in Transaction, AppendIgnored(tx) PROVE IInv'
  BY <1>3, AppendIgnoredIInv
<1>4. CASE Commit
  BY <1>4, CommitIInv
<1>5. CASE CommitFails
  BY <1>5, ForgetIInv DEF CommitFails
<1>6. CASE CommitThrows
  BY <1>6, CommitThrowsIInv
<1>7. CASE Rollback
  BY <1>7, ForgetIInv DEF Rollback
<1>8. CASE Reopen
  BY <1>8, ReopenIInv
<1>9. CASE UNCHANGED vars
  BY <1>9 DEF vars, IInv, TypeOK, IdsAreGapless, CacheCoherent,
              CheckpointIsPrefix, IndexesCoherent, Audit, MerkleIsOfLog
<1>. QED
  BY <1>1, <1>2, <1>3, <1>4, <1>5, <1>6, <1>7, <1>8, <1>9 DEF Next

THEOREM Invariance == Spec => []IInv
BY InitIInv, NextIInv, PTL DEF Spec

(* The trees, the objects' fields and the last call keep their types.       *)
THEOREM TypeCorrect == Spec => []TypeOK
<1>1. IInv => TypeOK
  BY DEF IInv
<1>. QED
  BY <1>1, Invariance, PTL

(* The ids of the ledger are 1, 2, ... without a gap and no append finds    *)
(* its id taken, also after a doomed transaction counted on                 *)
(* (tx_store.cc:33-45 and 187-201).                                         *)
THEOREM GaplessIds == Spec => []IdsAreGapless
<1>1. IInv => IdsAreGapless
  BY DEF IInv
<1>. QED
  BY <1>1, Invariance, PTL

(* The copy of the assets in memory is the tree that it was read from       *)
(* (wsv.cc:97-109 and 162).                                                 *)
THEOREM CacheIsTree == Spec => []CacheCoherent
<1>1. IInv => CacheCoherent
  BY DEF IInv
<1>. QED
  BY <1>1, Invariance, PTL

(* The index trees answer for the ledger (tx_store.cc:48-137).              *)
THEOREM IndexesAnswer == Spec => []IndexesCoherent
<1>1. IInv => IndexesCoherent
  BY DEF IInv
<1>. QED
  BY <1>1, Invariance, PTL

(* The world state is what the transactions of the ledger, applied in       *)
(* order, give, of the append transaction and of the checkpoint             *)
(* (docs/design.md:60, ametsuchi.cc:45-167).                                *)
THEOREM AuditHolds == Spec => []Audit
<1>1. IInv => Audit
  BY DEF IInv
<1>. QED
  BY <1>1, Invariance, PTL

(* The Merkle tree is the tree of the ledger unless an append with a hash   *)
(* was forgotten or one without was kept (tx_store.cc:139-144, 395-432).    *)
THEOREM MerkleHolds == Spec => []MerkleIsOfLog
<1>1. IInv => MerkleIsOfLog
  BY DEF IInv
<1>. QED
  BY <1>1, Invariance, PTL

(* A checkpoint is only ever followed by one that extends it                *)
(* (docs/design.md:93, ametsuchi.cc:65-82).                                 *)
THEOREM CommittedIsImmutable == Spec => Immutable
<1>. DEFINE A == \A id \in DOMAIN durable.store.tx_store :
                   /\ id \in DOMAIN durable'.store.tx_store
                   /\ durable'.store.tx_store[id] = durable.store.tx_store[id]
<1>1. IInv /\ [Next]_vars => [A]_vars
  <2>. SUFFICES ASSUME IInv, Next PROVE A
    OBVIOUS
  <2>1. CASE Commit
    <3>1. durable'.store.tx_store = store.tx_store
      BY <2>1 DEF Commit, SaveMerkle, IInv, TypeOK, IsStore
    <3>. QED
      BY <3>1 DEF IInv, CheckpointIsPrefix
  <2>2. CASE UNCHANGED durable
    BY <2>2
  <2>3. Commit \/ UNCHANGED durable
    BY DEF Next, AppendTx, AppendFails, AppendIgnored, CommitFails, CommitThrows,
           Rollback, Forget, Reopen
  <2>. QED
    BY <2>1, <2>2, <2>3
<1>. QED
  BY <1>1, Invariance, PTL DEF Spec, Immutable

(* The database implements the ledger: every append extends the log by one  *)
(* transaction, every commit moves the checkpoint to its end, every other   *)
(* action goes back to the checkpoint (ametsuchi.cc:45-89).                 *)
THEOREM LedgerIsImplemented == Spec => ImplementsLedger
<1>1. Init => L!Init
  BY EmptyStoreOK DEF Init, L!Init
<1>2. IInv /\ [Next]_vars => [L!Next]_(L!vars)
  <2>. SUFFICES ASSUME IInv, [Next]_vars PROVE [L!Next]_(L!vars)
    OBVIOUS
  <2>. USE DEF L!Next, L!vars
  <2>1. ASSUME NEW tx \in Transaction, AppendTx(tx) PROVE L!Next
    BY <2>1, AppendTxEffect DEF AppendTx, L!AppendTx
  <2>2. CASE Commit
    <3>1. durable'.store.tx_store = store.tx_store /\ store' = durable'.store
      BY <2>2 DEF Commit, InitAppendTx, SaveMerkle, IInv, TypeOK, IsStore
    <3>. QED
      BY <3>1 DEF L!Commit
  <2>3. CASE CommitFails \/ Rollback \/ Reopen
    BY <2>3 DEF CommitFails, Rollback, Reopen, Forget, InitAppendTx, L!Discard
  <2>4. CASE UNCHANGED vars
    BY <2>4 DEF vars
  <2>5. ASSUME NEW tx \in Transaction, AppendFails(tx) \/ AppendIgnored(tx)
        PROVE  UNCHANGED L!vars
    BY <2>5 DEF AppendFails, AppendIgnored
  <2>6. CASE CommitThrows
    BY <2>6 DEF CommitThrows
  <2>. QED
    BY <2>1, <2>2, <2>3, <2>4, <2>5, <2>6 DEF Next
<1>. QED
  BY <1>1, <1>2, Invariance, PTL DEF Spec, ImplementsLedger, L!Spec
=============================================================================
