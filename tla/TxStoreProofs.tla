--------------------------- MODULE TxStoreProofs ----------------------------
(***************************************************************************)
(* What append does to the trees of a transaction store whose ids have no  *)
(* gap, and what pushing hashes, one by one, makes of a Merkle block.      *)
(***************************************************************************)
EXTENDS TxStore, Induction, SequenceTheorems

(* A function on 1..n is a sequence of length n.                            *)
LEMMA FunctionIsSeq ==
  ASSUME NEW S, NEW n \in Nat, NEW f \in [1..n -> S]
  PROVE  f \in Seq(S) /\ Len(f) = n
<1>1. f \in Seq(S)
  BY SeqDef
<1>2. DOMAIN f = 1..n /\ DOMAIN f = 1..Len(f) /\ Len(f) \in Nat
  BY <1>1, LenProperties
<1>. QED
  BY <1>1, <1>2

LEMMA PutKeepsTree ==
  ASSUME NEW K, NEW V, NEW tree, IsTree(tree, K, V), NEW k \in K, NEW v \in V
  PROVE  IsTree(Put(tree, k, v), K, V)
BY DEF IsTree, Put

(* To put under the next id is to append.                                   *)
LEMMA PutIsAppend ==
  ASSUME NEW S, NEW n \in Nat, NEW f \in [1..n -> S], NEW e \in S
  PROVE  /\ Put(f, n + 1, e) = Append(f, e)
         /\ Put(f, n + 1, e) \in [1..n + 1 -> S]
<1>1. f \in Seq(S) /\ Len(f) = n
  BY FunctionIsSeq
<1>. DEFINE g == [i \in 1..n + 1 |-> IF i = n + 1 THEN e ELSE f[i]]
<1>2. /\ Append(f, e) \in Seq(S) /\ Len(Append(f, e)) = n + 1
      /\ \A i \in 1..n : Append(f, e)[i] = f[i]
      /\ Append(f, e)[n + 1] = e
  BY <1>1, AppendProperties
<1>3. Append(f, e) \in [1..n + 1 -> S]
  BY <1>2, LenProperties
<1>4. 1..n \cup {n + 1} = 1..n + 1 /\ DOMAIN f = 1..n
  OBVIOUS
<1>5. Put(f, n + 1, e) = g
  BY <1>4 DEF Put
<1>6. g \in [1..n + 1 -> S]
  OBVIOUS
<1>7. \A i \in 1..n + 1 : g[i] = Append(f, e)[i]
  BY <1>2
<1>. HIDE DEF g
<1>8. Append(f, e) = g
  BY <1>3, <1>6, <1>7
<1>. QED
  BY <1>5, <1>6, <1>8
-----------------------------------------------------------------------------
LEMMA LeafsNat == Leafs \in Nat /\ Leafs >= 2
BY TxStoreAssumption

(* A block is a sequence, over its own leaves or more.                      *)
LEMMA BlockIsSeq ==
  ASSUME NEW b, IsBlock(b), NEW S, \A i \in DOMAIN b : b[i] \in S
  PROVE  /\ b \in Seq(S)
         /\ Len(b) \in 0..Leafs - 1
         /\ DOMAIN b = 1..Len(b)
<1>1. PICK n \in 0..Leafs - 1 : DOMAIN b = 1..n
  BY DEF IsBlock
<1>2. n \in Nat /\ b \in [1..n -> S]
  BY <1>1, LeafsNat DEF IsBlock
<1>. QED
  BY <1>1, <1>2, FunctionIsSeq

LEMMA SeqIsBlock ==
  ASSUME NEW S, NEW b \in Seq(S), Len(b) < Leafs
  PROVE  IsBlock(b)
<1>1. Len(b) \in Nat /\ DOMAIN b = 1..Len(b) /\ b \in [1..Len(b) -> S]
  BY LenProperties
<1>2. Len(b) \in 0..Leafs - 1
  BY <1>1, LeafsNat
<1>3. b = [i \in DOMAIN b |-> b[i]]
  BY <1>1
<1>. QED
  BY <1>1, <1>2, <1>3 DEF IsBlock

LEMMA EmptyIsBlock == IsBlock(<< >>) /\ Len(<< >>) = 0
<1>1. << >> \in Seq({}) /\ Len(<< >>) = 0
  BY EmptySeq
<1>2. 0 < Leafs
  BY LeafsNat
<1>. QED
  BY <1>1, <1>2, SeqIsBlock

LEMMA PushIsBlock ==
  ASSUME NEW b, IsBlock(b), NEW leaf
  PROVE  IsBlock(MerklePush(b, leaf))
<1>. DEFINE S == {b[i] : i \in DOMAIN b} \cup {leaf}
            r == RootOfBlock(Append(b, leaf))
<1>1. b \in Seq(S) /\ Len(b) \in 0..Leafs - 1
  BY BlockIsSeq
<1>. HIDE DEF S
<1>2. leaf \in S
  BY DEF S
<1>3. Append(b, leaf) \in Seq(S) /\ Len(Append(b, leaf)) = Len(b) + 1
  BY <1>1, <1>2
<1>4. CASE Len(b) + 1 = Leafs
  <2>. HIDE DEF r
  <2>1. <<r>> \in Seq({r}) /\ Len(<<r>>) = 1
    OBVIOUS
  <2>2. Len(<<r>>) < Leafs
    BY <2>1, LeafsNat
  <2>3. IsBlock(<<r>>)
    BY <2>1, <2>2, SeqIsBlock
  <2>4. MerklePush(b, leaf) = <<r>>
    BY <1>4, Zenon DEF MerklePush, r
  <2>. QED
    BY <2>3, <2>4
<1>5. CASE Len(b) + 1 # Leafs
  <2>. DEFINE c == Append(b, leaf)
  <2>. HIDE DEF c
  <2>1. c \in Seq(S) /\ Len(c) < Leafs
    BY <1>1, <1>3, <1>5, LeafsNat DEF c
  <2>2. IsBlock(c)
    BY <2>1, SeqIsBlock
  <2>3. MerklePush(b, leaf) = Append(b, leaf)
    BY <1>5, Zenon DEF MerklePush
  <2>. QED
    BY <2>2, <2>3 DEF c
<1>. QED
  BY <1>4, <1>5
-----------------------------------------------------------------------------
(* w[i] is the block after the first i pushes of log, for i up to n.        *)
Pushes(w, log, n) ==
  w = [i \in 0..n |-> IF i = 0 THEN << >> ELSE MerklePush(w[i - 1], log[i])]

LEMMA PushesExist ==
  ASSUME NEW log, NEW n \in Nat
  PROVE  \E w : Pushes(w, log, n)
<1>. DEFINE T == {m \in Nat : \E w : Pushes(w, log, m)}
<1>1. 0 \in T
  <2>1. Pushes([i \in 0..0 |-> << >>], log, 0)
    BY DEF Pushes
  <2>. QED
    BY <2>1
<1>2. ASSUME NEW m \in Nat, m \in T PROVE m + 1 \in T
  <2>1. PICK w : Pushes(w, log, m)
    BY <1>2
  <2>. DEFINE v == [i \in 0..m + 1 |-> IF i = m + 1
                                       THEN MerklePush(w[m], log[m + 1])
                                       ELSE w[i]]
  <2>2. ASSUME NEW i \in 0..m + 1
        PROVE  v[i] = IF i = 0 THEN << >> ELSE MerklePush(v[i - 1], log[i])
    BY <2>1 DEF Pushes
  <2>3. Pushes(v, log, m + 1)
    BY <2>2 DEF Pushes
  <2>. QED
    BY <2>3
<1>. HIDE DEF T
<1>3. Nat \subseteq T
  BY <1>1, <1>2, NatInduct
<1>. QED
  BY <1>3 DEF T

LEMMA PushesAgree ==
  ASSUME NEW log, NEW more, NEW n \in Nat, NEW m \in Nat, n <= m,
         \A i \in 1..n : log[i] = more[i],
         NEW w, NEW v, Pushes(w, log, n), Pushes(v, more, m)
  PROVE  \A i \in 0..n : w[i] = v[i]
<1>. DEFINE T == {i \in Nat : i <= n => w[i] = v[i]}
<1>1. 0 \in T
  BY DEF Pushes
<1>2. ASSUME NEW i \in Nat, i \in T PROVE i + 1 \in T
  <2>1. CASE i + 1 <= n
    <3>1. w[i + 1] = MerklePush(w[i], log[i + 1])
      BY <2>1 DEF Pushes
    <3>2. v[i + 1] = MerklePush(v[i], more[i + 1])
      BY <2>1 DEF Pushes
    <3>3. w[i] = v[i] /\ i + 1 \in 1..n
      BY <2>1, <1>2
    <3>. QED
      BY <3>1, <3>2, <3>3
  <2>. QED
    BY <2>1
<1>. HIDE DEF T
<1>3. Nat \subseteq T
  BY <1>1, <1>2, NatInduct
<1>. QED
  BY <1>3 DEF T

LEMMA MerkleOfIsLast ==
  ASSUME NEW log, Len(log) \in Nat
  PROVE  \E w : Pushes(w, log, Len(log)) /\ MerkleOf(log) = w[Len(log)]
<1>. DEFINE w == CHOOSE w : Pushes(w, log, Len(log))
<1>1. Pushes(w, log, Len(log))
  BY PushesExist
<1>2. MerkleOf(log) = w[Len(log)]
  BY Zenon DEF MerkleOf, Pushes
<1>. QED
  BY <1>1, <1>2

LEMMA MerkleOfEmpty == MerkleOf(<< >>) = << >>
<1>1. Len(<< >>) = 0
  BY EmptySeq
<1>2. PICK w : Pushes(w, << >>, 0) /\ MerkleOf(<< >>) = w[0]
  BY <1>1, MerkleOfIsLast
<1>. QED
  BY <1>2 DEF Pushes

(* The tree of a longer log is the tree of the log and one more push.       *)
LEMMA MerkleOfAppend ==
  ASSUME NEW S, NEW log \in Seq(S), NEW e \in S
  PROVE  MerkleOf(Append(log, e)) = MerklePush(MerkleOf(log), e)
<1>. DEFINE more == Append(log, e)
            n == Len(log)
<1>1. n \in Nat /\ Len(more) = n + 1 /\ \A i \in 1..n : log[i] = more[i]
  OBVIOUS
<1>2. more[n + 1] = e
  OBVIOUS
<1>. HIDE DEF more, n
<1>3. PICK w : Pushes(w, log, n) /\ MerkleOf(log) = w[n]
  BY <1>1, MerkleOfIsLast DEF n
<1>4. PICK v : Pushes(v, more, n + 1) /\ MerkleOf(more) = v[n + 1]
  BY <1>1, MerkleOfIsLast
<1>5. w[n] = v[n]
  BY <1>1, <1>3, <1>4, PushesAgree
<1>6. v[n + 1] = MerklePush(v[n], more[n + 1])
  BY <1>1, <1>4 DEF Pushes
<1>. QED
  BY <1>2, <1>3, <1>4, <1>5, <1>6 DEF more

(* A block that was saved comes back as it was when its leaves are pushed   *)
(* into an empty tree: it is not full, so no push starts a new block.       *)
LEMMA ReloadIsSame ==
  ASSUME NEW b, IsBlock(b)
  PROVE  MerkleOf(b) = b
<1>. DEFINE S == {b[i] : i \in DOMAIN b}
            n == Len(b)
            Prefix(i) == [j \in 1..i |-> b[j]]
<1>1. b \in Seq(S) /\ n \in 0..Leafs - 1 /\ n \in Nat /\ DOMAIN b = 1..n
  BY BlockIsSeq, LeafsNat
<1>2. PICK w : Pushes(w, b, n) /\ MerkleOf(b) = w[n]
  BY <1>1, MerkleOfIsLast
<1>3. \A i \in 1..n : b[i] \in S
  BY <1>1
<1>4. b = Prefix(n)
  BY <1>1 DEF IsBlock
<1>. HIDE DEF S, n
<1>. DEFINE T == {i \in Nat : i <= n => w[i] = Prefix(i)}
<1>5. 0 \in T
  <2>1. w[0] = << >>
    BY <1>2, <1>1 DEF Pushes
  <2>2. Prefix(0) = << >>
    OBVIOUS
  <2>. QED
    BY <2>1, <2>2
<1>6. ASSUME NEW i \in Nat, i \in T PROVE i + 1 \in T
  <2>1. CASE i + 1 <= n
    <3>1. w[i + 1] = MerklePush(Prefix(i), b[i + 1])
      BY <1>1, <1>2, <1>6, <2>1 DEF Pushes
    <3>2. Prefix(i) \in [1..i -> S] /\ b[i + 1] \in S
      BY <1>1, <1>3, <2>1
    <3>3. Prefix(i) \in Seq(S) /\ Len(Prefix(i)) = i
      BY <3>2, FunctionIsSeq
    <3>4. i + 1 # Leafs
      BY <1>1, <2>1, LeafsNat
    <3>5. w[i + 1] = Append(Prefix(i), b[i + 1])
      BY <3>1, <3>3, <3>4 DEF MerklePush
    <3>6. Append(Prefix(i), b[i + 1]) = Prefix(i + 1)
      BY <3>2, <3>3, SMT
    <3>. QED
      BY <3>5, <3>6
  <2>. QED
    BY <2>1
<1>. HIDE DEF T
<1>7. Nat \subseteq T
  BY <1>5, <1>6, NatInduct
<1>8. w[n] = Prefix(n)
  BY <1>1, <1>7 DEF T
<1>. QED
  BY <1>2, <1>4, <1>8
-----------------------------------------------------------------------------
LEMMA TxTotalIsLast ==
  ASSUME NEW st, NEW n \in Nat, DOMAIN st.tx_store = 1..n
  PROVE  TxTotalOf(st) = n
<1>1. CASE n = 0
  BY <1>1 DEF TxTotalOf
<1>2. CASE n # 0
  <2>1. n \in DOMAIN st.tx_store /\ \A m \in DOMAIN st.tx_store : m <= n
    BY <1>2
  <2>2. \A k \in DOMAIN st.tx_store :
          (\A m \in DOMAIN st.tx_store : m <= k) => k = n
    BY <2>1
  <2>. QED
    BY <2>1, <2>2 DEF TxTotalOf
<1>. QED
  BY <1>1, <1>2

(* The states of a TxStore object that append meets and leaves.             *)
StoreObjectOK(s) ==
  /\ s = [store |-> s.store, total |-> s.total, leaves |-> s.leaves,
          res |-> s.res]
  /\ IsStore(s.store)
  /\ s.total \in Nat
  /\ DOMAIN s.store.tx_store = 1..s.total
  /\ IsBlock(s.leaves)

LEMMA CommandIsFb ==
  ASSUME NEW tx \in Transaction
  PROVE  tx.creatorPubKey \in PubKey /\ tx.command \in CommandFb
BY TxStoreAssumption, SchemaAssumption

(* The trees that the switch writes hold the new id under the creator.      *)
LEMMA PutIndexesEffect ==
  ASSUME NEW st, IsStore(st), NEW tx \in Transaction, NEW id \in Nat
  PROVE  LET u == PutIndexes(st, tx, id)
         IN  IsStore(u) /\ u = [st EXCEPT !.index = u.index]
<1>. DEFINE ix == [t \in IndexedCommand |->
                     IF t \in IndexesOf(tx.command.type)
                     THEN PutDup(st.index[t], tx.creatorPubKey, id)
                     ELSE st.index[t]]
            u == PutIndexes(st, tx, id)
<1>1. u = [st EXCEPT !.index = ix]
  BY DEF PutIndexes
<1>2. \A t \in IndexedCommand : st.index[t] \in [PubKey -> SUBSET Nat]
  BY DEF IsStore
<1>3. ASSUME NEW t \in IndexedCommand
      PROVE  PutDup(st.index[t], tx.creatorPubKey, id) \in [PubKey -> SUBSET Nat]
  BY <1>2 DEF PutDup
<1>4. ix \in [IndexedCommand -> [PubKey -> SUBSET Nat]]
  BY <1>2, <1>3
<1>. HIDE DEF ix, u
<1>5. u.index = ix /\ u = [st EXCEPT !.index = u.index]
  BY <1>1 DEF IsStore
<1>6. IsStore(u)
  BY <1>1, <1>4 DEF IsStore
<1>. QED
  BY <1>5, <1>6 DEF u

LEMMA PutIndexesEntry ==
  ASSUME NEW st, IsStore(st), NEW tx \in Transaction, NEW id \in Nat,
         NEW x \in IndexedCommand, NEW k \in PubKey
  PROVE  PutIndexes(st, tx, id).index[x][k] =
           IF x \in IndexesOf(tx.command.type) /\ k = tx.creatorPubKey
           THEN st.index[x][k] \cup {id} ELSE st.index[x][k]
<1>. DEFINE new == IF x \in IndexesOf(tx.command.type)
                   THEN PutDup(st.index[x], tx.creatorPubKey, id)
                   ELSE st.index[x]
<1>1. PutIndexes(st, tx, id).index[x] = new
  BY DEF PutIndexes, IsStore
<1>2. st.index[x] \in [PubKey -> SUBSET Nat]
  BY DEF IsStore
<1>3. new[k] = IF x \in IndexesOf(tx.command.type) /\ k = tx.creatorPubKey
               THEN st.index[x][k] \cup {id} ELSE st.index[x][k]
  BY <1>2 DEF PutDup
<1>. QED
  BY <1>1, <1>3

LEMMA PutTransferEffect ==
  ASSUME NEW st, IsStore(st), NEW tx \in Transaction
  PROVE  LET u == PutTransfer(st, tx)
         IN  /\ IsStore(u)
             /\ u.tx_store = st.tx_store
             /\ u.merkle_tree = st.merkle_tree
             /\ u.index = st.index
             /\ \A k \in PubKey :
                  /\ u.transfer_sender[k] =
                       IF tx.command.type = "AssetTransfer" /\ tx.command.sender = k
                       THEN st.transfer_sender[k] \cup {tx}
                       ELSE st.transfer_sender[k]
                  /\ u.transfer_receiver[k] =
                       IF tx.command.type = "AssetTransfer" /\ tx.command.receiver = k
                       THEN st.transfer_receiver[k] \cup {tx}
                       ELSE st.transfer_receiver[k]
<1>. DEFINE snd == PutDup(st.transfer_sender, tx.command.sender, tx)
            rcv == PutDup(st.transfer_receiver, tx.command.receiver, tx)
            u == PutTransfer(st, tx)
<1>1. /\ st.transfer_sender \in [PubKey -> SUBSET Transaction]
      /\ st.transfer_receiver \in [PubKey -> SUBSET Transaction]
  BY DEF IsStore
<1>2. snd \in [PubKey -> SUBSET Transaction] /\ rcv \in [PubKey -> SUBSET Transaction]
  BY <1>1 DEF PutDup
<1>3. \A k \in PubKey :
        /\ snd[k] = IF tx.command.sender = k THEN st.transfer_sender[k] \cup {tx}
                                              ELSE st.transfer_sender[k]
        /\ rcv[k] = IF tx.command.receiver = k THEN st.transfer_receiver[k] \cup {tx}
                                                ELSE st.transfer_receiver[k]
  BY <1>1 DEF PutDup
<1>4. CASE tx.command.type = "AssetTransfer"
  <2>1. u = [st EXCEPT !.transfer_sender = snd, !.transfer_receiver = rcv]
    BY <1>4 DEF PutTransfer
  <2>. HIDE DEF u, snd, rcv
  <2>2. /\ u.tx_store = st.tx_store /\ u.merkle_tree = st.merkle_tree
        /\ u.index = st.index
        /\ u.transfer_sender = snd /\ u.transfer_receiver = rcv
    BY <2>1 DEF IsStore
  <2>3. IsStore(u)
    BY <2>1, <1>2 DEF IsStore
  <2>. QED
    BY <1>3, <1>4, <2>2, <2>3 DEF u
<1>5. CASE tx.command.type # "AssetTransfer"
  BY <1>5 DEF PutTransfer
<1>. QED
  BY <1>4, <1>5
-----------------------------------------------------------------------------
(* append, on a store whose ids have no gap: the transaction is stored      *)
(* under the next id, whatever its command, and its hash is pushed if the   *)
(* command has an index.                                                    *)
LEMMA AppendEffect ==
  ASSUME NEW s, StoreObjectOK(s), s.res = "OK", NEW tx \in Transaction
  PROVE  LET t == append(s, tx)
         IN  /\ StoreObjectOK(t)
             /\ t.total = s.total + 1
             /\ t.store.tx_store = Append(s.store.tx_store, tx)
             /\ t.store.tx_store \in [1..s.total + 1 -> Transaction]
             /\ t.store.merkle_tree = s.store.merkle_tree
             /\ \/ /\ IndexesOf(tx.command.type) = {}
                   /\ t.res = "WRONG_COMMAND"
                   /\ t.leaves = s.leaves
                \/ /\ IndexesOf(tx.command.type) # {}
                   /\ t.res = "OK"
                   /\ t.leaves = MerklePush(s.leaves, tx)
<1>. DEFINE id == s.total + 1
            log == Put(s.store.tx_store, id, tx)
            stored == [s.store EXCEPT !.tx_store = log]
            t == append(s, tx)
<1>1. id \in Nat /\ CanAppend(s.store.tx_store, id)
  BY DEF StoreObjectOK, CanAppend
<1>2. s.store.tx_store \in [1..s.total -> Transaction]
  BY DEF StoreObjectOK, IsStore, IsTree
<1>3. log = Append(s.store.tx_store, tx) /\ log \in [1..id -> Transaction]
  BY <1>2, PutIsAppend DEF StoreObjectOK
<1>. HIDE DEF log
<1>4. IsTree(log, Nat, Transaction) /\ DOMAIN log = 1..id
  <2>1. 1..id \subseteq Nat
    OBVIOUS
  <2>. HIDE DEF id
  <2>. QED
    BY <1>3, <2>1 DEF IsTree
<1>5. IsStore(s.store)
  BY DEF StoreObjectOK
<1>6. /\ IsStore(stored) /\ stored.tx_store = log
      /\ stored.merkle_tree = s.store.merkle_tree
  BY <1>4, <1>5 DEF IsStore
<1>7. CASE IndexesOf(tx.command.type) = {}
  <2>1. t = [s EXCEPT !.total = id, !.store = stored, !.res = "WRONG_COMMAND"]
    BY <1>1, <1>7, Zenon DEF append, log
  <2>. HIDE DEF t, stored, id
  <2>2. /\ t.total = id /\ t.store = stored /\ t.res = "WRONG_COMMAND"
        /\ t.leaves = s.leaves
        /\ t = [store |-> t.store, total |-> t.total, leaves |-> t.leaves,
                res |-> t.res]
    BY <2>1 DEF StoreObjectOK
  <2>3. StoreObjectOK(t)
    BY <1>1, <1>4, <1>6, <2>2 DEF StoreObjectOK
  <2>. QED
    BY <1>3, <1>6, <1>7, <2>2, <2>3 DEF t, id
<1>8. CASE IndexesOf(tx.command.type) # {}
  <2>. DEFINE u == PutIndexes(stored, tx, id)
              v == PutTransfer(u, tx)
              m == MerklePush(s.leaves, tx)
  <2>1. t = [s EXCEPT !.total = id, !.store = v, !.leaves = m]
    BY <1>1, <1>8, Zenon DEF append, log
  <2>. HIDE DEF stored
  <2>2. IsStore(u) /\ u.tx_store = log /\ u.merkle_tree = s.store.merkle_tree
    <3>1. IsStore(u) /\ u = [stored EXCEPT !.index = u.index]
      BY <1>1, <1>6, PutIndexesEffect
    <3>. HIDE DEF u
    <3>. QED
      BY <1>6, <3>1 DEF IsStore
  <2>. HIDE DEF u
  <2>3. IsStore(v) /\ v.tx_store = log /\ v.merkle_tree = s.store.merkle_tree
    BY <2>2, PutTransferEffect
  <2>4. IsBlock(m)
    BY PushIsBlock DEF StoreObjectOK
  <2>. HIDE DEF t, id, v, m
  <2>5. /\ t.total = id /\ t.store = v /\ t.res = "OK" /\ t.leaves = m
        /\ t = [store |-> t.store, total |-> t.total, leaves |-> t.leaves,
                res |-> t.res]
    BY <2>1 DEF StoreObjectOK
  <2>6. StoreObjectOK(t)
    BY <1>1, <1>4, <2>3, <2>4, <2>5 DEF StoreObjectOK
  <2>. QED
    BY <1>3, <1>8, <2>3, <2>5, <2>6 DEF t, id, m
<1>. QED
  BY <1>7, <1>8

(* The logs of IndexCoherent, and what append adds to the indexes.          *)
LEMMA AppendKeepsIndexes ==
  ASSUME NEW s, StoreObjectOK(s), s.res = "OK", NEW tx \in Transaction,
         IndexCoherent(s.store)
  PROVE  IndexCoherent(append(s, tx).store)
<1>. DEFINE id == s.total + 1
            old == s.store.tx_store
            t == append(s, tx).store
            log == t.tx_store
            type == tx.command.type
<1>1. /\ log = Append(old, tx) /\ log \in [1..id -> Transaction]
      /\ old \in [1..s.total -> Transaction] /\ s.total \in Nat
      /\ id \in Nat
  <2>1. s.total \in Nat /\ old \in [1..s.total -> Transaction]
    BY DEF StoreObjectOK, IsStore, IsTree
  <2>2. log = Append(old, tx) /\ log \in [1..id -> Transaction]
    BY AppendEffect, Zenon
  <2>3. id \in Nat
    BY <2>1
  <2>. QED
    BY <2>1, <2>2, <2>3
<1>2. /\ DOMAIN log = 1..id /\ DOMAIN old = 1..s.total
      /\ log[id] = tx /\ \A i \in 1..s.total : log[i] = old[i]
  <2>1. old \in Seq(Transaction) /\ Len(old) = s.total
    BY <1>1, FunctionIsSeq
  <2>. HIDE DEF log, old
  <2>. QED
    BY <1>1, <2>1, AppendProperties
<1>3. 1..id = 1..s.total \cup {id} /\ id \notin 1..s.total
  BY <1>1
<1>4. \A i \in DOMAIN log : i \in DOMAIN old \/ i = id
  BY <1>2, <1>3
<1>5. CanAppend(old, id)
  BY <1>1, <1>2 DEF CanAppend
<1>6. /\ \A x \in IndexedCommand, k \in PubKey :
           t.index[x][k] =
             IF x \in IndexesOf(type) /\ k = tx.creatorPubKey
             THEN s.store.index[x][k] \cup {id} ELSE s.store.index[x][k]
      /\ \A k \in PubKey :
           /\ t.transfer_sender[k] =
                IF type = "AssetTransfer" /\ tx.command.sender = k
                THEN s.store.transfer_sender[k] \cup {tx}
                ELSE s.store.transfer_sender[k]
           /\ t.transfer_receiver[k] =
                IF type = "AssetTransfer" /\ tx.command.receiver = k
                THEN s.store.transfer_receiver[k] \cup {tx}
                ELSE s.store.transfer_receiver[k]
  <2>. DEFINE stored == [s.store EXCEPT !.tx_store = Put(old, id, tx)]
              u == PutIndexes(stored, tx, id)
  <2>1. CASE IndexesOf(type) = {}
    <3>1. t = stored
      BY <1>5, <2>1 DEF append, StoreObjectOK
    <3>2. t.index = s.store.index /\ t.transfer_sender = s.store.transfer_sender
          /\ t.transfer_receiver = s.store.transfer_receiver
      BY <3>1 DEF StoreObjectOK, IsStore
    <3>. HIDE DEF t
    <3>3. type # "AssetTransfer"
      BY <2>1 DEF IndexesOf, IndexedCommand
    <3>. QED
      BY <2>1, <3>2, <3>3
  <2>2. CASE IndexesOf(type) # {}
    <3>1. t = PutTransfer(u, tx)
      BY <1>5, <2>2 DEF append, StoreObjectOK
    <3>2. IsTree(Put(old, id, tx), Nat, Transaction)
      <4>. HIDE DEF id
      <4>. QED
        BY PutKeepsTree, <1>1 DEF StoreObjectOK, IsStore
    <3>3. /\ IsStore(stored) /\ stored.index = s.store.index
          /\ stored.transfer_sender = s.store.transfer_sender
          /\ stored.transfer_receiver = s.store.transfer_receiver
      BY <3>2 DEF StoreObjectOK, IsStore
    <3>. HIDE DEF stored, id
    <3>4. /\ IsStore(u) /\ u.transfer_sender = stored.transfer_sender
          /\ u.transfer_receiver = stored.transfer_receiver
          /\ \A x \in IndexedCommand, k \in PubKey :
               u.index[x][k] =
                 IF x \in IndexesOf(type) /\ k = tx.creatorPubKey
                 THEN stored.index[x][k] \cup {id} ELSE stored.index[x][k]
      <4>1. /\ IsStore(u) /\ u = [stored EXCEPT !.index = u.index]
            /\ \A x \in IndexedCommand, k \in PubKey :
                 u.index[x][k] =
                   IF x \in IndexesOf(type) /\ k = tx.creatorPubKey
                   THEN stored.index[x][k] \cup {id} ELSE stored.index[x][k]
        <5>1. IsStore(stored) /\ id \in Nat
          BY <3>3, <1>1
        <5>2. IsStore(u) /\ u = [stored EXCEPT !.index = u.index]
          BY <5>1, PutIndexesEffect
        <5>3. ASSUME NEW x \in IndexedCommand, NEW k \in PubKey
              PROVE  u.index[x][k] =
                       IF x \in IndexesOf(tx.command.type) /\ k = tx.creatorPubKey
                       THEN stored.index[x][k] \cup {id} ELSE stored.index[x][k]
          BY <5>1, PutIndexesEntry
        <5>. QED
          BY <5>2, <5>3
      <4>. HIDE DEF u
      <4>. QED
        BY <3>3, <4>1 DEF IsStore
    <3>. DEFINE v == PutTransfer(u, tx)
    <3>. HIDE DEF u
    <3>5. /\ v.index = u.index
          /\ \A k \in PubKey :
               /\ v.transfer_sender[k] =
                    IF type = "AssetTransfer" /\ tx.command.sender = k
                    THEN u.transfer_sender[k] \cup {tx}
                    ELSE u.transfer_sender[k]
               /\ v.transfer_receiver[k] =
                    IF type = "AssetTransfer" /\ tx.command.receiver = k
                    THEN u.transfer_receiver[k] \cup {tx}
                    ELSE u.transfer_receiver[k]
      BY <3>4, PutTransferEffect
    <3>6. t = v
      BY <3>1
    <3>. HIDE DEF v, t, type
    <3>. QED
      BY <3>3, <3>4, <3>5, <3>6
  <2>. QED
    BY <2>1, <2>2
<1>7. \A x \in IndexedCommand : type = x => x \in IndexesOf(type)
  BY DEF IndexesOf, IndexedCommand
<1>8. {log[i] : i \in DOMAIN log} = {old[i] : i \in DOMAIN old} \cup {tx}
  BY <1>2, <1>3
<1>. HIDE DEF id, old, t, log, type
<1>9. ASSUME NEW x \in IndexedCommand, NEW k \in PubKey
      PROVE  /\ \A i \in t.index[x][k] :
                  i \in DOMAIN log /\ log[i].creatorPubKey = k
             /\ \A i \in DOMAIN log :
                  log[i].command.type = x /\ log[i].creatorPubKey = k
                    => i \in t.index[x][k]
  <2>1. /\ \A i \in s.store.index[x][k] :
             i \in DOMAIN old /\ old[i].creatorPubKey = k
        /\ \A i \in DOMAIN old :
             old[i].command.type = x /\ old[i].creatorPubKey = k
               => i \in s.store.index[x][k]
    BY DEF IndexCoherent, old
  <2>2. t.index[x][k] =
          IF x \in IndexesOf(type) /\ k = tx.creatorPubKey
          THEN s.store.index[x][k] \cup {id} ELSE s.store.index[x][k]
    BY <1>6
  <2>3. ASSUME NEW i \in t.index[x][k]
        PROVE  i \in DOMAIN log /\ log[i].creatorPubKey = k
    <3>1. i \in s.store.index[x][k] \/ (i = id /\ k = tx.creatorPubKey)
      BY <2>2
    <3>. QED
      BY <1>2, <1>3, <2>1, <3>1
  <2>4. ASSUME NEW i \in DOMAIN log, log[i].command.type = x,
               log[i].creatorPubKey = k
        PROVE  i \in t.index[x][k]
    <3>1. CASE i \in DOMAIN old
      BY <1>2, <2>1, <2>2, <2>4, <3>1
    <3>2. CASE i = id
      BY <1>2, <1>7, <2>2, <2>4, <3>2 DEF type
    <3>. QED
      BY <1>4, <3>1, <3>2
  <2>. QED
    BY <2>3, <2>4
<1>10. ASSUME NEW k \in PubKey
       PROVE  /\ t.transfer_sender[k] =
                   {e \in {log[i] : i \in DOMAIN log} :
                      e.command.type = "AssetTransfer" /\ e.command.sender = k}
              /\ t.transfer_receiver[k] =
                   {e \in {log[i] : i \in DOMAIN log} :
                      e.command.type = "AssetTransfer" /\ e.command.receiver = k}
  <2>1. /\ s.store.transfer_sender[k] =
             {e \in {old[i] : i \in DOMAIN old} :
                e.command.type = "AssetTransfer" /\ e.command.sender = k}
        /\ s.store.transfer_receiver[k] =
             {e \in {old[i] : i \in DOMAIN old} :
                e.command.type = "AssetTransfer" /\ e.command.receiver = k}
    BY DEF IndexCoherent, old
  <2>2. t.transfer_sender[k] =
          IF tx.command.type = "AssetTransfer" /\ tx.command.sender = k
          THEN s.store.transfer_sender[k] \cup {tx}
          ELSE s.store.transfer_sender[k]
    BY <1>6 DEF type
  <2>3. t.transfer_receiver[k] =
          IF tx.command.type = "AssetTransfer" /\ tx.command.receiver = k
          THEN s.store.transfer_receiver[k] \cup {tx}
          ELSE s.store.transfer_receiver[k]
    BY <1>6 DEF type
  <2>. DEFINE O == {old[i] : i \in DOMAIN old}
              N == {log[i] : i \in DOMAIN log}
  <2>4. N = O \cup {tx}
    BY <1>8
  <2>. HIDE DEF O, N
  <2>5. t.transfer_sender[k] =
          {e \in N : e.command.type = "AssetTransfer" /\ e.command.sender = k}
    BY <2>1, <2>2, <2>4 DEF O
  <2>6. t.transfer_receiver[k] =
          {e \in N : e.command.type = "AssetTransfer" /\ e.command.receiver = k}
    BY <2>1, <2>3, <2>4 DEF O
  <2>. QED
    BY <2>5, <2>6 DEF N
<1>. QED
  BY <1>9, <1>10 DEF IndexCoherent, t, log
=============================================================================
