-------------------------- MODULE NarrowMerkleTree --------------------------
(***************************************************************************)
(* The class NarrowMerkleTree (include/ametsuchi/merkle_tree/              *)
(* narrow_merkle_tree.h): the hashes of the last beginnings of the log, in *)
(* layers.  Layer i (data[i - 1] in the code, from 0) keeps the last       *)
(* capacity_ hashes of beginnings whose lengths are multiples of           *)
(* capacity_^(i - 1).                                                      *)
(*                                                                         *)
(* The code asks of its hash function that it is associative and that T()  *)
(* is its identity.  Here it is concatenation, so that a hash is the       *)
(* sequence of the leaves that it is made of.  A layer is the bounded      *)
(* stack that CircularStack implements; it is never resized.               *)
(***************************************************************************)
EXTENDS Power, StackOps

CONSTANTS
  Leaf,         \* the hashes that are added
  Capacities,   \* the arguments of the constructor
  SizeWord,     \* number of values of size_t: 2^64 in the code
  MaxTxs        \* bound: the number of leaves in the tree

(* With a capacity of 1 height() does not return; the constructor refuses   *)
(* only 0.  The products in height() and drop() do not overflow.            *)
ASSUME NarrowAssumption ==
  /\ Capacities \subseteq Nat \ {0, 1}
  /\ MaxTxs \in Nat
  /\ SizeWord \in Nat
  /\ \A c \in Capacities : SizeWord > MaxTxs + c * (MaxTxs + 1)

VARIABLES
  data,                   \* the layers
  capacity_,
  txs,                    \* number of leaves
  previous_drop_number,
  lost                    \* history: a drop found nothing that it could keep

vars == <<data, capacity_, txs, previous_drop_number, lost>>

(* Mutant of hash: the new leaf comes first.                                *)
hash_Swapped(a, b) == b \o a

hash(a, b) == a \o b

back(stack) == stack[Len(stack)]

(* Number of digits of n to the base capacity_.                             *)
height(n) ==
  CHOOSE h \in 0..n : /\ n < power(capacity_, h)
                      /\ \A g \in 0..h - 1 : n >= power(capacity_, g)

(* The first layer of layers that has a hash.                               *)
Lowest(layers) ==
  CHOOSE i \in DOMAIN layers :
    layers[i] # << >> /\ \A j \in 1..i - 1 : layers[j] = << >>

get_root ==
  IF \E i \in DOMAIN data : data[i] # << >> THEN back(data[Lowest(data)])
  ELSE << >>

Init ==
  /\ capacity_ \in Capacities
  /\ data = << << >> >>
  /\ txs = 0
  /\ previous_drop_number = 0
  /\ lost = FALSE

(* Mutant of NeedsLayer: a layer late.                                      *)
NeedsLayer_Late(n) == height(n) > height(n - 1) /\ height(n) > Len(data) + 1

(* The n-th leaf needs one more layer.                                      *)
NeedsLayer(n) ==
  n # 1 /\ height(n) > height(n - 1) /\ height(n) > Len(data)

(* Number of leaves that an entry of layer i stands for.                    *)
unit(i) == power(capacity_, i - 1)

(* add: the root of the longer log is pushed into the lowest layer, and on  *)
(* into the next layer from each that is full at its right end (what        *)
(* child->back() is then, is what was pushed there just before).            *)
Add(t) ==
  /\ txs < MaxTxs
  /\ txs' = txs + 1
  /\ LET root == hash(get_root, <<t>>)
         layers == IF NeedsLayer(txs + 1) THEN Append(data, << >>) ELSE data
         RightEnd(i) == (txs \div unit(i)) % capacity_ = capacity_ - 1
     IN  data' = [i \in DOMAIN layers |->
                    IF \A child \in 1..i - 1 : RightEnd(child)
                    THEN Pushed(layers[i], root, capacity_) ELSE layers[i]]
  /\ UNCHANGED <<capacity_, previous_drop_number, lost>>

(* Mutant of id_tx: not rounded down above the lowest layer.                *)
id_tx_Same(i) == txs

(* What drop takes for the number of leaves at layer i: the last that the   *)
(* layer has a hash for.                                                    *)
id_tx(i) == (txs \div unit(i)) * unit(i)

(* Mutant of rm_num: one entry too many.                                    *)
rm_num_OneMore(i, ind) ==
  LET beyond == ((id_tx(i) - ind + unit(i)) % SizeWord) \div unit(i)
  IN  IF beyond < Len(data[i]) THEN beyond ELSE Len(data[i])

(* Number of entries that drop(ind) takes from layer i: those of more than  *)
(* ind leaves, as far as there are any.                                     *)
rm_num(i, ind) ==
  LET beyond == ((id_tx(i) - ind + unit(i) - 1) % SizeWord) \div unit(i)
  IN  IF beyond < Len(data[i]) THEN beyond ELSE Len(data[i])

(* What the loop of drop makes of the layers and of txs: the lowest layer   *)
(* that still has a hash says how many leaves there are.                    *)
Dropped(ind) ==
  LET layers == [i \in DOMAIN data |-> Popped(data[i], rm_num(i, ind))]
  IN  [data |-> layers,
       txs  |-> IF \E i \in DOMAIN layers : layers[i] # << >>
                THEN LET i == Lowest(layers)
                     IN  id_tx(i) - rm_num(i, ind) * unit(i)
                ELSE ind]

(* The hashes that are stored.                                              *)
StoredHashes == UNION {{data[i][j] : j \in DOMAIN data[i]} : i \in DOMAIN data}

(* There is a hash that drop(ind) could keep.                               *)
CanKeep(ind) == ind <= txs /\ \E h \in StoredHashes : Len(h) <= ind

DropAll ==
  /\ data' = << << >> >>
  /\ previous_drop_number' = 0
  /\ txs' = 0
  /\ lost' = FALSE
  /\ UNCHANGED capacity_

(* drop(ind), for ind > 0.  Not after the last drop: it returns.            *)
Drop(ind) ==
  /\ previous_drop_number < ind
  /\ data' = Dropped(ind).data
  /\ txs' = Dropped(ind).txs
  /\ previous_drop_number' = txs'
  /\ lost' = (lost \/ ~CanKeep(ind))
  /\ UNCHANGED capacity_

Next ==
  \/ \E t \in Leaf : Add(t)
  \/ DropAll
  \/ \E ind \in 1..MaxTxs + 1 : Drop(ind)

Spec == Init /\ [][Next]_vars
-----------------------------------------------------------------------------
TypeOK ==
  /\ capacity_ \in Capacities
  /\ txs \in 0..MaxTxs + 1
  /\ previous_drop_number \in 0..MaxTxs + 1
  /\ lost \in BOOLEAN
  /\ Len(data) >= 1
  /\ \A i \in DOMAIN data : Len(data[i]) <= capacity_

(* size() is the number of leaves in the root, and each layer keeps, without *)
(* a gap, the beginnings of the same log up to the last whole one of its    *)
(* length, through all additions and drops (narrow_merkle_tree.h:203-262).  *)
LayersHoldBeginnings ==
  ~lost =>
    /\ txs = Len(get_root)
    /\ \A i \in DOMAIN data : \A j \in DOMAIN data[i] :
         data[i][j] = SubSeq(get_root, 1,
                        id_tx(i) - (Len(data[i]) - j) * unit(i))

(* The tree serves the transactions since the checkpoint, up to the         *)
(* capacity (narrow_merkle_tree.h:43-46): a drop behind the last one of     *)
(* fewer than capacity_ leaves leaves exactly as many as it was asked to.   *)
RecentDropIsExact ==
  \A ind \in previous_drop_number + 1..txs :
    txs - ind < capacity_ => Dropped(ind).txs = ind

(* A drop that goes back no further than the last power of the capacity has *)
(* a hash to keep, whatever was dropped before (narrow_merkle_tree.h:92-106 *)
(* and 203-227): only drops beyond it can lose the log.                     *)
TopIsKept ==
  ~lost =>
    \A ind \in previous_drop_number + 1..txs :
      ind >= power(capacity_, height(txs) - 1) => CanKeep(ind)

(* A drop keeps the most that it can: of the stored hashes of at most ind   *)
(* leaves, the longest is the new root (narrow_merkle_tree.h:92-106).       *)
DropKeepsLongest ==
  [][\A ind \in 1..MaxTxs + 1 :
       ~lost /\ CanKeep(ind) /\ Drop(ind)
       => /\ get_root' \in StoredHashes
          /\ Len(get_root') <= ind
          /\ \A h \in StoredHashes : Len(h) <= ind => Len(h) <= Len(get_root')
    ]_vars

(* The root is the hash of a log that grows at its end and is cut back.     *)
R == INSTANCE RollbackLog WITH log <- get_root, specified <- ~lost

ImplementsLog == R!Spec
=============================================================================
