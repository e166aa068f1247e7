----------------------------- MODULE MerkleTree -----------------------------
(***************************************************************************)
(* The class MerkleTree (src/ametsuchi/merkle_tree/merkle_tree.cc): binary *)
(* hash trees in arrays, the leaves in the cells leafs_ - 1 onwards, and   *)
(* two pointers, into the last tree.  A full tree is kept, up to blocks of *)
(* them behind the last, so that pushes can be rolled back.  The hash of   *)
(* two hashes is a free constructor: the pair of them.                     *)
(***************************************************************************)
EXTENDS Power, Sequences

CONSTANTS
  ctorLeafs,   \* the arguments of the constructor
  ctorBlocks,
  SizeWord,    \* number of values of size_t: 2^64 in the code
  Item,        \* hashes that are pushed
  MaxPushes    \* bound: calls of push in a behaviour

ASSUME MerkleTreeAssumption ==
  /\ ctorLeafs \in Nat /\ ctorLeafs >= 2
  /\ ctorBlocks \in Nat \ {0}
  /\ SizeWord \in Nat /\ SizeWord > (ctorBlocks + 1) * 2 * ctorLeafs
  /\ MaxPushes \in Nat
-----------------------------------------------------------------------------
(* floor(log2(x)), the number of times x can be halved.                     *)
log2(x) == CHOOSE y \in 0..x : power(2, y) <= x /\ x < power(2, y + 1)

ceil2(x) == LET l == power(2, log2(x)) IN IF l = x THEN l ELSE l + 1

leafs_ == ceil2(ctorLeafs)

size_ == leafs_ * 2 - 1

left(parent) == parent * 2 + 1

right(parent) == parent * 2 + 2

parentOf(node) == IF node = 0 THEN 0 ELSE (node - 1) \div 2

(* An array of hashes as std::vector makes it: all zeros.                   *)
Zero == << >>

EmptyTree == [i \in 0..size_ - 1 |-> Zero]

hash(a, b) == <<a, b>>

Front(s) == SubSeq(s, 1, Len(s) - 1)

back(s) == s[Len(s)]
-----------------------------------------------------------------------------
VARIABLES
  trees,       \* trees_
  i_current,   \* the next free leaf
  i_root,      \* the root
  result,      \* what the last call returned or threw
  log,         \* history: the hashes pushed and not rolled back
  oldest,      \* history: the length of log when the tree had one leaf
  longest,     \* history: the greatest length of log since then
  pushes       \* calls of push so far

vars == <<trees, i_current, i_root, result, log, oldest, longest,
          pushes>>

(* The fields of the object.                                                *)
Fresh == [trees |-> <<EmptyTree>>, i_current |-> leafs_ - 1,
          i_root |-> leafs_ - 1]

(* push writes the new leaf and the np cells above it, up to the least      *)
(* common ancestor of it and the leftmost leaf, which is the new root.  A   *)
(* cell without a right child is a copy of the left one.                    *)
Written(tree, i, item) ==
  LET np == 1 + log2(i - (leafs_ - 1))
      w[n \in 0..np] ==
        IF n = 0 THEN [tree |-> [tree EXCEPT ![i] = item], node |-> i]
        ELSE LET below == w[n - 1]
                 up == parentOf(below.node)
                 l == below.tree[left(up)]
                 r == below.tree[right(up)]
             IN  [tree |-> [below.tree EXCEPT
                              ![up] = IF below.node = left(up) THEN l
                                      ELSE hash(l, r)],
                  node |-> up]
  IN  w[np]

(* Mutant of pushed: one tree too many is kept.                             *)
pushed_KeepsMore(m, item) ==
  IF m.i_current = leafs_ - 1
  THEN [m EXCEPT !.trees[Len(m.trees)][leafs_ - 1] = item,
                 !.i_root = leafs_ - 1,
                 !.i_current = leafs_]
  ELSE LET w == Written(back(m.trees), m.i_current, item)
           all == Append(Front(m.trees), w.tree)
           next == [EmptyTree EXCEPT ![leafs_ - 1] = w.tree[0]]
           kept == IF Len(all) + 1 = ctorBlocks + 3 THEN Tail(all) ELSE all
       IN  IF m.i_current + 1 = size_
           THEN [trees |-> Append(kept, next), i_current |-> leafs_,
                 i_root |-> leafs_ - 1]
           ELSE [trees |-> all, i_current |-> m.i_current + 1,
                 i_root |-> w.node]

pushed(m, item) ==
  IF m.i_current = leafs_ - 1
  THEN [m EXCEPT !.trees[Len(m.trees)][leafs_ - 1] = item,
                 !.i_root = leafs_ - 1,
                 !.i_current = leafs_]
  ELSE LET w == Written(back(m.trees), m.i_current, item)
           all == Append(Front(m.trees), w.tree)
           next == [EmptyTree EXCEPT ![leafs_ - 1] = w.tree[0]]
           kept == IF Len(all) + 1 = ctorBlocks + 2 THEN Tail(all) ELSE all
       IN  IF m.i_current + 1 = size_
           THEN [trees |-> Append(kept, next), i_current |-> leafs_,
                 i_root |-> leafs_ - 1]
           ELSE [trees |-> all, i_current |-> m.i_current + 1,
                 i_root |-> w.node]

(* Mutant of max_rollback: the first leaf of a block, the root of the block *)
(* before, is counted as a push.                                            *)
max_rollback_AllLeaves(m) ==
  ((Len(m.trees) - 1) * leafs_ + (m.i_current - leafs_)) % SizeWord

(* In size_t's: the greatest of them for a tree without leaves.             *)
max_rollback(m) ==
  ((Len(m.trees) - 1) * (leafs_ - 1) + (m.i_current - leafs_)) % SizeWord

(* Mutant of rolledBack: the last leaf is not pushed again, so that the     *)
(* cells above it stay as they were.                                        *)
rolledBack_NoPush(m, n) ==
  LET inLast == [m EXCEPT !.i_current = @ - n]
      inPrevious == [trees |-> Front(m.trees), i_root |-> 0,
                     i_current |-> size_ - (n - (m.i_current - leafs_))]
  IN  IF m.i_current - n < leafs_ THEN inPrevious ELSE inLast

(* rollback of more than one and at most max_rollback steps: whole trees,   *)
(* then into the tree before if the last one has too few leaves, then the   *)
(* leaf that is the last now is pushed again.                               *)
rolledBack(m, n) ==
  LET whole == CHOOSE k \in 0..n : /\ n - k * (leafs_ - 1) < leafs_
                                   /\ \A j \in 0..k - 1 :
                                        n - j * (leafs_ - 1) >= leafs_
      steps == n - whole * (leafs_ - 1)
      popped == SubSeq(m.trees, 1, Len(m.trees) - whole)
      inLast == [trees |-> popped, i_root |-> m.i_root,
                 i_current |-> m.i_current - steps - 1]
      inPrevious == [trees |-> Front(popped), i_root |-> 0,
                     i_current |-> size_ - (steps - (m.i_current - leafs_)) - 1]
      here == IF m.i_current - steps < leafs_ THEN inPrevious ELSE inLast
  IN  pushed(here, back(here.trees)[here.i_current])

This == [trees |-> trees, i_current |-> i_current, i_root |-> i_root]

Becomes(m) ==
  /\ trees' = m.trees
  /\ i_current' = m.i_current
  /\ i_root' = m.i_root

root(m) == back(m.trees)[m.i_root]

(* last_block, from last_block_begin to last_block_end.                     *)
LastBlock(m) ==
  [i \in 1..m.i_current - (leafs_ - 1) |-> back(m.trees)[leafs_ - 2 + i]]
-----------------------------------------------------------------------------
Init ==
  /\ trees = Fresh.trees
  /\ i_current = Fresh.i_current
  /\ i_root = Fresh.i_root
  /\ result = "OK"
  /\ log = << >>
  /\ oldest = 1
  /\ longest = 0
  /\ pushes = 0

Max2(a, b) == IF a > b THEN a ELSE b

Push(item) ==
  /\ pushes < MaxPushes
  /\ Becomes(pushed(This, item))
  /\ result' = "OK"
  /\ log' = Append(log, item)
  /\ longest' = Max2(longest, Len(log) + 1)
  /\ pushes' = pushes + 1
  /\ UNCHANGED oldest

(* rollback(n).  Of a tree without leaves the only array is removed from    *)
(* trees_, and trees_.back() is undefined.                                  *)
Rollback(n) ==
  /\ \/ /\ n = 0
        /\ result' = "OK"
        /\ UNCHANGED <<trees, i_current, i_root, log>>
     \/ /\ n > max_rollback(This)
        /\ result' = "bad_exception"
        /\ UNCHANGED <<trees, i_current, i_root, log>>
     \/ /\ n \in 1..max_rollback(This) /\ i_current = leafs_ - 1
        /\ result' = "undefined"
        /\ UNCHANGED <<trees, i_current, i_root, log>>
     \/ /\ n \in 1..max_rollback(This) /\ i_current # leafs_ - 1
        /\ Becomes(rolledBack(This, n))
        /\ result' = "OK"
        /\ log' = SubSeq(log, 1, Len(log) - n)
  /\ UNCHANGED <<oldest, longest, pushes>>

(* TxStore::commit saves the leaves of the last block and, in another       *)
(* process, TxStore::init_merkle_tree pushes them into a new tree.          *)
Reloaded(leaves) ==
  LET m[i \in 0..Len(leaves)] ==
        IF i = 0 THEN Fresh ELSE pushed(m[i - 1], leaves[i])
  IN  m[Len(leaves)]

SaveAndReload ==
  /\ Becomes(Reloaded(LastBlock(This)))
  /\ result' = "OK"
  /\ oldest' = Max2(1, Len(log) - (i_current - leafs_))
  /\ longest' = Len(log)
  /\ UNCHANGED <<log, pushes>>

Next ==
  /\ result # "undefined"
  /\ \/ \E item \in Item : Push(item)
     \/ \E n \in 0..MaxPushes + 1 : Rollback(n)
     \/ SaveAndReload

Spec == Init /\ [][Next]_vars
-----------------------------------------------------------------------------
TypeOK ==
  /\ Len(trees) \in 1..ctorBlocks + 1
  /\ \A t \in 1..Len(trees) : DOMAIN trees[t] = 0..size_ - 1
  /\ i_current \in leafs_ - 1..size_ - 1
  /\ i_root \in 0..leafs_ - 1
  /\ result \in {"OK", "bad_exception", "undefined"}
  /\ log \in Seq(Item)
  /\ oldest \in 1..Max2(1, MaxPushes)
  /\ longest \in 0..MaxPushes
  /\ pushes \in 0..MaxPushes

(* The reference: of a row of hashes the row above it, where a hash without *)
(* a right neighbour is passed on; a block's root is the first hash of the  *)
(* first row that is no longer than one.                                    *)
Above(row) ==
  [j \in 1..(Len(row) + 1) \div 2 |->
     IF 2 * j > Len(row) THEN row[2 * j - 1]
     ELSE hash(row[2 * j - 1], row[2 * j])]

Row(leaves, d) ==
  LET row[k \in 0..d] == IF k = 0 THEN leaves ELSE Above(row[k - 1])
  IN  row[d]

RootOf(leaves) ==
  IF leaves = << >> THEN Zero
  ELSE Row(leaves, CHOOSE d \in 0..Len(leaves) :
                     /\ Len(leaves) <= power(2, d)
                     /\ \A k \in 0..d - 1 : power(2, k) < Len(leaves))[1]

Promise == INSTANCE MerkleLog WITH Leafs <- leafs_, BlockRoot <- RootOf

(* The leaves in the last array and the root are those of the log: the      *)
(* hashes pushed and not rolled back, whatever was pushed, rolled back      *)
(* (merkle_tree.cc:127-156), saved and pushed again in between.             *)
TreeIsOfLog ==
  /\ LastBlock(This) = Promise!MerkleOf(log)
  /\ root(This) = RootOf(Promise!MerkleOf(log))

(* What can be rolled back: never more than was pushed since the tree was   *)
(* made or loaded, its first leaf excepted; and all of it back to the       *)
(* pushes of ctorBlocks blocks before the longest log, also after other     *)
(* rollbacks (merkle_tree.h:55-59, merkle_tree.cc:121 and 231-233).         *)
RollbackDepth ==
  i_current # leafs_ - 1 =>
    /\ max_rollback(This) <= Len(log) - oldest
    /\ max_rollback(This) >=
         Len(log) - Max2(oldest, longest - ctorBlocks * (leafs_ - 1))
=============================================================================
