-------------------------- MODULE MerkleTreeProofs --------------------------
(***************************************************************************)
(* The Merkle tree, for every number of leaves and blocks: what the arrays *)
(* and the pointers are after pushes and rollbacks, how far can be rolled  *)
(* back, and, where the number of leaves is a power of two, that the cells *)
(* hold the hash tree of the log.                                          *)
(***************************************************************************)
EXTENDS MerkleTree, Induction, SequenceTheorems

(* A sequence of anything: hashes are nested pairs and have no common type. *)
IsSeq(s) == s \in Seq({s[i] : i \in DOMAIN s})

LEMMA FunctionIsSeq ==
  ASSUME NEW n \in Nat, NEW f, f = [i \in 1..n |-> f[i]]
  PROVE  IsSeq(f) /\ Len(f) = n
<1>. DEFINE S == {f[i] : i \in DOMAIN f}
<1>1. DOMAIN f = 1..n
  BY Zenon
<1>2. \A i \in 1..n : f[i] \in S
  BY <1>1
<1>. HIDE DEF S
<1>3. f \in [1..n -> S]
  BY <1>2
<1>4. f \in Seq(S)
  BY <1>3, SeqDef
<1>5. DOMAIN f = 1..Len(f) /\ Len(f) \in Nat
  BY <1>4, LenProperties
<1>. QED
  BY <1>1, <1>4, <1>5 DEF S, IsSeq

LEMMA SeqIs ==
  ASSUME NEW s, IsSeq(s)
  PROVE  Len(s) \in Nat /\ DOMAIN s = 1..Len(s) /\ s = [i \in 1..Len(s) |-> s[i]]
<1>. DEFINE S == {s[i] : i \in DOMAIN s}
<1>1. s \in Seq(S)
  BY DEF IsSeq
<1>. HIDE DEF S
<1>2. Len(s) \in Nat /\ s \in [1..Len(s) -> S]
  BY <1>1, LenProperties
<1>. QED
  BY <1>2

LEMMA AnySeq ==
  ASSUME NEW S, NEW s \in Seq(S)
  PROVE  IsSeq(s)
<1>1. Len(s) \in Nat /\ s = [i \in 1..Len(s) |-> s[i]]
  BY LenProperties
<1>. QED
  BY <1>1, FunctionIsSeq

LEMMA SeqsEqual ==
  ASSUME NEW s, NEW t, IsSeq(s), IsSeq(t), Len(s) = Len(t),
         \A i \in 1..Len(s) : s[i] = t[i]
  PROVE  s = t
<1>1. s = [i \in 1..Len(s) |-> s[i]] /\ t = [i \in 1..Len(t) |-> t[i]]
  BY SeqIs
<1>. QED
  BY <1>1

LEMMA AppendIs ==
  ASSUME NEW s, IsSeq(s), NEW e
  PROVE  /\ IsSeq(Append(s, e)) /\ Len(Append(s, e)) = Len(s) + 1
         /\ \A i \in 1..Len(s) : Append(s, e)[i] = s[i]
         /\ Append(s, e)[Len(s) + 1] = e
<1>. DEFINE S == {s[i] : i \in DOMAIN s} \cup {e}
<1>1. Len(s) \in Nat /\ s = [i \in 1..Len(s) |-> s[i]] /\ DOMAIN s = 1..Len(s)
  BY SeqIs
<1>2. \A i \in 1..Len(s) : s[i] \in S
  BY <1>1
<1>3. e \in S
  OBVIOUS
<1>. HIDE DEF S
<1>4. s \in [1..Len(s) -> S]
  BY <1>1, <1>2
<1>5. s \in Seq(S)
  BY <1>1, <1>4, SeqDef
<1>6. /\ Append(s, e) \in Seq(S) /\ Len(Append(s, e)) = Len(s) + 1
      /\ \A i \in 1..Len(s) : Append(s, e)[i] = s[i]
      /\ Append(s, e)[Len(s) + 1] = e
  BY <1>3, <1>5, AppendProperties
<1>. QED
  BY <1>6, AnySeq

(* r is the first n elements of s.                                          *)
IsStart(r, s, n) == IsSeq(r) /\ Len(r) = n /\ \A i \in 1..n : r[i] = s[i]

LEMMA StartIs ==
  ASSUME NEW s, IsSeq(s), NEW b \in Nat, b <= Len(s)
  PROVE  IsStart(SubSeq(s, 1, b), s, b)
<1>. DEFINE S == {s[i] : i \in DOMAIN s}
<1>1. s \in Seq(S)
  BY DEF IsSeq
<1>. HIDE DEF S
<1>2. Len(s) \in Nat
  BY <1>1, LenProperties
<1>3. /\ SubSeq(s, 1, b) \in Seq(S) /\ Len(SubSeq(s, 1, b)) = b
      /\ \A i \in 1..b : SubSeq(s, 1, b)[i] = s[i]
  BY <1>1, <1>2
<1>. QED
  BY <1>3, AnySeq DEF IsStart

LEMMA TailIs ==
  ASSUME NEW s, IsSeq(s), Len(s) >= 1
  PROVE  /\ IsSeq(Tail(s)) /\ Len(Tail(s)) = Len(s) - 1
         /\ \A i \in 1..Len(s) - 1 : Tail(s)[i] = s[i + 1]
<1>. DEFINE S == {s[i] : i \in DOMAIN s}
<1>1. s \in Seq(S)
  BY DEF IsSeq
<1>. HIDE DEF S
<1>2. s # << >> /\ Len(s) \in Nat
  BY <1>1, EmptySeq, LenProperties
<1>3. /\ Tail(s) \in Seq(S) /\ Len(Tail(s)) = Len(s) - 1
      /\ \A i \in 1..Len(s) - 1 : Tail(s)[i] = s[i + 1]
  BY <1>1, <1>2, HeadTailProperties
<1>. QED
  BY <1>3, AnySeq
-----------------------------------------------------------------------------
LEMMA Log2Is ==
  ASSUME NEW x \in Nat \ {0}
  PROVE  /\ log2(x) \in Nat
         /\ power(2, log2(x)) <= x
         /\ x < power(2, log2(x) + 1)
<1>. DEFINE T == {y \in Nat : x < power(2, y + 1)}
<1>0. \A y \in Nat : power(2, y) \in Nat /\ power(2, y + 1) \in Nat
  BY PowerPositive
<1>1. x \in T
  <2>1. x < power(2, x) /\ power(2, x) < power(2, x + 1)
    BY PowerGrows
  <2>. QED
    BY <1>0, <2>1
<1>2. PICK y \in T : \A z \in T : y <= z
  BY <1>1, LeastNat
<1>3. y \in 0..x
  BY <1>1, <1>2
<1>4. power(2, y) <= x
  <2>1. CASE y = 0
    BY <2>1, PowerZero
  <2>2. CASE y # 0
    <3>. DEFINE z == y - 1
    <3>1. z \in Nat /\ z + 1 = y /\ ~(y <= z)
      BY <1>3, <2>2
    <3>. HIDE DEF z
    <3>2. ~(x < power(2, z + 1))
      BY <1>2, <3>1
    <3>. QED
      BY <1>0, <1>3, <3>1, <3>2
  <2>. QED
    BY <2>1, <2>2
<1>5. x < power(2, y + 1)
  BY <1>2
<1>. HIDE DEF T
<1>6. \E v \in 0..x : power(2, v) <= x /\ x < power(2, v + 1)
  BY <1>3, <1>4, <1>5
<1>7. log2(x) \in 0..x /\ power(2, log2(x)) <= x /\ x < power(2, log2(x) + 1)
  BY <1>6, Zenon DEF log2
<1>. QED
  BY <1>7

LEMMA LeafsIs == leafs_ \in Nat /\ leafs_ >= 2 /\ leafs_ <= ctorLeafs
<1>. DEFINE y == log2(ctorLeafs)
            l == power(2, y)
<1>1. ctorLeafs \in Nat \ {0} /\ ctorLeafs >= 2
  BY MerkleTreeAssumption
<1>2. y \in Nat /\ l <= ctorLeafs /\ ctorLeafs < power(2, y + 1)
  BY <1>1, Log2Is
<1>3. y # 0
  <2>1. power(2, 0) = 1 /\ power(2, 0 + 1) = 2 * power(2, 0)
    BY PowerZero, PowerNext
  <2>. QED
    BY <1>1, <1>2, <2>1
<1>4. l \in Nat /\ y < l
  BY <1>2, PowerGrows, PowerPositive
<1>5. leafs_ = IF l = ctorLeafs THEN l ELSE l + 1
  BY Zenon DEF leafs_, ceil2
<1>. HIDE DEF l, y
<1>. QED
  BY <1>1, <1>2, <1>3, <1>4, <1>5

LEMMA SizeIs == size_ = 2 * leafs_ - 1 /\ size_ \in Nat /\ size_ >= 3
BY LeafsIs DEF size_

LEMMA BlocksIs == ctorBlocks \in Nat /\ ctorBlocks >= 1
BY MerkleTreeAssumption
-----------------------------------------------------------------------------
(* One turn of the loop in push: the cell above is written.                 *)
Climbed(below) ==
  LET up == parentOf(below.node)
      l == below.tree[left(up)]
      r == below.tree[right(up)]
  IN  [tree |-> [below.tree EXCEPT ![up] = IF below.node = left(up) THEN l
                                           ELSE hash(l, r)],
       node |-> up]

(* w[k] is the array after k turns of the loop, for k up to n.              *)
Climb(w, first, n) ==
  w = [k \in 0..n |-> IF k = 0 THEN first ELSE Climbed(w[k - 1])]

Climbs(w, first, n) ==
  /\ w[0] = first
  /\ \A k \in Nat : k + 1 <= n => w[k + 1] = Climbed(w[k])

LEMMA ClimbSteps ==
  ASSUME NEW first, NEW n \in Nat, NEW w, Climb(w, first, n)
  PROVE  Climbs(w, first, n)
BY DEF Climb, Climbs

LEMMA ClimbExists ==
  ASSUME NEW first, NEW n \in Nat
  PROVE  \E w : Climb(w, first, n)
<1>. DEFINE T == {m \in Nat : \E w : Climb(w, first, m)}
<1>1. 0 \in T
  <2>1. Climb([k \in 0..0 |-> first], first, 0)
    BY DEF Climb
  <2>. QED
    BY <2>1
<1>2. ASSUME NEW m \in Nat, m \in T PROVE m + 1 \in T
  <2>1. PICK w : Climb(w, first, m)
    BY <1>2
  <2>. DEFINE v == [k \in 0..m + 1 |-> IF k = m + 1 THEN Climbed(w[m]) ELSE w[k]]
  <2>2. ASSUME NEW k \in 0..m + 1
        PROVE  v[k] = IF k = 0 THEN first ELSE Climbed(v[k - 1])
    BY <2>1 DEF Climb
  <2>3. Climb(v, first, m + 1)
    BY <2>2 DEF Climb
  <2>. QED
    BY <2>3
<1>. HIDE DEF T
<1>3. Nat \subseteq T
  BY <1>1, <1>2, NatInduct
<1>. QED
  BY <1>3 DEF T

(* The array and the cell with which the loop begins.                       *)
Leaf(tree, i, item) == [tree |-> [tree EXCEPT ![i] = item], node |-> i]

LEMMA WrittenIsLast ==
  ASSUME NEW tree, NEW i, NEW item, NEW np \in Nat, np = 1 + log2(i - (leafs_ - 1))
  PROVE  \E w : Climbs(w, Leaf(tree, i, item), np) /\ Written(tree, i, item) = w[np]
<1>. DEFINE w == CHOOSE w : Climb(w, Leaf(tree, i, item), np)
<1>1. Climb(w, Leaf(tree, i, item), np)
  BY ClimbExists
<1>2. Written(tree, i, item) = w[np]
  BY Zenon DEF Written, Climb, Climbed, Leaf
<1>3. Climbs(w, Leaf(tree, i, item), np)
  BY <1>1, ClimbSteps
<1>. QED
  BY <1>2, <1>3

LEMMA ParentIs ==
  ASSUME NEW node \in Nat, NEW n \in Nat, n >= 2, node <= 2 * n - 2
  PROVE  parentOf(node) \in Nat /\ parentOf(node) <= n - 2
BY DEF parentOf

(* An array and a cell of it, in the course of the loop.                    *)
InArray(b) ==
  /\ DOMAIN b.tree = 0..size_ - 1
  /\ b.tree = [c \in 0..size_ - 1 |-> b.tree[c]]
  /\ b.node \in Nat /\ b.node <= 2 * leafs_ - 2

LEMMA LeafInArray ==
  ASSUME NEW tree, DOMAIN tree = 0..size_ - 1, NEW i \in 0..size_ - 1, NEW item
  PROVE  InArray(Leaf(tree, i, item))
<1>1. i \in Nat /\ i <= 2 * leafs_ - 2
  BY LeafsIs, SizeIs
<1>. DEFINE t == [tree EXCEPT ![i] = item]
<1>2. DOMAIN t = 0..size_ - 1 /\ t = [c \in 0..size_ - 1 |-> t[c]]
  OBVIOUS
<1>. HIDE DEF t
<1>3. Leaf(tree, i, item).tree = t /\ Leaf(tree, i, item).node = i
  BY DEF Leaf, t
<1>. QED
  BY <1>1, <1>2, <1>3 DEF InArray

LEMMA ClimbedInArray ==
  ASSUME NEW b, InArray(b)
  PROVE  InArray(Climbed(b)) /\ Climbed(b).node <= leafs_ - 2
<1>. DEFINE up == parentOf(b.node)
            value == IF b.node = left(up) THEN b.tree[left(up)]
                     ELSE hash(b.tree[left(up)], b.tree[right(up)])
            t == [b.tree EXCEPT ![up] = value]
<1>1. up \in Nat /\ up <= leafs_ - 2
  BY LeafsIs, ParentIs DEF InArray
<1>2. DOMAIN t = 0..size_ - 1 /\ t = [c \in 0..size_ - 1 |-> t[c]]
  BY DEF InArray
<1>3. Climbed(b) = [tree |-> t, node |-> up]
  BY Zenon DEF Climbed
<1>. HIDE DEF up, t
<1>4. up <= 2 * leafs_ - 2
  BY <1>1, LeafsIs
<1>5. Climbed(b).tree = t /\ Climbed(b).node = up
  BY <1>3
<1>. QED
  BY <1>1, <1>2, <1>4, <1>5 DEF InArray

(* The loop writes within the array, and ends in a cell above the leaves.   *)
LEMMA WrittenShape ==
  ASSUME NEW tree, DOMAIN tree = 0..size_ - 1, NEW i \in leafs_..size_ - 1, NEW item
  PROVE  InArray(Written(tree, i, item)) /\ Written(tree, i, item).node \in 0..leafs_ - 2
<1>. DEFINE x == i - (leafs_ - 1)
            np == 1 + log2(x)
            k == np - 1
<1>1. x \in Nat \ {0} /\ i \in 0..size_ - 1
  BY LeafsIs, SizeIs
<1>2. np \in Nat /\ k \in Nat /\ k + 1 = np
  <2>. HIDE DEF x
  <2>. QED
    BY <1>1, Log2Is
<1>3. PICK w : Climbs(w, Leaf(tree, i, item), np) /\ Written(tree, i, item) = w[np]
  BY <1>2, WrittenIsLast
<1>. HIDE DEF np, k
<1>4. w[0] = Leaf(tree, i, item) /\ \A j \in Nat : j + 1 <= np => w[j + 1] = Climbed(w[j])
  BY <1>3 DEF Climbs
<1>. DEFINE T == {j \in Nat : j <= np => InArray(w[j])}
<1>5. 0 \in T
  <2>1. InArray(w[0])
    BY <1>1, <1>4, LeafInArray
  <2>. QED
    BY <2>1
<1>6. ASSUME NEW j \in Nat, j \in T PROVE j + 1 \in T
  <2>1. CASE j + 1 <= np
    <3>1. w[j + 1] = Climbed(w[j]) /\ j <= np
      BY <1>2, <1>4, <2>1
    <3>2. InArray(w[j + 1])
      BY <1>6, <3>1, ClimbedInArray
    <3>. QED
      BY <3>2
  <2>. QED
    BY <2>1, <1>2
<1>. HIDE DEF T
<1>7. Nat \subseteq T
  BY <1>5, <1>6, NatInduct
<1>8. InArray(w[k]) /\ InArray(w[np]) /\ w[np] = Climbed(w[k])
  <2>1. k \in T /\ np \in T /\ k <= np
    BY <1>2, <1>7
  <2>2. w[k + 1] = Climbed(w[k])
    BY <1>2, <1>4
  <2>. QED
    BY <1>2, <2>1, <2>2 DEF T
<1>9. w[np].node \in Nat /\ w[np].node <= leafs_ - 2
  BY <1>8, ClimbedInArray DEF InArray
<1>. QED
  BY <1>3, <1>8, <1>9, LeafsIs
-----------------------------------------------------------------------------
(* The object in one piece.                                                 *)
IsObject(m) ==
  m = [trees |-> m.trees, i_current |-> m.i_current, i_root |-> m.i_root]

IsArray(tree) ==
  DOMAIN tree = 0..size_ - 1 /\ tree = [c \in 0..size_ - 1 |-> tree[c]]

Shape(m) ==
  /\ IsObject(m)
  /\ IsSeq(m.trees)
  /\ Len(m.trees) \in 1..ctorBlocks + 1
  /\ \A t \in 1..Len(m.trees) : IsArray(m.trees[t])
  /\ m.i_current \in leafs_ - 1..size_ - 1
  /\ m.i_root \in 0..leafs_ - 1

(* r is s with another last element, or with one more.                      *)
Replaced(s, r, e) ==
  /\ IsSeq(r) /\ Len(r) = Len(s)
  /\ \A t \in 1..Len(s) - 1 : r[t] = s[t]
  /\ r[Len(s)] = e

Appended(s, r, e) ==
  /\ IsSeq(r) /\ Len(r) = Len(s) + 1
  /\ \A t \in 1..Len(s) : r[t] = s[t]
  /\ r[Len(s) + 1] = e

(* What push does, by the place where it finds the tree: without leaves, or *)
(* cut back to none of its own; with room for more than one leaf; with room *)
(* for one.                                                                 *)
PushesFirst(m, p, item) ==
  /\ Replaced(m.trees, p.trees, [back(m.trees) EXCEPT ![leafs_ - 1] = item])
  /\ p.i_current = leafs_
  /\ p.i_root = leafs_ - 1

PushesNext(m, p, item) ==
  /\ Replaced(m.trees, p.trees, Written(back(m.trees), m.i_current, item).tree)
  /\ p.i_current = m.i_current + 1
  /\ p.i_root = Written(back(m.trees), m.i_current, item).node

NextTree(top) == [EmptyTree EXCEPT ![leafs_ - 1] = top]

PushesLast(m, p, item) ==
  LET tree == Written(back(m.trees), m.i_current, item).tree
  IN  /\ \E all : /\ Replaced(m.trees, all, tree)
                  /\ IF Len(all) = ctorBlocks + 1
                     THEN Appended(Tail(all), p.trees, NextTree(tree[0]))
                     ELSE Appended(all, p.trees, NextTree(tree[0]))
      /\ p.i_current = leafs_
      /\ p.i_root = leafs_ - 1

LEMMA ReplaceLast ==
  ASSUME NEW s, IsSeq(s), Len(s) >= 1, NEW e
  PROVE  Replaced(s, Append(Front(s), e), e)
<1>. DEFINE n == Len(s)
            k == n - 1
            f == Front(s)
            r == Append(f, e)
<1>1. k \in Nat /\ k <= n /\ k + 1 = n
  BY SeqIs
<1>2. f = SubSeq(s, 1, k)
  BY Zenon DEF Front
<1>. HIDE DEF f, k
<1>3. IsStart(f, s, k)
  BY <1>1, <1>2, StartIs
<1>4. /\ IsSeq(r) /\ Len(r) = k + 1
      /\ \A i \in 1..k : r[i] = f[i]
      /\ r[k + 1] = e
  BY <1>3, AppendIs DEF IsStart
<1>. HIDE DEF r
<1>. QED
  BY <1>1, <1>3, <1>4 DEF Replaced, IsStart, r, f

LEMMA ReplaceAt ==
  ASSUME NEW s, IsSeq(s), Len(s) >= 1, NEW e
  PROVE  Replaced(s, [s EXCEPT ![Len(s)] = e], e)
<1>. DEFINE n == Len(s)
            g == [s EXCEPT ![n] = e]
<1>1. n \in Nat /\ n >= 1 /\ DOMAIN s = 1..n
  BY SeqIs
<1>. HIDE DEF n
<1>2. g = [i \in 1..n |-> IF i = n THEN e ELSE s[i]]
  BY <1>1
<1>. HIDE DEF g
<1>3. g = [i \in 1..n |-> g[i]]
  BY <1>2
<1>4. IsSeq(g) /\ Len(g) = n
  BY <1>1, <1>3, FunctionIsSeq
<1>5. g[n] = e /\ \A i \in 1..n - 1 : g[i] = s[i]
  BY <1>1, <1>2
<1>. QED
  BY <1>4, <1>5 DEF Replaced, n, g

LEMMA AppendAppends ==
  ASSUME NEW s, IsSeq(s), NEW e
  PROVE  Appended(s, Append(s, e), e)
BY AppendIs DEF Appended

LEMMA PushedFirst ==
  ASSUME NEW m, Shape(m), m.i_current = leafs_ - 1, NEW item
  PROVE  PushesFirst(m, pushed(m, item), item) /\ IsObject(pushed(m, item))
<1>. DEFINE n == Len(m.trees)
            tr == m.trees
            p == pushed(m, item)
            row == [tr[n] EXCEPT ![leafs_ - 1] = item]
            all == [tr EXCEPT ![n] = row]
<1>1. p = [m EXCEPT !.trees[n][leafs_ - 1] = item, !.i_root = leafs_ - 1,
                    !.i_current = leafs_]
  BY Zenon DEF pushed
<1>2. n \in DOMAIN tr /\ IsSeq(tr) /\ n >= 1
  BY SeqIs DEF Shape
<1>3. p = [trees |-> all, i_current |-> leafs_, i_root |-> leafs_ - 1]
  BY <1>1, <1>2 DEF Shape, IsObject
<1>4. Replaced(tr, all, row)
  <2>. HIDE DEF row
  <2>. QED
    BY <1>2, ReplaceAt
<1>. HIDE DEF p, all, row
<1>5. p.trees = all /\ p.i_current = leafs_ /\ p.i_root = leafs_ - 1 /\ IsObject(p)
  BY <1>3 DEF IsObject
<1>. QED
  BY <1>4, <1>5 DEF PushesFirst, p, row, back

LEMMA PushedNext ==
  ASSUME NEW m, Shape(m), m.i_current # leafs_ - 1, m.i_current + 1 # size_, NEW item
  PROVE  PushesNext(m, pushed(m, item), item) /\ IsObject(pushed(m, item))
<1>. DEFINE p == pushed(m, item)
            w == Written(back(m.trees), m.i_current, item)
            all == Append(Front(m.trees), w.tree)
<1>1. p = [trees |-> all, i_current |-> m.i_current + 1, i_root |-> w.node]
  BY Zenon DEF pushed
<1>. HIDE DEF w
<1>2. Replaced(m.trees, all, w.tree)
  <2>1. IsSeq(m.trees) /\ Len(m.trees) >= 1
    BY DEF Shape
  <2>. QED
    BY <2>1, ReplaceLast
<1>. HIDE DEF p, all
<1>3. /\ p.trees = all /\ p.i_current = m.i_current + 1 /\ p.i_root = w.node
      /\ IsObject(p)
  BY <1>1 DEF IsObject
<1>. QED
  BY <1>2, <1>3 DEF PushesNext, p, w

LEMMA PushedLast ==
  ASSUME NEW m, Shape(m), m.i_current # leafs_ - 1, m.i_current + 1 = size_, NEW item
  PROVE  PushesLast(m, pushed(m, item), item) /\ IsObject(pushed(m, item))
<1>. DEFINE p == pushed(m, item)
            w == Written(back(m.trees), m.i_current, item)
            all == Append(Front(m.trees), w.tree)
            next == NextTree(w.tree[0])
            kept == IF Len(all) + 1 = ctorBlocks + 2 THEN Tail(all) ELSE all
<1>1. p = [trees |-> Append(kept, next), i_current |-> leafs_, i_root |-> leafs_ - 1]
  BY Zenon DEF pushed, NextTree
<1>. HIDE DEF w, next
<1>2. Replaced(m.trees, all, w.tree)
  <2>1. IsSeq(m.trees) /\ Len(m.trees) >= 1
    BY DEF Shape
  <2>. QED
    BY <2>1, ReplaceLast
<1>. HIDE DEF p, all
<1>3. /\ p.trees = Append(kept, next) /\ p.i_current = leafs_
      /\ p.i_root = leafs_ - 1 /\ IsObject(p)
  BY <1>1 DEF IsObject
<1>4. IsSeq(all) /\ Len(all) \in Nat /\ Len(all) >= 1
  BY <1>2 DEF Replaced, Shape
<1>5. IsSeq(kept)
  BY <1>4, TailIs
<1>6. Appended(kept, p.trees, next)
  BY <1>3, <1>5, AppendAppends
<1>7. kept = IF Len(all) = ctorBlocks + 1 THEN Tail(all) ELSE all
  BY <1>4, BlocksIs
<1>. HIDE DEF kept
<1>8. IF Len(all) = ctorBlocks + 1 THEN Appended(Tail(all), p.trees, next)
      ELSE Appended(all, p.trees, next)
  BY <1>6, <1>7
<1>. QED
  BY <1>2, <1>3, <1>8 DEF PushesLast, p, w, next
-----------------------------------------------------------------------------
(* Where push leaves the pointer, and how many trees.                       *)
Moves(m, p) ==
  /\ m.i_current = leafs_ - 1 =>
       p.i_current = leafs_ /\ Len(p.trees) = Len(m.trees)
  /\ m.i_current # leafs_ - 1 /\ m.i_current + 1 # size_ =>
       p.i_current = m.i_current + 1 /\ Len(p.trees) = Len(m.trees)
  /\ m.i_current # leafs_ - 1 /\ m.i_current + 1 = size_ =>
       /\ p.i_current = leafs_
       /\ Len(p.trees) = IF Len(m.trees) = ctorBlocks + 1 THEN Len(m.trees)
                         ELSE Len(m.trees) + 1

LEMMA ReplacedShape ==
  ASSUME NEW s, IsSeq(s), Len(s) >= 1, \A t \in 1..Len(s) : IsArray(s[t]),
         NEW r, NEW e, Replaced(s, r, e), IsArray(e)
  PROVE  \A t \in 1..Len(r) : IsArray(r[t])
<1>1. Len(s) \in Nat
  BY SeqIs
<1>. QED
  BY <1>1 DEF Replaced

LEMMA AppendedShape ==
  ASSUME NEW s, IsSeq(s), \A t \in 1..Len(s) : IsArray(s[t]),
         NEW r, NEW e, Appended(s, r, e), IsArray(e)
  PROVE  \A t \in 1..Len(r) : IsArray(r[t])
<1>1. Len(s) \in Nat
  BY SeqIs
<1>. QED
  BY <1>1 DEF Appended

LEMMA ArrayExcept ==
  ASSUME NEW tree, IsArray(tree), NEW i, NEW e
  PROVE  IsArray([tree EXCEPT ![i] = e])
BY DEF IsArray

LEMMA EmptyIsArray == IsArray(EmptyTree)
BY DEF IsArray, EmptyTree

LEMMA WrittenIsArray ==
  ASSUME NEW m, Shape(m), m.i_current # leafs_ - 1, NEW item
  PROVE  /\ IsArray(Written(back(m.trees), m.i_current, item).tree)
         /\ Written(back(m.trees), m.i_current, item).node \in 0..leafs_ - 1
<1>. DEFINE tree == back(m.trees)
            w == Written(tree, m.i_current, item)
<1>1. IsArray(tree)
  BY DEF Shape, back
<1>2. m.i_current \in leafs_..size_ - 1
  BY LeafsIs, SizeIs DEF Shape
<1>. HIDE DEF tree
<1>3. InArray(w) /\ w.node \in 0..leafs_ - 2
  BY <1>1, <1>2, WrittenShape DEF IsArray
<1>. HIDE DEF w
<1>4. IsArray(w.tree) /\ w.node \in 0..leafs_ - 1
  BY <1>3, LeafsIs DEF InArray, IsArray
<1>. QED
  BY <1>4 DEF w, tree

LEMMA PushShape ==
  ASSUME NEW m, Shape(m), NEW item
  PROVE  Shape(pushed(m, item)) /\ Moves(m, pushed(m, item))
<1>. DEFINE p == pushed(m, item)
            w == Written(back(m.trees), m.i_current, item)
<1>1. /\ IsSeq(m.trees) /\ Len(m.trees) \in Nat /\ Len(m.trees) >= 1
      /\ Len(m.trees) <= ctorBlocks + 1
      /\ \A t \in 1..Len(m.trees) : IsArray(m.trees[t])
      /\ IsArray(back(m.trees))
  BY BlocksIs DEF Shape, back
<1>. HIDE DEF w
<1>2. CASE m.i_current = leafs_ - 1
  <2>1. PushesFirst(m, p, item) /\ IsObject(p)
    BY <1>2, PushedFirst
  <2>. HIDE DEF p
  <2>2. \A t \in 1..Len(p.trees) : IsArray(p.trees[t])
    BY <1>1, <2>1, ArrayExcept, ReplacedShape DEF PushesFirst
  <2>3. IsSeq(p.trees) /\ Len(p.trees) = Len(m.trees) /\ p.i_current = leafs_
        /\ p.i_root = leafs_ - 1
    BY <2>1 DEF PushesFirst, Replaced
  <2>4. leafs_ \in leafs_ - 1..size_ - 1 /\ leafs_ - 1 \in 0..leafs_ - 1
    BY LeafsIs, SizeIs
  <2>. QED
    BY <1>1, <1>2, <2>1, <2>2, <2>3, <2>4, BlocksIs DEF Shape, Moves, p
<1>3. CASE m.i_current # leafs_ - 1 /\ m.i_current + 1 # size_
  <2>1. PushesNext(m, p, item) /\ IsObject(p)
    BY <1>3, PushedNext
  <2>. HIDE DEF p
  <2>2. IsArray(w.tree) /\ w.node \in 0..leafs_ - 1
    BY <1>3, WrittenIsArray DEF w
  <2>3. Replaced(m.trees, p.trees, w.tree) /\ p.i_current = m.i_current + 1
        /\ p.i_root = w.node
    BY <2>1 DEF PushesNext, w
  <2>4. \A t \in 1..Len(p.trees) : IsArray(p.trees[t])
    BY <1>1, <2>2, <2>3, ReplacedShape
  <2>5. IsSeq(p.trees) /\ Len(p.trees) = Len(m.trees)
    BY <2>3 DEF Replaced
  <2>6. p.i_current \in leafs_ - 1..size_ - 1
    BY <1>3, <2>3, LeafsIs, SizeIs DEF Shape
  <2>. QED
    BY <1>1, <1>3, <2>1, <2>2, <2>3, <2>4, <2>5, <2>6, BlocksIs DEF Shape, Moves, p
<1>4. CASE m.i_current # leafs_ - 1 /\ m.i_current + 1 = size_
  <2>1. PushesLast(m, p, item) /\ IsObject(p)
    BY <1>4, PushedLast
  <2>. HIDE DEF p
  <2>. DEFINE next == NextTree(w.tree[0])
  <2>2. IsArray(w.tree)
    BY <1>4, WrittenIsArray DEF w
  <2>3. IsArray(next)
    BY EmptyIsArray, ArrayExcept DEF NextTree
  <2>. HIDE DEF next
  <2>4. PICK all : /\ Replaced(m.trees, all, w.tree)
                   /\ IF Len(all) = ctorBlocks + 1
                      THEN Appended(Tail(all), p.trees, next)
                      ELSE Appended(all, p.trees, next)
    BY <2>1 DEF PushesLast, w, next
  <2>5. IsSeq(all) /\ Len(all) = Len(m.trees) /\ \A t \in 1..Len(all) : IsArray(all[t])
    BY <1>1, <2>2, <2>4, ReplacedShape DEF Replaced
  <2>6. p.i_current = leafs_ /\ p.i_root = leafs_ - 1
    BY <2>1 DEF PushesLast
  <2>7. CASE Len(all) = ctorBlocks + 1
    <3>. DEFINE kept == Tail(all)
    <3>1. /\ IsSeq(kept) /\ Len(kept) = Len(all) - 1
          /\ \A i \in 1..Len(all) - 1 : kept[i] = all[i + 1]
      BY <1>1, <2>5, TailIs
    <3>. HIDE DEF kept
    <3>2. \A t \in 1..Len(kept) : IsArray(kept[t])
      BY <1>1, <2>5, <3>1
    <3>3. Appended(kept, p.trees, next)
      BY <2>4, <2>7 DEF kept
    <3>4. \A t \in 1..Len(p.trees) : IsArray(p.trees[t])
      BY <2>3, <3>1, <3>2, <3>3, AppendedShape
    <3>5. IsSeq(p.trees) /\ Len(p.trees) = Len(m.trees)
      BY <1>1, <2>5, <3>1, <3>3 DEF Appended
    <3>6. Len(m.trees) = ctorBlocks + 1 /\ Len(p.trees) = ctorBlocks + 1
      BY <2>5, <2>7, <3>5
    <3>7. ctorBlocks + 1 \in 1..ctorBlocks + 1
      BY BlocksIs
    <3>. QED
      BY <1>4, <2>1, <2>6, <3>4, <3>5, <3>6, <3>7, LeafsIs, SizeIs DEF Shape, Moves, p
  <2>8. CASE Len(all) # ctorBlocks + 1
    <3>1. Appended(all, p.trees, next)
      BY <2>4, <2>8
    <3>2. \A t \in 1..Len(p.trees) : IsArray(p.trees[t])
      BY <2>3, <2>5, <3>1, AppendedShape
    <3>3. IsSeq(p.trees) /\ Len(p.trees) = Len(m.trees) + 1
      BY <2>5, <3>1 DEF Appended
    <3>4. Len(p.trees) \in 1..ctorBlocks + 1
      BY <1>1, <2>5, <2>8, <3>3, BlocksIs
    <3>. QED
      BY <1>1, <1>4, <2>1, <2>5, <2>6, <2>8, <3>2, <3>3, <3>4, LeafsIs, SizeIs
         DEF Shape, Moves, p
  <2>. QED
    BY <2>7, <2>8
<1>. QED
  BY <1>2, <1>3, <1>4
-----------------------------------------------------------------------------
LEMMA Times ==
  ASSUME NEW a \in Int, NEW b \in Int, NEW u \in Int
  PROVE  a * u \in Int /\ (a + b) * u = a * u + b * u /\ (a - b) * u = a * u - b * u
OBVIOUS

LEMMA TimesMonotone ==
  ASSUME NEW a \in Int, NEW b \in Int, NEW u \in Nat, a <= b
  PROVE  a * u <= b * u
<1>1. (b - a) * u >= 0
  <2>. DEFINE c == b - a
  <2>1. c \in Nat
    OBVIOUS
  <2>. HIDE DEF c
  <2>2. c * u >= 0
    BY <2>1
  <2>. QED
    BY <2>2 DEF c
<1>2. (b - a) * u = b * u - a * u /\ b * u \in Int /\ a * u \in Int
  BY Times
<1>. QED
  BY <1>1, <1>2

(* How many whole trees a rollback of n removes before it looks into one.   *)
Whole(n) ==
  CHOOSE k \in 0..n : /\ n - k * (leafs_ - 1) < leafs_
                      /\ \A j \in 0..k - 1 : n - j * (leafs_ - 1) >= leafs_

LEMMA WholeIs ==
  ASSUME NEW n \in Nat \ {0}
  PROVE  /\ Whole(n) \in Nat
         /\ n - Whole(n) * (leafs_ - 1) \in 1..leafs_ - 1
<1>. DEFINE u == leafs_ - 1
            T == {k \in Nat : n - k * u < leafs_}
<1>1. u \in Nat /\ u >= 1 /\ leafs_ = u + 1
  BY LeafsIs
<1>. HIDE DEF u
<1>2. \A k \in Nat : k * u \in Nat
  BY <1>1
<1>3. n \in T
  <2>1. 1 * n <= u * n
    BY <1>1, TimesMonotone
  <2>2. n <= n * u
    BY <2>1, <1>1
  <2>. QED
    BY <1>1, <1>2, <2>2
<1>4. PICK k \in T : \A j \in T : k <= j
  BY <1>3, LeastNat
<1>5. k \in 0..n
  BY <1>3, <1>4
<1>6. \A j \in 0..k - 1 : n - j * u >= leafs_
  <2>. TAKE j \in 0..k - 1
  <2>1. j \in Nat /\ ~(k <= j)
    BY <1>5
  <2>2. ~(n - j * u < leafs_)
    BY <1>4, <2>1
  <2>3. j * u \in Nat
    BY <1>2, <2>1
  <2>. HIDE DEF T
  <2>. QED
    BY <1>1, <2>2, <2>3
<1>7. n - k * u < leafs_
  BY <1>4
<1>. HIDE DEF T
<1>8. \E v \in 0..n : n - v * u < leafs_ /\ \A j \in 0..v - 1 : n - j * u >= leafs_
  BY <1>5, <1>6, <1>7
<1>. DEFINE w == Whole(n)
<1>9. w \in 0..n /\ n - w * u < leafs_ /\ \A j \in 0..w - 1 : n - j * u >= leafs_
  BY <1>8, Zenon DEF Whole, u
<1>. HIDE DEF w
<1>10. n - w * u >= 1
  <2>1. CASE w = 0
    BY <2>1, <1>1
  <2>2. CASE w # 0
    <3>. DEFINE j == w - 1
    <3>1. j \in 0..w - 1 /\ w = j + 1 /\ j \in Int
      BY <1>9, <2>2
    <3>. HIDE DEF j
    <3>2. n - j * u >= leafs_
      BY <1>9, <3>1
    <3>3. w * u = j * u + 1 * u /\ j * u \in Int
      BY <1>1, <3>1, Times
    <3>. QED
      BY <1>1, <3>2, <3>3
  <2>. QED
    BY <2>1, <2>2
<1>11. w * u \in Nat
  BY <1>2, <1>9
<1>. QED
  BY <1>1, <1>9, <1>10, <1>11 DEF u, w

(* How many leaves are behind the first of the first tree.                  *)
Depth(m) == (Len(m.trees) - 1) * (leafs_ - 1) + (m.i_current - leafs_)

LEMMA DepthIs ==
  ASSUME NEW m, Shape(m), m.i_current # leafs_ - 1
  PROVE  Depth(m) \in Nat /\ max_rollback(m) = Depth(m)
<1>. DEFINE u == leafs_ - 1
            k == Len(m.trees) - 1
            i == m.i_current - leafs_
<1>1. u \in Nat /\ leafs_ = u + 1 /\ leafs_ <= ctorLeafs /\ ctorLeafs \in Nat
  BY LeafsIs, MerkleTreeAssumption
<1>2. k \in Nat /\ k <= ctorBlocks /\ i \in Nat /\ i <= u
  BY LeafsIs, SizeIs, BlocksIs DEF Shape
<1>3. Depth(m) = k * u + i
  BY DEF Depth
<1>. HIDE DEF u, k, i
<1>4. k * u <= ctorBlocks * u
  BY <1>1, <1>2, BlocksIs, TimesMonotone
<1>5. u * ctorBlocks <= ctorLeafs * ctorBlocks
  BY <1>1, BlocksIs, TimesMonotone
<1>. DEFINE d == k * u
            c == ctorBlocks * u
            f == ctorBlocks * ctorLeafs
            D == Depth(m)
<1>6. d \in Nat /\ c \in Nat /\ f \in Nat /\ c <= f
  BY <1>1, <1>2, <1>5, BlocksIs
<1>7. (ctorBlocks + 1) * 2 * ctorLeafs = 2 * f + 2 * ctorLeafs
  BY <1>1, BlocksIs
<1>8. SizeWord \in Nat /\ SizeWord > 2 * f + 2 * ctorLeafs
  BY <1>7, MerkleTreeAssumption
<1>9. d <= c /\ D = d + i
  BY <1>3, <1>4
<1>10. max_rollback(m) = D % SizeWord
  BY DEF max_rollback, Depth
<1>. HIDE DEF d, c, f, D
<1>11. D \in Nat /\ D < SizeWord
  BY <1>1, <1>2, <1>6, <1>8, <1>9
<1>12. D % SizeWord = D
  BY <1>8, <1>11
<1>. QED
  BY <1>10, <1>11, <1>12 DEF D
-----------------------------------------------------------------------------
(* The tree as rollback of n leaves it before it pushes the last leaf again *)
(* is h: the first of the trees, and fewer leaves in the last of them.      *)
CutTo(m, n, h) ==
  /\ Shape(h)
  /\ Len(h.trees) <= Len(m.trees)
  /\ IsStart(h.trees, m.trees, Len(h.trees))
  /\ h.i_current + 1 # size_
  /\ Len(h.trees) = Len(m.trees) => h.i_current + 1 < m.i_current
  /\ (Len(h.trees) - 1) * (leafs_ - 1) + (h.i_current + 1 - leafs_) = Depth(m) - n

LEMMA StartShape ==
  ASSUME NEW m, Shape(m), NEW k \in 1..Len(m.trees), NEW r, IsStart(r, m.trees, k),
         NEW i \in leafs_ - 1..size_ - 1, NEW j \in 0..leafs_ - 1
  PROVE  Shape([trees |-> r, i_current |-> i, i_root |-> j])
<1>. DEFINE h == [trees |-> r, i_current |-> i, i_root |-> j]
<1>1. h.trees = r /\ h.i_current = i /\ h.i_root = j /\ IsObject(h)
  BY DEF IsObject
<1>. HIDE DEF h
<1>2. IsSeq(r) /\ Len(r) = k /\ \A t \in 1..k : r[t] = m.trees[t]
  BY DEF IsStart
<1>3. Len(m.trees) \in Nat /\ Len(m.trees) <= ctorBlocks + 1
      /\ \A t \in 1..Len(m.trees) : IsArray(m.trees[t])
  BY BlocksIs DEF Shape
<1>4. \A t \in 1..Len(r) : IsArray(r[t])
  BY <1>2, <1>3
<1>5. Len(r) \in 1..ctorBlocks + 1
  BY <1>2, <1>3, BlocksIs
<1>. QED
  BY <1>1, <1>2, <1>4, <1>5 DEF Shape, h

(* Whole trees are left after a rollback: the arithmetic of it.             *)
LEMMA WholeLeaves ==
  ASSUME NEW u \in Nat, u >= 1, NEW T \in Nat, NEW i \in 0..u - 1, NEW w \in Nat,
         NEW s \in 1..u, w * u + s <= (T - 1) * u + i
  PROVE  w <= T - 1 /\ (s > i => w <= T - 2)
<1>1. w * u \in Int /\ (T - 1) * u \in Int
  BY Times
<1>2. CASE w >= T
  <2>1. T * u <= w * u
    BY <1>2, TimesMonotone
  <2>2. (T - 1) * u = T * u - 1 * u /\ T * u \in Int
    BY Times
  <2>. QED
    BY <1>1, <2>1, <2>2
<1>3. CASE w = T - 1
  <2>1. w * u = (T - 1) * u
    BY <1>3
  <2>. QED
    BY <1>1, <1>3, <2>1
<1>4. CASE w <= T - 2
  BY <1>4
<1>. QED
  BY <1>2, <1>3, <1>4

LEMMA CutIs ==
  ASSUME NEW m, Shape(m), m.i_current # leafs_ - 1, NEW n \in 1..Depth(m)
  PROVE  \E h : /\ CutTo(m, n, h)
                /\ rolledBack(m, n) = pushed(h, back(h.trees)[h.i_current])
<1>. DEFINE u == leafs_ - 1
            T == Len(m.trees)
            i == m.i_current - leafs_
            w == Whole(n)
            s == n - w * u
            tr == m.trees
            popped == SubSeq(tr, 1, T - w)
            inLast == [trees |-> popped, i_root |-> m.i_root,
                       i_current |-> m.i_current - s - 1]
            inPrevious == [trees |-> Front(popped), i_root |-> 0,
                           i_current |-> size_ - (s - (m.i_current - leafs_)) - 1]
            here == IF m.i_current - s < leafs_ THEN inPrevious ELSE inLast
<1>1. rolledBack(m, n) = pushed(here, back(here.trees)[here.i_current])
  BY Zenon DEF rolledBack, Whole
<1>2. u \in Nat /\ u >= 1 /\ leafs_ = u + 1 /\ size_ = 2 * u + 1
  BY LeafsIs, SizeIs
<1>3. T \in Nat /\ T >= 1 /\ i \in 0..u - 1 /\ m.i_current = u + 1 + i /\ IsSeq(tr)
  BY LeafsIs, SizeIs, BlocksIs DEF Shape
<1>4. Depth(m) = (T - 1) * u + i /\ Depth(m) \in Nat
  BY DepthIs DEF Depth
<1>5. n \in Nat \ {0} /\ n <= (T - 1) * u + i
  BY <1>4
<1>. HIDE DEF u
<1>6. w \in Nat /\ s \in 1..u
  BY <1>5, WholeIs DEF u
<1>. HIDE DEF w, T, i
<1>7. w * u \in Int /\ (T - 1) * u \in Int
  BY <1>2, <1>3, <1>6, Times
<1>8. w * u + s = n
  BY <1>5, <1>7
<1>. HIDE DEF s
<1>9. w <= T - 1 /\ (s > i => w <= T - 2)
  BY <1>2, <1>3, <1>5, <1>6, <1>8, WholeLeaves
<1>. DEFINE a == T - w
<1>10. a \in Nat /\ a >= 1 /\ a <= T /\ (s > i => a >= 2)
  BY <1>3, <1>6, <1>9
<1>11. (a - 1) * u = (T - 1) * u - w * u
  <2>1. (T - 1 - w) * u = (T - 1) * u - w * u
    BY <1>2, <1>3, <1>6, Times
  <2>2. T - 1 - w = a - 1
    BY <1>3, <1>6
  <2>. QED
    BY <2>1, <2>2
<1>12. IsStart(popped, tr, a)
  BY <1>3, <1>10, StartIs DEF T
<1>. HIDE DEF popped
<1>13. CASE s > i
  <2>. DEFINE b == a - 1
              j == 2 * u - (s - i)
              h == [trees |-> Front(popped), i_current |-> j, i_root |-> 0]
  <2>1. j \in u..2 * u - 1 /\ b \in 1..T /\ b < T /\ b <= a /\ b \in Nat
    BY <1>2, <1>3, <1>6, <1>10, <1>13
  <2>2. m.i_current - s < leafs_ /\ size_ - (s - (m.i_current - leafs_)) - 1 = j
    BY <1>2, <1>3, <1>6, <1>13
  <2>3. here = h
    BY <2>2
  <2>4. IsStart(Front(popped), popped, b)
    <3>1. IsSeq(popped) /\ Len(popped) = a
      BY <1>12 DEF IsStart
    <3>2. Front(popped) = SubSeq(popped, 1, b)
      BY <3>1, Zenon DEF Front
    <3>. QED
      BY <1>10, <2>1, <3>1, <3>2, StartIs
  <2>. DEFINE r == Front(popped)
  <2>. HIDE DEF r, b, j, a
  <2>5. IsStart(r, tr, b)
    <3>1. \A t \in 1..b : r[t] = popped[t]
      BY <2>4 DEF IsStart, r
    <3>2. \A t \in 1..a : popped[t] = tr[t]
      BY <1>12 DEF IsStart
    <3>3. \A t \in 1..b : t \in 1..a
      BY <2>1, <1>10
    <3>4. \A t \in 1..b : r[t] = tr[t]
      BY <3>1, <3>2, <3>3
    <3>. QED
      BY <2>4, <3>4 DEF IsStart, r
  <2>6. Shape(h)
    <3>1. j \in leafs_ - 1..size_ - 1 /\ 0 \in 0..leafs_ - 1
      BY <1>2, <2>1
    <3>. QED
      BY <2>1, <2>5, <3>1, StartShape DEF T, r
  <2>7. h.trees = r /\ h.i_current = j /\ Len(r) = b
    BY <2>5 DEF IsStart, r
  <2>8. (b - 1) * u + (j + 1 - leafs_) = Depth(m) - n
    <3>1. (b - 1) * u = (a - 1) * u - 1 * u /\ (a - 1) * u \in Int
      <4>1. (a - 1 - 1) * u = (a - 1) * u - 1 * u /\ (a - 1) * u \in Int
        BY <1>2, <1>10, Times
      <4>2. a - 1 - 1 = b - 1
        BY <1>10 DEF b
      <4>. QED
        BY <4>1, <4>2
    <3>2. j + 1 - leafs_ = u - s + i
      BY <1>2, <1>3, <1>6 DEF j
    <3>. QED
      BY <1>2, <1>3, <1>4, <1>6, <1>7, <1>8, <1>11, <3>1, <3>2
  <2>9. j + 1 # size_
    BY <1>2, <2>1
  <2>. HIDE DEF h
  <2>10. CutTo(m, n, h)
    BY <2>1, <2>5, <2>6, <2>7, <2>8, <2>9 DEF CutTo, T, u
  <2>. QED
    BY <1>1, <2>3, <2>10
<1>14. CASE ~(s > i)
  <2>. DEFINE j == u + i - s
              h == [trees |-> popped, i_current |-> j, i_root |-> m.i_root]
  <2>1. j \in u..2 * u - 1 /\ a \in 1..T
    BY <1>2, <1>3, <1>6, <1>10, <1>14
  <2>2. ~(m.i_current - s < leafs_) /\ m.i_current - s - 1 = j
    BY <1>2, <1>3, <1>6, <1>14
  <2>3. here = h
    BY <2>2
  <2>. HIDE DEF j, a
  <2>4. Shape(h)
    <3>1. j \in leafs_ - 1..size_ - 1 /\ m.i_root \in 0..leafs_ - 1
      BY <1>2, <2>1 DEF Shape
    <3>. QED
      BY <1>12, <2>1, <3>1, StartShape DEF T
  <2>5. h.trees = popped /\ h.i_current = j /\ Len(popped) = a
    BY <1>12 DEF IsStart
  <2>6. (a - 1) * u + (j + 1 - leafs_) = Depth(m) - n
    <3>1. j + 1 - leafs_ = i - s
      BY <1>2, <1>3, <1>6 DEF j
    <3>. QED
      BY <1>2, <1>3, <1>4, <1>6, <1>7, <1>8, <1>11, <3>1
  <2>7. j + 1 # size_ /\ j + 1 < m.i_current
    BY <1>2, <1>3, <1>6, <2>1 DEF j
  <2>. HIDE DEF h
  <2>8. CutTo(m, n, h)
    BY <1>10, <1>12, <2>4, <2>5, <2>6, <2>7 DEF CutTo, T, u
  <2>. QED
    BY <1>1, <2>3, <2>8
<1>. QED
  BY <1>13, <1>14
-----------------------------------------------------------------------------
(* w[k] is the tree after the first k pushes of leaves into a fresh one.    *)
Load(w, leaves, n) ==
  w = [k \in 0..n |-> IF k = 0 THEN Fresh ELSE pushed(w[k - 1], leaves[k])]

Loads(w, leaves, n) ==
  /\ w[0] = Fresh
  /\ \A k \in Nat : k + 1 <= n => w[k + 1] = pushed(w[k], leaves[k + 1])

LEMMA LoadExists ==
  ASSUME NEW leaves, NEW n \in Nat
  PROVE  \E w : Load(w, leaves, n)
<1>. DEFINE T == {m \in Nat : \E w : Load(w, leaves, m)}
<1>1. 0 \in T
  <2>1. Load([k \in 0..0 |-> Fresh], leaves, 0)
    BY DEF Load
  <2>. QED
    BY <2>1
<1>2. ASSUME NEW m \in Nat, m \in T PROVE m + 1 \in T
  <2>1. PICK w : Load(w, leaves, m)
    BY <1>2
  <2>. DEFINE v == [k \in 0..m + 1 |-> IF k = m + 1
                                       THEN pushed(w[m], leaves[m + 1])
                                       ELSE w[k]]
  <2>2. ASSUME NEW k \in 0..m + 1
        PROVE  v[k] = IF k = 0 THEN Fresh ELSE pushed(v[k - 1], leaves[k])
    BY <2>1 DEF Load
  <2>3. Load(v, leaves, m + 1)
    BY <2>2 DEF Load
  <2>. QED
    BY <2>3
<1>. HIDE DEF T
<1>3. Nat \subseteq T
  BY <1>1, <1>2, NatInduct
<1>. QED
  BY <1>3 DEF T

LEMMA ReloadedIsLast ==
  ASSUME NEW leaves, Len(leaves) \in Nat
  PROVE  \E w : Loads(w, leaves, Len(leaves)) /\ Reloaded(leaves) = w[Len(leaves)]
<1>. DEFINE n == Len(leaves)
            w == CHOOSE w : Load(w, leaves, n)
<1>1. Load(w, leaves, n)
  BY LoadExists
<1>2. Reloaded(leaves) = w[n]
  BY Zenon DEF Reloaded, Load
<1>. HIDE DEF w, n
<1>3. Loads(w, leaves, n)
  <2>1. n \in Nat
    BY DEF n
  <2>. QED
    BY <1>1, <2>1 DEF Load, Loads
<1>. QED
  BY <1>2, <1>3 DEF n

LEMMA FreshShape ==
  Shape(Fresh) /\ Fresh.i_current = leafs_ - 1 /\ Len(Fresh.trees) = 1
               /\ Fresh.trees[1] = EmptyTree
<1>. DEFINE tr == <<EmptyTree>>
<1>1. IsObject(Fresh) /\ Fresh.trees = tr /\ Fresh.i_current = leafs_ - 1
      /\ Fresh.i_root = leafs_ - 1
  BY DEF Fresh, IsObject
<1>2. Len(tr) = 1 /\ tr[1] = EmptyTree /\ tr \in Seq({EmptyTree})
  OBVIOUS
<1>. HIDE DEF tr
<1>3. IsSeq(tr)
  BY <1>2, AnySeq
<1>4. \A t \in 1..1 : IsArray(tr[t])
  BY <1>2, EmptyIsArray
<1>5. 1 \in 1..ctorBlocks + 1 /\ leafs_ - 1 \in leafs_ - 1..size_ - 1
      /\ leafs_ - 1 \in 0..leafs_ - 1
  BY BlocksIs, LeafsIs, SizeIs
<1>. QED
  BY <1>1, <1>2, <1>3, <1>4, <1>5 DEF Shape

(* While there is room the pushes of a load stay in one tree.               *)
Loaded(m, k) == Shape(m) /\ m.i_current = leafs_ - 1 + k /\ Len(m.trees) = 1

LEMMA LoadedShape ==
  ASSUME NEW leaves, NEW n \in 0..leafs_ - 1, NEW w, Loads(w, leaves, n)
  PROVE  \A k \in 0..n : Loaded(w[k], k)
<1>. DEFINE T == {k \in Nat : k <= n => Loaded(w[k], k)}
<1>1. 0 \in T
  BY FreshShape, LeafsIs DEF Loads, Loaded
<1>2. ASSUME NEW k \in Nat, k \in T PROVE k + 1 \in T
  <2>1. SUFFICES ASSUME k + 1 <= n PROVE Loaded(w[k + 1], k + 1)
    OBVIOUS
  <2>. DEFINE m == w[k]
              p == pushed(m, leaves[k + 1])
  <2>2. w[k + 1] = p
    BY <2>1 DEF Loads
  <2>3. Loaded(m, k) /\ k + 1 <= leafs_ - 1
    BY <1>2, <2>1, LeafsIs
  <2>. HIDE DEF m
  <2>4. Shape(p) /\ Moves(m, p)
    BY <2>3, PushShape DEF Loaded
  <2>. HIDE DEF p
  <2>5. CASE k = 0
    <3>1. m.i_current = leafs_ - 1
      BY <2>3, <2>5, LeafsIs DEF Loaded
    <3>. QED
      BY <2>2, <2>3, <2>4, <2>5, <3>1, LeafsIs DEF Moves, Loaded
  <2>6. CASE k # 0
    <3>1. m.i_current # leafs_ - 1 /\ m.i_current + 1 # size_
          /\ m.i_current + 1 = leafs_ - 1 + (k + 1)
      BY <2>3, <2>6, LeafsIs, SizeIs DEF Loaded
    <3>. QED
      BY <2>2, <2>3, <2>4, <3>1 DEF Moves, Loaded
  <2>. QED
    BY <2>5, <2>6
<1>. HIDE DEF T
<1>3. Nat \subseteq T
  BY <1>1, <1>2, NatInduct
<1>. QED
  BY <1>3, LeafsIs DEF T

LEMMA BlockIs ==
  ASSUME NEW m, Shape(m)
  PROVE  /\ IsSeq(LastBlock(m))
         /\ Len(LastBlock(m)) = m.i_current - (leafs_ - 1)
         /\ Len(LastBlock(m)) \in 0..leafs_ - 1
         /\ \A i \in 1..Len(LastBlock(m)) : LastBlock(m)[i] = back(m.trees)[leafs_ - 2 + i]
<1>. DEFINE n == m.i_current - (leafs_ - 1)
            b == LastBlock(m)
<1>1. n \in 0..leafs_ - 1 /\ n \in Nat
  BY LeafsIs, SizeIs DEF Shape
<1>2. b = [i \in 1..n |-> back(m.trees)[leafs_ - 2 + i]]
  BY Zenon DEF LastBlock
<1>. HIDE DEF n, b
<1>3. b = [i \in 1..n |-> b[i]]
  BY <1>2
<1>4. IsSeq(b) /\ Len(b) = n
  BY <1>1, <1>3, FunctionIsSeq
<1>. QED
  BY <1>1, <1>2, <1>4 DEF n, b
-----------------------------------------------------------------------------
(* How the lengths of the log go with what is kept of it.                   *)
Counters ==
  /\ log \in Seq(Item)
  /\ pushes \in 0..MaxPushes
  /\ longest \in Nat /\ Len(log) <= longest /\ longest <= pushes
  /\ oldest \in Nat \ {0}
  /\ result \in {"OK", "bad_exception", "undefined"}
  /\ i_current = leafs_ - 1 =>
       Len(trees) = 1 /\ log = << >> /\ oldest = 1 /\ longest = 0
  /\ i_current # leafs_ - 1 =>
       /\ oldest <= Len(log) - Depth(This)
       /\ Len(log) - Depth(This) <=
            Max2(oldest, longest - ctorBlocks * (leafs_ - 1))

ShapeInv == Shape(This) /\ Counters

LEMMA InitShape == Init => ShapeInv
<1>. SUFFICES ASSUME Init PROVE ShapeInv
  OBVIOUS
<1>1. This = Fresh
  BY DEF Init, This, Fresh
<1>2. Shape(This) /\ i_current = leafs_ - 1 /\ Len(trees) = 1
  BY <1>1, FreshShape DEF Init
<1>3. << >> \in Seq(Item) /\ Len(<< >>) = 0
  BY EmptySeq
<1>. QED
  BY <1>2, <1>3, MerkleTreeAssumption DEF Init, ShapeInv, Counters

LEMMA BecomesThis ==
  ASSUME NEW m, IsObject(m), Becomes(m)
  PROVE  This' = m
BY DEF Becomes, This, IsObject
(* A push makes the tree deeper by one, unless the oldest array goes.       *)
LEMMA DepthMoves ==
  ASSUME NEW m, NEW p, Shape(m), Shape(p), Moves(m, p), m.i_current # leafs_ - 1
  PROVE  \/ Depth(p) = Depth(m) + 1
         \/ Depth(p) = ctorBlocks * (leafs_ - 1) /\ Depth(p) <= Depth(m)
<1>. DEFINE u == leafs_ - 1
            T == Len(m.trees)
            i == m.i_current - leafs_
<1>1. u \in Nat /\ u >= 1 /\ leafs_ = u + 1 /\ size_ = 2 * u + 1
  BY LeafsIs, SizeIs
<1>2. T \in Nat /\ T >= 1 /\ i \in 0..u - 1 /\ m.i_current = u + 1 + i
  BY LeafsIs, SizeIs, BlocksIs DEF Shape
<1>3. Depth(m) = (T - 1) * u + i
  BY DEF Depth
<1>4. Depth(p) = (Len(p.trees) - 1) * u + (p.i_current - leafs_)
  BY DEF Depth
<1>. HIDE DEF u, T, i
<1>5. (T - 1) * u \in Int /\ T * u = (T - 1) * u + u
  <2>1. (T - 1 + 1) * u = (T - 1) * u + 1 * u /\ (T - 1) * u \in Int
    BY <1>1, <1>2, Times
  <2>2. T - 1 + 1 = T /\ 1 * u = u
    BY <1>1, <1>2
  <2>. QED
    BY <2>1, <2>2
<1>6. CASE i # u - 1
  <2>1. m.i_current + 1 # size_
    BY <1>1, <1>2, <1>6
  <2>2. p.i_current = m.i_current + 1 /\ Len(p.trees) = T
    BY <2>1 DEF Moves, T
  <2>3. p.i_current - leafs_ = i + 1
    BY <1>1, <1>2, <2>2
  <2>. QED
    BY <1>2, <1>3, <1>4, <1>5, <2>2, <2>3
<1>7. CASE i = u - 1
  <2>1. m.i_current + 1 = size_
    BY <1>1, <1>2, <1>7
  <2>2. /\ p.i_current = leafs_
        /\ Len(p.trees) = IF T = ctorBlocks + 1 THEN T ELSE T + 1
    BY <2>1 DEF Moves, T
  <2>3. p.i_current - leafs_ = 0
    BY <1>1, <2>2
  <2>4. CASE T = ctorBlocks + 1
    <3>1. Len(p.trees) - 1 = ctorBlocks /\ T - 1 = ctorBlocks
      BY <2>2, <2>4, BlocksIs
    <3>2. ctorBlocks * u \in Int
      BY <1>1, BlocksIs
    <3>. QED
      BY <1>2, <1>3, <1>4, <2>3, <3>1, <3>2 DEF u
  <2>5. CASE T # ctorBlocks + 1
    <3>1. Len(p.trees) - 1 = T
      BY <1>2, <2>2, <2>5
    <3>2. Depth(p) = T * u
      BY <1>1, <1>2, <1>4, <1>5, <2>3, <3>1
    <3>. QED
      BY <1>1, <1>2, <1>3, <1>5, <1>7, <3>2
  <2>. QED
    BY <2>4, <2>5
<1>. QED
  BY <1>6, <1>7

LEMMA LogAppend ==
  ASSUME log \in Seq(Item), NEW item \in Item
  PROVE  Append(log, item) \in Seq(Item) /\ Len(Append(log, item)) = Len(log) + 1
OBVIOUS

LEMMA MaxIs ==
  ASSUME NEW a \in Int, NEW b \in Int
  PROVE  Max2(a, b) \in Int /\ Max2(a, b) >= a /\ Max2(a, b) >= b
         /\ (Max2(a, b) = a \/ Max2(a, b) = b)
BY DEF Max2

LEMMA PushKeepsShape ==
  ASSUME ShapeInv, NEW item \in Item, Push(item)
  PROVE  ShapeInv'
<1>. DEFINE m == This
            p == pushed(m, item)
            B == ctorBlocks * (leafs_ - 1)
<1>1. Shape(m) /\ Counters /\ m.i_current = i_current /\ m.trees = trees
  BY DEF ShapeInv, This
<1>. HIDE DEF m
<1>2. Shape(p) /\ Moves(m, p)
  BY <1>1, PushShape
<1>3. This' = p /\ trees' = p.trees /\ i_current' = p.i_current
  <2>1. Becomes(p)
    BY DEF Push, m
  <2>2. IsObject(p)
    BY <1>2 DEF Shape
  <2>. HIDE DEF p
  <2>. QED
    BY <2>1, <2>2, BecomesThis DEF Becomes
<1>. HIDE DEF p
<1>4. /\ log' \in Seq(Item) /\ Len(log') = Len(log) + 1 /\ Len(log) \in Nat
      /\ longest' = Max2(longest, Len(log) + 1)
      /\ pushes < MaxPushes /\ pushes' = pushes + 1 /\ result' = "OK"
      /\ oldest' = oldest
  BY <1>1, LogAppend DEF Push, Counters
<1>5. p.i_current # leafs_ - 1
  BY <1>1, <1>2, LeafsIs DEF Moves, Shape
<1>6. Depth(p) \in Nat
  BY <1>2, <1>5, DepthIs
<1>7. B \in Nat
  BY BlocksIs, LeafsIs
<1>. DEFINE l == longest'
<1>8. l \in Nat /\ Len(log) + 1 <= l /\ longest <= l /\ l <= pushes + 1
  BY <1>1, <1>4 DEF Counters, Max2
<1>. HIDE DEF B, l
<1>9. /\ oldest <= Len(log) + 1 - Depth(p)
      /\ Len(log) + 1 - Depth(p) <= Max2(oldest, l - B)
  <2>1. CASE i_current = leafs_ - 1
    <3>1. Depth(p) = 0 /\ Len(log) = 0 /\ oldest = 1
      <4>1. Len(p.trees) = 1 /\ p.i_current = leafs_
        BY <1>1, <1>2, <2>1 DEF Moves, Counters
      <4>2. log = << >> /\ oldest = 1
        BY <1>1, <2>1 DEF Counters
      <4>3. (1 - 1) * (leafs_ - 1) + (leafs_ - leafs_) = 0
        BY LeafsIs
      <4>. QED
        BY <4>1, <4>2, <4>3, EmptySeq DEF Depth
    <3>. QED
      BY <1>7, <1>8, <3>1, MaxIs
  <2>2. CASE i_current # leafs_ - 1
    <3>. DEFINE d == Depth(m)
                e == Depth(p)
    <3>1. /\ oldest <= Len(log) - d
          /\ Len(log) - d <= Max2(oldest, longest - B)
      BY <1>1, <2>2 DEF Counters, m, B
    <3>2. d \in Nat
      BY <1>1, <2>2, DepthIs
    <3>3. e = d + 1 \/ (e = B /\ e <= d)
      BY <1>1, <1>2, <2>2, DepthMoves DEF B
    <3>. HIDE DEF d, e
    <3>4. oldest \in Nat /\ longest \in Nat /\ e \in Nat
      BY <1>1, <1>6 DEF Counters, e
    <3>5. oldest <= Len(log) + 1 - e
      BY <1>4, <3>1, <3>2, <3>3, <3>4
    <3>6. Len(log) + 1 - e <= Max2(oldest, l - B)
      BY <1>4, <1>7, <1>8, <3>1, <3>2, <3>3, <3>4 DEF Max2
    <3>. QED
      BY <3>5, <3>6 DEF e
  <2>. QED
    BY <2>1, <2>2
<1>10. Counters'
  <2>1. pushes' \in 0..MaxPushes
    BY <1>1, <1>4, MerkleTreeAssumption DEF Counters
  <2>2. i_current' # leafs_ - 1
    BY <1>3, <1>5
  <2>3. oldest' \in Nat \ {0}
    BY <1>1, <1>4 DEF Counters
  <2>4. longest' \in Nat /\ Len(log') <= longest' /\ longest' <= pushes'
    BY <1>4, <1>8 DEF l
  <2>5. /\ oldest' <= Len(log') - Depth(This)'
        /\ Len(log') - Depth(This)' <=
             Max2(oldest', longest' - ctorBlocks * (leafs_ - 1))
    <3>1. Depth(This)' = Depth(p)
      BY <1>3
    <3>2. oldest' <= Len(log') - Depth(p)
      BY <1>4, <1>6, <1>9
    <3>3. Max2(oldest', longest' - ctorBlocks * (leafs_ - 1)) = Max2(oldest, l - B)
      BY <1>4 DEF l, B
    <3>4. Len(log') - Depth(p) <= Max2(oldest, l - B)
      BY <1>4, <1>6, <1>9
    <3>. QED
      BY <3>1, <3>2, <3>3, <3>4
  <2>6. log' \in Seq(Item) /\ result' \in {"OK", "bad_exception", "undefined"}
    BY <1>4
  <2>. QED
    BY <2>1, <2>2, <2>3, <2>4, <2>5, <2>6 DEF Counters
<1>11. Shape(This)'
  BY <1>2, <1>3
<1>. QED
  BY <1>10, <1>11 DEF ShapeInv

(* The push at the end of a rollback moves the pointer by one.              *)
LEMMA CutMoves ==
  ASSUME NEW m, NEW n, NEW h, CutTo(m, n, h), NEW item
  PROVE  /\ Shape(pushed(h, item))
         /\ pushed(h, item).i_current = h.i_current + 1
         /\ pushed(h, item).i_current # leafs_ - 1
         /\ Len(pushed(h, item).trees) = Len(h.trees)
         /\ Depth(pushed(h, item)) = Depth(m) - n
<1>. DEFINE p == pushed(h, item)
<1>1. Shape(h) /\ h.i_current + 1 # size_
  BY DEF CutTo
<1>2. Shape(p) /\ Moves(h, p)
  BY <1>1, PushShape
<1>. HIDE DEF p
<1>3. h.i_current \in leafs_ - 1..size_ - 1 /\ leafs_ - 1 \in Int /\ size_ \in Int
  BY <1>1, LeafsIs, SizeIs DEF Shape
<1>4. p.i_current = h.i_current + 1 /\ Len(p.trees) = Len(h.trees)
  BY <1>1, <1>2, LeafsIs DEF Moves
<1>5. p.i_current # leafs_ - 1
  BY <1>3, <1>4
<1>6. Depth(p) = (Len(h.trees) - 1) * (leafs_ - 1) + (h.i_current + 1 - leafs_)
  <2>1. Depth(p) = (Len(p.trees) - 1) * (leafs_ - 1) + (p.i_current - leafs_)
    BY DEF Depth
  <2>2. p.i_current - leafs_ = h.i_current + 1 - leafs_
    BY <1>3, <1>4, LeafsIs, SizeIs
  <2>. QED
    BY <1>4, <2>1, <2>2
<1>7. Depth(p) = Depth(m) - n
  BY <1>6 DEF CutTo
<1>. QED
  BY <1>2, <1>4, <1>5, <1>7 DEF p

LEMMA RollbackKeepsShape ==
  ASSUME ShapeInv, NEW n \in Nat, Rollback(n)
  PROVE  ShapeInv'
<1>. DEFINE m == This
<1>1. Shape(m) /\ Counters /\ m.i_current = i_current /\ m.trees = trees
  BY DEF ShapeInv, This
<1>2. UNCHANGED <<oldest, longest, pushes>>
  BY DEF Rollback
<1>3. CASE UNCHANGED <<trees, i_current, i_root, log>> /\ result' \in {"OK", "bad_exception", "undefined"}
  <2>1. This' = This
    BY <1>3 DEF This
  <2>2. Counters'
    BY <1>1, <1>2, <1>3, <2>1 DEF Counters
  <2>. QED
    BY <1>1, <2>1, <2>2 DEF ShapeInv
<1>4. CASE /\ n \in 1..max_rollback(This) /\ i_current # leafs_ - 1
           /\ Becomes(rolledBack(This, n))
           /\ result' = "OK"
           /\ log' = SubSeq(log, 1, Len(log) - n)
  <2>. HIDE DEF m
  <2>1. Depth(m) \in Nat /\ n \in 1..Depth(m)
    BY <1>1, <1>4, DepthIs DEF m
  <2>2. PICK h : /\ CutTo(m, n, h)
                 /\ rolledBack(m, n) = pushed(h, back(h.trees)[h.i_current])
    BY <1>1, <1>4, <2>1, CutIs
  <2>. DEFINE p == pushed(h, back(h.trees)[h.i_current])
  <2>3. Shape(p) /\ Depth(p) = Depth(m) - n /\ p.i_current # leafs_ - 1
    BY <2>2, CutMoves
  <2>. HIDE DEF p
  <2>4. This' = p /\ i_current' = p.i_current
    <3>1. Becomes(p) /\ IsObject(p)
      BY <1>4, <2>2, <2>3 DEF p, m, Shape
    <3>. QED
      BY <3>1, BecomesThis DEF Becomes
  <2>5. /\ oldest <= Len(log) - Depth(m)
        /\ Len(log) - Depth(m) <= Max2(oldest, longest - ctorBlocks * (leafs_ - 1))
        /\ log \in Seq(Item) /\ oldest \in Nat \ {0} /\ Len(log) <= longest
        /\ longest \in Nat
    BY <1>1, <1>4 DEF Counters, m
  <2>6. Len(log) \in Nat /\ n <= Len(log)
    BY <2>1, <2>5
  <2>7. log' \in Seq(Item) /\ Len(log') = Len(log) - n
    BY <1>4, <2>1, <2>5, <2>6
  <2>8. Depth(This)' = Depth(p)
    BY <2>4
  <2>. DEFINE d == Depth(m)
              e == Len(log')
  <2>9. d \in Nat /\ e \in Nat /\ e - Depth(This)' = Len(log) - d /\ e <= longest
    BY <2>1, <2>3, <2>5, <2>6, <2>7, <2>8
  <2>10. Counters'
    <3>1. i_current' # leafs_ - 1
      BY <2>3, <2>4
    <3>2. /\ oldest' <= Len(log') - Depth(This)'
          /\ Len(log') - Depth(This)' <= Max2(oldest', longest' - ctorBlocks * (leafs_ - 1))
      BY <1>2, <2>5, <2>9
    <3>3. /\ log' \in Seq(Item) /\ pushes' \in 0..MaxPushes
          /\ longest' \in Nat /\ Len(log') <= longest' /\ longest' <= pushes'
          /\ oldest' \in Nat \ {0} /\ result' \in {"OK", "bad_exception", "undefined"}
      BY <1>1, <1>2, <1>4, <2>7, <2>9 DEF Counters
    <3>. QED
      BY <3>1, <3>2, <3>3 DEF Counters
  <2>. QED
    BY <2>3, <2>4, <2>10 DEF ShapeInv
<1>. QED
  BY <1>3, <1>4 DEF Rollback

LEMMA ReloadKeepsShape ==
  ASSUME ShapeInv, SaveAndReload
  PROVE  ShapeInv'
<1>. DEFINE m == This
            b == LastBlock(m)
            n == Len(b)
<1>1. Shape(m) /\ Counters /\ m.i_current = i_current /\ m.trees = trees
  BY DEF ShapeInv, This
<1>. HIDE DEF m
<1>2. n = i_current - (leafs_ - 1) /\ n \in 0..leafs_ - 1 /\ n \in Nat
  BY <1>1, BlockIs, LeafsIs
<1>. HIDE DEF b
<1>3. PICK w : Loads(w, b, n) /\ Reloaded(b) = w[n]
  BY <1>2, ReloadedIsLast
<1>. DEFINE p == w[n]
<1>4. Loaded(p, n)
  <2>1. n \in 0..n
    BY <1>2
  <2>. QED
    BY <1>2, <1>3, <2>1, LoadedShape
<1>5. Becomes(p)
  BY <1>3 DEF SaveAndReload, b, m
<1>. HIDE DEF p, n
<1>6. Shape(p) /\ p.i_current = i_current /\ Len(p.trees) = 1 /\ IsObject(p)
  BY <1>2, <1>4, LeafsIs, <1>1 DEF Loaded, Shape
<1>7. This' = p /\ i_current' = i_current /\ Len(trees') = 1
  BY <1>5, <1>6, BecomesThis DEF Becomes
<1>. DEFINE i == i_current - leafs_
<1>8. /\ oldest' = Max2(1, Len(log) - i) /\ longest' = Len(log)
      /\ log' = log /\ pushes' = pushes /\ result' = "OK"
  BY DEF SaveAndReload
<1>9. Len(log) \in Nat /\ i \in Int
  BY <1>1, LeafsIs, SizeIs DEF Counters, Shape
<1>10. oldest' \in Nat \ {0}
  BY <1>8, <1>9 DEF Max2
<1>11. Depth(This)' = i
  <2>1. Depth(p) = (1 - 1) * (leafs_ - 1) + i
    BY <1>6 DEF Depth
  <2>2. Depth(p) = i
    BY <1>9, <2>1, LeafsIs
  <2>. QED
    BY <1>7, <2>2
<1>. HIDE DEF i
<1>12. i_current = leafs_ - 1 =>
         Len(trees') = 1 /\ log' = << >> /\ oldest' = 1 /\ longest' = 0
  <2>1. SUFFICES ASSUME i_current = leafs_ - 1
                 PROVE  log' = << >> /\ oldest' = 1 /\ longest' = 0
    BY <1>7
  <2>2. log = << >> /\ i = -1
    BY <1>1, <2>1, LeafsIs DEF Counters, i
  <2>3. Len(log) = 0
    BY <2>2, EmptySeq
  <2>. QED
    BY <1>8, <2>2, <2>3 DEF Max2
<1>13. i_current # leafs_ - 1 =>
         /\ oldest' <= Len(log') - Depth(This)'
         /\ Len(log') - Depth(This)' <= Max2(oldest', longest' - ctorBlocks * (leafs_ - 1))
  <2>1. SUFFICES ASSUME i_current # leafs_ - 1
                 PROVE  /\ oldest' <= Len(log) - i
                        /\ Len(log) - i <= Max2(oldest', longest' - ctorBlocks * (leafs_ - 1))
    BY <1>8, <1>11
  <2>2. oldest <= Len(log) - Depth(m) /\ oldest \in Nat \ {0}
    BY <1>1, <2>1 DEF Counters, m
  <2>3. Depth(m) = (Len(m.trees) - 1) * (leafs_ - 1) + i
    BY <1>1 DEF Depth, i
  <2>4. (Len(m.trees) - 1) * (leafs_ - 1) >= 0 /\ (Len(m.trees) - 1) * (leafs_ - 1) \in Int
    <3>. DEFINE k == Len(m.trees) - 1
                u == leafs_ - 1
    <3>1. k \in Nat /\ u \in Nat
      BY <1>1, LeafsIs, BlocksIs DEF Shape
    <3>. HIDE DEF k, u
    <3>2. k * u >= 0 /\ k * u \in Int
      BY <3>1
    <3>. QED
      BY <3>2 DEF k, u
  <2>5. Len(log) - i >= 1
    BY <1>9, <2>2, <2>3, <2>4
  <2>6. oldest' = Len(log) - i
    BY <1>8, <1>9, <2>5 DEF Max2
  <2>7. ctorBlocks * (leafs_ - 1) \in Int
    BY BlocksIs, LeafsIs
  <2>. QED
    BY <1>8, <1>9, <1>10, <2>6, <2>7 DEF Max2
<1>14. Counters'
  <2>1. /\ log' \in Seq(Item) /\ pushes' \in 0..MaxPushes
        /\ longest' \in Nat /\ Len(log') <= longest' /\ longest' <= pushes'
        /\ result' \in {"OK", "bad_exception", "undefined"}
    BY <1>1, <1>8, <1>9, MerkleTreeAssumption DEF Counters
  <2>. QED
    BY <1>7, <1>10, <1>12, <1>13, <2>1 DEF Counters
<1>. QED
  BY <1>6, <1>7, <1>14 DEF ShapeInv
-----------------------------------------------------------------------------
(* Arrays, pointers and lengths through every push, rollback and load       *)
(* (merkle_tree.cc:70-156).                                                 *)
THEOREM ShapeInvariance == Spec => []ShapeInv
<1>1. ShapeInv /\ [Next]_vars => ShapeInv'
  <2>. SUFFICES ASSUME ShapeInv, [Next]_vars PROVE ShapeInv'
    OBVIOUS
  <2>1. ASSUME NEW item \in Item, Push(item) PROVE ShapeInv'
    BY <2>1, PushKeepsShape
  <2>2. ASSUME NEW n \in 0..MaxPushes + 1, Rollback(n) PROVE ShapeInv'
    BY <2>2, RollbackKeepsShape, MerkleTreeAssumption
  <2>3. CASE SaveAndReload
    BY <2>3, ReloadKeepsShape
  <2>4. CASE UNCHANGED vars
    <3>1. This' = This
      BY <2>4 DEF vars, This
    <3>. QED
      BY <2>4, <3>1 DEF vars, ShapeInv, Counters
  <2>. QED
    BY <2>1, <2>2, <2>3, <2>4 DEF Next
<1>. QED
  BY <1>1, InitShape, PTL DEF Spec

(* The arrays keep their size and number, and the pointers stay within them *)
(* (merkle_tree.cc:50-66, 109-124 and 141-155).                             *)
THEOREM TreeTypeCorrect == Spec => []TypeOK
<1>1. ShapeInv => TypeOK
  <2>. SUFFICES ASSUME ShapeInv PROVE TypeOK
    OBVIOUS
  <2>1. Shape(This) /\ Counters /\ This.trees = trees /\ This.i_current = i_current
        /\ This.i_root = i_root
    BY DEF ShapeInv, This
  <2>2. \A t \in 1..Len(trees) : DOMAIN trees[t] = 0..size_ - 1
    BY <2>1 DEF Shape, IsArray
  <2>3. oldest \in 1..Max2(1, MaxPushes)
    <3>1. CASE i_current = leafs_ - 1
      BY <2>1, <3>1, MerkleTreeAssumption DEF Counters, Max2
    <3>2. CASE i_current # leafs_ - 1
      <4>1. Depth(This) \in Nat
        BY <2>1, <3>2, DepthIs
      <4>2. oldest <= Len(log) - Depth(This) /\ oldest \in Nat \ {0}
            /\ Len(log) <= longest /\ longest <= pushes /\ pushes \in 0..MaxPushes
            /\ longest \in Nat /\ Len(log) \in Nat
        BY <2>1, <3>2 DEF Counters
      <4>. QED
        BY <4>1, <4>2, MerkleTreeAssumption DEF Max2
    <3>. QED
      BY <3>1, <3>2
  <2>4. longest \in 0..MaxPushes
    BY <2>1, MerkleTreeAssumption DEF Counters
  <2>. QED
    BY <2>1, <2>2, <2>3, <2>4 DEF TypeOK, Shape, Counters
<1>. QED
  BY <1>1, ShapeInvariance, PTL

(* max_rollback never allows more than was pushed since the tree was made   *)
(* or loaded, nor less than the blocks that are kept                        *)
(* (merkle_tree.h:55-59, merkle_tree.cc:121 and 231-233).                   *)
THEOREM DepthIsKept == Spec => []RollbackDepth
<1>1. ShapeInv => RollbackDepth
  <2>. SUFFICES ASSUME ShapeInv, i_current # leafs_ - 1
                PROVE  /\ max_rollback(This) <= Len(log) - oldest
                       /\ max_rollback(This) >=
                            Len(log) - Max2(oldest, longest - ctorBlocks * (leafs_ - 1))
    BY DEF RollbackDepth
  <2>1. Shape(This) /\ Counters /\ This.i_current = i_current
    BY DEF ShapeInv, This
  <2>2. max_rollback(This) = Depth(This) /\ Depth(This) \in Nat
    BY <2>1, DepthIs
  <2>. DEFINE d == Depth(This)
              k == Max2(oldest, longest - ctorBlocks * (leafs_ - 1))
  <2>3. ctorBlocks * (leafs_ - 1) \in Int
    BY BlocksIs, LeafsIs
  <2>4. oldest \in Nat /\ longest \in Nat /\ Len(log) \in Nat
    BY <2>1 DEF Counters
  <2>5. k \in Int
    BY <2>3, <2>4 DEF Max2
  <2>6. oldest <= Len(log) - d /\ Len(log) - d <= k
    BY <2>1 DEF Counters
  <2>. HIDE DEF d, k
  <2>7. d \in Nat
    BY <2>2 DEF d
  <2>8. d <= Len(log) - oldest /\ d >= Len(log) - k
    BY <2>4, <2>5, <2>6, <2>7
  <2>. QED
    BY <2>2, <2>8 DEF d, k
<1>. QED
  BY <1>1, ShapeInvariance, PTL
-----------------------------------------------------------------------------
(* w[k] is the k-th row above leaves, for k up to n.                        *)
Rows(w, leaves, n) ==
  w = [k \in 0..n |-> IF k = 0 THEN leaves ELSE Above(w[k - 1])]

LEMMA RowsExist ==
  ASSUME NEW leaves, NEW n \in Nat
  PROVE  \E w : Rows(w, leaves, n)
<1>. DEFINE T == {m \in Nat : \E w : Rows(w, leaves, m)}
<1>1. 0 \in T
  <2>1. Rows([k \in 0..0 |-> leaves], leaves, 0)
    BY DEF Rows
  <2>. QED
    BY <2>1
<1>2. ASSUME NEW m \in Nat, m \in T PROVE m + 1 \in T
  <2>1. PICK w : Rows(w, leaves, m)
    BY <1>2
  <2>. DEFINE v == [k \in 0..m + 1 |-> IF k = m + 1 THEN Above(w[m]) ELSE w[k]]
  <2>2. ASSUME NEW k \in 0..m + 1
        PROVE  v[k] = IF k = 0 THEN leaves ELSE Above(v[k - 1])
    BY <2>1 DEF Rows
  <2>3. Rows(v, leaves, m + 1)
    BY <2>2 DEF Rows
  <2>. QED
    BY <2>3
<1>. HIDE DEF T
<1>3. Nat \subseteq T
  BY <1>1, <1>2, NatInduct
<1>. QED
  BY <1>3 DEF T

LEMMA RowIsLast ==
  ASSUME NEW leaves, NEW n \in Nat
  PROVE  \E w : Rows(w, leaves, n) /\ Row(leaves, n) = w[n]
<1>. DEFINE w == CHOOSE w : Rows(w, leaves, n)
<1>1. Rows(w, leaves, n)
  BY RowsExist
<1>2. Row(leaves, n) = w[n]
  BY Zenon DEF Row, Rows
<1>. QED
  BY <1>1, <1>2

LEMMA RowsAgree ==
  ASSUME NEW leaves, NEW n \in Nat, NEW w, NEW v,
         Rows(w, leaves, n), Rows(v, leaves, n + 1)
  PROVE  w[n] = v[n]
<1>. DEFINE T == {k \in Nat : k <= n => w[k] = v[k]}
<1>1. 0 \in T
  BY DEF Rows
<1>2. ASSUME NEW k \in Nat, k \in T PROVE k + 1 \in T
  <2>1. CASE k + 1 <= n
    <3>1. w[k + 1] = Above(w[k]) /\ v[k + 1] = Above(v[k])
      BY <2>1 DEF Rows
    <3>2. w[k] = v[k]
      BY <1>2, <2>1
    <3>. QED
      BY <3>1, <3>2
  <2>. QED
    BY <2>1
<1>. HIDE DEF T
<1>3. Nat \subseteq T
  BY <1>1, <1>2, NatInduct
<1>. QED
  BY <1>3 DEF T

LEMMA RowZero ==
  ASSUME NEW leaves
  PROVE  Row(leaves, 0) = leaves
<1>1. PICK w : Rows(w, leaves, 0) /\ Row(leaves, 0) = w[0]
  BY RowIsLast
<1>. QED
  BY <1>1 DEF Rows

LEMMA RowNext ==
  ASSUME NEW leaves, NEW n \in Nat
  PROVE  Row(leaves, n + 1) = Above(Row(leaves, n))
<1>1. PICK w : Rows(w, leaves, n) /\ Row(leaves, n) = w[n]
  BY RowIsLast
<1>2. PICK v : Rows(v, leaves, n + 1) /\ Row(leaves, n + 1) = v[n + 1]
  BY RowIsLast
<1>3. w[n] = v[n]
  BY <1>1, <1>2, RowsAgree
<1>4. v[n + 1] = Above(v[n])
  BY <1>2 DEF Rows
<1>. QED
  BY <1>1, <1>2, <1>3, <1>4

LEMMA AboveIs ==
  ASSUME NEW row, IsSeq(row)
  PROVE  /\ IsSeq(Above(row))
         /\ Len(Above(row)) = (Len(row) + 1) \div 2
         /\ \A j \in Nat \ {0} : 2 * j <= Len(row) =>
              Above(row)[j] = hash(row[2 * j - 1], row[2 * j])
         /\ \A j \in Nat \ {0} : 2 * j = Len(row) + 1 =>
              Above(row)[j] = row[2 * j - 1]
<1>. DEFINE n == (Len(row) + 1) \div 2
            a == Above(row)
            q == Len(row)
<1>1. q \in Nat /\ n \in Nat /\ 2 * n <= q + 1 /\ q <= 2 * n
  BY SeqIs
<1>2. a = [j \in 1..n |-> IF 2 * j > q THEN row[2 * j - 1]
                          ELSE hash(row[2 * j - 1], row[2 * j])]
  BY Zenon DEF Above
<1>. HIDE DEF a, n, q
<1>3. a = [j \in 1..n |-> a[j]]
  BY <1>2
<1>4. IsSeq(a) /\ Len(a) = n
  BY <1>1, <1>3, FunctionIsSeq
<1>5. ASSUME NEW j \in Nat \ {0}, 2 * j <= q
      PROVE  a[j] = hash(row[2 * j - 1], row[2 * j])
  <2>1. j \in 1..n /\ ~(2 * j > q)
    BY <1>1, <1>5
  <2>. QED
    BY <1>2, <2>1
<1>6. ASSUME NEW j \in Nat \ {0}, 2 * j = q + 1
      PROVE  a[j] = row[2 * j - 1]
  <2>1. j \in 1..n /\ 2 * j > q
    BY <1>1, <1>6
  <2>. QED
    BY <1>2, <2>1
<1>. QED
  BY <1>4, <1>5, <1>6 DEF a, n, q
-----------------------------------------------------------------------------
(* The number of leaves under a hash of row d.                              *)
W(d) == power(2, d)

LEMMA WIs ==
  ASSUME NEW d \in Nat
  PROVE  W(d) \in Nat \ {0} /\ W(d + 1) = 2 * W(d)
BY PowerPositive, PowerNext DEF W

(* A product is less than another with the same factor exactly if it must   *)
(* be.                                                                      *)
LEMMA TimesLess ==
  ASSUME NEW a \in Int, NEW b \in Int, NEW w \in Nat \ {0}, a * w < b * w
  PROVE  a < b
<1>1. CASE b <= a
  <2>1. b * w <= a * w /\ b * w \in Int /\ a * w \in Int
    BY <1>1, TimesMonotone
  <2>. QED
    BY <2>1
<1>. QED
  BY <1>1

(* Row d has as many hashes as it takes to cover n leaves.                  *)
Covers(row, d, n) ==
  /\ IsSeq(row) /\ Len(row) \in Nat \ {0}
  /\ Len(row) * W(d) >= n
  /\ (Len(row) - 1) * W(d) < n

LEMMA HalfCovers ==
  ASSUME NEW q \in Nat \ {0}, NEW w \in Nat \ {0}, NEW n \in Nat,
         q * w >= n, (q - 1) * w < n, NEW r, r = (q + 1) \div 2
  PROVE  r \in Nat \ {0} /\ r * (2 * w) >= n /\ (r - 1) * (2 * w) < n
<1>1. r \in Nat \ {0} /\ q <= 2 * r /\ 2 * r <= q + 1
  OBVIOUS
<1>2. r * (2 * w) = (2 * r) * w /\ (r - 1) * (2 * w) = (2 * r - 2) * w
  BY <1>1
<1>3. q * w <= (2 * r) * w
  BY <1>1, TimesMonotone
<1>4. (2 * r - 2) * w <= (q - 1) * w
  BY <1>1, TimesMonotone
<1>. DEFINE a == q * w
            b == (2 * r) * w
            c == (2 * r - 2) * w
            e == (q - 1) * w
<1>5. a \in Int /\ b \in Int /\ c \in Int /\ e \in Int
  BY <1>1
<1>. HIDE DEF a, b, c, e
<1>6. a >= n /\ e < n /\ a <= b /\ c <= e
  BY <1>3, <1>4 DEF a, b, c, e
<1>7. b >= n /\ c < n
  BY <1>5, <1>6
<1>. QED
  BY <1>1, <1>2, <1>7 DEF b, c

LEMMA RowCovers ==
  ASSUME NEW leaves, IsSeq(leaves), Len(leaves) >= 1, NEW d \in Nat
  PROVE  Covers(Row(leaves, d), d, Len(leaves))
<1>. DEFINE n == Len(leaves)
            T == {k \in Nat : Covers(Row(leaves, k), k, n)}
<1>1. n \in Nat \ {0}
  BY SeqIs
<1>. HIDE DEF n
<1>2. 0 \in T
  <2>1. W(0) = 1 /\ Row(leaves, 0) = leaves
    BY PowerZero, RowZero DEF W
  <2>2. n * 1 >= n /\ (n - 1) * 1 < n
    BY <1>1
  <2>3. Covers(Row(leaves, 0), 0, n)
    BY <1>1, <2>1, <2>2 DEF Covers, n
  <2>. QED
    BY <2>3
<1>3. ASSUME NEW k \in Nat, k \in T PROVE k + 1 \in T
  <2>. DEFINE row == Row(leaves, k)
              q == Len(row)
              r == Len(Above(row))
              w == W(k)
  <2>1. IsSeq(row) /\ q \in Nat \ {0} /\ q * w >= n /\ (q - 1) * w < n
    BY <1>3 DEF Covers
  <2>. HIDE DEF row
  <2>2. IsSeq(Above(row)) /\ r = (q + 1) \div 2
    BY <2>1, AboveIs
  <2>3. w \in Nat \ {0} /\ W(k + 1) = 2 * w
    BY WIs
  <2>. HIDE DEF q, r, w
  <2>4. r \in Nat \ {0} /\ r * (2 * w) >= n /\ (r - 1) * (2 * w) < n
    BY <1>1, <2>1, <2>2, <2>3, HalfCovers
  <2>5. Row(leaves, k + 1) = Above(row)
    BY RowNext DEF row
  <2>6. Covers(Above(row), k + 1, n)
    BY <2>2, <2>3, <2>4 DEF Covers, r
  <2>. QED
    BY <2>5, <2>6
<1>. HIDE DEF T
<1>4. Nat \subseteq T
  BY <1>2, <1>3, NatInduct
<1>. QED
  BY <1>4 DEF T, n

(* Hashes over leaves that two blocks share are the same.                   *)
RowsMatch(a, b, d, n) ==
  \A j \in Nat \ {0} : j * W(d) <= n => Row(a, d)[j] = Row(b, d)[j]

LEMMA LongEnough ==
  ASSUME NEW row, NEW d \in Nat, NEW n \in Nat, NEW k \in Nat, k <= n,
         Covers(row, d, n), NEW j \in Nat, j * W(d) <= k
  PROVE  j <= Len(row)
<1>. DEFINE q == Len(row)
            w == W(d)
<1>1. q \in Nat /\ w \in Nat \ {0} /\ q * w >= n
  BY WIs DEF Covers
<1>. HIDE DEF q, w
<1>2. CASE j > q
  <2>. DEFINE x == q * w
              y == (q + 1) * w
              z == j * w
  <2>1. q + 1 <= j /\ q + 1 \in Int /\ j \in Int /\ 1 * w = w
    BY <1>1, <1>2
  <2>2. y <= z
    BY <1>1, <2>1, TimesMonotone
  <2>3. y = x + w /\ x \in Int /\ z \in Int
    BY <1>1, <2>1, Times
  <2>4. z <= k
    BY DEF w
  <2>. HIDE DEF x, y, z
  <2>5. x >= n
    BY <1>1 DEF x
  <2>. QED
    BY <1>1, <2>2, <2>3, <2>4, <2>5
<1>. QED
  BY <1>1, <1>2 DEF q

LEMMA RowsShare ==
  ASSUME NEW a, NEW b, IsSeq(a), IsSeq(b), NEW n \in Nat,
         1 <= Len(a), 1 <= Len(b), n <= Len(a), n <= Len(b),
         \A i \in 1..n : a[i] = b[i], NEW d \in Nat
  PROVE  RowsMatch(a, b, d, n)
<1>. DEFINE T == {k \in Nat : RowsMatch(a, b, k, n)}
<1>0. Len(a) \in Nat /\ Len(b) \in Nat
  BY SeqIs
<1>1. 0 \in T
  <2>1. W(0) = 1 /\ Row(a, 0) = a /\ Row(b, 0) = b
    BY PowerZero, RowZero DEF W
  <2>2. RowsMatch(a, b, 0, n)
    BY <2>1 DEF RowsMatch
  <2>. QED
    BY <2>2
<1>2. ASSUME NEW k \in Nat, k \in T PROVE k + 1 \in T
  <2>. DEFINE r == Row(a, k)
              s == Row(b, k)
              w == W(k)
  <2>1. Covers(r, k, Len(a)) /\ Covers(s, k, Len(b))
    BY RowCovers
  <2>2. Row(a, k + 1) = Above(r) /\ Row(b, k + 1) = Above(s)
    BY RowNext
  <2>3. w \in Nat \ {0} /\ W(k + 1) = 2 * w
    BY WIs
  <2>4. RowsMatch(a, b, k, n)
    BY <1>2
  <2>5. ASSUME NEW j \in Nat \ {0}, j * W(k + 1) <= n
        PROVE  Above(r)[j] = Above(s)[j]
    <3>. DEFINE g == 2 * j
                h == 2 * j - 1
    <3>1. g \in Nat \ {0} /\ h \in Nat \ {0} /\ h <= g
      OBVIOUS
    <3>2. g * w <= n
      BY <2>3, <2>5
    <3>3. h * w <= n
      <4>1. h * w <= g * w /\ h * w \in Int /\ g * w \in Int
        BY <2>3, <3>1, TimesMonotone, Times
      <4>. QED
        BY <3>2, <4>1
    <3>. HIDE DEF g, h, w, r, s
    <3>4. r[g] = s[g] /\ r[h] = s[h]
      BY <2>4, <3>1, <3>2, <3>3 DEF RowsMatch, r, s, w
    <3>5. g <= Len(r) /\ g <= Len(s)
      BY <1>0, <2>1, <3>1, <3>2, LongEnough DEF w
    <3>6. IsSeq(r) /\ IsSeq(s)
      BY <2>1 DEF Covers
    <3>7. Above(r)[j] = hash(r[h], r[g])
      BY <3>5, <3>6, AboveIs DEF g, h
    <3>8. Above(s)[j] = hash(s[h], s[g])
      BY <3>5, <3>6, AboveIs DEF g, h
    <3>. QED
      BY <3>4, <3>7, <3>8
  <2>6. RowsMatch(a, b, k + 1, n)
    BY <2>2, <2>5 DEF RowsMatch
  <2>. QED
    BY <2>6
<1>. HIDE DEF T
<1>3. Nat \subseteq T
  BY <1>1, <1>2, NatInduct
<1>. QED
  BY <1>3 DEF T
-----------------------------------------------------------------------------
(* In a tree of 2^k leaves, the number of cells of row d and the first of   *)
(* them but one.                                                            *)
V(k, d) == power(2, k - d)

Cell(k, d, j) == V(k, d) - 2 + j

LEMMA VIs ==
  ASSUME NEW k \in Nat, NEW d \in 0..k
  PROVE  /\ V(k, d) \in Nat \ {0}
         /\ V(k, d) * W(d) = power(2, k)
         /\ d < k => V(k, d) = 2 * V(k, d + 1)
<1>. DEFINE g == k - d
<1>1. g \in Nat /\ d \in Nat /\ g + d = k
  OBVIOUS
<1>2. power(2, g + d) = power(2, d) * power(2, g)
  BY <1>1, PowerAdd
<1>3. power(2, g) \in Nat \ {0} /\ power(2, d) \in Nat \ {0}
  BY <1>1, PowerPositive
<1>4. ASSUME d < k PROVE power(2, g) = 2 * power(2, k - (d + 1))
  <2>. DEFINE h == k - (d + 1)
  <2>1. h \in Nat /\ h + 1 = g
    BY <1>4
  <2>. HIDE DEF h
  <2>. QED
    BY <2>1, PowerNext DEF h
<1>5. power(2, g) * power(2, d) = power(2, k)
  <2>1. power(2, d) * power(2, g) = power(2, k)
    BY <1>1, <1>2
  <2>. DEFINE x == power(2, g)
              y == power(2, d)
  <2>. HIDE DEF x, y
  <2>2. x \in Nat /\ y \in Nat /\ y * x = power(2, k)
    BY <1>3, <2>1 DEF x, y
  <2>3. x * y = y * x
    BY <2>2
  <2>. QED
    BY <2>2, <2>3 DEF x, y
<1>. QED
  BY <1>3, <1>4, <1>5 DEF V, W

(* The rows above have less than half of the cells.                         *)
LEMMA VLess ==
  ASSUME NEW k \in Nat, NEW d \in 0..k, NEW e \in 0..k, d < e
  PROVE  2 * V(k, e) <= V(k, d)
<1>. DEFINE x == k - e
            y == k - (d + 1)
<1>1. x \in Nat /\ y \in Nat /\ x <= y /\ 2 \in Nat \ {0}
  OBVIOUS
<1>. HIDE DEF x, y
<1>2. power(2, x) <= power(2, y)
  BY <1>1, PowerMonotone
<1>3. V(k, e) <= V(k, d + 1)
  BY <1>2 DEF V, x, y
<1>4. V(k, d) = 2 * V(k, d + 1) /\ V(k, d + 1) \in Nat /\ V(k, e) \in Nat
  BY VIs
<1>. QED
  BY <1>3, <1>4

(* The cell over whole leaves is within its row.                            *)
LEMMA InRow ==
  ASSUME NEW k \in Nat, NEW d \in 0..k, NEW j \in Nat \ {0}, NEW n \in Nat,
         n <= power(2, k), (j - 1) * W(d) < n
  PROVE  j <= V(k, d)
<1>. DEFINE v == V(k, d)
            w == W(d)
<1>1. v \in Nat \ {0} /\ w \in Nat \ {0} /\ v * w = power(2, k)
  BY VIs, WIs
<1>. HIDE DEF v, w
<1>2. (j - 1) * w < v * w
  <2>1. (j - 1) * w \in Int /\ v * w \in Int
    BY <1>1, Times
  <2>. QED
    BY <1>1, <2>1 DEF w
<1>3. j - 1 < v
  BY <1>1, <1>2, TimesLess
<1>. QED
  BY <1>1, <1>3 DEF v

LEMMA CellIs ==
  ASSUME NEW k \in Nat, NEW d \in 0..k, NEW j \in Nat \ {0}, j <= V(k, d)
  PROVE  Cell(k, d, j) \in 0..2 * power(2, k) - 2
<1>1. V(k, d) \in Nat \ {0} /\ W(d) \in Nat \ {0} /\ V(k, d) * W(d) = power(2, k)
  BY VIs, WIs
<1>. DEFINE v == V(k, d)
            w == W(d)
<1>2. v * 1 <= v * w
  <2>1. 1 * v <= w * v
    BY <1>1, TimesMonotone
  <2>. QED
    BY <1>1, <2>1
<1>3. v <= power(2, k) /\ power(2, k) \in Nat
  <2>1. v * 1 = v /\ v * w = power(2, k) /\ v * w \in Nat
    BY <1>1
  <2>. QED
    BY <1>2, <2>1
<1>. QED
  BY <1>1, <1>3 DEF Cell

(* Different rows have different cells, and so have different places of one *)
(* row.                                                                     *)
LEMMA RowsApart ==
  ASSUME NEW k \in Nat, NEW d \in 0..k, NEW e \in 0..k, d # e,
         NEW i \in Nat \ {0}, NEW j \in Nat \ {0}, i <= V(k, d), j <= V(k, e)
  PROVE  Cell(k, d, i) # Cell(k, e, j)
<1>1. V(k, d) \in Nat \ {0} /\ V(k, e) \in Nat \ {0}
  BY VIs
<1>2. CASE d < e
  <2>1. 2 * V(k, e) <= V(k, d)
    BY <1>2, VLess
  <2>. QED
    BY <1>1, <2>1 DEF Cell
<1>3. CASE e < d
  <2>1. 2 * V(k, d) <= V(k, e)
    BY <1>3, VLess
  <2>. QED
    BY <1>1, <2>1 DEF Cell
<1>. QED
  BY <1>2, <1>3

(* A cell over leaves up to n is none over leaf n + 1.                      *)
LEMMA CellsApart ==
  ASSUME NEW k \in Nat, NEW d \in 0..k, NEW e \in 0..k, NEW n \in Nat, n < power(2, k),
         NEW i \in Nat \ {0}, i * W(d) <= n,
         NEW j \in Nat \ {0}, j <= V(k, e), j * W(e) >= n + 1
  PROVE  i <= V(k, d) /\ Cell(k, d, i) # Cell(k, e, j)
<1>1. i <= V(k, d)
  <2>1. W(d) \in Nat \ {0} /\ (i - 1) * W(d) = i * W(d) - 1 * W(d) /\ i * W(d) \in Int
    BY WIs, Times
  <2>2. (i - 1) * W(d) < n + 1
    BY <2>1
  <2>3. n + 1 <= power(2, k) /\ n + 1 \in Nat
    BY PowerPositive
  <2>. QED
    BY <2>2, <2>3, InRow
<1>2. CASE d # e
  BY <1>1, <1>2, RowsApart
<1>3. CASE d = e
  <2>1. i # j
    <3>1. i * W(d) \in Int /\ j * W(d) \in Int
      BY WIs, Times
    <3>. QED
      BY <1>3, <3>1
  <2>2. V(k, d) \in Int
    BY VIs
  <2>. QED
    BY <1>1, <1>3, <2>1, <2>2 DEF Cell
<1>. QED
  BY <1>1, <1>2, <1>3

(* The cell above node is in place r of a row of v cells; and the two below *)
(* that one.                                                                *)
IsUp(node, v, r) ==
  /\ parentOf(node) = v - 2 + r
  /\ left(parentOf(node)) = 2 * v - 2 + (2 * r - 1)
  /\ right(parentOf(node)) = 2 * v - 2 + 2 * r

LEMMA UpIs ==
  ASSUME NEW v \in Nat \ {0}, NEW q \in Nat \ {0}, NEW r \in Nat \ {0},
         q = 2 * r - 1 \/ q = 2 * r,
         NEW node \in Nat, node = 2 * v - 2 + q
  PROVE  IsUp(node, v, r)
<1>1. node # 0 /\ (node - 1) \div 2 = v - 2 + r
  OBVIOUS
<1>2. parentOf(node) = v - 2 + r
  BY <1>1 DEF parentOf
<1>. QED
  BY <1>2 DEF left, right, IsUp
-----------------------------------------------------------------------------
LEMMA Power2 ==
  ASSUME NEW y \in Nat
  PROVE  power(2, y) \in Nat \ {0} /\ power(2, y + 1) = 2 * power(2, y)
BY PowerPositive, PowerNext

(* The root of a block is in the first row that has only one hash.          *)
LEMMA RootIs ==
  ASSUME NEW leaves, IsSeq(leaves), NEW d \in Nat, Len(leaves) >= 1,
         Len(leaves) <= power(2, d),
         \A g \in Nat : g < d => power(2, g) < Len(leaves)
  PROVE  RootOf(leaves) = Row(leaves, d)[1]
<1>. DEFINE n == Len(leaves)
            Least(x) == /\ n <= power(2, x)
                        /\ \A g \in 0..x - 1 : power(2, g) < n
            h == CHOOSE x \in 0..n : Least(x)
<1>1. n \in Nat \ {0} /\ leaves # << >>
  BY SeqIs, EmptySeq
<1>2. RootOf(leaves) = Row(leaves, h)[1]
  BY <1>1, Zenon DEF RootOf
<1>. HIDE DEF n
<1>3. d \in 0..n
  <2>1. CASE d = 0
    BY <1>1, <2>1
  <2>2. CASE d # 0
    <3>. DEFINE g == d - 1
    <3>1. g \in Nat /\ g < d /\ d = g + 1
      BY <2>2
    <3>. HIDE DEF g
    <3>2. power(2, g) < n
      BY <3>1 DEF n
    <3>3. g < power(2, g)
      BY <3>1, PowerGrows
    <3>4. power(2, g) \in Nat
      BY <3>1, Power2
    <3>. QED
      BY <1>1, <3>1, <3>2, <3>3, <3>4
  <2>. QED
    BY <2>1, <2>2
<1>4. Least(d)
  BY DEF n
<1>5. h \in 0..n /\ Least(h)
  <2>. HIDE DEF Least
  <2>. QED
    BY <1>3, <1>4
<1>. HIDE DEF h
<1>6. power(2, h) \in Nat /\ power(2, d) \in Nat
  BY <1>5, PowerPositive
<1>7. ~(h < d)
  BY <1>1, <1>5, <1>6 DEF n
<1>8. ~(d < h)
  BY <1>1, <1>3, <1>4, <1>5, <1>6
<1>9. h = d
  BY <1>3, <1>5, <1>7, <1>8
<1>. QED
  BY <1>2, <1>9

LEMMA RootOfOne ==
  ASSUME NEW x
  PROVE  RootOf(<<x>>) = x
<1>. DEFINE s == <<x>>
<1>1. IsSeq(s) /\ Len(s) = 1 /\ s[1] = x
  <2>1. s \in Seq({x}) /\ Len(s) = 1 /\ s[1] = x
    OBVIOUS
  <2>. HIDE DEF s
  <2>. QED
    BY <2>1, AnySeq
<1>. HIDE DEF s
<1>2. power(2, 0) = 1 /\ Row(s, 0) = s
  BY PowerZero, RowZero
<1>3. Len(s) >= 1 /\ Len(s) <= power(2, 0)
      /\ \A g \in Nat : g < 0 => power(2, g) < Len(s)
  BY <1>1, <1>2
<1>4. RootOf(s) = Row(s, 0)[1]
  BY <1>1, <1>3, RootIs
<1>. QED
  BY <1>1, <1>2, <1>4 DEF s

(* A tree of 2^k leaves holds the hashes of a block: each cell over leaves  *)
(* that have all been pushed is right.                                      *)
Holds(k, tree, leaves) ==
  \A d \in 0..k : \A j \in Nat \ {0} :
    j * W(d) <= Len(leaves) => tree[Cell(k, d, j)] = Row(leaves, d)[j]

(* In the course of the loop, after the turn that wrote row e: the cells    *)
(* over the leaves before the new one, and the path from it.                *)
Width(leaves, d) == Len(Row(leaves, d))

OnPath(k, b, leaves, n, e) ==
  /\ InArray(b)
  /\ b.node = Cell(k, e, Width(leaves, e))
  /\ \A d \in 0..k : \A j \in Nat \ {0} :
       j * W(d) <= n => b.tree[Cell(k, d, j)] = Row(leaves, d)[j]
  /\ \A d \in 0..e :
       b.tree[Cell(k, d, Width(leaves, d))] = Row(leaves, d)[Width(leaves, d)]

LEMMA WidthIs ==
  ASSUME NEW leaves, IsSeq(leaves), NEW n \in Nat, Len(leaves) = n + 1, NEW k \in Nat,
         n < power(2, k), NEW d \in 0..k
  PROVE  /\ Width(leaves, d) \in Nat \ {0}
         /\ Width(leaves, d) * W(d) >= n + 1
         /\ (Width(leaves, d) - 1) * W(d) <= n
         /\ Width(leaves, d) <= V(k, d)
<1>. DEFINE q == Width(leaves, d)
            w == W(d)
<1>1. Covers(Row(leaves, d), d, n + 1)
  BY RowCovers
<1>2. q \in Nat \ {0} /\ q * w >= n + 1 /\ (q - 1) * w < n + 1 /\ w \in Nat \ {0}
  BY <1>1, WIs DEF Covers, Width
<1>3. (q - 1) * w \in Int
  BY <1>2, Times
<1>4. n + 1 \in Nat /\ n + 1 <= power(2, k)
  BY PowerPositive
<1>. HIDE DEF q
<1>5. q <= V(k, d)
  BY <1>2, <1>4, InRow
<1>. QED
  BY <1>2, <1>3, <1>5 DEF q

LEMMA WidthNext ==
  ASSUME NEW leaves, IsSeq(leaves), Len(leaves) >= 1, NEW d \in Nat
  PROVE  /\ Width(leaves, d + 1) = (Width(leaves, d) + 1) \div 2
         /\ IsSeq(Row(leaves, d))
         /\ Row(leaves, d + 1) = Above(Row(leaves, d))
<1>1. IsSeq(Row(leaves, d))
  BY RowCovers DEF Covers
<1>2. Row(leaves, d + 1) = Above(Row(leaves, d))
  BY RowNext
<1>. QED
  BY <1>1, <1>2, AboveIs DEF Width

(* leaves is a block of n leaves, old, and one more.                        *)
Extends(leaves, old, n) ==
  /\ IsSeq(leaves) /\ IsSeq(old)
  /\ Len(old) = n /\ Len(leaves) = n + 1
  /\ \A i \in 1..n : leaves[i] = old[i]

(* The path begins with the new leaf.                                       *)
LEMMA PathBegins ==
  ASSUME NEW k \in Nat, leafs_ = power(2, k), NEW tree, IsArray(tree),
         NEW leaves, NEW old, NEW n \in Nat \ {0}, n < leafs_,
         Extends(leaves, old, n), Holds(k, tree, old)
  PROVE  OnPath(k, Leaf(tree, leafs_ - 1 + n, leaves[n + 1]), leaves, n, 0)
<1>. DEFINE i == leafs_ - 1 + n
            b == Leaf(tree, i, leaves[n + 1])
            t == [tree EXCEPT ![i] = leaves[n + 1]]
<1>1. leafs_ \in Nat /\ i \in 0..size_ - 1 /\ 0 \in 0..k
  BY LeafsIs, SizeIs
<1>2. InArray(b)
  <2>. HIDE DEF i, b
  <2>. QED
    BY <1>1, LeafInArray DEF IsArray, b
<1>3. b.tree = t /\ b.node = i
  BY DEF Leaf
<1>4. /\ IsSeq(leaves) /\ IsSeq(old) /\ Len(leaves) = n + 1 /\ Len(old) = n
      /\ \A j \in 1..n : leaves[j] = old[j]
  BY DEF Extends
<1>5. Row(leaves, 0) = leaves /\ Width(leaves, 0) = n + 1 /\ W(0) = 1
  BY <1>4, RowZero, PowerZero DEF Width, W
<1>6. i = Cell(k, 0, n + 1)
  BY <1>1 DEF Cell, V
<1>7. ASSUME NEW d \in 0..k, NEW j \in Nat \ {0}, j * W(d) <= n
      PROVE  t[Cell(k, d, j)] = Row(leaves, d)[j]
  <2>1. n + 1 \in Nat \ {0} /\ n + 1 <= V(k, 0) /\ (n + 1) * W(0) >= n + 1
    BY <1>1, <1>5 DEF V
  <2>. HIDE DEF i
  <2>2. j <= V(k, d) /\ Cell(k, d, j) # i
    BY <1>1, <1>6, <1>7, <2>1, CellsApart
  <2>3. t[Cell(k, d, j)] = tree[Cell(k, d, j)]
    BY <2>2 DEF IsArray
  <2>4. tree[Cell(k, d, j)] = Row(old, d)[j]
    BY <1>4, <1>7 DEF Holds
  <2>5. RowsMatch(old, leaves, d, n)
    BY <1>4, RowsShare
  <2>. QED
    BY <1>7, <2>3, <2>4, <2>5 DEF RowsMatch
<1>8. t[i] = leaves[n + 1]
  BY <1>1 DEF IsArray
<1>9. ASSUME NEW d \in 0..0
      PROVE  t[Cell(k, d, Width(leaves, d))] = Row(leaves, d)[Width(leaves, d)]
  <2>1. d = 0
    OBVIOUS
  <2>. HIDE DEF t, i
  <2>. QED
    BY <1>5, <1>6, <1>8, <2>1
<1>. HIDE DEF b, t, i
<1>10. b.node = Cell(k, 0, Width(leaves, 0))
  BY <1>3, <1>5, <1>6
<1>11. OnPath(k, b, leaves, n, 0)
  BY <1>2, <1>3, <1>7, <1>9, <1>10 DEF OnPath
<1>. QED
  BY <1>11 DEF b, i

(* One turn of the loop goes up one row.                                    *)
LEMMA PathClimbs ==
  ASSUME NEW k \in Nat, leafs_ = power(2, k), NEW leaves, IsSeq(leaves),
         NEW n \in Nat \ {0}, n < leafs_, Len(leaves) = n + 1,
         NEW e \in Nat, e < k, NEW b, OnPath(k, b, leaves, n, e)
  PROVE  OnPath(k, Climbed(b), leaves, n, e + 1)
<1>. DEFINE v == V(k, e + 1)
            q == Width(leaves, e)
            r == Width(leaves, e + 1)
            row == Row(leaves, e)
            up == parentOf(b.node)
            value == IF b.node = left(up) THEN b.tree[left(up)]
                     ELSE hash(b.tree[left(up)], b.tree[right(up)])
            t == [b.tree EXCEPT ![up] = value]
<1>1. e \in 0..k /\ e + 1 \in 0..k
  OBVIOUS
<1>2. v \in Nat \ {0} /\ V(k, e) = 2 * v
  BY <1>1, VIs
<1>3. q \in Nat \ {0} /\ (q - 1) * W(e) <= n /\ q <= V(k, e)
  BY <1>1, WidthIs
<1>4. /\ r \in Nat \ {0} /\ r <= v
      /\ r * W(e + 1) >= n + 1 /\ (r - 1) * W(e + 1) <= n
  BY <1>1, WidthIs
<1>5. r = (q + 1) \div 2 /\ IsSeq(row) /\ Row(leaves, e + 1) = Above(row)
  BY WidthNext
<1>6. b.node = 2 * v - 2 + q
  BY <1>2 DEF OnPath, Cell
<1>. HIDE DEF v, q, r, row
<1>7. /\ up = v - 2 + r
      /\ left(up) = 2 * v - 2 + (2 * r - 1)
      /\ right(up) = 2 * v - 2 + 2 * r
  <2>. DEFINE node == b.node
  <2>1. node = 2 * v - 2 + q /\ node \in Nat
    BY <1>2, <1>3, <1>6
  <2>. HIDE DEF node
  <2>2. q = 2 * r - 1 \/ q = 2 * r
    BY <1>3, <1>4, <1>5
  <2>3. IsUp(node, v, r)
    BY <1>2, <1>3, <1>4, <2>1, <2>2, UpIs
  <2>. QED
    BY <2>3 DEF node, IsUp
<1>8. up = Cell(k, e + 1, r) /\ Len(row) = q
  BY <1>7 DEF Cell, v, q, row, Width
<1>9. b.tree[Cell(k, e, q)] = row[q] /\ b.node = Cell(k, e, q)
  BY <1>1 DEF OnPath, q, row
<1>10. value = Above(row)[r]
  <2>1. r \in Nat /\ (q = 2 * r - 1 \/ q = 2 * r)
    BY <1>3, <1>4, <1>5
  <2>2. CASE q = 2 * r - 1
    <3>1. b.node = left(up) /\ 2 * r = q + 1
      BY <1>2, <1>3, <1>4, <1>6, <1>7, <2>2
    <3>2. value = row[q]
      BY <1>9, <3>1
    <3>3. Above(row)[r] = row[2 * r - 1]
      BY <1>4, <1>5, <1>8, <3>1, AboveIs
    <3>. QED
      BY <2>2, <3>2, <3>3
  <2>3. CASE q = 2 * r
    <3>. DEFINE g == 2 * r - 1
    <3>1. g \in Nat \ {0} /\ g = q - 1
      BY <1>4, <2>3
    <3>2. b.node = right(up) /\ b.node # left(up) /\ left(up) = Cell(k, e, g)
      BY <1>2, <1>4, <1>6, <1>7, <2>3 DEF Cell
    <3>. HIDE DEF g
    <3>3. b.tree[Cell(k, e, g)] = row[g]
      <4>1. g * W(e) <= n
        BY <1>3, <3>1
      <4>. QED
        BY <1>1, <3>1, <4>1 DEF OnPath, row
    <3>4. value = hash(row[g], row[q])
      BY <1>9, <3>2, <3>3
    <3>5. Above(row)[r] = hash(row[2 * r - 1], row[2 * r])
      <4>1. 2 * r <= Len(row)
        BY <1>3, <1>8, <2>3
      <4>. QED
        BY <1>4, <1>5, <4>1, AboveIs
    <3>. QED
      BY <2>3, <3>4, <3>5 DEF g
  <2>. QED
    BY <2>1, <2>2, <2>3
<1>11. Climbed(b) = [tree |-> t, node |-> up]
  BY Zenon DEF Climbed
<1>12. Climbed(b).tree = t /\ Climbed(b).node = up
  BY <1>11
<1>13. InArray(b) /\ InArray(Climbed(b))
  BY ClimbedInArray DEF OnPath
<1>. HIDE DEF up, value
<1>14. up \in DOMAIN b.tree
  <2>1. Cell(k, e + 1, r) \in 0..2 * power(2, k) - 2
    BY <1>1, <1>4, CellIs DEF v
  <2>2. size_ - 1 = 2 * power(2, k) - 2
    BY LeafsIs, SizeIs
  <2>. QED
    BY <1>8, <1>13, <2>1, <2>2 DEF InArray
<1>15. t[up] = Above(row)[r] /\ \A c : c # up => t[c] = b.tree[c]
  BY <1>10, <1>14
<1>. HIDE DEF t
<1>16. ASSUME NEW d \in 0..k, NEW j \in Nat \ {0}, j * W(d) <= n
       PROVE  t[Cell(k, d, j)] = Row(leaves, d)[j]
  <2>1. Cell(k, d, j) # up
    BY <1>1, <1>4, <1>8, <1>16, CellsApart DEF v
  <2>2. b.tree[Cell(k, d, j)] = Row(leaves, d)[j]
    BY <1>16 DEF OnPath
  <2>. QED
    BY <1>15, <2>1, <2>2
<1>17. ASSUME NEW d \in 0..e + 1
       PROVE  t[Cell(k, d, Width(leaves, d))] = Row(leaves, d)[Width(leaves, d)]
  <2>1. CASE d = e + 1
    BY <1>5, <1>8, <1>15, <2>1 DEF r
  <2>2. CASE d # e + 1
    <3>1. d \in 0..k /\ d \in 0..e
      BY <2>2
    <3>2. Width(leaves, d) \in Nat \ {0} /\ Width(leaves, d) <= V(k, d)
      BY <3>1, WidthIs
    <3>3. Cell(k, d, Width(leaves, d)) # up
      BY <1>1, <1>4, <1>8, <2>2, <3>1, <3>2, RowsApart DEF v
    <3>4. b.tree[Cell(k, d, Width(leaves, d))] = Row(leaves, d)[Width(leaves, d)]
      BY <3>1 DEF OnPath
    <3>. QED
      BY <1>15, <3>3, <3>4
  <2>. QED
    BY <2>1, <2>2
<1>18. up = Cell(k, e + 1, Width(leaves, e + 1))
  BY <1>8 DEF r
<1>. QED
  BY <1>12, <1>13, <1>16, <1>17, <1>18 DEF OnPath

(* The loop in push makes so many turns: as many as it takes to cover the   *)
(* leaves.                                                                  *)
LEMMA TurnsAre ==
  ASSUME NEW k \in Nat, leafs_ = power(2, k), NEW n \in Nat \ {0}, n < leafs_,
         NEW np, np = 1 + log2(n)
  PROVE  /\ np \in 1..k
         /\ n + 1 <= power(2, np)
         /\ \A g \in Nat : g < np => power(2, g) <= n
<1>. DEFINE l == log2(n)
<1>1. l \in Nat /\ power(2, l) <= n /\ n < power(2, l + 1)
  BY Log2Is
<1>. HIDE DEF l
<1>2. np = l + 1 /\ np \in Nat
  BY <1>1 DEF l
<1>3. power(2, l) \in Nat /\ power(2, np) \in Nat /\ power(2, k) \in Nat
  BY <1>1, <1>2, Power2
<1>4. l < k
  <2>1. CASE k <= l
    <3>1. power(2, k) <= power(2, l)
      BY <1>1, <2>1, PowerMonotone
    <3>. QED
      BY <1>1, <1>3, <3>1
  <2>. QED
    BY <1>1, <2>1
<1>5. ASSUME NEW g \in Nat, g < np PROVE power(2, g) <= n
  <2>1. power(2, g) <= power(2, l)
    BY <1>1, <1>2, <1>5, PowerMonotone
  <2>2. power(2, g) \in Nat
    BY Power2
  <2>. QED
    BY <1>1, <1>3, <2>1, <2>2
<1>6. n + 1 <= power(2, np)
  BY <1>1, <1>2, <1>3
<1>. QED
  BY <1>1, <1>2, <1>4, <1>5, <1>6

(* Where the path ends the block is held, the root in the cell reached.     *)
LEMMA PathEnds ==
  ASSUME NEW k \in Nat, leafs_ = power(2, k), NEW leaves, IsSeq(leaves),
         NEW n \in Nat \ {0}, n < leafs_, Len(leaves) = n + 1,
         NEW np, np = 1 + log2(n), NEW b, OnPath(k, b, leaves, n, np)
  PROVE  /\ Holds(k, b.tree, leaves)
         /\ b.tree[b.node] = RootOf(leaves)
         /\ n + 1 = leafs_ => b.node = 0
<1>1. /\ np \in 1..k /\ np \in Nat /\ np \in 0..k
      /\ n + 1 <= power(2, np)
      /\ \A g \in Nat : g < np => power(2, g) <= n
  BY TurnsAre
<1>2. Width(leaves, np) = 1
  <2>. DEFINE q == Width(leaves, np)
              w == W(np)
  <2>1. q \in Nat \ {0} /\ (q - 1) * w <= n
    BY <1>1, WidthIs
  <2>2. w \in Nat \ {0} /\ n < w
    BY <1>1, WIs DEF W
  <2>. HIDE DEF q, w
  <2>3. (q - 1) * w < 1 * w
    BY <2>1, <2>2
  <2>4. q - 1 < 1
    BY <2>1, <2>2, <2>3, TimesLess
  <2>. QED
    BY <2>1, <2>4 DEF q
<1>3. b.tree[b.node] = RootOf(leaves)
  <2>1. b.tree[b.node] = Row(leaves, np)[1]
    BY <1>1, <1>2 DEF OnPath
  <2>2. \A g \in Nat : g < np => power(2, g) < n + 1
    <3>1. \A g \in Nat : power(2, g) \in Nat
      BY Power2
    <3>. QED
      BY <1>1, <3>1
  <2>3. RootOf(leaves) = Row(leaves, np)[1]
    BY <1>1, <2>2, RootIs
  <2>. QED
    BY <2>1, <2>3
<1>4. ASSUME n + 1 = leafs_ PROVE b.node = 0
  <2>1. CASE np < k
    <3>1. power(2, np) <= n
      <4>. DEFINE m == np + 1
      <4>1. m \in Nat /\ m <= k /\ 2 \in Nat \ {0}
        BY <1>1, <2>1
      <4>2. power(2, np) < power(2, m)
        BY <1>1, PowerGrows
      <4>. HIDE DEF m
      <4>3. power(2, m) <= power(2, k)
        BY <4>1, PowerMonotone
      <4>4. power(2, np) \in Nat /\ power(2, m) \in Nat /\ power(2, k) \in Nat
        BY <1>1, <4>1, Power2
      <4>. QED
        BY <1>4, <4>2, <4>3, <4>4
    <3>2. power(2, np) \in Nat
      BY <1>1, Power2
    <3>. QED
      BY <1>1, <3>1, <3>2
  <2>2. CASE np = k
    <3>1. V(k, np) = 1
      BY <2>2, PowerZero DEF V
    <3>2. b.node = V(k, np) - 2 + 1
      BY <1>2 DEF OnPath, Cell
    <3>. QED
      BY <3>1, <3>2
  <2>. QED
    BY <1>1, <2>1, <2>2
<1>5. ASSUME NEW d \in 0..k, NEW j \in Nat \ {0}, j * W(d) <= n + 1
      PROVE  b.tree[Cell(k, d, j)] = Row(leaves, d)[j]
  <2>. DEFINE w == W(d)
              q == Width(leaves, d)
  <2>1. w \in Nat \ {0} /\ j * w \in Nat
    <3>1. d \in Nat
      OBVIOUS
    <3>2. w \in Nat \ {0}
      BY <3>1, WIs
    <3>. HIDE DEF w
    <3>. QED
      BY <3>2
  <2>2. CASE j * w <= n
    BY <2>2 DEF OnPath
  <2>3. CASE j * w = n + 1
    <3>1. d <= np
      <4>1. CASE np < d
        <5>1. power(2, np + 1) <= power(2, d)
          BY <1>1, <4>1, PowerMonotone
        <5>2. power(2, np + 1) = 2 * power(2, np) /\ power(2, np) \in Nat \ {0}
          BY <1>1, Power2
        <5>3. w >= 2 * (n + 1)
          <6>1. w = power(2, d)
            BY DEF W
          <6>. HIDE DEF w
          <6>. QED
            BY <1>1, <2>1, <5>1, <5>2, <6>1
        <5>4. 1 * w <= j * w
          <6>. HIDE DEF w
          <6>. QED
            BY <2>1, TimesMonotone
        <5>. HIDE DEF w
        <5>. QED
          BY <2>1, <2>3, <5>3, <5>4
      <4>. QED
        BY <1>1, <4>1
    <3>2. q \in Nat \ {0} /\ q * w >= n + 1 /\ (q - 1) * w <= n
      BY WidthIs
    <3>3. (q - 1) * w < j * w /\ (j - 1) * w < q * w
      <4>. HIDE DEF q, w
      <4>1. /\ (j - 1) * w = j * w - 1 * w /\ (q - 1) * w \in Int /\ q * w \in Int
            /\ 1 * w = w
        BY <2>1, <3>2, Times
      <4>. QED
        BY <2>1, <2>3, <3>2, <4>1
    <3>4. j = q
      <4>. HIDE DEF q, w
      <4>1. q - 1 < j /\ j - 1 < q
        BY <2>1, <3>2, <3>3, TimesLess
      <4>. QED
        BY <3>2, <4>1
    <3>. QED
      BY <1>1, <3>1, <3>4 DEF OnPath
  <2>. HIDE DEF w
  <2>. QED
    BY <1>5, <2>1, <2>2, <2>3 DEF w
<1>6. Holds(k, b.tree, leaves)
  BY <1>5 DEF Holds
<1>. QED
  BY <1>3, <1>4, <1>6

(* The first n leaves of an array.                                          *)
Leaves(tree, n) == [i \in 1..n |-> tree[leafs_ - 2 + i]]

LEMMA LeavesAre ==
  ASSUME NEW tree, NEW n \in Nat
  PROVE  /\ IsSeq(Leaves(tree, n)) /\ Len(Leaves(tree, n)) = n
         /\ \A i \in 1..n : Leaves(tree, n)[i] = tree[leafs_ - 2 + i]
<1>. DEFINE s == Leaves(tree, n)
<1>1. s = [i \in 1..n |-> tree[leafs_ - 2 + i]]
  BY DEF Leaves
<1>. HIDE DEF s
<1>2. s = [i \in 1..n |-> s[i]]
  BY <1>1
<1>3. IsSeq(s) /\ Len(s) = n
  BY <1>2, FunctionIsSeq
<1>. QED
  BY <1>1, <1>3 DEF s

(* Arrays with the same n leaves have the same first j.                     *)
LEMMA LeavesFewer ==
  ASSUME NEW tree, NEW other, NEW n \in Nat, Leaves(tree, n) = Leaves(other, n),
         NEW j \in 1..n
  PROVE  Leaves(tree, j) = Leaves(other, j)
<1>1. j \in Nat
  OBVIOUS
<1>2. ASSUME NEW i \in 1..j PROVE Leaves(tree, j)[i] = Leaves(other, j)[i]
  <2>1. i \in 1..n
    OBVIOUS
  <2>2. Leaves(tree, n)[i] = tree[leafs_ - 2 + i]
        /\ Leaves(other, n)[i] = other[leafs_ - 2 + i]
    BY <2>1, LeavesAre
  <2>3. Leaves(tree, j)[i] = tree[leafs_ - 2 + i]
        /\ Leaves(other, j)[i] = other[leafs_ - 2 + i]
    BY <1>1, LeavesAre
  <2>. QED
    BY <2>2, <2>3
<1>3. IsSeq(Leaves(tree, j)) /\ Len(Leaves(tree, j)) = j
      /\ IsSeq(Leaves(other, j)) /\ Len(Leaves(other, j)) = j
  BY <1>1, LeavesAre
<1>. QED
  BY <1>2, <1>3, SeqsEqual

(* w is the tree with n leaves after the push of one more.                  *)
Fills(k, tree, w, n, item) ==
  /\ Leaves(w.tree, n + 1) = Append(Leaves(tree, n), item)
  /\ Holds(k, w.tree, Leaves(w.tree, n + 1))
  /\ w.tree[w.node] = RootOf(Leaves(w.tree, n + 1))
  /\ n + 1 = leafs_ => w.node = 0

LEMMA WrittenHolds ==
  ASSUME NEW k \in Nat, leafs_ = power(2, k), NEW tree, IsArray(tree),
         NEW n \in Nat \ {0}, n < leafs_, Holds(k, tree, Leaves(tree, n)), NEW item
  PROVE  Fills(k, tree, Written(tree, leafs_ - 1 + n, item), n, item)
<1>. DEFINE old == Leaves(tree, n)
            leaves == Append(old, item)
            i == leafs_ - 1 + n
            first == Leaf(tree, i, item)
            np == 1 + log2(n)
            r == Written(tree, i, item)
<1>1. IsSeq(old) /\ Len(old) = n
  BY LeavesAre
<1>. HIDE DEF old
<1>2. /\ IsSeq(leaves) /\ Len(leaves) = n + 1
      /\ \A j \in 1..n : leaves[j] = old[j]
      /\ leaves[n + 1] = item
  BY <1>1, AppendIs
<1>. HIDE DEF leaves
<1>3. np \in 1..k /\ np \in Nat
  BY TurnsAre
<1>4. np = 1 + log2(i - (leafs_ - 1))
  <2>1. i - (leafs_ - 1) = n
    BY LeafsIs
  <2>. QED
    BY <2>1
<1>. HIDE DEF i
<1>5. PICK w : Climbs(w, first, np) /\ r = w[np]
  BY <1>3, <1>4, WrittenIsLast
<1>6. w[0] = first /\ \A j \in Nat : j + 1 <= np => w[j + 1] = Climbed(w[j])
  BY <1>5 DEF Climbs
<1>7. OnPath(k, first, leaves, n, 0)
  <2>1. Extends(leaves, old, n)
    BY <1>1, <1>2 DEF Extends
  <2>. QED
    BY <1>2, <2>1, PathBegins DEF i, old
<1>. DEFINE T == {j \in Nat : j <= np => OnPath(k, w[j], leaves, n, j)}
<1>. HIDE DEF np, r, first
<1>8. 0 \in T
  BY <1>6, <1>7
<1>9. ASSUME NEW j \in Nat, j \in T PROVE j + 1 \in T
  <2>1. CASE j + 1 <= np
    <3>1. w[j + 1] = Climbed(w[j]) /\ j < k /\ j <= np
      BY <1>3, <1>6, <2>1
    <3>2. OnPath(k, w[j], leaves, n, j)
      BY <1>9, <3>1
    <3>. DEFINE b == w[j]
    <3>. HIDE DEF b
    <3>3. OnPath(k, Climbed(b), leaves, n, j + 1)
      BY <1>2, <3>1, <3>2, PathClimbs DEF b
    <3>. QED
      BY <3>1, <3>3 DEF b
  <2>. QED
    BY <2>1
<1>. HIDE DEF T
<1>10. Nat \subseteq T
  BY <1>8, <1>9, NatInduct
<1>11. OnPath(k, r, leaves, n, np)
  <2>1. np \in T /\ np <= np
    BY <1>3, <1>10
  <2>. QED
    BY <1>5, <2>1 DEF T
<1>12. /\ Holds(k, r.tree, leaves)
       /\ r.tree[r.node] = RootOf(leaves)
       /\ n + 1 = leafs_ => r.node = 0
  BY <1>2, <1>11, PathEnds DEF np
<1>13. Leaves(r.tree, n + 1) = leaves
  <2>1. ASSUME NEW j \in 1..n + 1 PROVE Leaves(r.tree, n + 1)[j] = leaves[j]
    <3>1. 0 \in 0..k /\ j \in Nat \ {0} /\ W(0) = 1 /\ j * W(0) <= Len(leaves)
      <4>1. W(0) = 1
        BY PowerZero DEF W
      <4>. QED
        BY <1>2, <4>1
    <3>2. r.tree[Cell(k, 0, j)] = Row(leaves, 0)[j]
      BY <1>12, <3>1 DEF Holds
    <3>3. Cell(k, 0, j) = leafs_ - 2 + j
      BY DEF Cell, V
    <3>4. Leaves(r.tree, n + 1)[j] = r.tree[leafs_ - 2 + j]
      BY LeavesAre
    <3>. QED
      BY <3>2, <3>3, <3>4, RowZero
  <2>2. IsSeq(Leaves(r.tree, n + 1)) /\ Len(Leaves(r.tree, n + 1)) = n + 1
    BY LeavesAre
  <2>. QED
    BY <1>2, <2>1, <2>2, SeqsEqual
<1>. QED
  BY <1>12, <1>13 DEF Fills, r, i, leaves, old
-----------------------------------------------------------------------------
(* w[i] is the block after the first i pushes of l, for i up to n.          *)
Blocks(w, l, n) ==
  w = [i \in 0..n |-> IF i = 0 THEN << >> ELSE Promise!MerklePush(w[i - 1], l[i])]

LEMMA BlocksExist ==
  ASSUME NEW l, NEW n \in Nat
  PROVE  \E w : Blocks(w, l, n)
<1>. DEFINE T == {m \in Nat : \E w : Blocks(w, l, m)}
<1>1. 0 \in T
  <2>1. Blocks([i \in 0..0 |-> << >>], l, 0)
    BY DEF Blocks
  <2>. QED
    BY <2>1
<1>2. ASSUME NEW m \in Nat, m \in T PROVE m + 1 \in T
  <2>1. PICK w : Blocks(w, l, m)
    BY <1>2
  <2>. DEFINE v == [i \in 0..m + 1 |-> IF i = m + 1
                                       THEN Promise!MerklePush(w[m], l[m + 1])
                                       ELSE w[i]]
  <2>2. ASSUME NEW i \in 0..m + 1
        PROVE  v[i] = IF i = 0 THEN << >> ELSE Promise!MerklePush(v[i - 1], l[i])
    BY <2>1 DEF Blocks
  <2>3. Blocks(v, l, m + 1)
    BY <2>2 DEF Blocks
  <2>. QED
    BY <2>3
<1>. HIDE DEF T
<1>3. Nat \subseteq T
  BY <1>1, <1>2, NatInduct
<1>. QED
  BY <1>3 DEF T

LEMMA BlocksAgree ==
  ASSUME NEW l, NEW more, NEW n \in Nat, \A i \in 1..n : l[i] = more[i],
         NEW w, NEW v, Blocks(w, l, n), Blocks(v, more, n + 1)
  PROVE  w[n] = v[n]
<1>. DEFINE T == {i \in Nat : i <= n => w[i] = v[i]}
<1>1. 0 \in T
  BY DEF Blocks
<1>2. ASSUME NEW i \in Nat, i \in T PROVE i + 1 \in T
  <2>1. CASE i + 1 <= n
    <3>1. w[i + 1] = Promise!MerklePush(w[i], l[i + 1])
      BY <2>1 DEF Blocks
    <3>2. v[i + 1] = Promise!MerklePush(v[i], more[i + 1])
      BY <2>1 DEF Blocks
    <3>3. w[i] = v[i] /\ i + 1 \in 1..n
      BY <2>1, <1>2
    <3>. QED
      BY <3>1, <3>2, <3>3
  <2>. QED
    BY <2>1
<1>. HIDE DEF T
<1>3. Nat \subseteq T
  BY <1>1, <1>2, NatInduct
<1>. QED
  BY <1>3 DEF T

LEMMA BlockIsLast ==
  ASSUME NEW l, Len(l) \in Nat
  PROVE  \E w : Blocks(w, l, Len(l)) /\ Promise!MerkleOf(l) = w[Len(l)]
<1>. DEFINE w == CHOOSE w : Blocks(w, l, Len(l))
<1>1. Blocks(w, l, Len(l))
  BY BlocksExist
<1>2. Promise!MerkleOf(l) = w[Len(l)]
  BY Zenon DEF Promise!MerkleOf, Blocks
<1>. QED
  BY <1>1, <1>2

LEMMA MerkleOfEmpty == Promise!MerkleOf(<< >>) = << >>
<1>1. Len(<< >>) = 0
  BY EmptySeq
<1>2. PICK w : Blocks(w, << >>, 0) /\ Promise!MerkleOf(<< >>) = w[0]
  BY <1>1, BlockIsLast
<1>. QED
  BY <1>2 DEF Blocks

LEMMA MerkleOfAppend ==
  ASSUME NEW l \in Seq(Item), NEW item \in Item
  PROVE  Promise!MerkleOf(Append(l, item)) = Promise!MerklePush(Promise!MerkleOf(l), item)
<1>. DEFINE more == Append(l, item)
            n == Len(l)
<1>1. n \in Nat /\ Len(more) = n + 1 /\ \A i \in 1..n : l[i] = more[i]
  OBVIOUS
<1>2. more[n + 1] = item
  OBVIOUS
<1>. HIDE DEF more, n
<1>3. PICK w : Blocks(w, l, n) /\ Promise!MerkleOf(l) = w[n]
  BY <1>1, BlockIsLast DEF n
<1>4. PICK v : Blocks(v, more, n + 1) /\ Promise!MerkleOf(more) = v[n + 1]
  BY <1>1, BlockIsLast
<1>5. w[n] = v[n]
  BY <1>1, <1>3, <1>4, BlocksAgree
<1>6. v[n + 1] = Promise!MerklePush(v[n], more[n + 1])
  BY <1>1, <1>4 DEF Blocks
<1>. QED
  BY <1>2, <1>3, <1>4, <1>5, <1>6 DEF more

(* The block of the first x hashes of l.                                    *)
BlockAt(l, x) == Promise!MerkleOf(SubSeq(l, 1, x))

LEMMA BlockAtEnd ==
  ASSUME NEW l \in Seq(Item)
  PROVE  BlockAt(l, Len(l)) = Promise!MerkleOf(l)
<1>1. SubSeq(l, 1, Len(l)) = l
  OBVIOUS
<1>. QED
  BY <1>1 DEF BlockAt

(* One log begins as the other does.                                        *)
SameTo(l, r, y) == \A x \in Nat : x <= y => BlockAt(l, x) = BlockAt(r, x)

LEMMA SameAppend ==
  ASSUME NEW l \in Seq(Item), NEW item \in Item
  PROVE  SameTo(l, Append(l, item), Len(l))
<1>. DEFINE r == Append(l, item)
<1>1. r \in Seq(Item) /\ Len(r) = Len(l) + 1 /\ \A i \in 1..Len(l) : r[i] = l[i]
  OBVIOUS
<1>. HIDE DEF r
<1>2. ASSUME NEW x \in Nat, x <= Len(l) PROVE SubSeq(l, 1, x) = SubSeq(r, 1, x)
  <2>1. IsSeq(l) /\ IsSeq(r) /\ x <= Len(r)
    BY <1>1, <1>2, AnySeq
  <2>2. IsStart(SubSeq(l, 1, x), l, x) /\ IsStart(SubSeq(r, 1, x), r, x)
    BY <1>2, <2>1, StartIs
  <2>3. \A i \in 1..x : SubSeq(l, 1, x)[i] = SubSeq(r, 1, x)[i]
    BY <1>1, <1>2, <2>2 DEF IsStart
  <2>. QED
    BY <2>2, <2>3, SeqsEqual DEF IsStart
<1>. QED
  BY <1>2 DEF SameTo, BlockAt, r

LEMMA SameStart ==
  ASSUME NEW l \in Seq(Item), NEW y \in Nat, y <= Len(l)
  PROVE  SameTo(l, SubSeq(l, 1, y), y)
<1>. DEFINE r == SubSeq(l, 1, y)
<1>1. IsSeq(l)
  BY AnySeq
<1>2. IsStart(r, l, y)
  BY <1>1, StartIs
<1>. HIDE DEF r
<1>3. ASSUME NEW x \in Nat, x <= y PROVE SubSeq(l, 1, x) = SubSeq(r, 1, x)
  <2>1. IsSeq(r) /\ Len(r) = y /\ Len(l) \in Nat /\ \A i \in 1..y : r[i] = l[i]
    BY <1>2 DEF IsStart
  <2>2. IsStart(SubSeq(l, 1, x), l, x) /\ IsStart(SubSeq(r, 1, x), r, x)
    BY <1>1, <1>3, <2>1, StartIs
  <2>3. \A i \in 1..x : SubSeq(l, 1, x)[i] = SubSeq(r, 1, x)[i]
    BY <1>3, <2>1, <2>2 DEF IsStart
  <2>. QED
    BY <2>2, <2>3, SeqsEqual DEF IsStart
<1>. QED
  BY <1>3 DEF SameTo, BlockAt, r
-----------------------------------------------------------------------------
(* An array remembers its n leaves: it holds the hashes over them, and its  *)
(* first j leaves are the block of the first a + j hashes of l.  All of the *)
(* leaves are no block: the root of them begins the next.                   *)
Remembers(k, l, a, tree, n) ==
  /\ Holds(k, tree, Leaves(tree, n))
  /\ \A j \in 1..n : j < leafs_ => BlockAt(l, a + j) = Leaves(tree, j)

LEMMA RemembersFewer ==
  ASSUME NEW k, NEW l, NEW a, NEW tree, NEW n \in Nat,
         Remembers(k, l, a, tree, n), NEW i \in 1..n
  PROVE  Remembers(k, l, a, tree, i)
<1>. DEFINE s == Leaves(tree, n)
            r == Leaves(tree, i)
<1>1. i \in Nat /\ i >= 1 /\ i <= n
  OBVIOUS
<1>2. /\ IsSeq(s) /\ Len(s) = n /\ \A j \in 1..n : s[j] = tree[leafs_ - 2 + j]
      /\ IsSeq(r) /\ Len(r) = i /\ \A j \in 1..i : r[j] = tree[leafs_ - 2 + j]
  BY <1>1, LeavesAre
<1>. HIDE DEF s, r
<1>3. \A j \in 1..i : s[j] = r[j]
  BY <1>1, <1>2
<1>4. ASSUME NEW d \in 0..k, d \in Nat, NEW j \in Nat \ {0}, j * W(d) <= i
      PROVE  tree[Cell(k, d, j)] = Row(r, d)[j]
  <2>1. RowsMatch(s, r, d, i)
    BY <1>1, <1>2, <1>3, <1>4, RowsShare
  <2>2. j * W(d) <= n
    <3>. DEFINE w == W(d)
    <3>1. w \in Nat /\ j * w <= i
      BY <1>4, WIs
    <3>. HIDE DEF w
    <3>2. j * w \in Nat
      BY <3>1
    <3>3. j * w <= n
      BY <1>1, <3>1, <3>2
    <3>. QED
      BY <3>3 DEF w
  <2>3. tree[Cell(k, d, j)] = Row(s, d)[j]
    BY <1>2, <2>2 DEF Remembers, Holds, s
  <2>. QED
    BY <1>4, <2>1, <2>3 DEF RowsMatch
<1>5. Holds(k, tree, r)
  BY <1>2, <1>4 DEF Holds
<1>. QED
  BY <1>1, <1>5 DEF Remembers, r

LEMMA RemembersSame ==
  ASSUME NEW k, NEW l, NEW a \in Nat, NEW tree, NEW n \in Nat,
         Remembers(k, l, a, tree, n), NEW r, NEW y \in Nat, SameTo(l, r, y),
         a + n <= y \/ a + (leafs_ - 1) <= y
  PROVE  Remembers(k, r, a, tree, n)
<1>1. ASSUME NEW j \in 1..n, j < leafs_ PROVE BlockAt(r, a + j) = Leaves(tree, j)
  <2>1. a + j \in Nat /\ a + j <= y
    BY <1>1, LeafsIs
  <2>. QED
    BY <1>1, <2>1 DEF Remembers, SameTo
<1>. QED
  BY <1>1 DEF Remembers

(* A new tree with its first leaf.                                          *)
LEMMA OneHolds ==
  ASSUME NEW k \in Nat, leafs_ = power(2, k), NEW tree
  PROVE  Holds(k, tree, Leaves(tree, 1))
<1>. DEFINE s == Leaves(tree, 1)
<1>1. Len(s) = 1 /\ s[1] = tree[leafs_ - 1]
  <2>1. leafs_ - 2 + 1 = leafs_ - 1
    BY LeafsIs
  <2>. QED
    BY <2>1, LeavesAre
<1>. HIDE DEF s
<1>2. ASSUME NEW d \in 0..k, NEW j \in Nat \ {0}, j * W(d) <= 1
      PROVE  tree[Cell(k, d, j)] = Row(s, d)[j]
  <2>. DEFINE w == W(d)
  <2>1. w \in Nat \ {0} /\ d < w /\ d \in Nat
    <3>1. d \in Nat /\ 2 \in Nat /\ 2 >= 2
      OBVIOUS
    <3>2. d < power(2, d)
      BY <3>1, PowerGrows
    <3>. QED
      BY <3>1, <3>2, WIs DEF W
  <2>. HIDE DEF w
  <2>2. 1 * w <= j * w
    BY <2>1, TimesMonotone
  <2>3. w = 1
    <3>1. 1 * w = w /\ j * w \in Nat /\ j * w <= 1
      BY <1>2, <2>1 DEF w
    <3>. QED
      BY <2>1, <2>2, <3>1
  <2>4. j = 1 /\ d = 0
    <3>1. j * 1 <= 1
      BY <1>2, <2>3 DEF w
    <3>. QED
      BY <2>1, <2>3, <3>1
  <2>5. Cell(k, 0, 1) = leafs_ - 1
    BY LeafsIs DEF Cell, V
  <2>. QED
    BY <1>1, <2>4, <2>5, RowZero
<1>3. Holds(k, tree, s)
  BY <1>1, <1>2 DEF Holds
<1>. QED
  BY <1>3 DEF s

LEMMA OneLeaf ==
  ASSUME NEW tree, NEW x, tree[leafs_ - 1] = x
  PROVE  Leaves(tree, 1) = <<x>>
<1>. DEFINE s == <<x>>
<1>1. IsSeq(s) /\ Len(s) = 1 /\ s[1] = x
  <2>1. s \in Seq({x}) /\ Len(s) = 1 /\ s[1] = x
    OBVIOUS
  <2>. HIDE DEF s
  <2>. QED
    BY <2>1, AnySeq
<1>. HIDE DEF s
<1>2. leafs_ - 2 + 1 = leafs_ - 1
  BY LeafsIs
<1>3. Leaves(tree, 1)[1] = x
  BY <1>2, LeavesAre
<1>4. IsSeq(Leaves(tree, 1)) /\ Len(Leaves(tree, 1)) = 1
  <2>1. 1 \in Nat
    OBVIOUS
  <2>. QED
    BY <2>1, LeavesAre
<1>5. \A i \in 1..Len(s) : s[i] = Leaves(tree, 1)[i]
  BY <1>1, <1>3
<1>6. s = Leaves(tree, 1)
  BY <1>1, <1>4, <1>5, SeqsEqual
<1>. QED
  BY <1>6 DEF s

(* One more push into an array that remembers its leaves.                   *)
Grows(k, l, a, w, n, item) ==
  /\ Remembers(k, Append(l, item), a, w.tree, n + 1)
  /\ w.tree[w.node] = RootOf(Leaves(w.tree, n + 1))
  /\ n + 1 = leafs_ => BlockAt(Append(l, item), Len(l) + 1) = <<w.tree[0]>>

LEMMA RemembersPush ==
  ASSUME NEW k \in Nat, leafs_ = power(2, k), NEW l \in Seq(Item), NEW item \in Item,
         NEW a \in Nat, NEW n \in Nat \ {0}, n < leafs_, a + n = Len(l),
         NEW tree, IsArray(tree), Remembers(k, l, a, tree, n)
  PROVE  Grows(k, l, a, Written(tree, leafs_ - 1 + n, item), n, item)
<1>. DEFINE w == Written(tree, leafs_ - 1 + n, item)
            r == Append(l, item)
            s == Leaves(tree, n)
<1>1. Fills(k, tree, w, n, item)
  BY WrittenHolds DEF Remembers
<1>. HIDE DEF w
<1>2. r \in Seq(Item) /\ Len(r) = Len(l) + 1 /\ Len(l) \in Nat
  OBVIOUS
<1>3. IsSeq(s) /\ Len(s) = n
  BY LeavesAre
<1>4. Leaves(w.tree, n + 1) = Append(s, item)
  BY <1>1 DEF Fills
<1>5. BlockAt(r, Len(l) + 1) = Promise!MerklePush(s, item)
  <2>1. BlockAt(r, Len(l) + 1) = Promise!MerkleOf(r)
    BY <1>2, BlockAtEnd
  <2>2. Promise!MerkleOf(r) = Promise!MerklePush(Promise!MerkleOf(l), item)
    BY MerkleOfAppend
  <2>3. Promise!MerkleOf(l) = s
    <3>1. n \in 1..n /\ n < leafs_
      OBVIOUS
    <3>2. BlockAt(l, a + n) = s
      BY <3>1 DEF Remembers
    <3>. QED
      BY <3>2, BlockAtEnd
  <2>. QED
    BY <2>1, <2>2, <2>3
<1>6. ASSUME n + 1 = leafs_ PROVE BlockAt(r, Len(l) + 1) = <<w.tree[0]>>
  <2>1. Promise!MerklePush(s, item) = <<RootOf(Append(s, item))>>
    BY <1>3, <1>6 DEF Promise!MerklePush
  <2>2. RootOf(Append(s, item)) = w.tree[0]
    BY <1>1, <1>4, <1>6 DEF Fills
  <2>. QED
    BY <1>5, <2>1, <2>2
<1>7. ASSUME NEW j \in 1..n + 1, j < leafs_
      PROVE  BlockAt(r, a + j) = Leaves(w.tree, j)
  <2>1. CASE j = n + 1
    <3>1. Promise!MerklePush(s, item) = Append(s, item)
      BY <1>3, <1>7, <2>1 DEF Promise!MerklePush
    <3>2. a + j = Len(l) + 1
      BY <2>1
    <3>. QED
      BY <1>4, <1>5, <2>1, <3>1, <3>2
  <2>2. CASE j # n + 1
    <3>1. j \in 1..n /\ j \in Nat /\ a + j \in Nat /\ a + j <= Len(l)
      BY <1>2, <2>2
    <3>2. BlockAt(r, a + j) = BlockAt(l, a + j)
      BY <3>1, SameAppend DEF SameTo
    <3>3. BlockAt(l, a + j) = Leaves(tree, j)
      BY <1>7, <3>1 DEF Remembers
    <3>4. ASSUME NEW i \in 1..j PROVE Leaves(w.tree, j)[i] = Leaves(tree, j)[i]
      <4>1. i \in 1..n + 1 /\ i \in 1..n
        BY <3>1
      <4>2. Leaves(w.tree, n + 1)[i] = w.tree[leafs_ - 2 + i]
        BY <4>1, LeavesAre
      <4>3. s[i] = tree[leafs_ - 2 + i]
        BY <4>1, LeavesAre
      <4>4. Append(s, item)[i] = s[i]
        BY <1>3, <4>1, AppendIs
      <4>5. Leaves(w.tree, j)[i] = w.tree[leafs_ - 2 + i]
            /\ Leaves(tree, j)[i] = tree[leafs_ - 2 + i]
        BY <3>1, LeavesAre
      <4>. QED
        BY <1>4, <4>2, <4>3, <4>4, <4>5
    <3>5. IsSeq(Leaves(w.tree, j)) /\ Len(Leaves(w.tree, j)) = j
          /\ IsSeq(Leaves(tree, j)) /\ Len(Leaves(tree, j)) = j
      BY <3>1, LeavesAre
    <3>6. Leaves(w.tree, j) = Leaves(tree, j)
      BY <3>4, <3>5, SeqsEqual
    <3>. QED
      BY <3>2, <3>3, <3>6
  <2>. QED
    BY <2>1, <2>2
<1>8. Remembers(k, r, a, w.tree, n + 1)
  BY <1>1, <1>7 DEF Remembers, Fills
<1>. QED
  BY <1>1, <1>6, <1>8 DEF Grows, Fills, w, r

(* A push of the leaf that is there already changes nothing: the last step  *)
(* of a rollback.                                                           *)
LEMMA RemembersAgain ==
  ASSUME NEW k \in Nat, leafs_ = power(2, k), NEW l, NEW a,
         NEW n \in Nat \ {0}, n < leafs_, NEW tree, IsArray(tree),
         Remembers(k, l, a, tree, n + 1),
         NEW w, w = Written(tree, leafs_ - 1 + n, tree[leafs_ - 1 + n])
  PROVE  /\ Remembers(k, l, a, w.tree, n + 1)
         /\ w.tree[w.node] = RootOf(Leaves(w.tree, n + 1))
<1>. DEFINE item == tree[leafs_ - 1 + n]
            s == Leaves(tree, n)
            t == Leaves(tree, n + 1)
<1>1. Remembers(k, l, a, tree, n)
  <2>1. n + 1 \in Nat /\ n \in 1..n + 1
    OBVIOUS
  <2>. QED
    BY <2>1, RemembersFewer
<1>2. Fills(k, tree, w, n, item)
  BY <1>1, WrittenHolds DEF Remembers
<1>3. /\ IsSeq(s) /\ Len(s) = n /\ \A i \in 1..n : s[i] = tree[leafs_ - 2 + i]
      /\ IsSeq(t) /\ Len(t) = n + 1 /\ \A i \in 1..n + 1 : t[i] = tree[leafs_ - 2 + i]
  BY LeavesAre
<1>4. leafs_ - 2 + (n + 1) = leafs_ - 1 + n
  BY LeafsIs
<1>5. item = t[n + 1]
  BY <1>3, <1>4
<1>. HIDE DEF s, t, item
<1>6. Append(s, item) = t
  <2>1. /\ IsSeq(Append(s, item)) /\ Len(Append(s, item)) = n + 1
        /\ \A i \in 1..n : Append(s, item)[i] = s[i]
        /\ Append(s, item)[n + 1] = item
    BY <1>3, AppendIs
  <2>2. \A i \in 1..n + 1 : Append(s, item)[i] = t[i]
    BY <1>3, <1>5, <2>1
  <2>. QED
    BY <1>3, <2>1, <2>2, SeqsEqual
<1>7. Leaves(w.tree, n + 1) = Leaves(tree, n + 1)
  BY <1>2, <1>6 DEF Fills, s, t
<1>8. ASSUME NEW j \in 1..n + 1 PROVE Leaves(w.tree, j) = Leaves(tree, j)
  <2>1. n + 1 \in Nat
    OBVIOUS
  <2>. QED
    BY <1>7, <2>1, LeavesFewer
<1>. QED
  BY <1>2, <1>8 DEF Remembers, Fills
-----------------------------------------------------------------------------
(* The arrays s remember all their leaves and the last of them c: the first *)
(* leaf of the first array is that of the first b + 1 hashes of l.          *)
Keeps(k, l, b, s, c) ==
  \A t \in 1..Len(s) :
    Remembers(k, l, b + (t - 1) * (leafs_ - 1), s[t],
              IF t < Len(s) THEN leafs_ ELSE c)

(* The arrays before the last end where the last begins.                    *)
LEMMA EndsBefore ==
  ASSUME NEW b \in Nat, NEW t \in Nat \ {0}, NEW n \in Nat, t < n
  PROVE  /\ b + (t - 1) * (leafs_ - 1) \in Nat
         /\ b + (n - 1) * (leafs_ - 1) \in Nat
         /\ b + (t - 1) * (leafs_ - 1) + (leafs_ - 1) <= b + (n - 1) * (leafs_ - 1)
<1>. DEFINE u == leafs_ - 1
            i == t - 1
            j == n - 1
<1>1. u \in Nat /\ i \in Nat /\ j \in Nat /\ i + 1 <= j
  BY LeafsIs
<1>. HIDE DEF u, i, j
<1>2. (i + 1) * u <= j * u
  BY <1>1, TimesMonotone
<1>3. (i + 1) * u = i * u + u /\ i * u \in Nat /\ j * u \in Nat
  BY <1>1
<1>4. b + i * u \in Nat /\ b + j * u \in Nat /\ b + i * u + u <= b + j * u
  BY <1>1, <1>2, <1>3
<1>. QED
  BY <1>4 DEF u, i, j

LEMMA KeepsReplaced ==
  ASSUME NEW k, NEW l, NEW b \in Nat, NEW s, IsSeq(s), Len(s) >= 1, NEW c,
         Keeps(k, l, b, s, c), NEW r, NEW e, Replaced(s, r, e), NEW m, NEW y \in Nat,
         SameTo(l, m, y), b + (Len(s) - 1) * (leafs_ - 1) <= y,
         NEW i, Remembers(k, m, b + (Len(s) - 1) * (leafs_ - 1), e, i)
  PROVE  Keeps(k, m, b, r, i)
<1>. DEFINE n == Len(s)
<1>1. n \in Nat /\ Len(r) = n /\ r[n] = e /\ \A t \in 1..n - 1 : r[t] = s[t]
  BY SeqIs DEF Replaced
<1>2. ASSUME NEW t \in 1..n, t < n
      PROVE  Remembers(k, m, b + (t - 1) * (leafs_ - 1), r[t], leafs_)
  <2>. DEFINE a == b + (t - 1) * (leafs_ - 1)
              z == b + (n - 1) * (leafs_ - 1)
  <2>1. a \in Nat /\ z \in Nat /\ a + (leafs_ - 1) <= z /\ z <= y
    <3>1. t \in Nat \ {0}
      OBVIOUS
    <3>. QED
      BY <1>1, <1>2, <3>1, EndsBefore
  <2>2. Remembers(k, l, a, s[t], leafs_)
    BY <1>2 DEF Keeps
  <2>. HIDE DEF a, z
  <2>3. a + (leafs_ - 1) <= y /\ leafs_ \in Nat
    BY <2>1, LeafsIs
  <2>4. Remembers(k, m, a, s[t], leafs_)
    BY <2>1, <2>2, <2>3, RemembersSame
  <2>5. r[t] = s[t]
    BY <1>1, <1>2
  <2>. QED
    BY <2>4, <2>5 DEF a
<1>. HIDE DEF n
<1>3. ASSUME NEW t \in 1..Len(r)
      PROVE  Remembers(k, m, b + (t - 1) * (leafs_ - 1), r[t],
                       IF t < Len(r) THEN leafs_ ELSE i)
  <2>1. CASE t < n
    BY <1>1, <1>2, <2>1
  <2>2. CASE t = n
    BY <1>1, <2>2 DEF n
  <2>. QED
    BY <1>1, <2>1, <2>2
<1>. QED
  BY <1>3 DEF Keeps

LEMMA KeepsAppended ==
  ASSUME NEW k, NEW l, NEW b, NEW s, IsSeq(s), Keeps(k, l, b, s, leafs_),
         NEW r, NEW e, Appended(s, r, e), NEW i,
         Remembers(k, l, b + Len(s) * (leafs_ - 1), e, i)
  PROVE  Keeps(k, l, b, r, i)
<1>. DEFINE n == Len(s)
<1>1. n \in Nat /\ Len(r) = n + 1 /\ r[n + 1] = e /\ \A t \in 1..n : r[t] = s[t]
  BY SeqIs DEF Appended
<1>2. ASSUME NEW t \in 1..n
      PROVE  Remembers(k, l, b + (t - 1) * (leafs_ - 1), r[t], leafs_)
  BY <1>1 DEF Keeps
<1>3. ASSUME NEW t \in 1..Len(r)
      PROVE  Remembers(k, l, b + (t - 1) * (leafs_ - 1), r[t],
                       IF t < Len(r) THEN leafs_ ELSE i)
  <2>1. CASE t < n + 1
    BY <1>1, <1>2, <2>1
  <2>2. CASE t = n + 1
    <3>1. t - 1 = n
      BY <1>1, <2>2
    <3>. QED
      BY <1>1, <2>2, <3>1
  <2>. QED
    BY <1>1, <2>1, <2>2
<1>. QED
  BY <1>3 DEF Keeps

LEMMA KeepsTail ==
  ASSUME NEW k, NEW l, NEW b \in Nat, NEW s, IsSeq(s), Len(s) >= 1, NEW c,
         Keeps(k, l, b, s, c)
  PROVE  Keeps(k, l, b + (leafs_ - 1), Tail(s), c)
<1>. DEFINE n == Len(s)
            r == Tail(s)
            u == leafs_ - 1
<1>1. n \in Nat /\ Len(r) = n - 1 /\ \A t \in 1..n - 1 : r[t] = s[t + 1]
  BY SeqIs, TailIs
<1>2. u \in Nat
  BY LeafsIs
<1>. HIDE DEF r, n, u
<1>3. ASSUME NEW t \in 1..Len(r)
      PROVE  Remembers(k, l, (b + u) + (t - 1) * u, r[t],
                       IF t < Len(r) THEN leafs_ ELSE c)
  <2>. DEFINE q == t + 1
  <2>1. q \in 1..n /\ r[t] = s[q] /\ (t < Len(r) <=> q < n)
    BY <1>1
  <2>2. (b + u) + (t - 1) * u = b + (q - 1) * u
    <3>. DEFINE p == t - 1
    <3>1. p \in Int /\ q - 1 = p + 1
      OBVIOUS
    <3>. HIDE DEF p, q
    <3>2. (p + 1) * u = p * u + u /\ p * u \in Int
      BY <1>2, <3>1
    <3>3. (b + u) + p * u = b + (p + 1) * u
      BY <1>2, <3>2
    <3>. QED
      BY <3>1, <3>3 DEF p
  <2>. HIDE DEF q
  <2>3. Remembers(k, l, b + (q - 1) * u, s[q], IF q < n THEN leafs_ ELSE c)
    BY <2>1 DEF Keeps, n, u
  <2>. QED
    BY <2>1, <2>2, <2>3
<1>. QED
  BY <1>3 DEF Keeps, r, u
-----------------------------------------------------------------------------
(* The tree m is that of the log l.                                         *)
Marks(k, m, l) ==
  /\ \E b \in Nat : /\ b + 1 + Depth(m) = Len(l)
                    /\ Keeps(k, l, b, m.trees, m.i_current - (leafs_ - 1))
  /\ root(m) = RootOf(LastBlock(m))

LEMMA BlockLeaves ==
  ASSUME NEW m
  PROVE  LastBlock(m) = Leaves(back(m.trees), m.i_current - (leafs_ - 1))
BY DEF LastBlock, Leaves

LEMMA LeafsArePower ==
  ASSUME NEW k \in Nat, ctorLeafs = power(2, k)
  PROVE  leafs_ = power(2, k)
<1>. DEFINE y == log2(ctorLeafs)
            l == power(2, y)
<1>1. ctorLeafs \in Nat \ {0}
  BY MerkleTreeAssumption
<1>2. y \in Nat /\ l <= ctorLeafs /\ ctorLeafs < power(2, y + 1)
  BY <1>1, Log2Is
<1>3. leafs_ = IF l = ctorLeafs THEN l ELSE l + 1
  BY Zenon DEF leafs_, ceil2
<1>. HIDE DEF y
<1>4. \A g \in Nat : power(2, g) \in Nat
  BY Power2
<1>5. CASE y < k
  <2>1. power(2, y + 1) <= power(2, k)
    <3>1. y + 1 \in Nat /\ y + 1 <= k /\ 2 \in Nat \ {0}
      BY <1>2, <1>5
    <3>. DEFINE z == y + 1
    <3>. HIDE DEF z
    <3>2. power(2, z) <= power(2, k)
      BY <3>1, PowerMonotone DEF z
    <3>. QED
      BY <3>2 DEF z
  <2>2. power(2, y + 1) \in Nat
    BY <1>2, Power2
  <2>. QED
    BY <1>1, <1>2, <2>1, <2>2
<1>6. CASE k <= y
  <2>1. power(2, k) <= l
    <3>1. 2 \in Nat \ {0}
      OBVIOUS
    <3>. QED
      BY <1>2, <1>6, <3>1, PowerMonotone
  <2>2. l \in Nat
    BY <1>2, <1>4
  <2>3. l = ctorLeafs
    BY <1>1, <1>2, <2>1, <2>2
  <2>. QED
    BY <1>3, <2>3
<1>. QED
  BY <1>2, <1>5, <1>6

(* Before a push: where the last array begins in the log.                   *)
Begins(k, m, l, b, a, c) ==
  /\ c \in Nat \ {0} /\ c < leafs_ /\ m.i_current = leafs_ - 1 + c
  /\ a = b + (Len(m.trees) - 1) * (leafs_ - 1) /\ a \in Nat
  /\ IsArray(back(m.trees)) /\ Remembers(k, l, a, back(m.trees), c)

LEMMA BeginsAt ==
  ASSUME NEW k, NEW m, Shape(m), m.i_current # leafs_ - 1, NEW l, NEW b \in Nat,
         Keeps(k, l, b, m.trees, m.i_current - (leafs_ - 1))
  PROVE  /\ Begins(k, m, l, b, b + (Len(m.trees) - 1) * (leafs_ - 1),
                   m.i_current - (leafs_ - 1))
         /\ Depth(m) + b + 1 = b + (Len(m.trees) - 1) * (leafs_ - 1)
                                 + (m.i_current - (leafs_ - 1))
<1>. DEFINE c == m.i_current - (leafs_ - 1)
            n == Len(m.trees)
            u == leafs_ - 1
            d == (n - 1) * u
<1>1. c \in Nat \ {0} /\ c < leafs_ /\ m.i_current = leafs_ - 1 + c
  <2>. DEFINE i == m.i_current
              f == leafs_
  <2>1. i \in f - 1..2 * f - 2 /\ f \in Nat /\ i # f - 1
    <3>1. size_ - 1 = 2 * f - 2
      BY LeafsIs, SizeIs
    <3>. QED
      BY <3>1, LeafsIs DEF Shape
  <2>. HIDE DEF i, f
  <2>2. /\ i - (f - 1) \in Nat \ {0} /\ i - (f - 1) < f
        /\ i = f - 1 + (i - (f - 1))
    BY <2>1
  <2>. QED
    BY <2>2 DEF i, f
<1>2. n \in Nat /\ n >= 1 /\ u \in Nat
  BY LeafsIs, BlocksIs DEF Shape
<1>3. Depth(m) = d + (m.i_current - leafs_)
  BY DEF Depth
<1>4. IsArray(back(m.trees)) /\ Remembers(k, l, b + d, back(m.trees), c)
  <2>1. n \in 1..n
    BY <1>2
  <2>. QED
    BY <2>1 DEF Shape, Keeps, back
<1>. HIDE DEF c, n, u
<1>5. d \in Nat
  <2>. DEFINE i == n - 1
  <2>1. i \in Nat
    BY <1>2
  <2>. HIDE DEF i
  <2>2. i * u \in Nat
    BY <1>2, <2>1
  <2>. QED
    BY <2>2 DEF i
<1>. HIDE DEF d
<1>6. Depth(m) + b + 1 = b + d + c
  BY <1>1, <1>3, <1>5, LeafsIs
<1>7. Begins(k, m, l, b, b + d, c)
  BY <1>1, <1>4, <1>5 DEF Begins, d, n, u
<1>. QED
  BY <1>6, <1>7 DEF d, n, u, c

(* A push into a tree that has leaves is a push into the block of the log.  *)
LEMMA PushMarks ==
  ASSUME NEW k \in Nat, leafs_ = power(2, k), NEW m, Shape(m), m.i_current # leafs_ - 1,
         NEW l \in Seq(Item), NEW item \in Item, Marks(k, m, l)
  PROVE  Marks(k, pushed(m, item), Append(l, item))
<1>. DEFINE p == pushed(m, item)
            r == Append(l, item)
            u == leafs_ - 1
            n == Len(m.trees)
            c == m.i_current - (leafs_ - 1)
            tree == back(m.trees)
            w == Written(tree, m.i_current, item)
<1>1. PICK b \in Nat : b + 1 + Depth(m) = Len(l) /\ Keeps(k, l, b, m.trees, c)
  BY DEF Marks
<1>. DEFINE a == b + (n - 1) * u
<1>2. Begins(k, m, l, b, a, c) /\ Depth(m) + b + 1 = a + c
  BY <1>1, BeginsAt
<1>3. Depth(m) \in Nat
  BY DepthIs
<1>4. r \in Seq(Item) /\ Len(r) = Len(l) + 1 /\ Len(l) \in Nat
  OBVIOUS
<1>5. IsSeq(m.trees) /\ n \in Nat /\ n >= 1 /\ n <= ctorBlocks + 1
  BY BlocksIs DEF Shape
<1>6. Shape(p)
  BY PushShape
<1>. HIDE DEF p, r, n, c, tree, w, a
<1>7. /\ c \in Nat \ {0} /\ c < leafs_ /\ m.i_current = leafs_ - 1 + c
      /\ a \in Nat /\ IsArray(tree) /\ Remembers(k, l, a, tree, c) /\ a + c = Len(l)
  BY <1>1, <1>2, <1>3 DEF Begins, tree
<1>8. Grows(k, l, a, w, c, item)
  BY <1>7, RemembersPush DEF w
<1>9. ASSUME NEW all, Replaced(m.trees, all, w.tree)
      PROVE  Keeps(k, r, b, all, c + 1)
  <2>1. SameTo(l, r, Len(l))
    BY SameAppend DEF r
  <2>2. a <= Len(l) /\ Remembers(k, r, a, w.tree, c + 1)
    BY <1>4, <1>7, <1>8 DEF Grows, r
  <2>. QED
    BY <1>1, <1>4, <1>5, <1>9, <2>1, <2>2, KeepsReplaced DEF a, n
<1>10. CASE m.i_current + 1 # size_
  <2>1. PushesNext(m, p, item)
    BY <1>10, PushedNext DEF p
  <2>2. Replaced(m.trees, p.trees, w.tree) /\ p.i_current = m.i_current + 1
        /\ p.i_root = w.node
    BY <2>1 DEF PushesNext, w, tree
  <2>3. p.i_current - (leafs_ - 1) = c + 1 /\ Len(p.trees) = n /\ back(p.trees) = w.tree
    BY <1>5, <1>7, <2>2, LeafsIs DEF Replaced, back, n
  <2>4. Keeps(k, r, b, p.trees, p.i_current - (leafs_ - 1))
    BY <1>9, <2>2, <2>3
  <2>5. b + 1 + Depth(p) = Len(r)
    <3>. DEFINE d == (n - 1) * u
    <3>1. Depth(p) = d + (p.i_current - leafs_) /\ Depth(m) = d + (m.i_current - leafs_)
      BY <2>3 DEF Depth, n
    <3>2. d \in Int
      <4>1. n - 1 \in Int /\ u \in Int
        BY <1>5, LeafsIs
      <4>. QED
        BY <4>1, Times
    <3>. HIDE DEF d
    <3>3. Depth(p) = Depth(m) + 1
      BY <1>7, <2>2, <3>1, <3>2, LeafsIs
    <3>. QED
      BY <1>1, <1>3, <1>4, <3>3
  <2>6. root(p) = RootOf(LastBlock(p))
    <3>1. root(p) = w.tree[w.node]
      BY <2>2, <2>3 DEF root
    <3>2. LastBlock(p) = Leaves(w.tree, c + 1)
      BY <2>3, BlockLeaves
    <3>. QED
      BY <1>8, <3>1, <3>2 DEF Grows
  <2>. QED
    BY <2>4, <2>5, <2>6 DEF Marks, p, r
<1>11. CASE m.i_current + 1 = size_
  <2>. DEFINE next == NextTree(w.tree[0])
  <2>1. PushesLast(m, p, item)
    BY <1>11, PushedLast DEF p
  <2>2. PICK all : /\ Replaced(m.trees, all, w.tree)
                   /\ IF Len(all) = ctorBlocks + 1
                      THEN Appended(Tail(all), p.trees, next)
                      ELSE Appended(all, p.trees, next)
    BY <2>1 DEF PushesLast, w, tree
  <2>3. p.i_current = leafs_ /\ p.i_root = leafs_ - 1
    BY <2>1 DEF PushesLast
  <2>4. c + 1 = leafs_
    BY <1>7, <1>11, LeafsIs, SizeIs
  <2>5. next[leafs_ - 1] = w.tree[0]
    <3>1. leafs_ - 1 \in DOMAIN EmptyTree
      BY LeafsIs, SizeIs DEF EmptyTree
    <3>. QED
      BY <3>1 DEF NextTree
  <2>. HIDE DEF next
  <2>6. Keeps(k, r, b, all, leafs_) /\ IsSeq(all) /\ Len(all) = n
    BY <1>9, <2>2, <2>4 DEF Replaced, n
  <2>7. Leaves(next, 1) = <<w.tree[0]>>
    BY <2>5, OneLeaf
  <2>. DEFINE z == b + n * u
  <2>8. z \in Nat /\ z + 1 = Len(r) /\ Depth(m) + 1 = n * u /\ n * u \in Nat
    <3>. DEFINE d == (n - 1) * u
                e == n * u
    <3>1. d \in Nat /\ e = d + u /\ u \in Nat
      <4>. DEFINE i == n - 1
      <4>1. i \in Nat /\ n = i + 1 /\ u \in Nat
        BY <1>5, LeafsIs
      <4>. HIDE DEF i, u
      <4>2. (i + 1) * u = i * u + u /\ i * u \in Nat
        BY <4>1
      <4>. QED
        BY <4>1, <4>2 DEF i
    <3>2. a = b + d
      BY DEF a
    <3>. HIDE DEF d, e
    <3>3. c = u
      BY <2>4, <1>7, LeafsIs
    <3>. HIDE DEF u
    <3>4. a + u = b + e /\ b + 1 + Depth(m) = a + u
      BY <1>1, <1>7, <3>1, <3>2, <3>3
    <3>5. b + e \in Nat /\ b + e + 1 = Len(r) /\ Depth(m) + 1 = e
      BY <1>1, <1>3, <1>4, <1>7, <3>1, <3>3, <3>4
    <3>. QED
      BY <3>1, <3>5 DEF e, u
  <2>. HIDE DEF z
  <2>9. Remembers(k, r, z, next, 1)
    <3>1. Holds(k, next, Leaves(next, 1))
      BY OneHolds
    <3>2. BlockAt(r, z + 1) = Leaves(next, 1)
      BY <1>4, <1>8, <2>4, <2>7, <2>8 DEF Grows, r
    <3>3. \A j \in 1..1 : j < leafs_ => BlockAt(r, z + j) = Leaves(next, j)
      BY <3>2
    <3>. QED
      BY <3>1, <3>3 DEF Remembers
  <2>10. \E e \in Nat : e + 1 + Depth(p) = Len(r) /\ Keeps(k, r, e, p.trees, 1)
                        /\ back(p.trees) = next
    <3>1. CASE n = ctorBlocks + 1
      <4>. DEFINE kept == Tail(all)
      <4>1. Appended(kept, p.trees, next)
        BY <2>2, <2>6, <3>1
      <4>2. IsSeq(kept) /\ Len(kept) = n - 1
        BY <1>5, <2>6, TailIs
      <4>3. Keeps(k, r, b + u, kept, leafs_)
        BY <1>5, <2>6, KeepsTail
      <4>. HIDE DEF kept
      <4>4. b + u + Len(kept) * u = z /\ u \in Nat /\ (n - 1) * u = n * u - u
        <5>1. n - 1 \in Int /\ u \in Nat /\ (n - 1) * u = n * u - 1 * u /\ n * u \in Int
          BY <1>5, LeafsIs, Times
        <5>. DEFINE d == (n - 1) * u
                    e == n * u
        <5>2. Len(kept) * u = d /\ z = b + e
          BY <4>2 DEF z
        <5>3. d = e - u /\ e \in Int /\ u \in Nat
          BY <5>1
        <5>. HIDE DEF d, e, u
        <5>4. b + u + d = b + e
          BY <5>3
        <5>. QED
          BY <5>2, <5>3, <5>4 DEF d, e
      <4>5. Keeps(k, r, b + u, p.trees, 1)
        <5>. DEFINE x == b + u
        <5>1. x + Len(kept) * u = z
          BY <4>4
        <5>. HIDE DEF x
        <5>2. Keeps(k, r, x, kept, leafs_)
          BY <4>3 DEF x
        <5>3. Keeps(k, r, x, p.trees, 1)
          BY <2>9, <4>1, <4>2, <5>1, <5>2, KeepsAppended
        <5>. QED
          BY <5>3 DEF x
      <4>6. back(p.trees) = next /\ Len(p.trees) = n
        BY <1>5, <4>1, <4>2 DEF Appended, back
      <4>7. Depth(p) = (n - 1) * u
        <5>1. Depth(p) = (n - 1) * u + (leafs_ - leafs_)
          BY <2>3, <4>6 DEF Depth
        <5>. DEFINE d == (n - 1) * u
        <5>2. d \in Int
          <6>1. n - 1 \in Int /\ u \in Int
            BY <1>5, <4>4
          <6>. QED
            BY <6>1, Times
        <5>. HIDE DEF d
        <5>3. Depth(p) = d
          BY <5>1, <5>2, LeafsIs DEF d
        <5>. QED
          BY <5>3 DEF d
      <4>8. b + u \in Nat /\ b + u + 1 + Depth(p) = Len(r)
        <5>. DEFINE e == n * u
                    d == (n - 1) * u
        <5>1. e \in Nat /\ u \in Nat /\ d = e - u /\ Depth(p) = d /\ z = b + e
          BY <2>8, <4>4, <4>7 DEF z
        <5>. HIDE DEF e, d, u
        <5>. QED
          BY <1>4, <2>8, <5>1
      <4>. QED
        BY <4>5, <4>6, <4>8
    <3>2. CASE n # ctorBlocks + 1
      <4>1. Appended(all, p.trees, next)
        BY <2>2, <2>6, <3>2
      <4>2. Keeps(k, r, b, p.trees, 1)
        BY <2>6, <2>9, <4>1, KeepsAppended DEF z
      <4>3. back(p.trees) = next /\ Len(p.trees) = n + 1
        BY <1>5, <2>6, <4>1 DEF Appended, back
      <4>4. Depth(p) = n * u
        <5>1. Depth(p) = (n + 1 - 1) * u + (leafs_ - leafs_) /\ n + 1 - 1 = n
          BY <1>5, <2>3, <4>3 DEF Depth
        <5>. DEFINE e == n * u
        <5>2. e \in Int /\ Depth(p) = e + (leafs_ - leafs_)
          BY <2>8, <5>1
        <5>. HIDE DEF e
        <5>3. Depth(p) = e
          BY <5>2, LeafsIs
        <5>. QED
          BY <5>3 DEF e
      <4>5. b + 1 + Depth(p) = Len(r)
        <5>. DEFINE e == n * u
        <5>1. e \in Nat /\ Depth(p) = e /\ z = b + e
          BY <2>8, <4>4 DEF z
        <5>. HIDE DEF e
        <5>. QED
          BY <1>4, <2>8, <5>1
      <4>. QED
        BY <4>2, <4>3, <4>5
    <3>. QED
      BY <3>1, <3>2
  <2>11. p.i_current - (leafs_ - 1) = 1
    BY <2>3, LeafsIs
  <2>12. root(p) = RootOf(LastBlock(p))
    <3>1. back(p.trees) = next
      BY <2>10
    <3>2. root(p) = w.tree[0]
      BY <2>3, <2>5, <3>1 DEF root
    <3>3. LastBlock(p) = Leaves(next, 1)
      BY <2>11, <3>1, BlockLeaves
    <3>. QED
      BY <2>7, <3>2, <3>3, RootOfOne
  <2>. QED
    BY <2>10, <2>11, <2>12 DEF Marks, p, r
<1>. QED
  BY <1>10, <1>11
-----------------------------------------------------------------------------
(* The first arrays keep what they kept, the last of them as many leaves as *)
(* it has.                                                                  *)
LEMMA KeepsStart ==
  ASSUME NEW k, NEW l, NEW b, NEW s, IsSeq(s), NEW c, Keeps(k, l, b, s, c),
         NEW q \in Nat, q <= Len(s), NEW r, IsStart(r, s, q)
  PROVE  Keeps(k, l, b, r, IF q < Len(s) THEN leafs_ ELSE c)
<1>1. Len(s) \in Nat /\ Len(r) = q /\ \A t \in 1..q : r[t] = s[t]
  BY SeqIs DEF IsStart
<1>2. ASSUME NEW t \in 1..q
      PROVE  Remembers(k, l, b + (t - 1) * (leafs_ - 1), r[t],
                       IF t < q THEN leafs_ ELSE IF q < Len(s) THEN leafs_ ELSE c)
  <2>1. t \in 1..Len(s) /\ r[t] = s[t]
    BY <1>1
  <2>2. Remembers(k, l, b + (t - 1) * (leafs_ - 1), r[t],
                  IF t < Len(s) THEN leafs_ ELSE c)
    BY <2>1 DEF Keeps
  <2>3. CASE t < q
    BY <1>1, <2>2, <2>3
  <2>4. CASE t = q
    BY <1>1, <2>2, <2>4
  <2>. QED
    BY <2>3, <2>4
<1>. QED
  BY <1>1, <1>2 DEF Keeps

(* After a rollback the tree is that of the log that is left.               *)
LEMMA RollbackMarks ==
  ASSUME NEW k \in Nat, leafs_ = power(2, k), NEW m, Shape(m), m.i_current # leafs_ - 1,
         NEW l \in Seq(Item), Marks(k, m, l), NEW n \in 1..Depth(m),
         NEW h, CutTo(m, n, h)
  PROVE  Marks(k, pushed(h, back(h.trees)[h.i_current]), SubSeq(l, 1, Len(l) - n))
<1>. DEFINE tree == back(h.trees)
            j == h.i_current
            item == tree[j]
            p == pushed(h, item)
            y == Len(l) - n
            r == SubSeq(l, 1, y)
            q == Len(h.trees)
            u == leafs_ - 1
            c == j + 1 - u
            more == IF q < Len(m.trees) THEN leafs_ ELSE m.i_current - (leafs_ - 1)
<1>1. PICK b \in Nat : /\ b + 1 + Depth(m) = Len(l)
                       /\ Keeps(k, l, b, m.trees, m.i_current - (leafs_ - 1))
  BY DEF Marks
<1>. DEFINE a == b + (q - 1) * u
<1>2. Depth(m) \in Nat
  BY DepthIs
<1>3. /\ Shape(h) /\ q <= Len(m.trees) /\ IsStart(h.trees, m.trees, q)
      /\ j + 1 # size_ /\ (q = Len(m.trees) => j + 1 < m.i_current)
      /\ (q - 1) * u + (j + 1 - leafs_) = Depth(m) - n
  BY DEF CutTo
<1>4. /\ Shape(p) /\ p.i_current = j + 1 /\ Depth(p) = Depth(m) - n
      /\ Len(p.trees) = q
  BY CutMoves
<1>5. /\ q \in Nat /\ q >= 1 /\ IsSeq(h.trees) /\ IsArray(tree)
      /\ IsSeq(m.trees) /\ Len(m.trees) \in Nat
  <2>1. q \in 1..ctorBlocks + 1 /\ \A t \in 1..q : IsArray(h.trees[t])
    BY <1>3 DEF Shape
  <2>2. q \in 1..q /\ q \in Nat /\ q >= 1
    BY <2>1, BlocksIs
  <2>3. IsArray(tree)
    BY <2>1, <2>2 DEF back
  <2>4. IsSeq(h.trees) /\ IsSeq(m.trees)
    BY <1>3 DEF Shape
  <2>5. Len(m.trees) \in Nat
    BY <2>4, SeqIs
  <2>. QED
    BY <2>2, <2>3, <2>4, <2>5
<1>6. u \in Nat /\ u >= 1 /\ leafs_ = u + 1 /\ j \in u..2 * u - 1
  <2>1. u \in Nat /\ u >= 1 /\ leafs_ = u + 1 /\ size_ = 2 * u + 1
    BY LeafsIs, SizeIs
  <2>2. j \in u..size_ - 1
    BY <1>3 DEF Shape
  <2>. HIDE DEF u, j
  <2>. QED
    BY <1>3, <2>1, <2>2
<1>7. m.i_current \in Nat
  BY LeafsIs, SizeIs DEF Shape
<1>. HIDE DEF q, u, j, tree
<1>8. c \in 1..u /\ c \in Nat /\ (q < Len(m.trees) => c <= more) /\ more \in Nat
      /\ (q = Len(m.trees) => c < more)
  <2>1. CASE q < Len(m.trees)
    BY <1>5, <1>6, <2>1
  <2>2. CASE q = Len(m.trees)
    <3>1. j + 1 < m.i_current /\ more = m.i_current - u
      BY <1>3, <1>5, <1>6, <2>2 DEF u
    <3>. QED
      BY <1>5, <1>6, <1>7, <2>2, <3>1
  <2>. QED
    BY <1>3, <1>5, <2>1, <2>2
<1>. HIDE DEF more
<1>9. (q - 1) * u \in Nat /\ a \in Nat /\ a + c = y /\ y \in Nat /\ y <= Len(l)
  <2>. DEFINE d == (q - 1) * u
  <2>1. d \in Nat
    <3>. DEFINE i == q - 1
    <3>1. i \in Nat
      BY <1>5
    <3>. HIDE DEF i
    <3>2. i * u \in Nat
      BY <1>6, <3>1
    <3>. QED
      BY <3>2 DEF i
  <2>2. d + (j + 1 - leafs_) = Depth(m) - n
    BY <1>3
  <2>. HIDE DEF d
  <2>3. Len(l) \in Nat
    OBVIOUS
  <2>4. b + d + c = y
    <3>. DEFINE D == Depth(m)
                L == Len(l)
    <3>1. D \in Nat /\ L \in Nat /\ n \in Int /\ b + 1 + D = L
          /\ d + (j + 1 - leafs_) = D - n
      BY <1>1, <1>2, <2>2, <2>3
    <3>. HIDE DEF D, L
    <3>2. b + d + (j + 1 - u) = L - n
      BY <1>6, <2>1, <3>1
    <3>. QED
      BY <3>2 DEF L
  <2>. QED
    BY <1>1, <1>2, <1>8, <2>1, <2>3, <2>4 DEF d
<1>10. r \in Seq(Item) /\ Len(r) = y /\ SameTo(l, r, y)
  <2>1. SameTo(l, r, y)
    BY <1>9, SameStart
  <2>2. r \in Seq(Item) /\ Len(r) = y
    BY <1>9
  <2>. QED
    BY <2>1, <2>2
<1>11. Keeps(k, l, b, h.trees, more)
  BY <1>1, <1>3, <1>5, KeepsStart DEF more
<1>12. Remembers(k, r, a, tree, c)
  <2>1. Remembers(k, l, a, tree, more)
    <3>1. q \in 1..q /\ ~(q < q)
      BY <1>5
    <3>. QED
      BY <1>11, <3>1 DEF Keeps, q, u, tree, back
  <2>. HIDE DEF a, c
  <2>2. c \in 1..more
    BY <1>3, <1>5, <1>8
  <2>3. Remembers(k, l, a, tree, c)
    BY <1>8, <2>1, <2>2, RemembersFewer
  <2>4. a + c <= y
    BY <1>9
  <2>. QED
    BY <1>8, <1>9, <1>10, <2>3, <2>4, RemembersSame
<1>13. p.i_current - (leafs_ - 1) = c
  BY <1>4, <1>6 DEF u
<1>14. b + 1 + Depth(p) = Len(r)
  <2>. DEFINE D == Depth(m)
              L == Len(l)
  <2>1. D \in Nat /\ L \in Nat /\ n \in Int /\ b + 1 + D = L
    BY <1>1, <1>2
  <2>2. Depth(p) = D - n /\ Len(r) = L - n
    BY <1>4, <1>10
  <2>. HIDE DEF D, L, p, r
  <2>. QED
    BY <2>1, <2>2
<1>. HIDE DEF p, r, c, a, y
<1>15. SUFFICES ASSUME NEW e, NEW i, Replaced(h.trees, p.trees, e), p.i_root = i,
                       Remembers(k, r, a, e, c), e[i] = RootOf(Leaves(e, c))
                PROVE  Keeps(k, r, b, p.trees, c) /\ root(p) = RootOf(LastBlock(p))
  <2>1. \E e : \E i : /\ Replaced(h.trees, p.trees, e) /\ p.i_root = i
                      /\ Remembers(k, r, a, e, c) /\ e[i] = RootOf(Leaves(e, c))
    <3>1. CASE j = u
      <4>. DEFINE e == [tree EXCEPT ![leafs_ - 1] = item]
      <4>1. PushesFirst(h, p, item)
        BY <1>3, <3>1, PushedFirst DEF p, u, j
      <4>2. Replaced(h.trees, p.trees, e) /\ p.i_root = leafs_ - 1
        BY <4>1 DEF PushesFirst, tree
      <4>3. e = tree
        BY <1>5, <3>1 DEF IsArray, u
      <4>4. c = 1
        BY <1>6, <3>1 DEF c
      <4>5. Leaves(tree, 1) = <<tree[leafs_ - 1]>>
        BY OneLeaf
      <4>6. RootOf(Leaves(tree, c)) = tree[leafs_ - 1]
        BY <4>4, <4>5, RootOfOne
      <4>. HIDE DEF e
      <4>. QED
        BY <1>12, <4>2, <4>3, <4>6
    <3>2. CASE j # u
      <4>. DEFINE w == Written(tree, j, item)
                  g == j - u
      <4>1. PushesNext(h, p, item)
        BY <1>3, <3>2, PushedNext DEF p, u, j
      <4>2. Replaced(h.trees, p.trees, w.tree) /\ p.i_root = w.node
        BY <4>1 DEF PushesNext, tree, j
      <4>3. g \in Nat \ {0} /\ g < leafs_ /\ j = leafs_ - 1 + g /\ c = g + 1
        BY <1>6, <3>2 DEF c
      <4>. HIDE DEF w, g
      <4>4. w = Written(tree, leafs_ - 1 + g, tree[leafs_ - 1 + g])
        BY <4>3 DEF w
      <4>5. Remembers(k, r, a, w.tree, c) /\ w.tree[w.node] = RootOf(Leaves(w.tree, c))
        BY <1>5, <1>12, <4>3, <4>4, RemembersAgain
      <4>. QED
        BY <4>2, <4>5
    <3>. QED
      BY <3>1, <3>2
  <2>2. Marks(k, p, r)
    BY <1>1, <1>13, <1>14, <2>1, <1>15 DEF Marks
  <2>. QED
    BY <2>2 DEF p, r, y, j, tree
<1>16. Keeps(k, r, b, p.trees, c)
  <2>1. a <= y
    BY <1>8, <1>9
  <2>. QED
    BY <1>1, <1>5, <1>9, <1>10, <1>11, <1>15, <2>1, KeepsReplaced DEF a, q, u
<1>17. root(p) = RootOf(LastBlock(p))
  <2>1. back(p.trees) = e
    BY <1>4, <1>15 DEF Replaced, back, q
  <2>2. LastBlock(p) = Leaves(e, c)
    BY <1>13, <2>1, BlockLeaves
  <2>3. root(p) = e[i]
    BY <1>15, <2>1 DEF root
  <2>. QED
    BY <1>15, <2>2, <2>3
<1>. QED
  BY <1>16, <1>17

(* The first push into a tree without leaves.                               *)
LEMMA FirstMarks ==
  ASSUME NEW k \in Nat, leafs_ = power(2, k), NEW item \in Item
  PROVE  Marks(k, pushed(Fresh, item), Append(<< >>, item))
<1>. DEFINE p == pushed(Fresh, item)
            l == Append(<< >>, item)
            e == [back(Fresh.trees) EXCEPT ![leafs_ - 1] = item]
<1>1. Shape(Fresh) /\ Fresh.i_current = leafs_ - 1 /\ Len(Fresh.trees) = 1
      /\ Fresh.trees[1] = EmptyTree
  BY FreshShape
<1>2. PushesFirst(Fresh, p, item)
  BY <1>1, PushedFirst
<1>. HIDE DEF p
<1>3. Replaced(Fresh.trees, p.trees, e) /\ p.i_current = leafs_ /\ p.i_root = leafs_ - 1
  BY <1>2 DEF PushesFirst
<1>4. e[leafs_ - 1] = item
  <2>1. leafs_ - 1 \in DOMAIN EmptyTree
    BY LeafsIs, SizeIs DEF EmptyTree
  <2>. QED
    BY <1>1, <2>1 DEF back
<1>. HIDE DEF e
<1>5. Len(p.trees) = 1 /\ p.trees[1] = e /\ back(p.trees) = e
  BY <1>1, <1>3 DEF Replaced, back
<1>6. << >> \in Seq(Item) /\ Len(<< >>) = 0
  BY EmptySeq
<1>7. l \in Seq(Item) /\ Len(l) = 1 /\ l = <<item>>
  OBVIOUS
<1>8. BlockAt(l, 1) = <<item>>
  <2>1. BlockAt(l, 1) = Promise!MerkleOf(l)
    BY <1>7, BlockAtEnd
  <2>2. Promise!MerkleOf(l) = Promise!MerklePush(<< >>, item)
    BY <1>6, MerkleOfAppend, MerkleOfEmpty
  <2>3. Len(<< >>) + 1 # leafs_
    BY <1>6, LeafsIs
  <2>4. Promise!MerklePush(<< >>, item) = Append(<< >>, item)
    BY <2>3 DEF Promise!MerklePush
  <2>. QED
    BY <1>7, <2>1, <2>2, <2>4
<1>. HIDE DEF l
<1>9. Leaves(e, 1) = <<item>>
  BY <1>4, OneLeaf
<1>10. Remembers(k, l, 0, e, 1)
  <2>1. Holds(k, e, Leaves(e, 1))
    BY OneHolds
  <2>2. \A j \in 1..1 : j < leafs_ => BlockAt(l, 0 + j) = Leaves(e, j)
    BY <1>8, <1>9
  <2>. QED
    BY <2>1, <2>2 DEF Remembers
<1>11. 0 + (1 - 1) * (leafs_ - 1) = 0 /\ (1 - 1) * (leafs_ - 1) + (leafs_ - leafs_) = 0
       /\ leafs_ - (leafs_ - 1) = 1
  BY LeafsIs
<1>12. Keeps(k, l, 0, p.trees, 1)
  <2>1. \A t \in 1..1 : t = 1
    OBVIOUS
  <2>. QED
    BY <1>5, <1>10, <1>11, <2>1 DEF Keeps
<1>13. Depth(p) = 0
  BY <1>3, <1>5, <1>11 DEF Depth
<1>14. \E b \in Nat : b + 1 + Depth(p) = Len(l) /\ Keeps(k, l, b, p.trees, 1)
  <2>1. 0 \in Nat /\ 0 + 1 + Depth(p) = Len(l)
    BY <1>7, <1>13
  <2>. QED
    BY <1>12, <2>1
<1>15. root(p) = RootOf(LastBlock(p))
  <2>1. LastBlock(p) = Leaves(e, 1)
    BY <1>3, <1>5, <1>11, BlockLeaves
  <2>2. root(p) = item
    BY <1>3, <1>4, <1>5 DEF root
  <2>. QED
    BY <1>9, <2>1, <2>2, RootOfOne
<1>. QED
  BY <1>3, <1>11, <1>14, <1>15 DEF Marks, p, l

(* A load of the leaves s after j of them.                                  *)
Reaches(k, m, s, j) ==
  /\ Holds(k, back(m.trees), Leaves(back(m.trees), j))
  /\ root(m) = RootOf(Leaves(back(m.trees), j))
  /\ \A i \in 1..j : Leaves(back(m.trees), j)[i] = s[i]

LEMMA LoadFirst ==
  ASSUME NEW k \in Nat, leafs_ = power(2, k), NEW m, Loaded(m, 0), NEW s
  PROVE  Reaches(k, pushed(m, s[1]), s, 1)
<1>. DEFINE p == pushed(m, s[1])
            e == [back(m.trees) EXCEPT ![leafs_ - 1] = s[1]]
<1>1. Shape(m) /\ m.i_current = leafs_ - 1 /\ Len(m.trees) = 1
  BY LeafsIs DEF Loaded
<1>2. PushesFirst(m, p, s[1])
  BY <1>1, PushedFirst
<1>. HIDE DEF p
<1>3. Replaced(m.trees, p.trees, e) /\ p.i_root = leafs_ - 1
  BY <1>2 DEF PushesFirst
<1>4. e[leafs_ - 1] = s[1]
  <2>1. IsArray(back(m.trees))
    BY <1>1 DEF Shape, back
  <2>2. leafs_ - 1 \in 0..size_ - 1
    BY LeafsIs, SizeIs
  <2>. QED
    BY <2>1, <2>2 DEF IsArray
<1>. HIDE DEF e
<1>5. back(p.trees) = e
  BY <1>1, <1>3 DEF Replaced, back
<1>6. Leaves(e, 1) = <<s[1]>>
  BY <1>4, OneLeaf
<1>7. Holds(k, e, Leaves(e, 1))
  BY OneHolds
<1>8. root(p) = RootOf(Leaves(e, 1))
  BY <1>3, <1>4, <1>5, <1>6, RootOfOne DEF root
<1>9. \A i \in 1..1 : Leaves(e, 1)[i] = s[i]
  BY <1>6
<1>. QED
  BY <1>5, <1>7, <1>8, <1>9 DEF Reaches, p

LEMMA LoadNext ==
  ASSUME NEW k \in Nat, leafs_ = power(2, k), NEW j \in Nat \ {0}, j + 1 < leafs_,
         NEW m, Loaded(m, j), NEW s, Reaches(k, m, s, j)
  PROVE  Reaches(k, pushed(m, s[j + 1]), s, j + 1)
<1>. DEFINE item == s[j + 1]
            p == pushed(m, item)
            tree == back(m.trees)
            w == Written(tree, leafs_ - 1 + j, item)
<1>1. Shape(m) /\ m.i_current = leafs_ - 1 + j /\ Len(m.trees) = 1
  BY DEF Loaded
<1>2. m.i_current # leafs_ - 1 /\ m.i_current + 1 # size_
  BY <1>1, LeafsIs, SizeIs
<1>3. PushesNext(m, p, item)
  BY <1>1, <1>2, PushedNext
<1>. HIDE DEF p
<1>4. Replaced(m.trees, p.trees, w.tree) /\ p.i_root = w.node
  BY <1>1, <1>3 DEF PushesNext
<1>5. IsArray(tree)
  BY <1>1 DEF Shape, back
<1>. HIDE DEF tree
<1>6. Holds(k, tree, Leaves(tree, j)) /\ \A i \in 1..j : Leaves(tree, j)[i] = s[i]
  BY DEF Reaches, tree
<1>7. Fills(k, tree, w, j, item)
  <2>1. j < leafs_
    BY LeafsIs
  <2>. HIDE DEF item
  <2>. QED
    BY <1>5, <1>6, <2>1, WrittenHolds
<1>. HIDE DEF w
<1>8. back(p.trees) = w.tree
  BY <1>1, <1>4 DEF Replaced, back
<1>9. root(p) = w.tree[w.node]
  BY <1>4, <1>8 DEF root
<1>10. ASSUME NEW i \in 1..j + 1 PROVE Leaves(w.tree, j + 1)[i] = s[i]
  <2>1. IsSeq(Leaves(tree, j)) /\ Len(Leaves(tree, j)) = j
    BY LeavesAre
  <2>2. /\ \A q \in 1..j : Append(Leaves(tree, j), item)[q] = Leaves(tree, j)[q]
        /\ Append(Leaves(tree, j), item)[j + 1] = item
    BY <2>1, AppendIs
  <2>3. Leaves(w.tree, j + 1) = Append(Leaves(tree, j), item)
    BY <1>7 DEF Fills
  <2>4. CASE i = j + 1
    BY <2>2, <2>3, <2>4
  <2>5. CASE i # j + 1
    <3>1. i \in 1..j
      BY <2>5
    <3>. QED
      BY <1>6, <2>2, <2>3, <3>1
  <2>. QED
    BY <2>4, <2>5
<1>. QED
  BY <1>7, <1>8, <1>9, <1>10 DEF Reaches, Fills, p

LEMMA LoadReaches ==
  ASSUME NEW k \in Nat, leafs_ = power(2, k), NEW s, NEW n \in 1..leafs_ - 1,
         NEW w, Loads(w, s, n)
  PROVE  Reaches(k, w[n], s, n)
<1>0. leafs_ \in Nat /\ n \in Nat \ {0}
  BY LeafsIs
<1>1. \A j \in 0..n : Loaded(w[j], j)
  <2>1. n \in 0..leafs_ - 1
    BY <1>0
  <2>. QED
    BY <2>1, LoadedShape
<1>2. \A j \in Nat : j + 1 <= n => w[j + 1] = pushed(w[j], s[j + 1])
  BY DEF Loads
<1>. DEFINE T == {j \in Nat : j + 1 <= n => Reaches(k, w[j + 1], s, j + 1)}
<1>3. 0 \in T
  <2>1. Loaded(w[0], 0) /\ w[1] = pushed(w[0], s[1])
    BY <1>0, <1>1, <1>2
  <2>2. Reaches(k, pushed(w[0], s[1]), s, 1)
    BY <2>1, LoadFirst
  <2>. QED
    BY <2>1, <2>2
<1>4. ASSUME NEW g \in Nat, g \in T PROVE g + 1 \in T
  <2>. DEFINE j == g + 1
              m == w[j]
  <2>1. SUFFICES ASSUME j + 1 <= n PROVE Reaches(k, w[j + 1], s, j + 1)
    OBVIOUS
  <2>2. j \in Nat \ {0} /\ j \in 0..n /\ j + 1 < leafs_ /\ Reaches(k, m, s, j)
    BY <1>0, <1>4, <2>1
  <2>3. w[j + 1] = pushed(m, s[j + 1]) /\ Loaded(m, j)
    BY <1>1, <1>2, <2>1, <2>2
  <2>. HIDE DEF m, j
  <2>4. Reaches(k, pushed(m, s[j + 1]), s, j + 1)
    BY <2>2, <2>3, LoadNext
  <2>. QED
    BY <2>3, <2>4
<1>. HIDE DEF T
<1>5. Nat \subseteq T
  BY <1>3, <1>4, NatInduct
<1>6. n - 1 \in T /\ (n - 1) + 1 = n
  BY <1>0, <1>5
<1>. QED
  BY <1>0, <1>6 DEF T

(* A tree that was saved and loaded is that of the same log.                *)
LEMMA ReloadMarks ==
  ASSUME NEW k \in Nat, leafs_ = power(2, k), NEW m, Shape(m), m.i_current # leafs_ - 1,
         NEW l \in Seq(Item), Marks(k, m, l)
  PROVE  Marks(k, Reloaded(LastBlock(m)), l)
<1>. DEFINE s == LastBlock(m)
            n == Len(s)
            u == leafs_ - 1
            a == (Len(m.trees) - 1) * u
            p == Reloaded(s)
            old == back(m.trees)
            new == back(p.trees)
<1>1. n = m.i_current - u /\ n \in 0..u /\ n \in Nat /\ IsSeq(s)
  BY BlockIs, LeafsIs
<1>2. PICK b \in Nat : b + 1 + Depth(m) = Len(l) /\ Keeps(k, l, b, m.trees, n)
  BY <1>1 DEF Marks
<1>3. s = Leaves(old, n)
  BY <1>1, BlockLeaves
<1>. HIDE DEF s
<1>4. PICK w : Loads(w, s, n) /\ p = w[n]
  BY <1>1, ReloadedIsLast
<1>. HIDE DEF n
<1>5. Begins(k, m, l, b, b + a, n) /\ Depth(m) + b + 1 = b + a + n
  BY <1>1, <1>2, BeginsAt
<1>6. n \in Nat \ {0} /\ n < leafs_ /\ b + a \in Nat /\ Remembers(k, l, b + a, old, n)
  BY <1>5 DEF Begins
<1>7. Loaded(p, n)
  <2>1. n \in 0..leafs_ - 1 /\ n \in 0..n
    BY <1>1, <1>6
  <2>. QED
    BY <1>4, <2>1, LoadedShape
<1>8. Reaches(k, p, s, n)
  <2>1. n \in 1..leafs_ - 1
    BY <1>1, <1>6
  <2>. QED
    BY <1>4, <2>1, LoadReaches
<1>. HIDE DEF p, a, old, new
<1>9. Leaves(new, n) = s
  <2>1. IsSeq(Leaves(new, n)) /\ Len(Leaves(new, n)) = n /\ Len(s) = n
    BY <1>6, LeavesAre DEF n
  <2>2. \A i \in 1..Len(s) : s[i] = Leaves(new, n)[i]
    BY <1>8, <2>1 DEF Reaches, new
  <2>. QED
    BY <1>1, <2>1, <2>2, SeqsEqual
<1>10. Remembers(k, l, b + a, new, n)
  <2>1. ASSUME NEW j \in 1..n, j < leafs_ PROVE BlockAt(l, b + a + j) = Leaves(new, j)
    <3>1. Leaves(new, j) = Leaves(old, j)
      BY <1>3, <1>6, <1>9, LeavesFewer
    <3>. QED
      BY <1>6, <2>1, <3>1 DEF Remembers
  <2>2. Holds(k, new, Leaves(new, n))
    BY <1>8 DEF Reaches, new
  <2>. QED
    BY <2>1, <2>2 DEF Remembers
<1>11. Len(p.trees) = 1 /\ p.i_current = u + n /\ p.trees[1] = new
  BY <1>7 DEF Loaded, new, back
<1>. DEFINE z == b + a
<1>. HIDE DEF z
<1>12. z \in Nat /\ z + n = Len(l)
  <2>1. Depth(m) \in Nat
    BY DepthIs
  <2>2. Depth(m) + b + 1 = z + n /\ z \in Nat
    BY <1>5, <1>6 DEF z
  <2>. QED
    BY <1>2, <1>6, <2>1, <2>2
<1>13. Keeps(k, l, z, p.trees, n)
  <2>1. \A t \in 1..1 : t = 1
    OBVIOUS
  <2>2. z + (1 - 1) * (leafs_ - 1) = z
    BY <1>12, LeafsIs
  <2>. QED
    BY <1>10, <1>11, <2>1, <2>2 DEF Keeps, z
<1>14. z + 1 + Depth(p) = Len(l)
  <2>1. Depth(p) = (1 - 1) * (leafs_ - 1) + ((u + n) - leafs_)
    BY <1>11 DEF Depth
  <2>2. Depth(p) = n - 1
    BY <1>6, <2>1, LeafsIs
  <2>. QED
    BY <1>6, <1>12, <2>2
<1>15. p.i_current - (leafs_ - 1) = n
  BY <1>6, <1>11, LeafsIs
<1>16. root(p) = RootOf(LastBlock(p))
  <2>1. LastBlock(p) = Leaves(new, n)
    BY <1>15, BlockLeaves DEF new
  <2>. QED
    BY <1>8, <2>1 DEF Reaches, new
<1>. QED
  BY <1>12, <1>13, <1>14, <1>15, <1>16 DEF Marks, p, s
-----------------------------------------------------------------------------
(* A tree without leaves is a fresh one; any other is that of the log.      *)
TreeInv(k) ==
  /\ i_current = leafs_ - 1 => This = Fresh
  /\ i_current # leafs_ - 1 => Marks(k, This, log)

LEMMA InitTree ==
  ASSUME NEW k
  PROVE  Init => TreeInv(k)
BY DEF Init, TreeInv, This, Fresh

LEMMA PushKeepsTree ==
  ASSUME NEW k \in Nat, leafs_ = power(2, k), ShapeInv, TreeInv(k),
         NEW item \in Item, Push(item)
  PROVE  TreeInv(k)'
<1>. DEFINE m == This
            p == pushed(m, item)
<1>1. Shape(m) /\ Counters /\ m.i_current = i_current /\ log' = Append(log, item)
  BY DEF ShapeInv, This, Push
<1>2. Becomes(p)
  BY DEF Push
<1>. HIDE DEF m
<1>3. Shape(p) /\ Moves(m, p)
  BY <1>1, PushShape
<1>4. p.i_current # leafs_ - 1
  BY <1>1, <1>3, LeafsIs DEF Moves, Shape
<1>5. IsObject(p)
  BY <1>3 DEF Shape
<1>6. Marks(k, p, Append(log, item))
  <2>1. CASE i_current = leafs_ - 1
    <3>1. m = Fresh /\ log = << >>
      BY <1>1, <2>1 DEF TreeInv, Counters, m
    <3>. QED
      BY <3>1, FirstMarks
  <2>2. CASE i_current # leafs_ - 1
    <3>1. Marks(k, m, log) /\ log \in Seq(Item)
      BY <1>1, <2>2 DEF TreeInv, Counters, m
    <3>. QED
      BY <1>1, <2>2, <3>1, PushMarks
  <2>. QED
    BY <2>1, <2>2
<1>. HIDE DEF p
<1>7. This' = p /\ i_current' = p.i_current
  BY <1>2, <1>5, BecomesThis DEF Becomes
<1>. QED
  BY <1>1, <1>4, <1>6, <1>7 DEF TreeInv

LEMMA RollbackKeepsTree ==
  ASSUME NEW k \in Nat, leafs_ = power(2, k), ShapeInv, TreeInv(k),
         NEW n \in Nat, Rollback(n)
  PROVE  TreeInv(k)'
<1>. DEFINE m == This
<1>1. Shape(m) /\ Counters /\ m.i_current = i_current
  BY DEF ShapeInv, This
<1>2. CASE UNCHANGED <<trees, i_current, i_root, log>>
  <2>1. This' = This
    BY <1>2 DEF This
  <2>. QED
    BY <1>2, <2>1 DEF TreeInv
<1>3. CASE /\ n \in 1..max_rollback(This) /\ i_current # leafs_ - 1
           /\ Becomes(rolledBack(This, n))
           /\ log' = SubSeq(log, 1, Len(log) - n)
  <2>. HIDE DEF m
  <2>1. n \in 1..Depth(m)
    BY <1>1, <1>3, DepthIs DEF m
  <2>2. PICK h : /\ CutTo(m, n, h)
                 /\ rolledBack(m, n) = pushed(h, back(h.trees)[h.i_current])
    BY <1>1, <1>3, <2>1, CutIs
  <2>. DEFINE p == pushed(h, back(h.trees)[h.i_current])
  <2>3. Shape(p) /\ p.i_current # leafs_ - 1
    BY <2>2, CutMoves
  <2>4. Marks(k, m, log) /\ log \in Seq(Item)
    BY <1>1, <1>3 DEF TreeInv, Counters, m
  <2>5. Marks(k, p, SubSeq(log, 1, Len(log) - n))
    BY <1>1, <1>3, <2>1, <2>2, <2>4, RollbackMarks
  <2>6. Becomes(p)
    BY <1>3, <2>2 DEF m
  <2>. HIDE DEF p
  <2>7. This' = p /\ i_current' = p.i_current
    <3>1. IsObject(p)
      BY <2>3 DEF Shape
    <3>. QED
      BY <2>6, <3>1, BecomesThis DEF Becomes
  <2>. QED
    BY <1>3, <2>3, <2>5, <2>7 DEF TreeInv
<1>. QED
  BY <1>2, <1>3 DEF Rollback

LEMMA ReloadKeepsTree ==
  ASSUME NEW k \in Nat, leafs_ = power(2, k), ShapeInv, TreeInv(k), SaveAndReload
  PROVE  TreeInv(k)'
<1>. DEFINE m == This
            s == LastBlock(m)
            p == Reloaded(s)
<1>1. Shape(m) /\ Counters /\ m.i_current = i_current /\ log' = log
  BY DEF ShapeInv, This, SaveAndReload
<1>2. Becomes(p)
  BY DEF SaveAndReload
<1>. HIDE DEF m
<1>3. Len(s) = i_current - (leafs_ - 1) /\ Len(s) \in 0..leafs_ - 1 /\ Len(s) \in Nat
  BY <1>1, BlockIs
<1>. HIDE DEF s
<1>4. PICK w : Loads(w, s, Len(s)) /\ p = w[Len(s)]
  BY <1>3, ReloadedIsLast
<1>5. Loaded(p, Len(s))
  <2>1. Len(s) \in 0..Len(s)
    BY <1>3
  <2>. QED
    BY <1>3, <1>4, <2>1, LoadedShape
<1>6. IsObject(p) /\ p.i_current = leafs_ - 1 + Len(s)
  BY <1>5 DEF Loaded, Shape
<1>7. CASE i_current = leafs_ - 1
  <2>1. Len(s) = 0
    BY <1>3, <1>7, LeafsIs
  <2>2. p = Fresh
    BY <1>4, <2>1 DEF Loads
  <2>. HIDE DEF p
  <2>3. This' = Fresh /\ i_current' = leafs_ - 1
    BY <1>2, <1>6, <2>2, BecomesThis, FreshShape DEF Becomes
  <2>. QED
    BY <2>3 DEF TreeInv
<1>8. CASE i_current # leafs_ - 1
  <2>1. Marks(k, m, log) /\ log \in Seq(Item)
    BY <1>1, <1>8 DEF TreeInv, Counters, m
  <2>2. Marks(k, p, log)
    BY <1>1, <1>8, <2>1, ReloadMarks DEF s
  <2>. HIDE DEF p
  <2>3. This' = p /\ i_current' = p.i_current
    BY <1>2, <1>6, BecomesThis DEF Becomes
  <2>4. i_current \in Int
    BY <1>1, LeafsIs, SizeIs DEF Shape
  <2>5. p.i_current # leafs_ - 1
    BY <1>3, <1>6, <1>8, <2>4, LeafsIs
  <2>. QED
    BY <1>1, <2>2, <2>3, <2>5 DEF TreeInv
<1>. QED
  BY <1>7, <1>8

LEMMA TreeIsRight ==
  ASSUME NEW k \in Nat, leafs_ = power(2, k), ShapeInv, TreeInv(k)
  PROVE  TreeIsOfLog
<1>1. Shape(This) /\ Counters /\ This.i_current = i_current
  BY DEF ShapeInv, This
<1>2. CASE i_current = leafs_ - 1
  <2>1. This = Fresh /\ log = << >>
    BY <1>1, <1>2 DEF TreeInv, Counters
  <2>2. LastBlock(Fresh) = << >>
    <3>. DEFINE s == LastBlock(Fresh)
    <3>1. IsSeq(s) /\ Len(s) = Fresh.i_current - (leafs_ - 1) /\ Fresh.i_current = leafs_ - 1
      BY BlockIs, FreshShape
    <3>. HIDE DEF s
    <3>2. Len(s) = 0
      BY <3>1, LeafsIs
    <3>3. s \in Seq({s[i] : i \in DOMAIN s})
      BY <3>1 DEF IsSeq
    <3>4. s = << >>
      BY <3>2, <3>3, EmptySeq
    <3>. QED
      BY <3>4 DEF s
  <2>3. root(Fresh) = Zero
    <3>1. root(Fresh) = EmptyTree[Fresh.i_root] /\ Fresh.i_root = leafs_ - 1
      BY FreshShape DEF root, back, Fresh
    <3>2. leafs_ - 1 \in 0..size_ - 1
      BY LeafsIs, SizeIs
    <3>. QED
      BY <3>1, <3>2 DEF EmptyTree
  <2>4. RootOf(<< >>) = Zero
    BY DEF RootOf
  <2>. QED
    BY <2>1, <2>2, <2>3, <2>4, MerkleOfEmpty DEF TreeIsOfLog
<1>3. CASE i_current # leafs_ - 1
  <2>. DEFINE m == This
              c == m.i_current - (leafs_ - 1)
  <2>1. Marks(k, m, log) /\ log \in Seq(Item)
    BY <1>1, <1>3 DEF TreeInv, Counters
  <2>2. PICK b \in Nat : b + 1 + Depth(m) = Len(log) /\ Keeps(k, log, b, m.trees, c)
    BY <2>1 DEF Marks
  <2>. DEFINE a == b + (Len(m.trees) - 1) * (leafs_ - 1)
  <2>3. Begins(k, m, log, b, a, c) /\ Depth(m) + b + 1 = a + c
    BY <1>1, <1>3, <2>2, BeginsAt
  <2>4. Depth(m) \in Nat
    BY <1>1, <1>3, DepthIs
  <2>5. LastBlock(m) = Leaves(back(m.trees), c)
    BY BlockLeaves
  <2>6. root(m) = RootOf(LastBlock(m))
    BY <2>1 DEF Marks
  <2>. HIDE DEF m, a, c
  <2>7. /\ c \in Nat \ {0} /\ c < leafs_ /\ a \in Nat
        /\ Remembers(k, log, a, back(m.trees), c)
    BY <2>3 DEF Begins
  <2>8. a + c = Len(log)
    BY <2>2, <2>3, <2>4, <2>7
  <2>9. BlockAt(log, a + c) = Leaves(back(m.trees), c)
    <3>1. c \in 1..c
      BY <2>7
    <3>. QED
      BY <2>7, <3>1 DEF Remembers
  <2>10. Promise!MerkleOf(log) = LastBlock(m)
    BY <2>1, <2>5, <2>8, <2>9, BlockAtEnd
  <2>. QED
    BY <2>6, <2>10 DEF TreeIsOfLog, m
<1>. QED
  BY <1>2, <1>3

(* Where the number of leaves is a power of two, the last block and the     *)
(* root are those of the log, after every sequence of pushes, rollbacks and *)
(* loads (merkle_tree.cc:70-156, tx_store.cc:395-432).                      *)
THEOREM TreeOfLog ==
  ASSUME NEW k \in Nat, ctorLeafs = power(2, k)
  PROVE  Spec => []TreeIsOfLog
<1>1. leafs_ = power(2, k)
  BY LeafsArePower
<1>2. Init => TreeInv(k)
  BY InitTree
<1>3. ShapeInv /\ TreeInv(k) /\ [Next]_vars => TreeInv(k)'
  <2>. SUFFICES ASSUME ShapeInv, TreeInv(k), [Next]_vars PROVE TreeInv(k)'
    OBVIOUS
  <2>1. ASSUME NEW item \in Item, Push(item) PROVE TreeInv(k)'
    BY <1>1, <2>1, PushKeepsTree
  <2>2. ASSUME NEW n \in 0..MaxPushes + 1, Rollback(n) PROVE TreeInv(k)'
    BY <1>1, <2>2, RollbackKeepsTree, MerkleTreeAssumption
  <2>3. CASE SaveAndReload
    BY <1>1, <2>3, ReloadKeepsTree
  <2>4. CASE UNCHANGED vars
    <3>1. This' = This
      BY <2>4 DEF vars, This
    <3>. QED
      BY <2>4, <3>1 DEF vars, TreeInv
  <2>. QED
    BY <2>1, <2>2, <2>3, <2>4 DEF Next
<1>4. ShapeInv /\ TreeInv(k) => TreeIsOfLog
  BY <1>1, TreeIsRight
<1>. QED
  BY <1>2, <1>3, <1>4, ShapeInvariance, PTL DEF Spec
=============================================================================
