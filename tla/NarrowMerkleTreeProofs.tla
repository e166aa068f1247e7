----------------------- MODULE NarrowMerkleTreeProofs -----------------------
(***************************************************************************)
(* The narrow Merkle tree keeps the beginnings of a log, for every         *)
(* capacity and every number of leaves.  In units of a layer - the number  *)
(* of leaves that one of its entries stands for - a layer holds the        *)
(* numbers up to the last whole one; a drop keeps exactly the entries that *)
(* are not beyond its argument, and an addition pushes into the layers     *)
(* whose unit divides the new number of leaves.                            *)
(***************************************************************************)
EXTENDS NarrowMerkleTree, SequenceTheorems, Induction

(* The operators of the module, for a given capacity.                       *)
U(c, i) == power(c, i - 1)

Num(c, t, i) == t \div U(c, i)

HeightOf(c, n) ==
  CHOOSE h \in 0..n : n < power(c, h) /\ \A g \in 0..h - 1 : n >= power(c, g)
-----------------------------------------------------------------------------
LEMMA UnitNext ==
  ASSUME NEW c \in Nat, c >= 2, NEW i \in Nat \ {0}
  PROVE  U(c, i) \in Nat \ {0} /\ U(c, i + 1) = c * U(c, i)
<1>. DEFINE k == i - 1
<1>1. k \in Nat /\ i = k + 1 /\ i + 1 - 1 = k + 1
  OBVIOUS
<1>. HIDE DEF k
<1>2. c \in Nat \ {0}
  OBVIOUS
<1>3. power(c, k) \in Nat \ {0}
  BY <1>1, <1>2, PowerPositive
<1>4. power(c, k + 1) = c * power(c, k)
  BY <1>1, PowerNext
<1>. QED
  BY <1>1, <1>3, <1>4 DEF U, k

LEMMA UnitOne ==
  ASSUME NEW c
  PROVE  U(c, 1) = 1
<1>1. 1 - 1 = 0
  OBVIOUS
<1>. QED
  BY <1>1, PowerZero DEF U

(* The unit of a layer is made of whole units of each layer below.          *)
LEMMA UnitDivides ==
  ASSUME NEW c \in Nat, c >= 2, NEW i \in Nat \ {0}, NEW k \in Nat \ {0}, i <= k
  PROVE  \E m \in Nat \ {0} : U(c, k) = m * U(c, i)
<1>. DEFINE g == i - 1
            h == k - i
<1>1. g \in Nat /\ h \in Nat /\ k - 1 = g + h
  OBVIOUS
<1>. HIDE DEF g, h
<1>2. c \in Nat \ {0}
  OBVIOUS
<1>3. power(c, g + h) = power(c, h) * power(c, g)
  BY <1>1, <1>2, PowerAdd
<1>4. power(c, h) \in Nat \ {0}
  BY <1>1, <1>2, PowerPositive
<1>. QED
  BY <1>1, <1>3, <1>4 DEF U, g

LEMMA UnitMonotone ==
  ASSUME NEW c \in Nat, c >= 2, NEW i \in Nat \ {0}, NEW k \in Nat \ {0}, i <= k
  PROVE  U(c, i) <= U(c, k)
BY PowerMonotone DEF U

(* The last whole number of units.                                          *)
LEMMA Floor ==
  ASSUME NEW n \in Nat, NEW u \in Nat \ {0}
  PROVE  n \div u \in Nat /\ (n \div u) * u <= n /\ n < (n \div u) * u + u
<1>. DEFINE q == n \div u
<1>1. q \in Int /\ n % u \in 0..u - 1 /\ n = u * q + (n % u)
  BY DivMod
<1>. HIDE DEF q
<1>2. u * q = q * u
  BY <1>1
<1>3. CASE q <= -1
  <2>1. u * q <= u * (-1)
    BY <1>1, <1>3
  <2>. QED
    BY <1>1, <2>1
<1>. QED
  BY <1>1, <1>2, <1>3 DEF q

LEMMA FloorIs ==
  ASSUME NEW n \in Nat, NEW u \in Nat \ {0}, NEW q \in Nat,
         q * u <= n, n < q * u + u
  PROVE  n \div u = q
<1>1. n = u * q + (n - q * u)
  BY SMT
<1>2. q * u \in Nat
  OBVIOUS
<1>3. n - q * u \in 0..u - 1
  BY <1>2
<1>. QED
  BY <1>1, <1>3, DivModUnique

LEMMA Associative ==
  ASSUME NEW x \in Int, NEW y \in Int, NEW z \in Int
  PROVE  x * (y * z) = (x * y) * z
OBVIOUS

LEMMA FloorMonotone ==
  ASSUME NEW n \in Nat, NEW m \in Nat, n <= m, NEW u \in Nat \ {0}
  PROVE  n \div u <= m \div u
<1>. DEFINE a == n \div u
            b == m \div u
<1>1. /\ a \in Nat /\ a * u <= n /\ n < a * u + u
      /\ b \in Nat /\ b * u <= m /\ m < b * u + u
  BY Floor
<1>. HIDE DEF a, b
<1>2. CASE b + 1 <= a
  <2>1. (b + 1) * u <= a * u
    BY <1>1, <1>2
  <2>2. (b + 1) * u = b * u + u
    BY <1>1
  <2>. QED
    BY <1>1, <2>1, <2>2
<1>3. CASE a <= b
  BY <1>3 DEF a, b
<1>. QED
  BY <1>1, <1>2, <1>3

(* Rounding down to a unit first does not change the number of greater ones.*)
LEMMA FloorTwice ==
  ASSUME NEW n \in Nat, NEW u \in Nat \ {0}, NEW m \in Nat \ {0}
  PROVE  /\ ((n \div u) * u) \div (m * u) = n \div (m * u)
         /\ (n \div (m * u)) * (m * u) <= (n \div u) * u
<1>. DEFINE w == m * u
            a == n \div w
            b == n \div u
<1>1. w \in Nat \ {0}
  OBVIOUS
<1>2. /\ a \in Nat /\ a * w <= n /\ n < a * w + w
      /\ b \in Nat /\ b * u <= n /\ n < b * u + u
  BY <1>1, Floor
<1>. HIDE DEF a, b
<1>3. a * w = (a * m) * u
  BY <1>2, Associative
<1>4. a * m <= b
  <2>1. a * m \in Nat
    BY <1>2
  <2>2. CASE b + 1 <= a * m
    <3>1. (b + 1) * u <= (a * m) * u
      BY <1>2, <2>1, <2>2
    <3>2. (b + 1) * u = b * u + u
      BY <1>2
    <3>. QED
      BY <1>2, <1>3, <3>1, <3>2
  <2>. QED
    BY <1>2, <2>1, <2>2
<1>5. a * w <= b * u
  <2>1. (a * m) * u <= b * u
    BY <1>2, <1>4
  <2>. QED
    BY <1>3, <2>1
<1>6. b * u \in Nat /\ b * u < a * w + w
  <2>1. b * u \in Nat /\ a * w \in Nat
    BY <1>1, <1>2
  <2>. HIDE DEF w
  <2>. QED
    BY <1>1, <1>2, <2>1
<1>7. (b * u) \div w = a
  <2>. HIDE DEF w
  <2>. QED
    BY <1>1, <1>2, <1>5, <1>6, FloorIs
<1>. QED
  BY <1>5, <1>7 DEF a, b

LEMMA FloorOfWhole ==
  ASSUME NEW q \in Nat, NEW u \in Nat \ {0}
  PROVE  (q * u) \div u = q
<1>1. q * u \in Nat
  OBVIOUS
<1>. QED
  BY <1>1, FloorIs

(* n is made of whole units of layer i.                                     *)
Whole(c, n, i) == \E q \in Nat : n = q * U(c, i)

(* One more leaf is one more unit of the layers whose unit divides it.      *)
LEMMA FloorNext ==
  ASSUME NEW c \in Nat, c >= 2, NEW n \in Nat, NEW i \in Nat \ {0}
  PROVE  /\ Num(c, n, i) \in Nat
         /\ Whole(c, n + 1, i) => /\ Num(c, n + 1, i) = Num(c, n, i) + 1
                                  /\ n + 1 = Num(c, n + 1, i) * U(c, i)
         /\ ~Whole(c, n + 1, i) => Num(c, n + 1, i) = Num(c, n, i)
<1>. DEFINE u == U(c, i)
            a == n \div u
<1>1. u \in Nat \ {0}
  BY UnitNext
<1>2. a \in Nat /\ a * u <= n /\ n < a * u + u
  BY <1>1, Floor
<1>3. ASSUME NEW q \in Nat, n + 1 = q * u
      PROVE  (n + 1) \div u = a + 1 /\ n + 1 = ((n + 1) \div u) * u
  <2>. HIDE DEF u
  <2>1. (n + 1) \div u = q
    BY <1>1, <1>3, FloorOfWhole
  <2>2. q >= 1 /\ q - 1 \in Nat
    BY <1>1, <1>3
  <2>3. (q - 1) * u = q * u - u
    BY <1>1
  <2>4. n \div u = q - 1
    <3>. DEFINE p == q - 1
    <3>1. p \in Nat /\ p * u <= n /\ n < p * u + u
      BY <1>1, <1>3, <2>2, <2>3
    <3>. HIDE DEF p
    <3>2. n \div u = p
      BY <1>1, <3>1, FloorIs
    <3>. QED
      BY <3>2 DEF p
  <2>. QED
    BY <1>3, <2>1, <2>4
<1>4. ASSUME ~Whole(c, n + 1, i)
      PROVE  (n + 1) \div u = a
  <2>1. (a + 1) * u = a * u + u
    BY <1>1, <1>2
  <2>2. n + 1 # (a + 1) * u
    BY <1>2, <1>4 DEF Whole
  <2>. HIDE DEF u, a
  <2>3. a * u <= n + 1 /\ n + 1 < a * u + u
    BY <1>1, <1>2, <2>1, <2>2
  <2>. QED
    BY <1>1, <1>2, <2>3, FloorIs
<1>. QED
  BY <1>2, <1>3, <1>4 DEF Whole, Num

(* The condition under which add pushes into layer i.                       *)
RightEnds(c, n, i) ==
  \A child \in 1..i - 1 : (n \div U(c, child)) % c = c - 1

LEMMA RightEndsNext ==
  ASSUME NEW c \in Nat, c >= 2, NEW n \in Nat, NEW i \in Nat \ {0},
         RightEnds(c, n, i) <=> Whole(c, n + 1, i)
  PROVE  RightEnds(c, n, i + 1) <=> Whole(c, n + 1, i + 1)
<1>. DEFINE u == U(c, i)
            a == n \div u
<1>1. u \in Nat \ {0} /\ U(c, i + 1) = c * u
  BY UnitNext
<1>2. RightEnds(c, n, i + 1) <=> RightEnds(c, n, i) /\ a % c = c - 1
  BY DEF RightEnds
<1>3. /\ a \in Nat
      /\ Whole(c, n + 1, i) => n + 1 = (a + 1) * u
  <2>1. Num(c, n, i) = a
    BY DEF Num
  <2>. HIDE DEF a
  <2>. QED
    BY <2>1, FloorNext
<1>. HIDE DEF a
<1>4. ASSUME RightEnds(c, n, i), a % c = c - 1
      PROVE  Whole(c, n + 1, i + 1)
  <2>1. n + 1 = (a + 1) * u
    BY <1>3, <1>4
  <2>. DEFINE m == a \div c
  <2>2. m \in Nat
    BY <1>3, Floor
  <2>3. a = c * m + (c - 1)
    BY <1>3, <1>4, DivMod
  <2>. HIDE DEF m, u
  <2>4. a + 1 = (m + 1) * c
    BY <2>2, <2>3
  <2>5. ((m + 1) * c) * u = (m + 1) * (c * u)
    BY <1>1, <2>2, Associative DEF u
  <2>6. n + 1 = (m + 1) * U(c, i + 1)
    BY <1>1, <2>1, <2>4, <2>5
  <2>7. m + 1 \in Nat
    BY <2>2
  <2>. QED
    BY <2>6, <2>7 DEF Whole
<1>5. ASSUME NEW q \in Nat, n + 1 = q * U(c, i + 1)
      PROVE  RightEnds(c, n, i) /\ a % c = c - 1
  <2>. HIDE DEF u
  <2>1. n + 1 = (q * c) * u /\ q * c \in Nat
    BY <1>1, <1>5, Associative
  <2>2. Whole(c, n + 1, i)
    BY <2>1 DEF Whole, u
  <2>3. (a + 1) * u = (q * c) * u
    BY <1>3, <2>1, <2>2
  <2>4. a + 1 = q * c
    <3>. DEFINE x == a + 1
                y == q * c
    <3>1. x \in Nat /\ y \in Nat /\ x * u = y * u
      BY <1>3, <2>1, <2>3
    <3>. HIDE DEF x, y
    <3>2. (x * u) \div u = x /\ (y * u) \div u = y
      BY <1>1, <3>1, FloorOfWhole
    <3>. QED
      BY <3>1, <3>2 DEF x, y
  <2>5. a % c = c - 1
    <3>1. a = c * (q - 1) + (c - 1)
      BY <1>3, <2>4
    <3>2. q - 1 \in Int /\ c - 1 \in 0..c - 1
      OBVIOUS
    <3>. DEFINE x == q - 1
                y == c - 1
    <3>. HIDE DEF x, y
    <3>3. x \in Int /\ y \in 0..c - 1 /\ a = c * x + y
      BY <3>1, <3>2 DEF x, y
    <3>4. c \in Nat \ {0} /\ a \in Int
      BY <1>3
    <3>5. a % c = y
      BY <3>3, <3>4, DivModUnique
    <3>. QED
      BY <3>5 DEF y
  <2>. QED
    BY <2>2, <2>5
<1>. QED
  BY <1>2, <1>4, <1>5 DEF Whole

LEMMA RightEndsAreWhole ==
  ASSUME NEW c \in Nat, c >= 2, NEW n \in Nat, NEW i \in Nat \ {0}
  PROVE  RightEnds(c, n, i) <=> Whole(c, n + 1, i)
<1>. DEFINE T == {k \in Nat : RightEnds(c, n, k + 1) <=> Whole(c, n + 1, k + 1)}
<1>1. 0 \in T
  <2>1. n + 1 = (n + 1) * U(c, 1)
    BY UnitOne
  <2>2. Whole(c, n + 1, 1)
    BY <2>1 DEF Whole
  <2>3. RightEnds(c, n, 1)
    BY DEF RightEnds
  <2>. QED
    BY <2>2, <2>3
<1>2. ASSUME NEW k \in Nat, k \in T PROVE k + 1 \in T
  <2>. DEFINE j == k + 1
  <2>1. j \in Nat \ {0} /\ (RightEnds(c, n, j) <=> Whole(c, n + 1, j))
    BY <1>2
  <2>. HIDE DEF j
  <2>2. RightEnds(c, n, j + 1) <=> Whole(c, n + 1, j + 1)
    BY <2>1, RightEndsNext
  <2>. QED
    BY <2>2 DEF j
<1>. HIDE DEF T
<1>3. Nat \subseteq T
  BY <1>1, <1>2, NatInduct
<1>4. i - 1 \in Nat /\ i - 1 + 1 = i
  OBVIOUS
<1>. QED
  BY <1>3, <1>4 DEF T
-----------------------------------------------------------------------------
(* The height of n is the layer whose unit is the greatest power in n.      *)
LEMMA HeightIs ==
  ASSUME NEW c \in Nat, c >= 2, NEW n \in Nat
  PROVE  /\ HeightOf(c, n) \in 0..n
         /\ n < power(c, HeightOf(c, n))
         /\ \A g \in 0..HeightOf(c, n) - 1 : n >= power(c, g)
<1>. DEFINE T == {h \in Nat : n < power(c, h)}
<1>1. n \in T
  BY PowerGrows
<1>2. PICK h \in T : \A g \in T : h <= g
  BY <1>1, LeastNat
<1>3. h \in 0..n /\ n < power(c, h)
  BY <1>1, <1>2
<1>4. ASSUME NEW g \in 0..h - 1 PROVE n >= power(c, g)
  <2>1. g \in Nat /\ g \notin T /\ power(c, g) \in Nat
    BY <1>2, <1>3, PowerPositive
  <2>. QED
    BY <2>1
<1>. HIDE DEF T
<1>. QED
  BY <1>3, <1>4 DEF HeightOf

LEMMA HeightUnique ==
  ASSUME NEW c \in Nat, c >= 2, NEW n \in Nat, NEW h \in Nat,
         n < power(c, h), h = 0 \/ n >= power(c, h - 1)
  PROVE  HeightOf(c, n) = h
<1>. DEFINE g == HeightOf(c, n)
<1>1. g \in Nat /\ n < power(c, g) /\ \A k \in 0..g - 1 : n >= power(c, k)
  BY HeightIs
<1>. HIDE DEF g
<1>2. CASE h <= g - 1
  <2>1. n >= power(c, h) /\ power(c, h) \in Nat
    BY <1>1, <1>2, PowerPositive
  <2>. QED
    BY <2>1
<1>3. CASE g <= h - 1
  <2>. DEFINE k == h - 1
  <2>1. k \in Nat /\ g <= k /\ n >= power(c, k)
    BY <1>1, <1>3
  <2>. HIDE DEF k
  <2>2. power(c, g) <= power(c, k) /\ power(c, g) \in Nat /\ power(c, k) \in Nat
    BY <1>1, <2>1, PowerMonotone, PowerPositive
  <2>. QED
    BY <1>1, <2>1, <2>2
<1>4. CASE g = h
  BY <1>4 DEF g
<1>. QED
  BY <1>1, <1>2, <1>3, <1>4

(* The top layer of n leaves, in units.                                     *)
LEMMA TopUnit ==
  ASSUME NEW c \in Nat, c >= 2, NEW n \in Nat \ {0}
  PROVE  /\ HeightOf(c, n) \in Nat \ {0}
         /\ U(c, HeightOf(c, n)) <= n
         /\ n < c * U(c, HeightOf(c, n))
<1>. DEFINE h == HeightOf(c, n)
<1>1. h \in Nat /\ n < power(c, h) /\ \A g \in 0..h - 1 : n >= power(c, g)
  BY HeightIs
<1>. HIDE DEF h
<1>2. h # 0
  BY <1>1, PowerZero
<1>3. U(c, h) <= n
  BY <1>1, <1>2 DEF U
<1>4. n < c * U(c, h)
  <2>. DEFINE k == h - 1
  <2>1. k \in Nat /\ h = k + 1
    BY <1>1, <1>2
  <2>. HIDE DEF k
  <2>2. power(c, h) = c * power(c, k)
    BY <2>1, PowerNext
  <2>. QED
    BY <1>1, <2>2 DEF U, k
<1>. QED
  BY <1>1, <1>2, <1>3, <1>4 DEF h

LEMMA TopUnitUnique ==
  ASSUME NEW c \in Nat, c >= 2, NEW n \in Nat, NEW h \in Nat \ {0},
         U(c, h) <= n, n < c * U(c, h)
  PROVE  HeightOf(c, n) = h
<1>. DEFINE k == h - 1
<1>1. k \in Nat /\ h = k + 1 /\ U(c, h) = power(c, k)
  BY DEF U
<1>. HIDE DEF k
<1>2. power(c, h) = c * power(c, k)
  BY <1>1, PowerNext
<1>3. power(c, k) \in Nat
  BY <1>1, PowerPositive
<1>. QED
  BY <1>1, <1>2, <1>3, HeightUnique DEF k

(* The height grows by one, when the number of leaves reaches the next unit.*)
LEMMA HeightStep ==
  ASSUME NEW c \in Nat, c >= 2, NEW n \in Nat
  PROVE  \/ HeightOf(c, n + 1) = HeightOf(c, n)
         \/ /\ HeightOf(c, n + 1) = HeightOf(c, n) + 1
            /\ n + 1 = U(c, HeightOf(c, n + 1))
<1>1. CASE n = 0
  <2>1. HeightOf(c, 0) = 0
    BY PowerZero, HeightUnique
  <2>2. U(c, 1) = 1
    BY UnitOne
  <2>3. HeightOf(c, 1) = 1
    BY <2>2, TopUnitUnique
  <2>. QED
    BY <1>1, <2>1, <2>2, <2>3
<1>2. CASE n # 0
  <2>. DEFINE h == HeightOf(c, n)
  <2>1. h \in Nat \ {0} /\ U(c, h) <= n /\ n < c * U(c, h)
    BY <1>2, TopUnit
  <2>. HIDE DEF h
  <2>2. U(c, h) \in Nat \ {0} /\ U(c, h + 1) = c * U(c, h)
    BY <2>1, UnitNext
  <2>3. CASE n + 1 < c * U(c, h)
    <3>1. HeightOf(c, n + 1) = h
      BY <2>1, <2>2, <2>3, TopUnitUnique
    <3>. QED
      BY <3>1 DEF h
  <2>4. CASE n + 1 = c * U(c, h)
    <3>. DEFINE g == h + 1
                w == U(c, g)
    <3>1. g \in Nat \ {0} /\ w = n + 1 /\ w \in Nat \ {0}
      BY <2>1, <2>2, <2>4
    <3>2. w < c * w
      <4>. HIDE DEF w
      <4>. QED
        BY <3>1
    <3>. HIDE DEF g
    <3>3. HeightOf(c, n + 1) = g
      BY <3>1, <3>2, TopUnitUnique
    <3>. QED
      BY <3>1, <3>3 DEF g, h
  <2>5. c * U(c, h) \in Nat
    BY <2>2
  <2>. QED
    BY <2>1, <2>3, <2>4, <2>5
<1>. QED
  BY <1>1, <1>2
-----------------------------------------------------------------------------
Hash == Seq(Leaf)
Layer == Seq(Hash)

LEMMA PushedIs ==
  ASSUME NEW c \in Nat \ {0}, NEW s \in Layer, Len(s) <= c, NEW h \in Hash
  PROVE  /\ Pushed(s, h, c) \in Layer
         /\ Len(Pushed(s, h, c)) = IF Len(s) < c THEN Len(s) + 1 ELSE c
         /\ Pushed(s, h, c)[Len(Pushed(s, h, c))] = h
         /\ \A j \in 1..Len(Pushed(s, h, c)) - 1 :
              Pushed(s, h, c)[j] = IF Len(s) < c THEN s[j] ELSE s[j + 1]
<1>1. CASE Len(s) < c
  BY <1>1, AppendProperties DEF Pushed, Layer
<1>2. CASE ~(Len(s) < c)
  <2>. DEFINE rest == Tail(s)
  <2>1. Len(s) = c /\ s # << >>
    BY <1>2, EmptySeq DEF Layer
  <2>2. rest \in Layer /\ Len(rest) = c - 1 /\ \A j \in 1..c - 1 : rest[j] = s[j + 1]
    BY <2>1, HeadTailProperties DEF Layer
  <2>. HIDE DEF rest
  <2>3. /\ Append(rest, h) \in Layer /\ Len(Append(rest, h)) = c
        /\ Append(rest, h)[c] = h
        /\ \A j \in 1..c - 1 : Append(rest, h)[j] = s[j + 1]
    BY <2>2, AppendProperties DEF Layer
  <2>4. Pushed(s, h, c) = Append(rest, h)
    BY <1>2 DEF Pushed, rest
  <2>. QED
    BY <1>2, <2>3, <2>4
<1>. QED
  BY <1>1, <1>2

LEMMA PoppedIs ==
  ASSUME NEW s \in Layer, NEW n \in Nat
  PROVE  /\ Popped(s, n) \in Layer
         /\ Len(Popped(s, n)) = IF n < Len(s) THEN Len(s) - n ELSE 0
         /\ \A j \in 1..Len(Popped(s, n)) : Popped(s, n)[j] = s[j]
<1>1. CASE n < Len(s)
  <2>. DEFINE m == Len(s) - n
  <2>1. m \in Nat \ {0} /\ m <= Len(s)
    BY <1>1 DEF Layer
  <2>2. \A j \in 1..m : s[j] \in Hash
    BY <2>1, ElementOfSeq DEF Layer
  <2>. HIDE DEF m
  <2>3. /\ SubSeq(s, 1, m) \in Seq(Hash) /\ Len(SubSeq(s, 1, m)) = m
        /\ \A j \in 1..m : SubSeq(s, 1, m)[j] = s[j]
    BY <2>1, <2>2, SubSeqProperties
  <2>. QED
    BY <1>1, <2>3 DEF m, Popped, Layer
<1>2. CASE ~(n < Len(s))
  BY <1>2 DEF Popped, Layer
<1>. QED
  BY <1>1, <1>2

(* The beginnings of a log.                                                 *)
LEMMA BeginningIs ==
  ASSUME NEW s \in Hash, NEW n \in 0..Len(s)
  PROVE  /\ SubSeq(s, 1, n) \in Hash
         /\ Len(SubSeq(s, 1, n)) = n
         /\ \A j \in 1..n : SubSeq(s, 1, n)[j] = s[j]
<1>1. \A j \in 1..n : s[j] \in Leaf
  BY ElementOfSeq DEF Hash
<1>. QED
  BY <1>1, SubSeqProperties DEF Hash

LEMMA BeginningOfBeginning ==
  ASSUME NEW s \in Hash, NEW m \in 0..Len(s), NEW n \in 0..m
  PROVE  SubSeq(SubSeq(s, 1, m), 1, n) = SubSeq(s, 1, n)
<1>. DEFINE b == SubSeq(s, 1, m)
<1>1. b \in Hash /\ Len(b) = m /\ \A j \in 1..m : b[j] = s[j]
  BY BeginningIs
<1>. HIDE DEF b
<1>2. SubSeq(b, 1, n) \in Hash /\ Len(SubSeq(b, 1, n)) = n
      /\ \A j \in 1..n : SubSeq(b, 1, n)[j] = b[j]
  BY <1>1, BeginningIs
<1>3. n \in 0..Len(s)
  BY DEF Hash
<1>4. SubSeq(s, 1, n) \in Hash /\ Len(SubSeq(s, 1, n)) = n
      /\ \A j \in 1..n : SubSeq(s, 1, n)[j] = s[j]
  BY <1>3, BeginningIs
<1>5. SubSeq(b, 1, n) = SubSeq(s, 1, n)
  BY <1>1, <1>2, <1>4, SeqEqual DEF Hash
<1>. QED
  BY <1>5 DEF b

LEMMA BeginningOfLonger ==
  ASSUME NEW s \in Hash, NEW r \in Hash, NEW n \in 0..Len(s)
  PROVE  SubSeq(s \o r, 1, n) = SubSeq(s, 1, n)
<1>1. /\ s \o r \in Hash /\ Len(s \o r) = Len(s) + Len(r)
      /\ \A j \in 1..Len(s) : (s \o r)[j] = s[j]
  BY ConcatProperties DEF Hash
<1>2. n \in 0..Len(s \o r) /\ n \in 0..Len(s)
  BY <1>1 DEF Hash
<1>. DEFINE w == s \o r
<1>. HIDE DEF w
<1>3. SubSeq(w, 1, n) \in Hash /\ Len(SubSeq(w, 1, n)) = n
      /\ \A j \in 1..n : SubSeq(w, 1, n)[j] = w[j]
  BY <1>1, <1>2, BeginningIs DEF w
<1>4. SubSeq(s, 1, n) \in Hash /\ Len(SubSeq(s, 1, n)) = n
      /\ \A j \in 1..n : SubSeq(s, 1, n)[j] = s[j]
  BY BeginningIs
<1>5. SubSeq(w, 1, n) = SubSeq(s, 1, n)
  <2>1. \A j \in 1..n : SubSeq(w, 1, n)[j] = SubSeq(s, 1, n)[j]
    BY <1>1, <1>2, <1>3, <1>4 DEF w, Hash
  <2>. QED
    BY <1>3, <1>4, <2>1, SeqEqual DEF Hash
<1>. QED
  BY <1>5 DEF w

LEMMA WholeBeginning ==
  ASSUME NEW s \in Hash
  PROVE  SubSeq(s, 1, Len(s)) = s
<1>1. Len(s) \in 0..Len(s)
  BY DEF Hash
<1>2. SubSeq(s, 1, Len(s)) \in Hash /\ Len(SubSeq(s, 1, Len(s))) = Len(s)
      /\ \A j \in 1..Len(s) : SubSeq(s, 1, Len(s))[j] = s[j]
  BY <1>1, BeginningIs
<1>. QED
  BY <1>2, SeqEqual DEF Hash

LEMMA LowestIs ==
  ASSUME NEW d \in Seq(Layer), \E i \in 1..Len(d) : d[i] # << >>
  PROVE  /\ Lowest(d) \in 1..Len(d)
         /\ d[Lowest(d)] # << >>
         /\ \A j \in 1..Lowest(d) - 1 : d[j] = << >>
<1>. DEFINE T == {i \in 1..Len(d) : d[i] # << >>}
<1>1. T \subseteq Nat /\ T # {}
  OBVIOUS
<1>2. PICK i \in T : \A j \in T : i <= j
  BY <1>1, LeastNat
<1>3. i \in DOMAIN d /\ d[i] # << >> /\ \A j \in 1..i - 1 : d[j] = << >>
  <2>1. ASSUME NEW j \in 1..i - 1 PROVE d[j] = << >>
    <3>1. j \notin T /\ j \in 1..Len(d)
      BY <1>2
    <3>. QED
      BY <3>1
  <2>. QED
    BY <1>2, <2>1
<1>. HIDE DEF T
<1>4. DOMAIN d = 1..Len(d)
  OBVIOUS
<1>5. /\ Lowest(d) \in DOMAIN d /\ d[Lowest(d)] # << >>
      /\ \A j \in 1..Lowest(d) - 1 : d[j] = << >>
  BY <1>3, Zenon DEF Lowest
<1>. QED
  BY <1>4, <1>5
-----------------------------------------------------------------------------
(* The parts of the invariant, of layers d with capacity c that hold t      *)
(* leaves, p of them at the last drop.                                      *)
Root(d) ==
  IF \E i \in DOMAIN d : d[i] # << >> THEN back(d[Lowest(d)]) ELSE << >>

(* No layer holds more than its capacity, or than there are whole units.    *)
Layers(d, c, t) ==
  /\ d \in Seq(Layer) /\ Len(d) >= 1
  /\ c \in Capacities
  /\ t \in 0..MaxTxs + 1
  /\ Len(d) > 1 => U(c, Len(d)) <= MaxTxs
  /\ \A i \in 1..Len(d) : Len(d[i]) <= c /\ Len(d[i]) <= Num(c, t, i)

(* The lowest layer is full, or holds all that was added since the drop.    *)
Recent(d, c, t, p) ==
  /\ p \in 0..t
  /\ Len(d[1]) = c \/ t - p <= Len(d[1])

Beginnings(d, c, t) ==
  /\ Len(Root(d)) = t
  /\ \A i \in 1..Len(d) : \A j \in 1..Len(d[i]) :
       d[i][j] = SubSeq(Root(d), 1,
                        (Num(c, t, i) - (Len(d[i]) - j)) * U(c, i))

(* Layer i has the hash of n of its units.                                  *)
Stored(d, c, t, i, n) ==
  /\ i \in 1..Len(d)
  /\ Num(c, t, i) - Len(d[i]) < n
  /\ n <= Num(c, t, i)

(* Of x leaves, the top layer of x has the last whole unit.                 *)
HasTop(d, c, t, x) ==
  Stored(d, c, t, HeightOf(c, x), x \div U(c, HeightOf(c, x)))

Nested(d, c, t) ==
  \A i \in 1..Len(d) : \A n \in Nat :
    Stored(d, c, t, i, n) => HasTop(d, c, t, n * U(c, i))

AtLeastOne(n) == IF n < 1 THEN 1 ELSE n

(* The top layer has its first unit, or the last one before the drop.       *)
Top(d, c, t, p) ==
  /\ HeightOf(c, t) <= Len(d)
  /\ t >= 1 => Stored(d, c, t, HeightOf(c, t),
                      AtLeastOne(p \div U(c, HeightOf(c, t))))

IInv ==
  /\ Layers(data, capacity_, txs)
  /\ Recent(data, capacity_, txs, previous_drop_number)
  /\ lost \in BOOLEAN
  /\ ~lost => /\ Beginnings(data, capacity_, txs)
              /\ Nested(data, capacity_, txs)
              /\ Top(data, capacity_, txs, previous_drop_number)

LEMMA CapacityIs ==
  ASSUME NEW c \in Capacities
  PROVE  c \in Nat /\ c >= 2 /\ c \in Nat \ {0}
BY NarrowAssumption

LEMMA RootIs ==
  ASSUME NEW d \in Seq(Layer)
  PROVE  /\ Root(d) \in Hash
         /\ (\E i \in 1..Len(d) : d[i] # << >>) =>
              /\ Lowest(d) \in 1..Len(d)
              /\ d[Lowest(d)] # << >>
              /\ \A j \in 1..Lowest(d) - 1 : d[j] = << >>
              /\ Root(d) = d[Lowest(d)][Len(d[Lowest(d)])]
         /\ (\A i \in 1..Len(d) : d[i] = << >>) => Root(d) = << >>
<1>0. DOMAIN d = 1..Len(d)
  OBVIOUS
<1>1. CASE \E i \in 1..Len(d) : d[i] # << >>
  <2>. DEFINE l == Lowest(d)
  <2>1. l \in 1..Len(d) /\ d[l] # << >> /\ \A j \in 1..l - 1 : d[j] = << >>
    BY <1>1, LowestIs
  <2>2. Root(d) = d[l][Len(d[l])]
    BY <1>0, <1>1, Zenon DEF Root, back
  <2>3. d[l] \in Layer
    BY <2>1, ElementOfSeq
  <2>. HIDE DEF l
  <2>4. Len(d[l]) \in 1..Len(d[l])
    BY <2>1, <2>3, EmptySeq DEF Layer
  <2>5. d[l][Len(d[l])] \in Hash
    BY <2>3, <2>4, ElementOfSeq DEF Layer
  <2>. QED
    BY <1>1, <2>1, <2>2, <2>5 DEF l
<1>2. CASE \A i \in 1..Len(d) : d[i] = << >>
  <2>1. Root(d) = << >>
    BY <1>0, <1>2 DEF Root
  <2>. QED
    BY <1>2, <2>1 DEF Hash
<1>. QED
  BY <1>1, <1>2
-----------------------------------------------------------------------------
(* What an addition does to the layers.                                     *)
Before(d, i) == IF i <= Len(d) THEN d[i] ELSE << >>

Grown(d, e, c, t, r) ==
  /\ e \in Seq(Layer)
  /\ Len(e) = IF t + 1 # 1 /\ HeightOf(c, t + 1) > HeightOf(c, t)
                           /\ HeightOf(c, t + 1) > Len(d)
              THEN Len(d) + 1 ELSE Len(d)
  /\ \A i \in 1..Len(e) :
       e[i] = IF Whole(c, t + 1, i) THEN Pushed(Before(d, i), r, c)
              ELSE Before(d, i)

PushedAt(d, e, c, t, r, i) ==
  /\ Num(c, t + 1, i) = Num(c, t, i) + 1
  /\ t + 1 = Num(c, t + 1, i) * U(c, i)
  /\ Len(e[i]) = IF Len(Before(d, i)) < c THEN Len(Before(d, i)) + 1 ELSE c
  /\ e[i][Len(e[i])] = r
  /\ \A j \in 1..Len(e[i]) - 1 :
       e[i][j] = IF Len(Before(d, i)) < c THEN Before(d, i)[j]
                 ELSE Before(d, i)[j + 1]

KeptAt(d, e, c, t, i) ==
  /\ Num(c, t + 1, i) = Num(c, t, i)
  /\ e[i] = Before(d, i)

LEMMA BeforeIs ==
  ASSUME NEW d, NEW c, NEW t, Layers(d, c, t), NEW i \in Nat \ {0}
  PROVE  /\ Before(d, i) \in Layer
         /\ Len(Before(d, i)) \in Nat
         /\ Len(Before(d, i)) <= c
         /\ Len(Before(d, i)) <= Num(c, t, i)
         /\ Num(c, t, i) \in Nat
         /\ U(c, i) \in Nat \ {0}
<1>1. c \in Nat /\ c >= 2 /\ t \in Nat /\ Len(d) \in Nat
  BY CapacityIs DEF Layers
<1>2. Num(c, t, i) \in Nat /\ U(c, i) \in Nat \ {0}
  BY <1>1, FloorNext, UnitNext
<1>3. CASE i <= Len(d)
  <2>1. i \in 1..Len(d) /\ d[i] \in Layer
    BY <1>1, <1>3, ElementOfSeq DEF Layers
  <2>. QED
    BY <1>2, <1>3, <2>1 DEF Before, Layers, Layer
<1>4. CASE ~(i <= Len(d))
  <2>1. Before(d, i) = << >>
    BY <1>4 DEF Before
  <2>2. << >> \in Layer /\ Len(<< >>) = 0
    BY DEF Layer
  <2>. QED
    BY <1>1, <1>2, <2>1, <2>2
<1>. QED
  BY <1>3, <1>4

LEMMA GrownAt ==
  ASSUME NEW d, NEW e, NEW c, NEW t, Layers(d, c, t), NEW r \in Hash,
         Grown(d, e, c, t, r), NEW i \in 1..Len(e)
  PROVE  PushedAt(d, e, c, t, r, i) \/ KeptAt(d, e, c, t, i)
<1>1. c \in Nat /\ c >= 2 /\ c \in Nat \ {0} /\ t \in Nat /\ i \in Nat \ {0}
  BY CapacityIs DEF Layers, Grown
<1>2. Before(d, i) \in Layer /\ Len(Before(d, i)) <= c
  BY <1>1, BeforeIs
<1>3. CASE Whole(c, t + 1, i)
  <2>1. e[i] = Pushed(Before(d, i), r, c)
    BY <1>3 DEF Grown
  <2>2. /\ Len(e[i]) = IF Len(Before(d, i)) < c THEN Len(Before(d, i)) + 1 ELSE c
        /\ e[i][Len(e[i])] = r
        /\ \A j \in 1..Len(e[i]) - 1 :
             e[i][j] = IF Len(Before(d, i)) < c THEN Before(d, i)[j]
                       ELSE Before(d, i)[j + 1]
    BY <1>1, <1>2, <2>1, PushedIs
  <2>3. Num(c, t + 1, i) = Num(c, t, i) + 1 /\ t + 1 = Num(c, t + 1, i) * U(c, i)
    BY <1>1, <1>3, FloorNext
  <2>. QED
    BY <2>2, <2>3 DEF PushedAt
<1>4. CASE ~Whole(c, t + 1, i)
  BY <1>1, <1>4, FloorNext DEF Grown, KeptAt
<1>. QED
  BY <1>3, <1>4

(* The lowest layer is always pushed into: the new root is there.           *)
LEMMA GrownLowest ==
  ASSUME NEW d, NEW e, NEW c, NEW t, Layers(d, c, t), NEW r \in Hash,
         Grown(d, e, c, t, r)
  PROVE  /\ 1 \in 1..Len(e) /\ PushedAt(d, e, c, t, r, 1)
         /\ Root(e) = r
<1>1. c \in Nat /\ c >= 2 /\ t \in Nat
  BY CapacityIs DEF Layers
<1>2. 1 \in 1..Len(e) /\ Len(e) \in Nat
  BY DEF Layers, Grown
<1>3. Num(c, t + 1, 1) = t + 1 /\ Num(c, t, 1) = t
  BY <1>1, UnitOne DEF Num
<1>4. PushedAt(d, e, c, t, r, 1)
  BY <1>1, <1>2, <1>3, GrownAt DEF KeptAt
<1>5. Len(e[1]) > 0 /\ e[1][Len(e[1])] = r /\ e[1] # << >>
  <2>1. Len(Before(d, 1)) \in Nat
    BY BeforeIs
  <2>2. Len(e[1]) > 0
    BY <1>1, <1>4, <2>1 DEF PushedAt
  <2>3. Len(<< >>) = 0
    OBVIOUS
  <2>4. e[1] # << >>
    BY <2>2, <2>3
  <2>. QED
    BY <1>4, <2>2, <2>4 DEF PushedAt
<1>6. /\ Lowest(e) \in 1..Len(e)
      /\ \A j \in 1..Lowest(e) - 1 : e[j] = << >>
      /\ Root(e) = e[Lowest(e)][Len(e[Lowest(e)])]
  BY <1>2, <1>5, RootIs DEF Grown
<1>7. Lowest(e) = 1
  <2>1. CASE Lowest(e) > 1
    <3>1. 1 \in 1..Lowest(e) - 1
      BY <1>6, <2>1
    <3>. QED
      BY <1>5, <1>6, <3>1
  <2>. QED
    BY <1>6, <2>1
<1>. QED
  BY <1>2, <1>4, <1>5, <1>6, <1>7

LEMMA GrownLayers ==
  ASSUME NEW d, NEW e, NEW c, NEW t, Layers(d, c, t), t < MaxTxs,
         NEW r \in Hash, Grown(d, e, c, t, r)
  PROVE  Layers(e, c, t + 1)
<1>1. /\ c \in Nat /\ c >= 2 /\ t \in Nat /\ MaxTxs \in Nat
      /\ Len(d) \in Nat /\ Len(d) >= 1
  BY NarrowAssumption, CapacityIs DEF Layers
<1>2. Len(e) > 1 => U(c, Len(e)) <= MaxTxs
  <2>1. CASE Len(e) = Len(d)
    BY <2>1 DEF Layers
  <2>2. CASE Len(e) # Len(d)
    <3>. DEFINE h == HeightOf(c, t + 1)
                l == Len(d) + 1
    <3>1. Len(e) = l /\ h > Len(d)
      BY <2>2 DEF Grown
    <3>2. h \in Nat \ {0} /\ U(c, h) <= t + 1
      BY <1>1, TopUnit
    <3>3. l \in Nat \ {0} /\ l <= h
      BY <1>1, <3>1, <3>2
    <3>. HIDE DEF h, l
    <3>4. U(c, l) <= U(c, h) /\ U(c, l) \in Nat /\ U(c, h) \in Nat
      BY <1>1, <3>2, <3>3, UnitMonotone, UnitNext
    <3>. QED
      BY <1>1, <3>1, <3>2, <3>4
  <2>. QED
    BY <2>1, <2>2
<1>3. ASSUME NEW i \in 1..Len(e)
      PROVE  Len(e[i]) <= c /\ Len(e[i]) <= Num(c, t + 1, i)
  <2>1. /\ Len(Before(d, i)) \in Nat /\ Len(Before(d, i)) <= c
        /\ Len(Before(d, i)) <= Num(c, t, i) /\ Num(c, t, i) \in Nat
    BY <1>1, BeforeIs
  <2>2. CASE PushedAt(d, e, c, t, r, i)
    BY <1>1, <2>1, <2>2 DEF PushedAt
  <2>3. CASE KeptAt(d, e, c, t, i)
    BY <1>1, <2>1, <2>3 DEF KeptAt
  <2>. QED
    BY <2>2, <2>3, GrownAt
<1>4. Len(e) >= 1
  BY <1>1 DEF Grown
<1>5. t + 1 \in 0..MaxTxs + 1
  BY <1>1
<1>. QED
  BY <1>2, <1>3, <1>4, <1>5 DEF Layers, Grown

LEMMA GrownRecent ==
  ASSUME NEW d, NEW e, NEW c, NEW t, Layers(d, c, t), NEW r \in Hash,
         Grown(d, e, c, t, r), NEW p, Recent(d, c, t, p)
  PROVE  Recent(e, c, t + 1, p)
<1>1. c \in Nat /\ c >= 2 /\ t \in Nat /\ Len(d) >= 1 /\ p \in 0..t + 1
  BY CapacityIs DEF Layers, Recent
<1>2. Before(d, 1) = d[1] /\ Len(d[1]) \in Nat /\ Len(d[1]) <= c
  BY <1>1, BeforeIs DEF Before
<1>3. Len(e[1]) = IF Len(d[1]) < c THEN Len(d[1]) + 1 ELSE c
  <2>1. PushedAt(d, e, c, t, r, 1)
    BY GrownLowest
  <2>. QED
    BY <1>2, <2>1 DEF PushedAt
<1>. QED
  BY <1>1, <1>2, <1>3 DEF Recent

LEMMA GrownBeginnings ==
  ASSUME NEW d, NEW e, NEW c, NEW t, Layers(d, c, t), NEW leaf \in Leaf,
         Grown(d, e, c, t, Root(d) \o <<leaf>>), Beginnings(d, c, t)
  PROVE  Beginnings(e, c, t + 1)
<1>. DEFINE s == Root(d)
            r == s \o <<leaf>>
<1>1. c \in Nat /\ c >= 2 /\ t \in Nat
  BY CapacityIs DEF Layers
<1>2. s \in Hash /\ <<leaf>> \in Hash /\ Len(<<leaf>>) = 1 /\ Len(s) = t
  BY RootIs DEF Layers, Beginnings, Hash
<1>3. r \in Hash /\ Len(r) = t + 1
  BY <1>2, ConcatProperties DEF Hash
<1>4. Root(e) = r
  BY <1>3, GrownLowest
<1>5. SubSeq(r, 1, t + 1) = r
  BY <1>3, WholeBeginning
<1>6. \A n \in 0..t : SubSeq(r, 1, n) = SubSeq(s, 1, n)
  BY <1>2, BeginningOfLonger
<1>. HIDE DEF r, s
<1>7. ASSUME NEW i \in 1..Len(e), NEW j \in 1..Len(e[i])
      PROVE  e[i][j] = SubSeq(r, 1, (Num(c, t + 1, i) - (Len(e[i]) - j)) * U(c, i))
  <2>. DEFINE b == Before(d, i)
              q == Num(c, t, i)
              u == U(c, i)
  <2>1. /\ Len(b) \in Nat /\ Len(b) <= c /\ Len(b) <= q
        /\ q \in Nat /\ u \in Nat \ {0}
    BY BeforeIs
  <2>2. q * u <= t
    BY <1>1, <2>1, Floor DEF Num
  <2>3. ASSUME NEW k \in 1..Len(b)
        PROVE  b[k] = SubSeq(r, 1, (q - (Len(b) - k)) * u)
    <3>1. i <= Len(d) /\ b = d[i] /\ i \in 1..Len(d)
      <4>1. Len(<< >>) = 0
        OBVIOUS
      <4>. QED
        BY <4>1 DEF Before, Layers
    <3>2. b[k] = SubSeq(s, 1, (q - (Len(b) - k)) * u)
      BY <3>1 DEF Beginnings, s
    <3>. DEFINE n == q - (Len(b) - k)
    <3>3. n \in Nat /\ n <= q
      BY <2>1
    <3>. HIDE DEF n, u, q
    <3>4. n * u <= q * u /\ n * u \in Nat /\ q * u \in Nat
      BY <2>1, <3>3
    <3>5. n * u \in 0..t
      BY <1>1, <2>2, <3>4
    <3>. QED
      BY <1>6, <3>2, <3>5 DEF n
  <2>4. CASE PushedAt(d, e, c, t, r, i)
    <3>1. /\ Num(c, t + 1, i) = q + 1 /\ t + 1 = Num(c, t + 1, i) * u
          /\ Len(e[i]) = (IF Len(b) < c THEN Len(b) + 1 ELSE c)
          /\ e[i][Len(e[i])] = r
          /\ \A k \in 1..Len(e[i]) - 1 :
               e[i][k] = IF Len(b) < c THEN b[k] ELSE b[k + 1]
      BY <2>4 DEF PushedAt
    <3>2. CASE j = Len(e[i])
      <4>1. Num(c, t + 1, i) - (Len(e[i]) - j) = Num(c, t + 1, i)
        BY <2>1, <3>1, <3>2
      <4>. QED
        BY <1>5, <3>1, <3>2, <4>1
    <3>3. CASE j # Len(e[i])
      <4>. DEFINE k == IF Len(b) < c THEN j ELSE j + 1
      <4>1. k \in 1..Len(b) /\ j \in 1..Len(e[i]) - 1
        BY <1>1, <2>1, <3>1, <3>3
      <4>2. q - (Len(b) - k) = Num(c, t + 1, i) - (Len(e[i]) - j)
        <5>. DEFINE f == Len(e[i])
                    x == Num(c, t + 1, i)
                    l == Len(b)
        <5>1. /\ l \in Nat /\ l <= c /\ q \in Nat /\ x = q + 1 /\ j \in Nat
              /\ f = (IF l < c THEN l + 1 ELSE c)
              /\ k = (IF l < c THEN j ELSE j + 1)
          BY <2>1, <3>1
        <5>. HIDE DEF f, x, l, k, q
        <5>2. q - (l - k) = x - (f - j)
          BY <1>1, <5>1
        <5>. QED
          BY <5>2 DEF f, x, l
      <4>3. e[i][j] = b[k]
        BY <3>1, <4>1
      <4>. HIDE DEF k, b, q
      <4>. QED
        BY <2>3, <4>1, <4>2, <4>3
    <3>. QED
      BY <3>2, <3>3
  <2>5. CASE KeptAt(d, e, c, t, i)
    <3>1. Num(c, t + 1, i) = q /\ e[i] = b
      BY <2>5 DEF KeptAt
    <3>. QED
      BY <2>3, <3>1
  <2>. QED
    BY <1>3, <2>4, <2>5, GrownAt DEF r, s
<1>. QED
  BY <1>3, <1>4, <1>7 DEF Beginnings

LEMMA StoredIs ==
  ASSUME NEW d, NEW c, NEW t, Layers(d, c, t), NEW i, NEW n \in Int,
         Stored(d, c, t, i, n)
  PROVE  /\ i \in 1..Len(d) /\ i \in Nat \ {0}
         /\ Len(d[i]) \in Nat \ {0} /\ Len(d[i]) <= c
         /\ Num(c, t, i) \in Nat /\ Len(d[i]) <= Num(c, t, i)
         /\ n \in Nat \ {0}
<1>1. i \in 1..Len(d) /\ i \in Nat \ {0} /\ Before(d, i) = d[i]
  BY DEF Stored, Layers, Before
<1>2. /\ Len(d[i]) \in Nat /\ Len(d[i]) <= c
      /\ Num(c, t, i) \in Nat /\ Len(d[i]) <= Num(c, t, i)
  BY <1>1, BeforeIs
<1>. QED
  BY <1>1, <1>2 DEF Stored

(* What is stored after an addition was stored before, or is the new root.  *)
LEMMA StoredAfter ==
  ASSUME NEW d, NEW e, NEW c, NEW t, Layers(d, c, t), NEW r \in Hash,
         Grown(d, e, c, t, r), NEW i, NEW n \in Int, Stored(e, c, t + 1, i, n)
  PROVE  \/ Stored(d, c, t, i, n)
         \/ n = Num(c, t + 1, i) /\ t + 1 = n * U(c, i)
<1>1. i \in 1..Len(e) /\ i \in Nat \ {0} /\ c \in Nat /\ Len(d) \in Nat
  BY CapacityIs DEF Stored, Layers, Grown
<1>2. /\ Len(Before(d, i)) \in Nat /\ Len(Before(d, i)) <= c
      /\ Num(c, t, i) \in Nat
  BY <1>1, BeforeIs
<1>3. ASSUME n <= Num(c, t, i), Num(c, t, i) - Len(Before(d, i)) < n
      PROVE  Stored(d, c, t, i, n)
  <2>1. Len(Before(d, i)) # 0
    BY <1>2, <1>3
  <2>2. Len(<< >>) = 0
    OBVIOUS
  <2>3. i <= Len(d) /\ Before(d, i) = d[i]
    BY <2>1, <2>2 DEF Before
  <2>. QED
    BY <1>1, <1>3, <2>3 DEF Stored
<1>4. CASE PushedAt(d, e, c, t, r, i)
  <2>1. /\ Num(c, t + 1, i) = Num(c, t, i) + 1
        /\ t + 1 = Num(c, t + 1, i) * U(c, i)
        /\ Len(e[i]) = IF Len(Before(d, i)) < c THEN Len(Before(d, i)) + 1 ELSE c
    BY <1>4 DEF PushedAt
  <2>2. Num(c, t + 1, i) - Len(e[i]) < n /\ n <= Num(c, t + 1, i)
    BY DEF Stored
  <2>. QED
    BY <1>1, <1>2, <1>3, <2>1, <2>2
<1>5. CASE KeptAt(d, e, c, t, i)
  BY <1>3, <1>5 DEF KeptAt, Stored
<1>. QED
  BY <1>1, <1>4, <1>5, GrownAt

(* What was stored still is, but for the oldest hash of a full layer.       *)
Forgotten(d, e, c, t, r, i, n) ==
  /\ PushedAt(d, e, c, t, r, i)
  /\ Len(d[i]) = c /\ Len(e[i]) = c
  /\ n = Num(c, t, i) - c + 1

LEMMA StoredBefore ==
  ASSUME NEW d, NEW e, NEW c, NEW t, Layers(d, c, t), NEW r \in Hash,
         Grown(d, e, c, t, r), NEW i, NEW n \in Int, Stored(d, c, t, i, n)
  PROVE  Stored(e, c, t + 1, i, n) \/ Forgotten(d, e, c, t, r, i, n)
<1>1. /\ i \in 1..Len(d) /\ i \in 1..Len(e) /\ c \in Nat
      /\ Before(d, i) = d[i]
      /\ Len(d[i]) \in Nat /\ Len(d[i]) <= c /\ Num(c, t, i) \in Nat
  <2>1. /\ i \in 1..Len(d) /\ i \in Nat \ {0}
        /\ Len(d[i]) \in Nat /\ Len(d[i]) <= c /\ Num(c, t, i) \in Nat
    BY StoredIs
  <2>2. c \in Nat /\ Len(d) \in Nat
    BY CapacityIs DEF Layers
  <2>3. i \in 1..Len(e)
    BY <2>1, <2>2 DEF Grown
  <2>4. Before(d, i) = d[i]
    BY <2>1, <2>2 DEF Before
  <2>. QED
    BY <2>1, <2>2, <2>3, <2>4
<1>2. Num(c, t, i) - Len(d[i]) < n /\ n <= Num(c, t, i)
  BY DEF Stored
<1>3. CASE PushedAt(d, e, c, t, r, i)
  <2>1. /\ Num(c, t + 1, i) = Num(c, t, i) + 1
        /\ Len(e[i]) = IF Len(d[i]) < c THEN Len(d[i]) + 1 ELSE c
    BY <1>1, <1>3 DEF PushedAt
  <2>2. CASE n = Num(c, t, i) - c + 1 /\ Len(d[i]) = c
    BY <1>1, <1>3, <2>1, <2>2 DEF Forgotten
  <2>3. CASE ~(n = Num(c, t, i) - c + 1 /\ Len(d[i]) = c)
    <3>1. Num(c, t + 1, i) - Len(e[i]) < n /\ n <= Num(c, t + 1, i)
      BY <1>1, <1>2, <2>1, <2>3
    <3>. QED
      BY <1>1, <3>1 DEF Stored
  <2>. QED
    BY <2>2, <2>3
<1>4. CASE KeptAt(d, e, c, t, i)
  BY <1>1, <1>2, <1>4 DEF KeptAt, Stored
<1>. QED
  BY <1>1, <1>3, <1>4, GrownAt

LEMMA TopHasTop ==
  ASSUME NEW d, NEW c, NEW t, Layers(d, c, t), t >= 1, NEW p \in Nat,
         Top(d, c, t, p)
  PROVE  HasTop(d, c, t, t)
<1>. DEFINE h == HeightOf(c, t)
            n == AtLeastOne(p \div U(c, h))
<1>1. c \in Nat /\ c >= 2 /\ t \in Nat \ {0}
  BY CapacityIs DEF Layers
<1>2. h \in Nat \ {0} /\ U(c, h) \in Nat \ {0}
  BY <1>1, TopUnit, UnitNext
<1>3. n \in Int
  BY <1>2, Floor DEF AtLeastOne
<1>4. Stored(d, c, t, h, n)
  BY DEF Top
<1>. HIDE DEF h, n
<1>5. /\ h \in 1..Len(d) /\ Len(d[h]) \in Nat \ {0} /\ Num(c, t, h) \in Nat
  BY <1>3, <1>4, StoredIs
<1>6. Stored(d, c, t, h, Num(c, t, h))
  BY <1>5 DEF Stored
<1>. QED
  BY <1>6 DEF HasTop, Num, h

LEMMA GrownTop ==
  ASSUME NEW d, NEW e, NEW c, NEW t, Layers(d, c, t), NEW r \in Hash,
         Grown(d, e, c, t, r), NEW p \in 0..t, Top(d, c, t, p)
  PROVE  Top(e, c, t + 1, p)
<1>. DEFINE h == HeightOf(c, t + 1)
            g == HeightOf(c, t)
            w == U(c, h)
<1>1. c \in Nat /\ c >= 2 /\ t \in Nat /\ Len(d) \in Nat /\ Len(d) >= 1 /\ p \in Nat
  BY CapacityIs DEF Layers
<1>2. h \in Nat \ {0} /\ w <= t + 1 /\ t + 1 < c * w
  BY <1>1, TopUnit
<1>3. w \in Nat \ {0}
  BY <1>1, <1>2, UnitNext
<1>4. t = 0 => g = 0
  BY HeightIs, <1>1
<1>5. g <= Len(d) /\ g \in Nat
  BY <1>1, HeightIs DEF Top
<1>6. ASSUME h = g
      PROVE  h <= Len(e) /\ Stored(e, c, t + 1, h, AtLeastOne(p \div w))
  <2>. DEFINE n == AtLeastOne(p \div w)
  <2>1. t # 0 /\ t >= 1
    BY <1>1, <1>2, <1>4, <1>6
  <2>2. Stored(d, c, t, h, n)
    BY <1>6, <2>1 DEF Top
  <2>3. n \in Int
    BY <1>1, <1>3, Floor DEF AtLeastOne
  <2>4. Num(c, t, h) < c
    <3>. DEFINE a == t \div w
    <3>1. a \in Nat /\ a * w <= t
      BY <1>1, <1>3, Floor
    <3>. HIDE DEF a, w
    <3>2. CASE c <= a
      <4>1. c * w <= a * w
        BY <1>1, <1>3, <3>1, <3>2
      <4>2. c * w \in Nat /\ a * w \in Nat
        BY <1>1, <1>3, <3>1
      <4>. QED
        BY <1>1, <1>2, <3>1, <4>1, <4>2
    <3>. QED
      BY <1>1, <3>1, <3>2 DEF a, w, Num
  <2>. HIDE DEF n, h
  <2>5. Len(d[h]) # c
    <3>1. Len(d[h]) <= Num(c, t, h) /\ Num(c, t, h) \in Nat /\ Len(d[h]) \in Nat
      BY <2>2, <2>3, StoredIs
    <3>. QED
      BY <1>1, <2>4, <3>1
  <2>6. Stored(e, c, t + 1, h, n)
    <3>1. Stored(e, c, t + 1, h, n) \/ Forgotten(d, e, c, t, r, h, n)
      BY <2>2, <2>3, StoredBefore
    <3>. QED
      BY <2>5, <3>1 DEF Forgotten
  <2>7. h <= Len(e)
    BY <2>6 DEF Stored
  <2>. QED
    BY <2>6, <2>7 DEF n
<1>7. ASSUME h = g + 1, t + 1 = w
      PROVE  h <= Len(e) /\ Stored(e, c, t + 1, h, AtLeastOne(p \div w))
  <2>1. h <= Len(e)
    <3>1. CASE h <= Len(d)
      BY <1>1, <1>2, <3>1 DEF Grown
    <3>2. CASE h > Len(d)
      <4>1. t + 1 # 1
        BY <1>1, <1>4, <1>7, <3>2
      <4>2. Len(e) = Len(d) + 1
        BY <1>5, <1>7, <3>2, <4>1 DEF Grown
      <4>. QED
        BY <1>1, <1>5, <1>7, <4>2
    <3>. QED
      BY <1>1, <1>2, <3>1, <3>2
  <2>2. h \in 1..Len(e)
    BY <1>2, <2>1 DEF Grown
  <2>3. Num(c, t + 1, h) = 1 /\ Num(c, t, h) = 0 /\ p \div w = 0
    <3>. HIDE DEF w
    <3>1. (t + 1) \div w = 1 /\ t \div w = 0 /\ p \div w = 0
      BY <1>1, <1>3, <1>7, FloorIs
    <3>. QED
      BY <3>1 DEF w, Num
  <2>. HIDE DEF h
  <2>4. Len(Before(d, h)) \in Nat
    BY <1>2, BeforeIs
  <2>5. PushedAt(d, e, c, t, r, h)
    BY <2>2, <2>3, GrownAt DEF KeptAt
  <2>6. Len(e[h]) \in Nat \ {0}
    BY <1>1, <2>4, <2>5 DEF PushedAt
  <2>7. AtLeastOne(p \div w) = 1
    BY <2>3 DEF AtLeastOne
  <2>. QED
    BY <2>1, <2>2, <2>3, <2>6, <2>7 DEF Stored
<1>8. h <= Len(e) /\ Stored(e, c, t + 1, h, AtLeastOne(p \div w))
  BY <1>1, <1>6, <1>7, HeightStep
<1>. QED
  BY <1>8 DEF Top

(* Among the last c multiples of u up to s, each is in one of the last two  *)
(* units of a layer whose unit is at least c times as large.                *)
LEMMA LastUnits ==
  ASSUME NEW c \in Nat \ {0}, NEW u \in Nat \ {0}, NEW w \in Nat \ {0}, c * u <= w,
         NEW a \in Nat, NEW b \in Nat, a * u = b * w, NEW n \in Nat, a - c + 1 <= n
  PROVE  b - 1 <= (n * u) \div w
<1>. DEFINE m == (n * u) \div w
<1>1. n * u \in Nat
  OBVIOUS
<1>2. m \in Nat /\ n * u < m * w + w
  BY <1>1, Floor
<1>. HIDE DEF m
<1>3. (a - c + 1) * u <= n * u
  OBVIOUS
<1>4. (a - c + 1) * u = a * u - c * u + u
  OBVIOUS
<1>5. c * u \in Nat /\ a * u \in Nat /\ b * w \in Nat /\ m * w \in Nat
  BY <1>2
<1>6. b * w - w < m * w + w
  BY <1>1, <1>2, <1>3, <1>4, <1>5
<1>7. CASE m + 2 <= b
  <2>1. (m + 2) * w <= b * w
    BY <1>2, <1>7
  <2>2. (m + 2) * w = m * w + w + w
    BY <1>2
  <2>. QED
    BY <1>5, <1>6, <2>1, <2>2
<1>. QED
  BY <1>2, <1>7 DEF m

LEMMA NotForgotten ==
  ASSUME NEW d, NEW e, NEW c, NEW t, Layers(d, c, t), Layers(e, c, t + 1),
         NEW r \in Hash, NEW i, NEW n \in Nat \ {0}, Stored(e, c, t + 1, i, n),
         NEW h, h = HeightOf(c, n * U(c, i)), h \in 1..Len(d),
         Forgotten(d, e, c, t, r, h, (n * U(c, i)) \div U(c, h))
  PROVE  FALSE
<1>. DEFINE u == U(c, i)
            w == U(c, h)
            x == n * u
            a == Num(c, t + 1, i)
            b == Num(c, t + 1, h)
<1>1. c \in Nat /\ c >= 2 /\ c \in Nat \ {0} /\ t \in Nat /\ h \in Nat \ {0}
  BY CapacityIs DEF Layers
<1>2. i \in Nat \ {0} /\ Len(e[i]) \in Nat /\ Len(e[i]) <= c /\ a \in Nat
  BY StoredIs
<1>3. u \in Nat \ {0} /\ w \in Nat \ {0}
  BY <1>1, <1>2, UnitNext
<1>4. x \in Nat \ {0} /\ u <= x
  <2>. HIDE DEF u
  <2>. QED
    BY <1>3
<1>5. w <= x /\ x < c * w
  <2>. HIDE DEF x, u
  <2>1. h = HeightOf(c, x)
    BY DEF x, u
  <2>. QED
    BY <1>1, <1>4, <2>1, TopUnit
<1>6. a - Len(e[i]) < n
  BY DEF Stored
<1>7. /\ b = Num(c, t, h) + 1 /\ t + 1 = b * w /\ Len(e[h]) = c
      /\ x \div w = Num(c, t, h) - c + 1 /\ Num(c, t, h) \in Nat
  BY <1>1, FloorNext DEF Forgotten, PushedAt
<1>8. CASE h < i
  <2>. DEFINE g == h + 1
  <2>0. U(c, g) = c * w
    BY <1>1, UnitNext
  <2>1. g \in Nat \ {0} /\ g <= i
    BY <1>1, <1>2, <1>8
  <2>. HIDE DEF g
  <2>2. U(c, g) <= u /\ U(c, g) \in Nat
    BY <1>1, <1>2, <2>1, UnitMonotone, UnitNext
  <2>. HIDE DEF u, w, x
  <2>. QED
    BY <1>3, <1>4, <1>5, <2>0, <2>2
<1>9. CASE h = i
  <2>1. x \div w = n
    <3>1. w = u
      BY <1>9
    <3>. HIDE DEF u, w
    <3>2. x = n * w
      BY <3>1
    <3>. QED
      BY <1>3, <3>2, FloorOfWhole
  <2>. HIDE DEF x, w, u
  <2>. QED
    BY <1>1, <1>2, <1>6, <1>7, <1>9, <2>1
<1>10. CASE i < h
  <2>1. c * u <= w
    <3>. DEFINE g == i + 1
    <3>0. U(c, g) = c * u
      BY <1>1, <1>2, UnitNext
    <3>1. g \in Nat \ {0} /\ g <= h
      BY <1>1, <1>2, <1>10
    <3>. HIDE DEF g
    <3>2. U(c, g) <= U(c, h)
      BY <1>1, <3>1, UnitMonotone
    <3>. QED
      BY <3>0, <3>2
  <2>2. t + 1 = a * u
    <3>1. PICK m \in Nat \ {0} : w = m * u
      BY <1>1, <1>2, <1>10, UnitDivides
    <3>0. b \in Nat /\ t + 1 = b * w
      BY <1>7
    <3>. HIDE DEF u, w, b
    <3>2. b * (m * u) = (b * m) * u /\ b * m \in Nat
      BY <1>3, <3>0, Associative
    <3>4. t + 1 = (b * m) * u
      BY <3>0, <3>1, <3>2
    <3>3. Whole(c, t + 1, i)
      BY <3>2, <3>4 DEF Whole, u
    <3>. QED
      BY <1>1, <1>2, <3>3, FloorNext DEF u
  <2>3. b \in Nat
    BY <1>7
  <2>. HIDE DEF u, w, a, b
  <2>4. a - c + 1 <= n
    BY <1>1, <1>2, <1>6
  <2>5. b - 1 <= (n * u) \div w
    <3>1. a * u = b * w
      BY <1>7, <2>2
    <3>. QED
      BY <1>1, <1>2, <1>3, <2>1, <2>3, <2>4, <3>1, LastUnits
  <2>. QED
    BY <1>1, <1>7, <2>3, <2>5
<1>. QED
  BY <1>1, <1>2, <1>8, <1>9, <1>10

LEMMA GrownNested ==
  ASSUME NEW d, NEW e, NEW c, NEW t, Layers(d, c, t), t < MaxTxs,
         NEW r \in Hash, Grown(d, e, c, t, r),
         NEW p \in 0..t, Top(d, c, t, p), Nested(d, c, t)
  PROVE  Nested(e, c, t + 1)
<1>1. c \in Nat /\ c >= 2 /\ t \in Nat /\ p \in Nat
  BY CapacityIs DEF Layers
<1>2. Layers(e, c, t + 1)
  BY GrownLayers
<1>3. HasTop(e, c, t + 1, t + 1)
  <2>1. Top(e, c, t + 1, p)
    BY GrownTop
  <2>2. t + 1 >= 1
    BY <1>1
  <2>. QED
    BY <1>1, <1>2, <2>1, <2>2, TopHasTop
<1>4. ASSUME NEW i \in 1..Len(e), NEW n \in Nat, Stored(e, c, t + 1, i, n)
      PROVE  HasTop(e, c, t + 1, n * U(c, i))
  <2>1. n \in Nat \ {0} /\ n \in Int
    BY <1>2, <1>4, StoredIs
  <2>2. CASE t + 1 = n * U(c, i)
    BY <1>3, <2>2
  <2>3. CASE Stored(d, c, t, i, n)
    <3>. DEFINE h == HeightOf(c, n * U(c, i))
                m == (n * U(c, i)) \div U(c, h)
    <3>1. i \in 1..Len(d)
      BY <2>3 DEF Stored
    <3>2. Stored(d, c, t, h, m)
      BY <2>3, <3>1 DEF Nested, HasTop
    <3>3. m \in Int
      <4>1. i \in Nat \ {0} /\ h \in Nat \ {0}
        BY <3>1, <3>2 DEF Stored, Layers
      <4>2. U(c, i) \in Nat \ {0} /\ U(c, h) \in Nat \ {0}
        BY <1>1, <4>1, UnitNext
      <4>. DEFINE x == n * U(c, i)
      <4>3. x \in Nat
        BY <4>2
      <4>. HIDE DEF x, h
      <4>4. x \div U(c, h) \in Nat
        BY <4>2, <4>3, Floor
      <4>. QED
        BY <4>4 DEF x
    <3>4. h \in 1..Len(d)
      BY <3>2 DEF Stored
    <3>5. h = HeightOf(c, n * U(c, i)) /\ m = (n * U(c, i)) \div U(c, h)
      OBVIOUS
    <3>. HIDE DEF h, m
    <3>6. ~Forgotten(d, e, c, t, r, h, m)
      <4>1. ASSUME Forgotten(d, e, c, t, r, h, (n * U(c, i)) \div U(c, h))
            PROVE  FALSE
        BY <1>2, <1>4, <2>1, <3>4, <3>5, <4>1, NotForgotten
      <4>. QED
        BY <3>5, <4>1
    <3>7. Stored(e, c, t + 1, h, m)
      BY <3>2, <3>3, <3>6, StoredBefore
    <3>. QED
      BY <3>5, <3>7 DEF HasTop
  <2>. QED
    BY <1>4, <2>1, <2>2, <2>3, StoredAfter
<1>. QED
  BY <1>4 DEF Nested

LEMMA AddGrows ==
  ASSUME Layers(data, capacity_, txs), NEW leaf \in Leaf, Add(leaf)
  PROVE  /\ Root(data) \o <<leaf>> \in Hash
         /\ Grown(data, data', capacity_, txs, Root(data) \o <<leaf>>)
<1>. DEFINE c == capacity_
            r == Root(data) \o <<leaf>>
            new == txs + 1 # 1 /\ HeightOf(c, txs + 1) > HeightOf(c, txs)
                               /\ HeightOf(c, txs + 1) > Len(data)
            layers == IF new THEN Append(data, << >>) ELSE data
            e == [i \in DOMAIN layers |->
                    IF RightEnds(c, txs, i) THEN Pushed(layers[i], r, c)
                    ELSE layers[i]]
<1>1. /\ c \in Nat /\ c >= 2 /\ c \in Nat \ {0} /\ txs \in Nat
      /\ data \in Seq(Layer) /\ Len(data) \in Nat
  BY CapacityIs DEF Layers
<1>2. r \in Hash
  <2>1. Root(data) \in Hash /\ <<leaf>> \in Hash
    BY <1>1, RootIs DEF Hash
  <2>. QED
    BY <2>1, ConcatProperties DEF Hash
<1>3. data' = e
  <2>2. NeedsLayer(txs + 1) <=> new
    <3>1. \A n : height(n) = HeightOf(c, n)
      BY Zenon DEF height, HeightOf
    <3>. DEFINE m == txs + 1
    <3>2. NeedsLayer(m) <=> /\ m # 1 /\ height(m) > height(m - 1)
                            /\ height(m) > Len(data)
      BY Zenon DEF NeedsLayer
    <3>3. m - 1 = txs
      BY <1>1
    <3>. HIDE DEF m
    <3>4. height(m) = HeightOf(c, m) /\ height(m - 1) = HeightOf(c, txs)
      BY Zenon, <3>1, <3>3
    <3>5. NeedsLayer(m) <=> /\ m # 1 /\ HeightOf(c, m) > HeightOf(c, txs)
                            /\ HeightOf(c, m) > Len(data)
      BY Zenon, <3>2, <3>4
    <3>. QED
      BY Zenon, <3>5 DEF m
  <2>3. hash(get_root, <<leaf>>) = r
    BY DEF hash, get_root, Root
  <2>. HIDE DEF r, new
  <2>. QED
    BY <2>2, <2>3 DEF Add, RightEnds, unit, U
<1>4. << >> \in Layer
  BY DEF Layer
<1>5. /\ layers \in Seq(Layer)
      /\ Len(layers) = IF new THEN Len(data) + 1 ELSE Len(data)
      /\ \A i \in 1..Len(layers) : layers[i] = Before(data, i)
  <2>1. CASE new
    <3>1. /\ Append(data, << >>) \in Seq(Layer)
          /\ Len(Append(data, << >>)) = Len(data) + 1
          /\ \A i \in 1..Len(data) : Append(data, << >>)[i] = data[i]
          /\ Append(data, << >>)[Len(data) + 1] = << >>
      BY <1>1, <1>4, AppendProperties
    <3>. HIDE DEF new
    <3>. QED
      BY <1>1, <2>1, <3>1 DEF Before
  <2>2. CASE ~new
    <3>. HIDE DEF new
    <3>. QED
      BY <1>1, <2>2 DEF Before
  <2>. QED
    BY <2>1, <2>2
<1>. HIDE DEF layers, new, r
<1>6. ASSUME NEW i \in 1..Len(layers)
      PROVE  /\ e[i] = IF Whole(c, txs + 1, i) THEN Pushed(Before(data, i), r, c)
                       ELSE Before(data, i)
             /\ e[i] \in Layer
  <2>1. i \in Nat \ {0} /\ i \in DOMAIN layers
    BY <1>5
  <2>2. RightEnds(c, txs, i) <=> Whole(c, txs + 1, i)
    BY <1>1, <2>1, RightEndsAreWhole
  <2>3. Before(data, i) \in Layer /\ Len(Before(data, i)) <= c
    BY <2>1, BeforeIs
  <2>4. Pushed(Before(data, i), r, c) \in Layer
    BY <1>1, <1>2, <2>3, PushedIs
  <2>5. e[i] = IF RightEnds(c, txs, i) THEN Pushed(layers[i], r, c) ELSE layers[i]
    BY <2>1, Zenon
  <2>6. layers[i] = Before(data, i)
    BY <1>5
  <2>. QED
    BY <2>2, <2>3, <2>4, <2>5, <2>6
<1>7. e \in Seq(Layer) /\ Len(e) = Len(layers)
  <2>1. Len(layers) \in Nat /\ DOMAIN layers = 1..Len(layers)
    BY <1>5
  <2>2. e = [i \in 1..Len(layers) |-> e[i]]
    BY <2>1
  <2>. HIDE DEF e
  <2>. QED
    BY <1>6, <2>1, <2>2
<1>8. Grown(data, e, c, txs, r)
  <2>1. Len(e) = IF new THEN Len(data) + 1 ELSE Len(data)
    BY <1>5, <1>7
  <2>. HIDE DEF e
  <2>. QED
    BY <1>6, <1>7, <2>1 DEF Grown, new
<1>. QED
  BY <1>2, <1>3, <1>8 DEF r

LEMMA AddKeeps ==
  ASSUME IInv, NEW leaf \in Leaf, Add(leaf)
  PROVE  /\ IInv'
         /\ ~lost => Root(data') = Append(Root(data), leaf)
<1>. DEFINE d == data
            e == data'
            c == capacity_
            t == txs
            p == previous_drop_number
            r == Root(d) \o <<leaf>>
<1>1. /\ capacity_' = c /\ txs' = t + 1 /\ previous_drop_number' = p
      /\ lost' = lost /\ t < MaxTxs
  BY DEF Add
<1>2. Layers(d, c, t) /\ Recent(d, c, t, p) /\ lost \in BOOLEAN /\ p \in 0..t
  BY DEF IInv, Recent
<1>3. r \in Hash /\ Grown(d, e, c, t, r)
  BY <1>2, AddGrows
<1>. HIDE DEF d, e, c, t, p
<1>4. Layers(e, c, t + 1) /\ Recent(e, c, t + 1, p)
  BY <1>1, <1>2, <1>3, GrownLayers, GrownRecent
<1>5. ASSUME ~lost
      PROVE  /\ Beginnings(e, c, t + 1) /\ Nested(e, c, t + 1) /\ Top(e, c, t + 1, p)
             /\ Root(e) = Append(Root(d), leaf)
  <2>1. Beginnings(d, c, t) /\ Nested(d, c, t) /\ Top(d, c, t, p)
    BY <1>5 DEF IInv, d, c, t, p
  <2>2. Beginnings(e, c, t + 1)
    BY <1>2, <1>3, <2>1, GrownBeginnings
  <2>3. Nested(e, c, t + 1)
    BY <1>1, <1>2, <1>3, <2>1, GrownNested
  <2>4. Top(e, c, t + 1, p)
    BY <1>2, <1>3, <2>1, GrownTop
  <2>5. Root(e) = r
    BY <1>2, <1>3, GrownLowest
  <2>6. r = Append(Root(d), leaf)
    <3>1. Root(d) \in Seq(Leaf)
      BY <1>2, RootIs DEF Layers, Hash
    <3>. QED
      BY <3>1, AppendIsConcat
  <2>. QED
    BY <2>2, <2>3, <2>4, <2>5, <2>6
<1>. QED
  BY <1>1, <1>2, <1>4, <1>5 DEF IInv, d, e, c, t, p
-----------------------------------------------------------------------------
(* What a drop takes from a layer that has q units, when a of them are kept:*)
(* the difference wraps around, when there are not so many.                 *)
RemovesBeyond(b, q, a, c) ==
  b \in Nat /\ (a <= q => b = q - a) /\ (q < a => c <= b)

BeyondOf(t, ind, u, s) == (((t \div u) * u - ind + u - 1) % s) \div u

LEMMA Beyond ==
  ASSUME NEW m \in Nat, NEW s \in Nat, NEW c \in Nat, c >= 2, s > m + c * (m + 1),
         NEW u \in 1..m + 1, NEW ind \in 1..m + 1, NEW t \in 0..m + 1
  PROVE  RemovesBeyond(BeyondOf(t, ind, u, s), t \div u, ind \div u, c)
<1>. DEFINE q == t \div u
            a == ind \div u
            b == BeyondOf(t, ind, u, s)
<1>0. b = ((q * u - ind + u - 1) % s) \div u
  BY DEF BeyondOf
<1>1. u \in Nat \ {0} /\ ind \in Nat /\ t \in Nat
  OBVIOUS
<1>2. /\ q \in Nat /\ q * u <= t
      /\ a \in Nat /\ a * u <= ind /\ ind < a * u + u
  BY <1>1, Floor
<1>. HIDE DEF q, a, b
<1>. DEFINE x == q * u - ind + u - 1
            y == c * (m + 1)
<1>3. y \in Nat /\ y >= m + 1 + m + 1
  BY SMT
<1>4. s \in Nat \ {0} /\ s > m + y
  BY <1>3
<1>5. q * u \in Nat /\ a * u \in Nat /\ x \in Int
  BY <1>1, <1>2
<1>. HIDE DEF y
<1>6. ASSUME a <= q PROVE b = q - a
  <2>. DEFINE k == q - a
  <2>1. k \in Nat /\ q = a + k
    BY <1>2, <1>6
  <2>. HIDE DEF k
  <2>2. q * u = a * u + k * u /\ k * u \in Nat
    BY <1>1, <1>2, <2>1
  <2>3. k * u <= x /\ x < k * u + u /\ x \in Nat
    BY <1>1, <1>2, <1>5, <2>2
  <2>4. x < s
    BY <1>1, <1>2, <1>3, <1>4, <1>5
  <2>5. b = (x % s) \div u
    BY <1>0
  <2>. HIDE DEF x
  <2>6. x % s = x
    <3>1. x = s * 0 + x /\ x \in 0..s - 1 /\ x \in Int /\ 0 \in Int
      BY <1>4, <2>3, <2>4
    <3>. QED
      BY <1>4, <3>1, DivModUnique
  <2>7. x \div u = k
    BY <1>1, <2>1, <2>3, FloorIs
  <2>. QED
    BY <2>5, <2>6, <2>7 DEF k
<1>7. ASSUME q < a PROVE b \in Nat /\ c <= b
  <2>1. (q + 1) * u <= a * u
    BY <1>1, <1>2, <1>7
  <2>2. (q + 1) * u = q * u + u
    BY <1>1, <1>2
  <2>3. x <= -1 /\ x >= -m - 1
    BY <1>1, <1>2, <1>5, <2>1, <2>2
  <2>5. b = (x % s) \div u
    BY <1>0
  <2>. HIDE DEF x
  <2>. DEFINE z == x + s
  <2>6. z \in 0..s - 1 /\ z \in Nat /\ z >= y
    BY <1>3, <1>4, <1>5, <2>3
  <2>7. x % s = z
    <3>1. x = s * (-1) + z /\ -1 \in Int
      BY <1>4, <1>5
    <3>. HIDE DEF z
    <3>. QED
      BY <1>4, <1>5, <2>6, <3>1, DivModUnique
  <2>. HIDE DEF z
  <2>8. c * u <= z /\ c * u \in Nat
    <3>1. c * u <= c * (m + 1) /\ c * u \in Nat
      BY <1>1
    <3>. QED
      BY <1>3, <2>6, <3>1 DEF y
  <2>9. (c * u) \div u = c
    BY <1>1, FloorOfWhole
  <2>10. (c * u) \div u <= z \div u
    BY <1>1, <2>6, <2>8, FloorMonotone
  <2>11. z \div u \in Nat
    BY <1>1, <2>6, Floor
  <2>. QED
    BY <2>5, <2>7, <2>9, <2>10, <2>11
<1>. QED
  BY <1>2, <1>6, <1>7 DEF RemovesBeyond, q, a, b

LEMMA UnitBound ==
  ASSUME NEW d, NEW c, NEW t, Layers(d, c, t), NEW i \in 1..Len(d)
  PROVE  U(c, i) \in Nat \ {0} /\ U(c, i) \in 1..MaxTxs + 1
<1>1. /\ c \in Nat /\ c >= 2 /\ MaxTxs \in Nat
      /\ i \in Nat \ {0} /\ Len(d) \in Nat \ {0} /\ i <= Len(d)
  BY NarrowAssumption, CapacityIs DEF Layers
<1>2. U(c, i) \in Nat \ {0}
  BY <1>1, UnitNext
<1>3. CASE Len(d) > 1
  <2>1. U(c, i) <= U(c, Len(d)) /\ U(c, Len(d)) \in Nat
    BY <1>1, UnitMonotone, UnitNext
  <2>2. U(c, Len(d)) <= MaxTxs
    BY <1>3 DEF Layers
  <2>. QED
    BY <1>1, <1>2, <2>1, <2>2
<1>4. CASE Len(d) <= 1
  <2>1. i = 1
    BY <1>1, <1>4
  <2>. QED
    BY <1>1, <1>2, <2>1, UnitOne
<1>. QED
  BY <1>1, <1>3, <1>4

(* What a drop to ind leaves does to the layers: each keeps its entries for *)
(* up to the last whole unit in ind.                                        *)
Left(d, c, t, ind, i) ==
  IF /\ Num(c, ind, i) <= Num(c, t, i)
     /\ Num(c, t, i) - Num(c, ind, i) < Len(d[i])
  THEN Len(d[i]) - (Num(c, t, i) - Num(c, ind, i))
  ELSE 0

Cut(d, e, c, t, ind) ==
  /\ e \in Seq(Layer)
  /\ Len(e) = Len(d)
  /\ \A i \in 1..Len(d) :
       /\ Len(e[i]) = Left(d, c, t, ind, i)
       /\ \A j \in 1..Len(e[i]) : e[i][j] = d[i][j]

SomeLeft(e) == \E i \in 1..Len(e) : e[i] # << >>

(* What size() is then.                                                     *)
CutTo(e, c, ind) ==
  IF SomeLeft(e) THEN Num(c, ind, Lowest(e)) * U(c, Lowest(e)) ELSE ind

LEMMA RmNumIs ==
  ASSUME Layers(data, capacity_, txs), NEW ind \in 1..MaxTxs + 1,
         NEW i \in 1..Len(data)
  PROVE  /\ rm_num(i, ind) \in Nat /\ rm_num(i, ind) <= Len(data[i])
         /\ Len(data[i]) - rm_num(i, ind) = Left(data, capacity_, txs, ind, i)
<1>. DEFINE c == capacity_
            u == U(c, i)
            q == Num(c, txs, i)
            a == Num(c, ind, i)
            l == Len(data[i])
            b == BeyondOf(txs, ind, u, SizeWord)
<1>1. /\ MaxTxs \in Nat /\ SizeWord \in Nat /\ c \in Nat /\ c >= 2
      /\ SizeWord > MaxTxs + c * (MaxTxs + 1)
      /\ txs \in 0..MaxTxs + 1
  BY NarrowAssumption, CapacityIs DEF Layers
<1>2. u \in 1..MaxTxs + 1 /\ u \in Nat \ {0}
  BY UnitBound
<1>4. rm_num(i, ind) = IF b < l THEN b ELSE l
  BY Zenon DEF rm_num, id_tx, unit, BeyondOf, U
<1>5. l \in Nat /\ l <= c
  <2>1. i \in Nat \ {0} /\ Before(data, i) = data[i]
    BY DEF Before
  <2>. QED
    BY <2>1, BeforeIs
<1>6. q \in Nat /\ a \in Nat
  BY <1>1, <1>2, Floor DEF Num
<1>8. Left(data, c, txs, ind, i) = IF a <= q /\ q - a < l THEN l - (q - a) ELSE 0
  BY DEF Left
<1>9. b \in Nat /\ (a <= q => b = q - a) /\ (q < a => c <= b)
  <2>. HIDE DEF c, u
  <2>1. RemovesBeyond(b, txs \div u, ind \div u, c)
    BY <1>1, <1>2, Beyond
  <2>. QED
    BY <2>1 DEF RemovesBeyond, Num, u
<1>. HIDE DEF u, q, a, l, b
<1>10. rm_num(i, ind) \in Nat /\ rm_num(i, ind) <= l
  BY <1>4, <1>5, <1>9
<1>11. l - rm_num(i, ind) = Left(data, c, txs, ind, i)
  <2>1. CASE a <= q
    BY <1>4, <1>5, <1>6, <1>8, <1>9, <2>1
  <2>2. CASE q < a
    BY <1>1, <1>4, <1>5, <1>6, <1>8, <1>9, <2>2
  <2>. QED
    BY <1>6, <2>1, <2>2
<1>. QED
  BY <1>10, <1>11 DEF l

LEMMA CutAt ==
  ASSUME NEW d, NEW e, NEW c, NEW t, Layers(d, c, t),
         NEW ind \in 1..MaxTxs + 1, Cut(d, e, c, t, ind),
         NEW i \in 1..Len(d), e[i] # << >>
  PROVE  /\ i \in Nat \ {0} /\ Num(c, t, i) \in Nat /\ Num(c, ind, i) \in Nat
         /\ Num(c, ind, i) <= Num(c, t, i)
         /\ Len(e[i]) \in Nat \ {0} /\ Len(d[i]) \in Nat
         /\ Len(e[i]) = Len(d[i]) - (Num(c, t, i) - Num(c, ind, i))
         /\ Len(e[i]) <= Num(c, ind, i)
<1>1. i \in Nat \ {0} /\ ind \in Nat /\ c \in Nat /\ c >= 2 /\ Before(d, i) = d[i]
  BY CapacityIs, NarrowAssumption DEF Before, Layers
<1>2. /\ Len(d[i]) \in Nat /\ Len(d[i]) <= Num(c, t, i)
      /\ Num(c, t, i) \in Nat
  BY <1>1, BeforeIs
<1>3. Num(c, ind, i) \in Nat
  BY <1>1, FloorNext
<1>4. e[i] \in Layer
  BY ElementOfSeq DEF Cut
<1>5. Len(e[i]) # 0 /\ Len(e[i]) \in Nat
  BY <1>4, EmptySeq DEF Layer
<1>6. Len(e[i]) = Left(d, c, t, ind, i)
  BY DEF Cut
<1>. QED
  BY <1>1, <1>2, <1>3, <1>5, <1>6 DEF Left

LEMMA DropCuts ==
  ASSUME Layers(data, capacity_, txs), NEW ind \in 1..MaxTxs + 1
  PROVE  /\ Cut(data, Dropped(ind).data, capacity_, txs, ind)
         /\ Dropped(ind).txs = CutTo(Dropped(ind).data, capacity_, ind)
<1>. DEFINE e == [i \in DOMAIN data |-> Popped(data[i], rm_num(i, ind))]
            c == capacity_
<1>1. Dropped(ind).data = e
  BY DEF Dropped
<1>2. Dropped(ind).txs = IF \E i \in DOMAIN e : e[i] # << >>
                         THEN id_tx(Lowest(e)) - rm_num(Lowest(e), ind) * unit(Lowest(e))
                         ELSE ind
  BY DEF Dropped
<1>3. /\ data \in Seq(Layer) /\ Len(data) \in Nat /\ DOMAIN data = 1..Len(data)
      /\ c \in Nat /\ c >= 2 /\ txs \in Nat /\ ind \in Nat
  BY CapacityIs, NarrowAssumption DEF Layers
<1>4. ASSUME NEW i \in 1..Len(data)
      PROVE  /\ e[i] \in Layer
             /\ Len(e[i]) = Left(data, c, txs, ind, i)
             /\ \A j \in 1..Len(e[i]) : e[i][j] = data[i][j]
  <2>1. e[i] = Popped(data[i], rm_num(i, ind))
    BY <1>3
  <2>2. data[i] \in Layer /\ Len(data[i]) \in Nat
    BY <1>3, ElementOfSeq DEF Layer
  <2>3. rm_num(i, ind) \in Nat /\ rm_num(i, ind) <= Len(data[i])
        /\ Len(data[i]) - rm_num(i, ind) = Left(data, c, txs, ind, i)
    BY RmNumIs
  <2>4. /\ e[i] \in Layer
        /\ Len(e[i]) = IF rm_num(i, ind) < Len(data[i])
                       THEN Len(data[i]) - rm_num(i, ind) ELSE 0
        /\ \A j \in 1..Len(e[i]) : e[i][j] = data[i][j]
    BY <2>1, <2>2, <2>3, PoppedIs
  <2>. DEFINE k == rm_num(i, ind)
              m == Len(data[i])
  <2>5. (IF k < m THEN m - k ELSE 0) = m - k
    <3>1. k \in Nat /\ k <= m /\ m \in Nat
      BY <2>2, <2>3
    <3>. HIDE DEF k, m
    <3>. QED
      BY <3>1
  <2>. HIDE DEF e
  <2>. QED
    BY <2>3, <2>4, <2>5
<1>5. e \in Seq(Layer) /\ Len(e) = Len(data)
  <2>1. e = [i \in 1..Len(data) |-> e[i]]
    BY <1>3
  <2>. HIDE DEF e
  <2>. QED
    BY <1>3, <1>4, <2>1
<1>. HIDE DEF e
<1>6. Cut(data, e, c, txs, ind)
  BY <1>4, <1>5 DEF Cut
<1>7. Dropped(ind).txs = CutTo(e, c, ind)
  <2>1. DOMAIN e = 1..Len(e)
    BY <1>5
  <2>2. CASE SomeLeft(e)
    <3>. DEFINE l == Lowest(e)
                u == U(c, l)
                q == Num(c, txs, l)
                a == Num(c, ind, l)
                k == rm_num(l, ind)
    <3>1. l \in 1..Len(data) /\ e[l] # << >>
      BY <1>5, <2>2, RootIs DEF SomeLeft
    <3>2. Dropped(ind).txs = q * u - k * u
      BY Zenon, <1>2, <2>1, <2>2 DEF SomeLeft, id_tx, unit, U, Num
    <3>3. /\ q \in Nat /\ a \in Nat /\ Len(data[l]) \in Nat
          /\ Len(e[l]) = Len(data[l]) - (q - a)
      BY <1>6, <3>1, CutAt
    <3>4. k \in Nat /\ Len(data[l]) - k = Left(data, c, txs, ind, l)
      BY <3>1, RmNumIs
    <3>5. Len(e[l]) = Left(data, c, txs, ind, l)
      BY <1>4, <3>1
    <3>6. u \in Nat \ {0}
      BY <3>1, UnitBound
    <3>7. CutTo(e, c, ind) = a * u
      BY <2>2 DEF CutTo
    <3>. HIDE DEF l, u, q, a, k
    <3>8. q = a + k
      BY <3>3, <3>4, <3>5
    <3>9. q * u = a * u + k * u
      BY <3>3, <3>4, <3>6, <3>8
    <3>10. a * u \in Nat /\ k * u \in Nat
      BY <3>3, <3>4, <3>6
    <3>. QED
      BY <3>2, <3>7, <3>9, <3>10
  <2>3. CASE ~SomeLeft(e)
    BY <1>2, <2>1, <2>3 DEF SomeLeft, CutTo
  <2>. QED
    BY <2>2, <2>3
<1>. QED
  BY <1>1, <1>6, <1>7

(* The number of leaves that the lowest layer is left with: the layers      *)
(* above it that have an entry left are cut to the same log.                *)
LEMMA CutNumbers ==
  ASSUME NEW d, NEW e, NEW c, NEW t, Layers(d, c, t),
         NEW ind \in 1..MaxTxs + 1, Cut(d, e, c, t, ind), SomeLeft(e)
  PROVE  /\ CutTo(e, c, ind) \in 1..ind
         /\ CutTo(e, c, ind) <= t
         /\ \A i \in 1..Len(d) : e[i] # << >> =>
              /\ Num(c, CutTo(e, c, ind), i) = Num(c, ind, i)
              /\ Num(c, ind, i) * U(c, i) <= CutTo(e, c, ind)
<1>. DEFINE l == Lowest(e)
            u == U(c, l)
            a == Num(c, ind, l)
            s == CutTo(e, c, ind)
<1>1. c \in Nat /\ c >= 2 /\ ind \in Nat /\ t \in Nat /\ Len(e) = Len(d)
  BY CapacityIs, NarrowAssumption DEF Layers, Cut
<1>2. l \in 1..Len(d) /\ e[l] # << >> /\ \A j \in 1..l - 1 : e[j] = << >>
  BY <1>1, RootIs DEF Cut, SomeLeft
<1>3. u \in Nat \ {0}
  BY <1>2, UnitBound
<1>4. s = a * u
  BY DEF CutTo
<1>5. /\ l \in Nat \ {0} /\ a \in Nat /\ Num(c, t, l) \in Nat /\ a <= Num(c, t, l)
      /\ Len(e[l]) \in Nat \ {0} /\ Len(e[l]) <= a
  BY <1>2, CutAt
<1>6. a * u <= ind /\ Num(c, t, l) * u <= t
  BY <1>1, <1>3, Floor DEF Num
<1>7. ASSUME NEW i \in 1..Len(d), e[i] # << >>
      PROVE  Num(c, a * u, i) = Num(c, ind, i) /\ Num(c, ind, i) * U(c, i) <= a * u
  <2>1. i \in Nat \ {0} /\ l <= i
    <3>1. i \notin 1..l - 1 /\ i \in Nat \ {0}
      BY <1>2, <1>7
    <3>. QED
      BY <1>5, <3>1
  <2>2. PICK m \in Nat \ {0} : U(c, i) = m * u
    BY <1>1, <1>5, <2>1, UnitDivides
  <2>3. a = ind \div u
    BY DEF Num
  <2>. HIDE DEF u, a
  <2>4. /\ ((ind \div u) * u) \div (m * u) = ind \div (m * u)
        /\ (ind \div (m * u)) * (m * u) <= (ind \div u) * u
    BY <1>1, <1>3, FloorTwice
  <2>. QED
    BY <2>2, <2>3, <2>4 DEF Num
<1>. HIDE DEF a, u, s
<1>8. a * u \in 1..ind
  <2>1. a >= 1 /\ a * u \in Nat /\ 1 * u <= a * u
    BY <1>3, <1>5
  <2>. QED
    BY <1>1, <1>3, <1>6, <2>1
<1>9. a * u <= t
  <2>1. a * u <= Num(c, t, l) * u /\ a * u \in Nat /\ Num(c, t, l) * u \in Nat
    BY <1>3, <1>5
  <2>. QED
    BY <1>1, <1>6, <2>1
<1>. QED
  BY <1>4, <1>7, <1>8, <1>9 DEF s

LEMMA CutLayers ==
  ASSUME NEW d, NEW e, NEW c, NEW t, Layers(d, c, t),
         NEW ind \in 1..MaxTxs + 1, Cut(d, e, c, t, ind)
  PROVE  /\ Layers(e, c, CutTo(e, c, ind))
         /\ Recent(e, c, CutTo(e, c, ind), CutTo(e, c, ind))
<1>. DEFINE s == CutTo(e, c, ind)
<1>1. /\ c \in Nat /\ c >= 2 /\ MaxTxs \in Nat /\ ind \in Nat
      /\ Len(e) = Len(d) /\ e \in Seq(Layer) /\ Len(e) >= 1 /\ Len(e) \in Nat
      /\ c \in Capacities /\ (Len(e) > 1 => U(c, Len(e)) <= MaxTxs)
  BY CapacityIs, NarrowAssumption DEF Layers, Cut
<1>2. s \in 0..MaxTxs + 1
  <2>1. CASE SomeLeft(e)
    <3>1. s \in 1..ind
      BY <2>1, CutNumbers
    <3>. HIDE DEF s
    <3>. QED
      BY <1>1, <3>1
  <2>2. CASE ~SomeLeft(e)
    BY <1>1, <2>2 DEF CutTo
  <2>. QED
    BY <2>1, <2>2
<1>3. ASSUME NEW i \in 1..Len(e)
      PROVE  Len(e[i]) <= c /\ Len(e[i]) <= Num(c, s, i)
  <2>. HIDE DEF s
  <2>1. i \in Nat \ {0} /\ i \in 1..Len(d) /\ Before(d, i) = d[i]
    BY <1>1 DEF Before
  <2>2. CASE e[i] # << >>
    <3>1. SomeLeft(e)
      BY <2>2 DEF SomeLeft
    <3>2. Num(c, s, i) = Num(c, ind, i)
      BY <2>1, <2>2, <3>1, CutNumbers DEF s
    <3>3. /\ Num(c, t, i) \in Nat /\ Num(c, ind, i) \in Nat
          /\ Num(c, ind, i) <= Num(c, t, i) /\ Len(d[i]) \in Nat
          /\ Len(e[i]) = Len(d[i]) - (Num(c, t, i) - Num(c, ind, i))
          /\ Len(e[i]) <= Num(c, ind, i)
      BY <2>1, <2>2, CutAt
    <3>4. Len(d[i]) <= c
      BY <2>1 DEF Layers
    <3>5. Len(e[i]) <= c
      <4>. DEFINE x == Len(e[i])
                  y == Len(d[i])
                  q == Num(c, t, i)
                  a == Num(c, ind, i)
      <4>. HIDE DEF x, y, q, a
      <4>1. q \in Nat /\ a \in Nat /\ a <= q /\ y \in Nat /\ y <= c /\ x = y - (q - a)
        BY <3>3, <3>4 DEF x, y, q, a
      <4>2. x <= c
        BY <1>1, <4>1
      <4>. QED
        BY <4>2 DEF x
    <3>. QED
      BY <3>2, <3>3, <3>5
  <2>3. CASE e[i] = << >>
    <3>1. Len(e[i]) = 0
      BY <2>3
    <3>2. Num(c, s, i) \in Nat
      <4>1. s \in Nat
        BY <1>1, <1>2
      <4>. QED
        BY <1>1, <2>1, <4>1, FloorNext
    <3>. QED
      BY <1>1, <3>1, <3>2
  <2>. QED
    BY <2>2, <2>3
<1>4. Layers(e, c, s)
  <2>. HIDE DEF s
  <2>. QED
    BY <1>1, <1>2, <1>3 DEF Layers
<1>5. Recent(e, c, s, s)
  <2>. HIDE DEF s
  <2>1. s - s = 0 /\ s \in 0..s
    BY <1>1, <1>2
  <2>2. Len(e[1]) >= 0
    <3>1. e[1] \in Layer
      BY <1>1, ElementOfSeq
    <3>. QED
      BY <3>1 DEF Layer
  <2>. QED
    BY <2>1, <2>2 DEF Recent
<1>. QED
  BY <1>4, <1>5

(* A drop that stays within the log keeps what is not beyond it ...         *)
LEMMA CutKeeps ==
  ASSUME NEW d, NEW e, NEW c, NEW t, Layers(d, c, t),
         NEW ind \in 1..MaxTxs + 1, Cut(d, e, c, t, ind), ind <= t,
         NEW i, NEW n \in Int, Stored(d, c, t, i, n), n * U(c, i) <= ind
  PROVE  /\ i \in 1..Len(e) /\ e[i] # << >> /\ SomeLeft(e)
         /\ Stored(e, c, CutTo(e, c, ind), i, n)
         /\ n * U(c, i) <= CutTo(e, c, ind)
<1>. DEFINE u == U(c, i)
            a == Num(c, ind, i)
            q == Num(c, t, i)
            s == CutTo(e, c, ind)
<1>1. /\ i \in 1..Len(d) /\ Len(d[i]) \in Nat \ {0} /\ q \in Nat
      /\ n \in Nat \ {0} /\ Len(e) = Len(d)
  BY StoredIs DEF Cut
<1>2. u \in Nat \ {0} /\ ind \in Nat /\ t \in Nat
  <2>1. u \in Nat \ {0}
    BY <1>1, UnitBound
  <2>. HIDE DEF u
  <2>. QED
    BY <2>1, NarrowAssumption DEF Layers
<1>3. a \in Nat /\ n <= a /\ a <= q
  <2>. HIDE DEF u
  <2>1. n * u \in Nat /\ (n * u) \div u = n
    BY <1>1, <1>2, FloorOfWhole
  <2>2. (n * u) \div u <= ind \div u /\ ind \div u <= t \div u /\ ind \div u \in Nat
    BY <1>1, <1>2, <2>1, FloorMonotone, Floor DEF u
  <2>. QED
    BY <2>1, <2>2 DEF Num, u
<1>4. q - Len(d[i]) < n
  BY DEF Stored
<1>5. Len(e[i]) = Left(d, c, t, ind, i)
  BY <1>1 DEF Cut
<1>6. Len(e[i]) = Len(d[i]) - (q - a) /\ Len(e[i]) # 0
  <2>1. Left(d, c, t, ind, i) = IF a <= q /\ q - a < Len(d[i])
                                THEN Len(d[i]) - (q - a) ELSE 0
    BY DEF Left
  <2>. HIDE DEF a, q
  <2>. QED
    BY <1>1, <1>3, <1>4, <1>5, <2>1
<1>7. e[i] # << >> /\ SomeLeft(e)
  <2>1. Len(<< >>) = 0
    OBVIOUS
  <2>2. e[i] # << >>
    BY <1>6, <2>1
  <2>. QED
    BY <1>1, <2>2 DEF SomeLeft
<1>8. Num(c, s, i) = a /\ a * u <= s
  BY <1>1, <1>7, CutNumbers
<1>9. s \in Nat
  <2>1. s \in 1..ind
    BY <1>7, CutNumbers
  <2>. HIDE DEF s
  <2>. QED
    BY <1>2, <2>1
<1>. HIDE DEF a, q, s, u
<1>10. Stored(e, c, s, i, n)
  <2>. DEFINE x == Len(e[i])
              y == Len(d[i])
  <2>1. y \in Nat /\ x = y - (q - a) /\ q - y < n
    BY <1>1, <1>4, <1>6
  <2>2. i \in 1..Len(e) /\ Num(c, s, i) = a
    BY <1>1, <1>8
  <2>. HIDE DEF x, y
  <2>3. a - x < n
    BY <1>1, <1>3, <2>1
  <2>. QED
    BY <1>3, <2>2, <2>3 DEF Stored, x
<1>11. n * u <= s
  <2>1. n * u <= a * u /\ n * u \in Nat /\ a * u \in Nat
    BY <1>1, <1>2, <1>3
  <2>. QED
    BY <1>8, <1>9, <2>1
<1>. QED
  BY <1>1, <1>7, <1>10, <1>11 DEF s, u

(* ... and nothing else.                                                    *)
LEMMA StoredInCut ==
  ASSUME NEW d, NEW e, NEW c, NEW t, Layers(d, c, t),
         NEW ind \in 1..MaxTxs + 1, Cut(d, e, c, t, ind),
         NEW i, NEW n \in Int, Stored(e, c, CutTo(e, c, ind), i, n)
  PROVE  /\ Stored(d, c, t, i, n)
         /\ n * U(c, i) <= CutTo(e, c, ind)
<1>. DEFINE u == U(c, i)
            a == Num(c, ind, i)
            q == Num(c, t, i)
            s == CutTo(e, c, ind)
<1>1. /\ i \in 1..Len(e) /\ i \in 1..Len(d) /\ Len(e[i]) \in Nat \ {0}
      /\ n \in Nat \ {0}
  BY CutLayers, StoredIs DEF Cut
<1>2. e[i] # << >> /\ SomeLeft(e)
  <2>1. Len(<< >>) = 0
    OBVIOUS
  <2>2. e[i] # << >>
    BY <1>1, <2>1
  <2>. QED
    BY <1>1, <2>2 DEF SomeLeft
<1>3. /\ a \in Nat /\ q \in Nat /\ a <= q /\ Len(d[i]) \in Nat
      /\ Len(e[i]) = Len(d[i]) - (q - a)
  BY <1>1, <1>2, CutAt
<1>4. Num(c, s, i) = a /\ a * u <= s
  BY <1>1, <1>2, CutNumbers
<1>5. a - Len(e[i]) < n /\ n <= a
  <2>. HIDE DEF a, s
  <2>. QED
    BY <1>4 DEF Stored, s
<1>6. u \in Nat \ {0} /\ s \in Nat
  <2>1. s \in 1..ind /\ u \in Nat \ {0}
    BY <1>1, <1>2, CutNumbers, UnitBound
  <2>. HIDE DEF s
  <2>. QED
    BY <2>1, NarrowAssumption
<1>7. Stored(d, c, t, i, n)
  <2>. HIDE DEF a
  <2>. QED
    BY <1>1, <1>3, <1>5 DEF Stored
<1>. HIDE DEF a, q, s, u
<1>8. n * u <= s
  <2>1. n * u <= a * u /\ n * u \in Nat /\ a * u \in Nat
    BY <1>1, <1>3, <1>5, <1>6
  <2>. QED
    BY <1>4, <1>6, <2>1
<1>. QED
  BY <1>7, <1>8 DEF s, u

(* The number of units that the j-th entry of layer i stands for.           *)
Units(d, c, t, i, j) == Num(c, t, i) - (Len(d[i]) - j)

LEMMA EntryIs ==
  ASSUME NEW d, NEW c, NEW t, Layers(d, c, t), Beginnings(d, c, t),
         NEW i \in 1..Len(d), NEW j \in 1..Len(d[i])
  PROVE  /\ Units(d, c, t, i, j) \in Nat \ {0}
         /\ Stored(d, c, t, i, Units(d, c, t, i, j))
         /\ Units(d, c, t, i, j) * U(c, i) \in 0..t
         /\ d[i][j] = SubSeq(Root(d), 1, Units(d, c, t, i, j) * U(c, i))
         /\ Len(d[i][j]) = Units(d, c, t, i, j) * U(c, i)
<1>. DEFINE n == Units(d, c, t, i, j)
            u == U(c, i)
            q == Num(c, t, i)
            l == Len(d[i])
<1>1. /\ i \in Nat \ {0} /\ Before(d, i) = d[i] /\ c \in Nat /\ c >= 2
      /\ t \in Nat /\ d \in Seq(Layer)
  BY CapacityIs DEF Before, Layers
<1>2. l \in Nat /\ l <= q /\ q \in Nat /\ u \in Nat \ {0}
  BY <1>1, BeforeIs
<1>3. n = q - (l - j) /\ j \in 1..l
  BY DEF Units
<1>4. d[i][j] = SubSeq(Root(d), 1, n * u)
  BY DEF Beginnings, Units
<1>5. q * u <= t
  BY <1>1, <1>2, Floor DEF Num
<1>6. Root(d) \in Hash /\ Len(Root(d)) = t
  BY <1>1, RootIs DEF Beginnings
<1>. HIDE DEF n, u, q, l
<1>7. n \in Nat \ {0} /\ n <= q /\ q - l < n
  BY <1>2, <1>3
<1>8. n * u \in 0..t
  <2>1. n * u <= q * u /\ n * u \in Nat /\ q * u \in Nat
    BY <1>2, <1>7
  <2>. QED
    BY <1>1, <1>5, <2>1
<1>9. Len(SubSeq(Root(d), 1, n * u)) = n * u
  BY <1>6, <1>8, BeginningIs
<1>10. Stored(d, c, t, i, n)
  BY <1>7 DEF Stored, q, l
<1>. QED
  BY <1>4, <1>7, <1>8, <1>9, <1>10 DEF n, u

LEMMA HashOfStored ==
  ASSUME NEW d, NEW c, NEW t, Layers(d, c, t), Beginnings(d, c, t),
         NEW i, NEW n \in Int, Stored(d, c, t, i, n)
  PROVE  \E j \in 1..Len(d[i]) : Len(d[i][j]) = n * U(c, i)
<1>1. /\ i \in 1..Len(d) /\ Len(d[i]) \in Nat /\ Num(c, t, i) \in Nat
      /\ Num(c, t, i) - Len(d[i]) < n /\ n <= Num(c, t, i)
  BY StoredIs DEF Stored
<1>. DEFINE j == n - Num(c, t, i) + Len(d[i])
<1>2. j \in 1..Len(d[i]) /\ Units(d, c, t, i, j) = n
  BY <1>1 DEF Units
<1>. HIDE DEF j
<1>3. Len(d[i][j]) = n * U(c, i)
  BY <1>1, <1>2, EntryIs
<1>. QED
  BY <1>2, <1>3

(* The root after a drop, and the stored beginnings of it.                  *)
LEMMA CutRoot ==
  ASSUME NEW d, NEW e, NEW c, NEW t, Layers(d, c, t), Beginnings(d, c, t),
         NEW ind \in 1..MaxTxs + 1, Cut(d, e, c, t, ind), SomeLeft(e)
  PROVE  /\ CutTo(e, c, ind) \in 0..t
         /\ Root(e) = SubSeq(Root(d), 1, CutTo(e, c, ind))
         /\ Len(Root(e)) = CutTo(e, c, ind)
         /\ \E i \in 1..Len(d) : \E j \in 1..Len(d[i]) : Root(e) = d[i][j]
<1>. DEFINE l == Lowest(e)
            a == Num(c, ind, l)
            q == Num(c, t, l)
            s == CutTo(e, c, ind)
            j == Len(e[l])
<1>1. Len(e) = Len(d) /\ t \in Nat /\ ind \in Nat
  BY NarrowAssumption DEF Layers, Cut
<1>2. l \in 1..Len(d) /\ e[l] # << >> /\ Root(e) = e[l][j]
  BY <1>1, RootIs DEF Cut, SomeLeft
<1>3. /\ a \in Nat /\ q \in Nat /\ a <= q /\ Len(d[l]) \in Nat
      /\ j \in Nat \ {0} /\ j = Len(d[l]) - (q - a)
  BY <1>2, CutAt
<1>4. e[l][j] = d[l][j]
  <2>1. \A k \in 1..Len(e[l]) : e[l][k] = d[l][k]
    BY <1>2 DEF Cut
  <2>. QED
    BY <1>3, <2>1
<1>5. s = a * U(c, l)
  BY DEF CutTo
<1>6. s \in 1..ind /\ s <= t
  BY CutNumbers
<1>. HIDE DEF l, a, s, j, q
<1>7. j \in 1..Len(d[l]) /\ Units(d, c, t, l, j) = a
  <2>1. Units(d, c, t, l, j) = q - (Len(d[l]) - j)
    BY DEF Units, q
  <2>. QED
    BY <1>3, <2>1
<1>8. d[l][j] = SubSeq(Root(d), 1, s) /\ Len(d[l][j]) = s
  BY <1>2, <1>5, <1>7, EntryIs
<1>9. s \in 0..t
  BY <1>1, <1>6
<1>. QED
  BY <1>2, <1>4, <1>7, <1>8, <1>9 DEF s

LEMMA CutBeginnings ==
  ASSUME NEW d, NEW e, NEW c, NEW t, Layers(d, c, t), Beginnings(d, c, t),
         NEW ind \in 1..MaxTxs + 1, Cut(d, e, c, t, ind), SomeLeft(e)
  PROVE  Beginnings(e, c, CutTo(e, c, ind))
<1>. DEFINE s == CutTo(e, c, ind)
<1>1. /\ s \in 0..t /\ Root(e) = SubSeq(Root(d), 1, s) /\ Len(Root(e)) = s
  BY CutRoot
<1>2. Root(d) \in Hash /\ Len(Root(d)) = t /\ t \in Nat
  BY RootIs DEF Layers, Beginnings
<1>3. ASSUME NEW i \in 1..Len(e), NEW j \in 1..Len(e[i])
      PROVE  e[i][j] = SubSeq(Root(e), 1, (Num(c, s, i) - (Len(e[i]) - j)) * U(c, i))
  <2>. DEFINE n == Units(d, c, t, i, j)
              a == Num(c, ind, i)
              q == Num(c, t, i)
              x == Len(e[i])
              y == Len(d[i])
              u == U(c, i)
  <2>1. i \in 1..Len(d)
    BY DEF Cut
  <2>2. e[i] # << >>
    <3>1. Len(<< >>) = 0 /\ 1..0 = {}
      OBVIOUS
    <3>. QED
      BY <3>1
  <2>3. /\ a \in Nat /\ q \in Nat /\ a <= q /\ x \in Nat /\ y \in Nat
        /\ x = y - (q - a) /\ x <= a
    BY <2>1, <2>2, CutAt
  <2>4. Num(c, s, i) = a /\ a * u <= s
    BY <2>1, <2>2, CutNumbers
  <2>5. e[i][j] = d[i][j]
    BY <2>1 DEF Cut
  <2>6. u \in Nat \ {0}
    BY <2>1, UnitBound
  <2>7. n = q - (y - j)
    BY DEF Units
  <2>8. j \in 1..x
    OBVIOUS
  <2>. HIDE DEF s, n, a, q, x, y, u
  <2>9. j \in 1..y /\ n = a - (x - j) /\ n \in Nat /\ n <= a
    BY <2>3, <2>7, <2>8
  <2>10. d[i][j] = SubSeq(Root(d), 1, n * u)
    BY <2>1, <2>9, EntryIs DEF n, u, y
  <2>11. n * u \in 0..s
    <3>1. n * u <= a * u /\ n * u \in Nat /\ a * u \in Nat
      BY <2>3, <2>6, <2>9
    <3>. QED
      BY <1>1, <1>2, <2>4, <3>1
  <2>12. SubSeq(SubSeq(Root(d), 1, s), 1, n * u) = SubSeq(Root(d), 1, n * u)
    BY <1>1, <1>2, <2>11, BeginningOfBeginning
  <2>. QED
    BY <1>1, <2>4, <2>5, <2>9, <2>10, <2>12 DEF x, u
<1>. QED
  BY <1>1, <1>3 DEF Beginnings

LEMMA CutNested ==
  ASSUME NEW d, NEW e, NEW c, NEW t, Layers(d, c, t), Nested(d, c, t),
         NEW ind \in 1..MaxTxs + 1, Cut(d, e, c, t, ind), ind <= t, SomeLeft(e)
  PROVE  Nested(e, c, CutTo(e, c, ind))
<1>. DEFINE s == CutTo(e, c, ind)
<1>1. c \in Nat /\ c >= 2 /\ ind \in Nat /\ s \in Nat /\ s <= ind
  <2>1. s \in 1..ind
    BY CutNumbers
  <2>. HIDE DEF s
  <2>. QED
    BY <2>1, CapacityIs, NarrowAssumption DEF Layers
<1>2. ASSUME NEW i \in 1..Len(e), NEW n \in Nat, Stored(e, c, s, i, n)
      PROVE  HasTop(e, c, s, n * U(c, i))
  <2>. DEFINE x == n * U(c, i)
              h == HeightOf(c, x)
              m == x \div U(c, h)
  <2>1. n \in Int
    OBVIOUS
  <2>2. Stored(d, c, t, i, n) /\ x <= s
    BY <1>2, <2>1, StoredInCut
  <2>3. i \in 1..Len(d)
    BY <2>2 DEF Stored
  <2>4. x \in Nat
    <3>1. U(c, i) \in Nat
      BY <2>3, UnitBound
    <3>. QED
      BY <3>1
  <2>5. Stored(d, c, t, h, m)
    BY <2>2, <2>3 DEF Nested, HasTop
  <2>6. h \in 1..Len(d)
    BY <2>5 DEF Stored
  <2>7. U(c, h) \in Nat \ {0}
    BY <2>6, UnitBound
  <2>8. HasTop(e, c, s, x) <=> Stored(e, c, s, h, m)
    BY DEF HasTop
  <2>. HIDE DEF x, h
  <2>9. m \in Nat /\ m * U(c, h) <= x
    BY <2>4, <2>7, Floor
  <2>. HIDE DEF m, s
  <2>10. m \in Int /\ m * U(c, h) <= ind
    <3>1. m * U(c, h) \in Nat
      BY <2>7, <2>9
    <3>. QED
      BY <1>1, <2>2, <2>4, <2>9, <3>1
  <2>11. Stored(e, c, s, h, m)
    BY <2>5, <2>10, CutKeeps DEF s
  <2>. QED
    BY <2>8, <2>11 DEF x
<1>. QED
  BY <1>2 DEF Nested

LEMMA CutTop ==
  ASSUME NEW d, NEW e, NEW c, NEW t, Layers(d, c, t),
         NEW ind \in 1..MaxTxs + 1, Cut(d, e, c, t, ind), SomeLeft(e),
         Nested(e, c, CutTo(e, c, ind))
  PROVE  Top(e, c, CutTo(e, c, ind), CutTo(e, c, ind))
<1>. DEFINE s == CutTo(e, c, ind)
            l == Lowest(e)
            a == Num(c, ind, l)
            h == HeightOf(c, s)
<1>1. c \in Nat /\ c >= 2 /\ s \in Nat \ {0} /\ Len(e) = Len(d)
  <2>1. s \in 1..ind
    BY CutNumbers
  <2>. HIDE DEF s
  <2>. QED
    BY <2>1, CapacityIs, NarrowAssumption DEF Layers, Cut
<1>2. l \in 1..Len(e) /\ l \in 1..Len(d) /\ e[l] # << >>
  BY <1>1, RootIs DEF Cut, SomeLeft
<1>3. a \in Nat /\ Len(e[l]) \in Nat \ {0} /\ Len(e[l]) <= a
  BY <1>2, CutAt
<1>4. Num(c, s, l) = a
  BY <1>2, CutNumbers
<1>5. s = a * U(c, l)
  BY DEF CutTo
<1>6. Stored(e, c, s, l, a)
  <2>. HIDE DEF a, s, l
  <2>. QED
    BY <1>2, <1>3, <1>4 DEF Stored
<1>7. HasTop(e, c, s, s)
  <2>. HIDE DEF a, l
  <2>1. HasTop(e, c, s, a * U(c, l))
    BY <1>2, <1>3, <1>6 DEF Nested
  <2>. QED
    BY <1>5, <2>1
<1>8. Stored(e, c, s, h, s \div U(c, h))
  BY <1>7 DEF HasTop
<1>. HIDE DEF s
<1>9. h \in Nat \ {0} /\ U(c, h) <= s
  BY <1>1, TopUnit
<1>10. U(c, h) \in Nat \ {0}
  BY <1>1, <1>9, UnitNext
<1>11. AtLeastOne(s \div U(c, h)) = s \div U(c, h)
  <2>. DEFINE w == U(c, h)
              m == s \div w
  <2>1. w \in Nat \ {0} /\ w <= s
    BY <1>9, <1>10
  <2>. HIDE DEF w, h
  <2>2. w \div w <= s \div w /\ s \div w \in Nat
    BY <1>1, <2>1, FloorMonotone, Floor
  <2>3. w \div w = 1
    BY <2>1, FloorIs
  <2>4. m >= 1 /\ m \in Nat
    BY <2>2, <2>3
  <2>. HIDE DEF m
  <2>. QED
    BY <2>4 DEF AtLeastOne, m, w, h
<1>12. h <= Len(e)
  <2>. HIDE DEF h
  <2>. QED
    BY <1>1, <1>8 DEF Stored, Layers
<1>. QED
  BY <1>8, <1>11, <1>12 DEF Top, s
-----------------------------------------------------------------------------
LEMMA StoredHashIs ==
  ASSUME Layers(data, capacity_, txs), NEW x
  PROVE  x \in StoredHashes <=>
           \E i \in 1..Len(data) : \E j \in 1..Len(data[i]) : x = data[i][j]
<1>1. DOMAIN data = 1..Len(data)
  BY DEF Layers
<1>2. ASSUME NEW i \in 1..Len(data)
      PROVE  DOMAIN data[i] = 1..Len(data[i])
  <2>1. data[i] \in Layer
    BY ElementOfSeq DEF Layers
  <2>. QED
    BY <2>1 DEF Layer
<1>. QED
  BY <1>1, <1>2 DEF StoredHashes

(* A drop finds something that it can keep, if a stored number is not       *)
(* beyond it.                                                               *)
LEMMA KeepableIs ==
  ASSUME IInv, ~lost, NEW ind
  PROVE  CanKeep(ind) <=>
           /\ ind <= txs
           /\ \E i \in 1..Len(data) : \E j \in 1..Len(data[i]) :
                Units(data, capacity_, txs, i, j) * U(capacity_, i) <= ind
<1>1. Layers(data, capacity_, txs) /\ Beginnings(data, capacity_, txs)
  BY DEF IInv
<1>2. ASSUME NEW i \in 1..Len(data), NEW j \in 1..Len(data[i])
      PROVE  Len(data[i][j]) = Units(data, capacity_, txs, i, j) * U(capacity_, i)
  BY <1>1, EntryIs
<1>3. CanKeep(ind) <=> /\ ind <= txs
                       /\ \E i \in 1..Len(data) : \E j \in 1..Len(data[i]) :
                            Len(data[i][j]) <= ind
  BY <1>1, StoredHashIs, Zenon DEF CanKeep
<1>. QED
  BY <1>2, <1>3, Zenon

LEMMA DropEffect ==
  ASSUME IInv, NEW ind \in 1..MaxTxs + 1, NEW e, e = Dropped(ind).data
  PROVE  /\ Cut(data, e, capacity_, txs, ind)
         /\ Dropped(ind).txs = CutTo(e, capacity_, ind)
         /\ Layers(e, capacity_, CutTo(e, capacity_, ind))
         /\ Recent(e, capacity_, CutTo(e, capacity_, ind), CutTo(e, capacity_, ind))
         /\ ~lost /\ CanKeep(ind) =>
              /\ SomeLeft(e)
              /\ Beginnings(e, capacity_, CutTo(e, capacity_, ind))
              /\ Nested(e, capacity_, CutTo(e, capacity_, ind))
              /\ Top(e, capacity_, CutTo(e, capacity_, ind),
                     CutTo(e, capacity_, ind))
<1>. DEFINE c == capacity_
            s == CutTo(e, c, ind)
<1>1. Layers(data, c, txs)
  BY DEF IInv
<1>2. Cut(data, e, c, txs, ind) /\ Dropped(ind).txs = s
  BY <1>1, DropCuts
<1>3. Layers(e, c, s) /\ Recent(e, c, s, s)
  BY <1>1, <1>2, CutLayers
<1>4. ASSUME ~lost, CanKeep(ind)
      PROVE  SomeLeft(e) /\ Beginnings(e, c, s) /\ Nested(e, c, s) /\ Top(e, c, s, s)
  <2>1. Beginnings(data, c, txs) /\ Nested(data, c, txs)
    BY <1>4 DEF IInv
  <2>2. /\ ind <= txs
        /\ \E i \in 1..Len(data) : \E j \in 1..Len(data[i]) :
             Units(data, c, txs, i, j) * U(c, i) <= ind
    BY <1>4, KeepableIs
  <2>0. PICK i \in 1..Len(data) : \E j \in 1..Len(data[i]) :
          Units(data, c, txs, i, j) * U(c, i) <= ind
    BY <2>2
  <2>3. PICK j \in 1..Len(data[i]) : Units(data, c, txs, i, j) * U(c, i) <= ind
    BY <2>0
  <2>. DEFINE n == Units(data, c, txs, i, j)
  <2>4. n \in Nat \ {0} /\ Stored(data, c, txs, i, n)
    BY <1>1, <2>1, EntryIs
  <2>. HIDE DEF n
  <2>5. n \in Int /\ n * U(c, i) <= ind
    BY <2>3, <2>4 DEF n
  <2>6. SomeLeft(e)
    BY <1>1, <1>2, <2>2, <2>4, <2>5, CutKeeps
  <2>7. Beginnings(e, c, s)
    BY <1>1, <1>2, <2>1, <2>6, CutBeginnings
  <2>8. Nested(e, c, s)
    BY <1>1, <1>2, <2>1, <2>2, <2>6, CutNested
  <2>9. Top(e, c, s, s)
    BY <1>1, <1>2, <2>6, <2>8, CutTop
  <2>. QED
    BY <2>6, <2>7, <2>8, <2>9
<1>. QED
  BY <1>2, <1>3, <1>4

LEMMA DropKeeps ==
  ASSUME IInv, NEW ind \in 1..MaxTxs + 1, Drop(ind)
  PROVE  IInv'
<1>. DEFINE c == capacity_
            e == Dropped(ind).data
            s == CutTo(e, c, ind)
<1>1. /\ Dropped(ind).txs = s
      /\ Layers(e, c, s) /\ Recent(e, c, s, s)
      /\ ~lost /\ CanKeep(ind) =>
           Beginnings(e, c, s) /\ Nested(e, c, s) /\ Top(e, c, s, s)
  BY DropEffect
<1>2. /\ data' = e /\ txs' = s /\ previous_drop_number' = s /\ capacity_' = c
      /\ lost' = (lost \/ ~CanKeep(ind))
  BY <1>1 DEF Drop
<1>3. lost \in BOOLEAN
  BY DEF IInv
<1>. HIDE DEF c, e, s
<1>4. lost' \in BOOLEAN /\ (~lost' => ~lost /\ CanKeep(ind))
  BY <1>2, <1>3
<1>. QED
  BY <1>1, <1>2, <1>4 DEF IInv

LEMMA EmptyTree ==
  ASSUME NEW c \in Capacities
  PROVE  /\ Layers(<< << >> >>, c, 0)
         /\ Recent(<< << >> >>, c, 0, 0)
         /\ Beginnings(<< << >> >>, c, 0)
         /\ Nested(<< << >> >>, c, 0)
         /\ Top(<< << >> >>, c, 0, 0)
<1>. DEFINE d == << << >> >>
<1>1. d \in Seq(Layer) /\ Len(d) = 1 /\ d[1] = << >> /\ Len(d[1]) = 0
  BY DEF Layer
<1>2. c \in Nat /\ c >= 2 /\ MaxTxs \in Nat
  BY CapacityIs, NarrowAssumption
<1>3. Num(c, 0, 1) = 0
  <2>1. 0 \div 1 = 0
    BY FloorIs
  <2>. QED
    BY <2>1, UnitOne DEF Num
<1>. HIDE DEF d
<1>4. Layers(d, c, 0) /\ Recent(d, c, 0, 0)
  BY <1>1, <1>2, <1>3 DEF Layers, Recent
<1>5. Root(d) = << >>
  BY <1>1, RootIs
<1>6. Beginnings(d, c, 0)
  BY <1>1, <1>5 DEF Beginnings
<1>7. Nested(d, c, 0)
  BY <1>1, <1>3 DEF Nested, Stored
<1>8. Top(d, c, 0, 0)
  <2>1. HeightOf(c, 0) = 0
    BY <1>2, PowerZero, HeightUnique
  <2>. QED
    BY <1>1, <2>1 DEF Top
<1>. QED
  BY <1>4, <1>6, <1>7, <1>8 DEF d
-----------------------------------------------------------------------------
(* The invariant of the layers, through every addition and drop             *)
(* (narrow_merkle_tree.h:66-106 and 203-262).                               *)
THEOREM NarrowInvariance == Spec => []IInv
<1>1. Init => IInv
  BY EmptyTree DEF Init, IInv
<1>2. IInv /\ [Next]_vars => IInv'
  <2>. SUFFICES ASSUME IInv, [Next]_vars PROVE IInv'
    OBVIOUS
  <2>1. ASSUME NEW leaf \in Leaf, Add(leaf) PROVE IInv'
    BY <2>1, AddKeeps
  <2>2. CASE DropAll
    <3>1. capacity_ \in Capacities
      BY DEF IInv, Layers
    <3>. QED
      BY <2>2, <3>1, EmptyTree DEF DropAll, IInv
  <2>3. ASSUME NEW ind \in 1..MaxTxs + 1, Drop(ind) PROVE IInv'
    BY <2>3, DropKeeps
  <2>4. CASE UNCHANGED vars
    BY <2>4 DEF vars, IInv
  <2>. QED
    BY <2>1, <2>2, <2>3, <2>4 DEF Next
<1>. QED
  BY <1>1, <1>2, PTL DEF Spec

(* Types, and no layer above its capacity (narrow_merkle_tree.h:66-85).     *)
THEOREM NarrowTypeCorrect == Spec => []TypeOK
<1>1. IInv => TypeOK
  <2>. SUFFICES ASSUME IInv PROVE TypeOK
    OBVIOUS
  <2>1. /\ Layers(data, capacity_, txs) /\ lost \in BOOLEAN
        /\ previous_drop_number \in 0..txs
    BY DEF IInv, Recent
  <2>2. DOMAIN data = 1..Len(data)
    BY <2>1 DEF Layers
  <2>. QED
    BY <2>1, <2>2, NarrowAssumption DEF TypeOK, Layers
<1>. QED
  BY <1>1, NarrowInvariance, PTL

LEMMA NarrowRootIs == get_root = Root(data)
BY Zenon DEF get_root, Root

(* Every layer keeps the last beginnings of the one log, and size() is the  *)
(* length of the root (narrow_merkle_tree.h:203-262).                       *)
THEOREM BeginningsAreHeld == Spec => []LayersHoldBeginnings
<1>1. IInv => LayersHoldBeginnings
  <2>. SUFFICES ASSUME IInv, ~lost PROVE
         /\ txs = Len(get_root)
         /\ \A i \in DOMAIN data : \A j \in DOMAIN data[i] :
              data[i][j] = SubSeq(get_root, 1,
                             id_tx(i) - (Len(data[i]) - j) * unit(i))
    BY DEF LayersHoldBeginnings
  <2>1. Layers(data, capacity_, txs) /\ Beginnings(data, capacity_, txs)
    BY DEF IInv
  <2>2. DOMAIN data = 1..Len(data) /\ data \in Seq(Layer) /\ txs \in Nat
    BY <2>1 DEF Layers
  <2>3. ASSUME NEW i \in DOMAIN data, NEW j \in DOMAIN data[i]
        PROVE  data[i][j] = SubSeq(get_root, 1,
                              id_tx(i) - (Len(data[i]) - j) * unit(i))
    <3>. DEFINE u == U(capacity_, i)
                q == Num(capacity_, txs, i)
                k == Len(data[i]) - j
    <3>1. i \in 1..Len(data) /\ data[i] \in Layer
      BY <2>2, ElementOfSeq
    <3>2. j \in 1..Len(data[i])
      BY <3>1 DEF Layer
    <3>3. data[i][j] = SubSeq(Root(data), 1, (q - k) * u)
      BY <2>1, <3>1, <3>2 DEF Beginnings
    <3>4. id_tx(i) = q * u /\ unit(i) = u
      BY Zenon DEF id_tx, unit, Num, U
    <3>5. q \in Nat /\ u \in Nat /\ k \in Int
      <4>1. Len(data[i]) \in Nat
        BY <3>1 DEF Layer
      <4>2. u \in Nat \ {0}
        BY <2>1, <3>1, UnitBound
      <4>3. q \in Nat
        BY <2>2, <4>2, Floor DEF Num
      <4>. QED
        BY <3>2, <4>1, <4>2, <4>3
    <3>. HIDE DEF u, q, k
    <3>6. (q - k) * u = q * u - k * u
      BY <3>5
    <3>. QED
      BY <3>3, <3>4, <3>6, NarrowRootIs DEF k
  <2>4. txs = Len(get_root)
    BY <2>1, NarrowRootIs DEF Beginnings
  <2>. QED
    BY <2>3, <2>4
<1>. QED
  BY <1>1, NarrowInvariance, PTL

(* A drop back by fewer leaves than the capacity, and not behind the last   *)
(* drop, is exact (narrow_merkle_tree.h:43-46 and 92-106).                  *)
THEOREM RecentDropsAreExact == Spec => []RecentDropIsExact
<1>1. IInv => RecentDropIsExact
  <2>. SUFFICES ASSUME IInv, NEW ind \in previous_drop_number + 1..txs,
                       txs - ind < capacity_
                PROVE  Dropped(ind).txs = ind
    BY DEF RecentDropIsExact
  <2>. DEFINE c == capacity_
              d == data
              e == Dropped(ind).data
              p == previous_drop_number
  <2>1. Layers(d, c, txs) /\ Recent(d, c, txs, p)
    BY DEF IInv
  <2>2. /\ p \in 0..txs /\ txs \in 0..MaxTxs + 1 /\ MaxTxs \in Nat
        /\ ind \in 1..MaxTxs + 1 /\ ind <= txs /\ p < ind
        /\ Len(d) \in Nat \ {0} /\ c \in Nat
    BY <2>1, NarrowAssumption, CapacityIs DEF Layers, Recent
  <2>3. Cut(d, e, c, txs, ind) /\ Dropped(ind).txs = CutTo(e, c, ind)
    BY <2>1, <2>2, DropCuts
  <2>4. Num(c, txs, 1) = txs /\ Num(c, ind, 1) = ind
    BY <2>2, UnitOne DEF Num
  <2>5. 1 \in 1..Len(d) /\ Len(d[1]) \in Nat /\ (Len(d[1]) = c \/ txs - p <= Len(d[1]))
    <3>1. d[1] \in Layer
      BY <2>1, <2>2, ElementOfSeq DEF Layers
    <3>. QED
      BY <2>1, <2>2, <3>1 DEF Recent, Layer
  <2>6. txs - ind < Len(d[1])
    BY <2>2, <2>5
  <2>. HIDE DEF e, d
  <2>7. Stored(d, c, txs, 1, ind)
    BY <2>2, <2>4, <2>5, <2>6 DEF Stored
  <2>8. ind * U(c, 1) = ind
    BY <2>2, UnitOne
  <2>9. 1 \in 1..Len(e) /\ e[1] # << >> /\ SomeLeft(e)
    BY <2>1, <2>2, <2>3, <2>7, <2>8, CutKeeps
  <2>10. Lowest(e) = 1
    <3>1. Lowest(e) \in 1..Len(e) /\ \A j \in 1..Lowest(e) - 1 : e[j] = << >>
      BY <2>3, <2>9, RootIs DEF Cut
    <3>2. CASE Lowest(e) > 1
      <4>1. 1 \in 1..Lowest(e) - 1
        BY <3>1, <3>2
      <4>. QED
        BY <2>9, <3>1, <4>1
    <3>. QED
      BY <3>1, <3>2
  <2>11. CutTo(e, c, ind) = ind * U(c, 1)
    BY <2>4, <2>9, <2>10 DEF CutTo
  <2>. QED
    BY <2>3, <2>8, <2>11
<1>. QED
  BY <1>1, NarrowInvariance, PTL

(* A drop to the last power of the capacity or more finds a hash to keep    *)
(* (narrow_merkle_tree.h:92-106 and 203-227).                               *)
THEOREM TopsAreKept == Spec => []TopIsKept
<1>1. IInv => TopIsKept
  <2>. SUFFICES ASSUME IInv, ~lost,
                       NEW ind \in previous_drop_number + 1..txs,
                       ind >= power(capacity_, height(txs) - 1)
                PROVE  CanKeep(ind)
    BY DEF TopIsKept
  <2>. DEFINE c == capacity_
              t == txs
              p == previous_drop_number
              h == HeightOf(c, t)
              u == U(c, h)
              m == p \div u
              n == AtLeastOne(m)
  <2>1. /\ Layers(data, c, t) /\ Beginnings(data, c, t) /\ Recent(data, c, t, p)
        /\ Top(data, c, t, p)
    BY DEF IInv
  <2>2. /\ p \in 0..t /\ t \in Nat \ {0} /\ ind \in Nat /\ p < ind /\ ind <= t
        /\ c \in Nat /\ c >= 2
    BY <2>1, CapacityIs DEF Layers, Recent
  <2>3. ind >= u
    BY Zenon DEF height, HeightOf, U
  <2>4. Stored(data, c, t, h, n)
    BY <2>1, <2>2 DEF Top
  <2>5. h \in Nat \ {0}
    BY <2>2, TopUnit
  <2>. HIDE DEF h
  <2>6. u \in Nat \ {0}
    BY <2>2, <2>5, UnitNext
  <2>. HIDE DEF u
  <2>7. m \in Nat /\ m * u <= p /\ m * u \in Nat
    BY <2>2, <2>6, Floor
  <2>. HIDE DEF m
  <2>8. n \in Int /\ n * u <= ind
    <3>1. CASE m < 1
      <4>1. n = 1 /\ 1 * u = u
        BY <2>6, <3>1 DEF AtLeastOne
      <4>. QED
        BY <2>3, <4>1
    <3>2. CASE ~(m < 1)
      <4>1. n = m
        BY <3>2 DEF AtLeastOne
      <4>. QED
        BY <2>2, <2>7, <4>1
    <3>. QED
      BY <3>1, <3>2
  <2>. HIDE DEF n
  <2>9. PICK j \in 1..Len(data[h]) : Len(data[h][j]) = n * u
    BY <2>1, <2>4, <2>8, HashOfStored DEF u
  <2>10. h \in 1..Len(data)
    BY <2>4 DEF Stored
  <2>11. data[h][j] \in StoredHashes
    BY <2>1, <2>9, <2>10, StoredHashIs
  <2>. QED
    BY <2>2, <2>8, <2>9, <2>11 DEF CanKeep
<1>. QED
  BY <1>1, NarrowInvariance, PTL

LEMMA LongestIsKept ==
  ASSUME IInv, ~lost, NEW ind \in 1..MaxTxs + 1, CanKeep(ind),
         NEW e, e = Dropped(ind).data
  PROVE  /\ Root(e) \in StoredHashes
         /\ Len(Root(e)) <= ind
         /\ \A x \in StoredHashes : Len(x) <= ind => Len(x) <= Len(Root(e))
         /\ Root(e) = SubSeq(Root(data), 1, CutTo(e, capacity_, ind))
         /\ CutTo(e, capacity_, ind) \in 0..Len(Root(data))
<1>. DEFINE c == capacity_
            d == data
            s == CutTo(e, c, ind)
<1>1. Layers(d, c, txs) /\ Beginnings(d, c, txs) /\ ind <= txs
  BY KeepableIs DEF IInv
<1>2. Cut(d, e, c, txs, ind) /\ SomeLeft(e)
  BY DropEffect
<1>3. /\ s \in 0..txs /\ Root(e) = SubSeq(Root(d), 1, s) /\ Len(Root(e)) = s
      /\ \E i \in 1..Len(d) : \E j \in 1..Len(d[i]) : Root(e) = d[i][j]
  BY <1>1, <1>2, CutRoot
<1>4. Root(e) \in StoredHashes
  BY <1>1, <1>3, StoredHashIs
<1>5. s <= ind
  <2>1. s \in 1..ind
    BY <1>1, <1>2, CutNumbers
  <2>. HIDE DEF s
  <2>. QED
    BY <2>1, NarrowAssumption
<1>6. ASSUME NEW x \in StoredHashes, Len(x) <= ind
      PROVE  Len(x) <= s
  <2>1. PICK i \in 1..Len(d) : \E j \in 1..Len(d[i]) : x = d[i][j]
    BY <1>1, StoredHashIs
  <2>2. PICK j \in 1..Len(d[i]) : x = d[i][j]
    BY <2>1
  <2>. DEFINE n == Units(d, c, txs, i, j)
  <2>3. n \in Nat \ {0} /\ Stored(d, c, txs, i, n) /\ Len(x) = n * U(c, i)
    BY <1>1, <2>2, EntryIs
  <2>. HIDE DEF n, s
  <2>4. n \in Int /\ n * U(c, i) <= ind
    BY <1>6, <2>3
  <2>5. n * U(c, i) <= s
    BY <1>1, <1>2, <2>3, <2>4, CutKeeps DEF s
  <2>. QED
    BY <2>3, <2>5
<1>7. Len(Root(d)) = txs
  BY <1>1 DEF Beginnings
<1>. QED
  BY <1>3, <1>4, <1>5, <1>6, <1>7

(* The new root is the longest stored beginning that is not beyond the      *)
(* argument of drop (narrow_merkle_tree.h:92-106).                          *)
THEOREM LongestAreKept == Spec => DropKeepsLongest
<1>1. ASSUME IInv, NEW ind \in 1..MaxTxs + 1, ~lost, CanKeep(ind), Drop(ind)
      PROVE  /\ get_root' \in StoredHashes
             /\ Len(get_root') <= ind
             /\ \A h \in StoredHashes : Len(h) <= ind => Len(h) <= Len(get_root')
  <2>1. get_root' = Root(data')
    BY Zenon DEF get_root, Root
  <2>2. data' = Dropped(ind).data
    BY <1>1 DEF Drop
  <2>. DEFINE e == data'
  <2>. HIDE DEF e
  <2>3. /\ Root(e) \in StoredHashes
        /\ Len(Root(e)) <= ind
        /\ \A x \in StoredHashes : Len(x) <= ind => Len(x) <= Len(Root(e))
    BY <1>1, <2>2, LongestIsKept DEF e
  <2>. QED
    BY <2>1, <2>3 DEF e
<1>2. IInv /\ [Next]_vars =>
        [\A ind \in 1..MaxTxs + 1 :
           ~lost /\ CanKeep(ind) /\ Drop(ind)
           => /\ get_root' \in StoredHashes
              /\ Len(get_root') <= ind
              /\ \A h \in StoredHashes : Len(h) <= ind => Len(h) <= Len(get_root')
        ]_vars
  BY <1>1
<1>. QED
  BY <1>2, NarrowInvariance, PTL DEF Spec, DropKeepsLongest

(* The tree is a log that grows at its end and is cut back, as long as a    *)
(* drop finds something to keep (narrow_merkle_tree.h:66-106).              *)
THEOREM LogIsImplemented == Spec => ImplementsLog
<1>1. Init => R!Init
  <2>. SUFFICES ASSUME Init PROVE get_root = << >> /\ (~lost) = TRUE
    BY DEF R!Init
  <2>1. data = << << >> >> /\ lost = FALSE
    BY DEF Init
  <2>2. data \in Seq(Layer) /\ \A i \in 1..Len(data) : data[i] = << >>
    BY <2>1 DEF Layer
  <2>3. Root(data) = << >>
    BY <2>2, RootIs
  <2>. QED
    BY <2>1, <2>3, NarrowRootIs
<1>2. IInv /\ [Next]_vars => [R!Next]_(R!vars)
  <2>. SUFFICES ASSUME IInv, [Next]_vars PROVE [R!Next]_(R!vars)
    OBVIOUS
  <2>1. get_root = Root(data) /\ get_root' = Root(data')
    BY Zenon DEF get_root, Root
  <2>2. lost \in BOOLEAN
    BY DEF IInv
  <2>3. ASSUME NEW leaf \in Leaf, Add(leaf) PROVE R!Next
    <3>1. lost' = lost
      BY <2>3 DEF Add
    <3>2. CASE lost
      BY <3>1, <3>2, Zenon DEF R!Next, R!Unspecified
    <3>3. CASE ~lost
      <4>1. Root(data') = Append(Root(data), leaf)
        BY <2>3, <3>3, AddKeeps
      <4>2. R!Add(leaf)
        BY <2>1, <3>1, <3>3, <4>1, Zenon DEF R!Add
      <4>. QED
        BY <4>2, Zenon DEF R!Next
    <3>. QED
      BY <3>2, <3>3
  <2>4. ASSUME DropAll PROVE R!Next
    <3>1. data' = << << >> >> /\ lost' = FALSE
      BY <2>4 DEF DropAll
    <3>. DEFINE e == data'
    <3>2. e \in Seq(Layer) /\ \A i \in 1..Len(e) : e[i] = << >>
      BY <3>1 DEF Layer
    <3>. HIDE DEF e
    <3>3. Root(e) = << >>
      BY <3>2, RootIs
    <3>4. R!Clear
      BY <2>1, <3>1, <3>3, Zenon DEF R!Clear, e
    <3>. QED
      BY <3>4, Zenon DEF R!Next
  <2>5. ASSUME NEW ind \in 1..MaxTxs + 1, Drop(ind) PROVE R!Next
    <3>1. data' = Dropped(ind).data /\ lost' = (lost \/ ~CanKeep(ind))
      BY <2>5 DEF Drop
    <3>2. CASE lost \/ ~CanKeep(ind)
      <4>1. lost' = TRUE
        BY <3>1, <3>2
      <4>. QED
        BY <4>1, Zenon DEF R!Next, R!Unspecified
    <3>3. CASE ~lost /\ CanKeep(ind)
      <4>. DEFINE e == data'
                  s == CutTo(e, capacity_, ind)
      <4>. HIDE DEF e
      <4>1. Root(e) = SubSeq(Root(data), 1, s) /\ s \in 0..Len(Root(data))
        BY <3>1, <3>3, LongestIsKept DEF e
      <4>2. lost' = lost
        BY <2>2, <3>1, <3>3
      <4>. HIDE DEF s
      <4>3. R!Truncate
        BY <2>1, <4>1, <4>2, Zenon DEF R!Truncate, e
      <4>. QED
        BY <4>3, Zenon DEF R!Next
    <3>. QED
      BY <3>2, <3>3
  <2>6. CASE UNCHANGED vars
    BY <2>1, <2>6 DEF vars, R!vars
  <2>. QED
    BY <2>3, <2>4, <2>5, <2>6 DEF Next
<1>. QED
  BY <1>1, <1>2, NarrowInvariance, PTL DEF Spec, ImplementsLog, R!Spec
=============================================================================
