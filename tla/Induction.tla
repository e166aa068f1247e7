----------------------------- MODULE Induction ------------------------------
(***************************************************************************)
(* Induction over the natural numbers for a set instead of a predicate, so *)
(* that it can be cited where the induction rules of the library, whose    *)
(* parameter is an operator, cannot; and, by it, what the proofs need to    *)
(* know of powers.                                                         *)
(***************************************************************************)
EXTENDS Power, FiniteSetTheorems, WellFoundedInduction, TLAPS

(* A nonempty set of naturals has a least element: among the intervals      *)
(* 1..n with n in the set, finite sets, one is minimal for inclusion.       *)
LEMMA LeastNat ==
  ASSUME NEW T, T \subseteq Nat, T # {}
  PROVE  \E x \in T : \A y \in T : x <= y
<1>. DEFINE I == {1..n : n \in T}
<1>1. I \subseteq FiniteSubsetsOf(Nat) /\ I # {}
  <2>1. ASSUME NEW n \in T PROVE 1..n \in FiniteSubsetsOf(Nat)
    <3>1. IsFiniteSet(1..n)
      BY FS_Interval
    <3>. QED
      BY <3>1 DEF FiniteSubsetsOf
  <2>. QED
    BY <2>1
<1>2. IsWellFoundedOn(StrictSubsetOrdering(Nat), FiniteSubsetsOf(Nat))
  BY FS_StrictSubsetOrderingWellFounded
<1>. HIDE DEF I
<1>3. PICK m \in I : \A y \in I : ~ (<<y, m>> \in StrictSubsetOrdering(Nat))
  BY <1>1, <1>2, WFMin
<1>4. PICK x \in T : m = 1..x
  BY <1>3 DEF I
<1>5. ASSUME NEW y \in T, y < x PROVE FALSE
  <2>1. 1..y \in I
    BY DEF I
  <2>2. 1..y \subseteq 1..x /\ 1..x \subseteq Nat /\ 1..y \subseteq Nat
    BY <1>5
  <2>3. x \in 1..x /\ x \notin 1..y
    BY <1>5
  <2>. QED
    BY <1>3, <1>4, <2>1, <2>2, <2>3 DEF StrictSubsetOrdering
<1>. QED
  BY <1>4, <1>5

(* A set that holds 0 and, with a natural, the next one holds them all.     *)
LEMMA NatInduct ==
  ASSUME NEW T, 0 \in T, \A n \in Nat : n \in T => n + 1 \in T
  PROVE  Nat \subseteq T
<1>. DEFINE B == {n \in Nat : n \notin T}
<1>1. CASE B # {}
  <2>1. PICK x \in B : \A y \in B : x <= y
    BY <1>1, LeastNat
  <2>2. x \in Nat /\ x # 0
    BY <2>1
  <2>3. x - 1 \in Nat /\ x - 1 \notin B
    BY <2>1, <2>2
  <2>. QED
    BY <2>3, <2>1, <2>2
<1>. QED
  BY <1>1
-----------------------------------------------------------------------------
(* The products after 0, ..., n turns of the loop.                          *)
Products(w, b, n) ==
  w = [k \in 0..n |-> IF k = 0 THEN 1 ELSE b * w[k - 1]]

LEMMA ProductsExist ==
  ASSUME NEW b, NEW n \in Nat
  PROVE  \E w : Products(w, b, n)
<1>. DEFINE T == {m \in Nat : \E w : Products(w, b, m)}
<1>1. 0 \in T
  <2>1. Products([k \in 0..0 |-> 1], b, 0)
    BY DEF Products
  <2>. QED
    BY <2>1
<1>2. ASSUME NEW m \in Nat, m \in T PROVE m + 1 \in T
  <2>1. PICK w : Products(w, b, m)
    BY <1>2
  <2>. DEFINE v == [k \in 0..m + 1 |-> IF k = m + 1 THEN b * w[m] ELSE w[k]]
  <2>2. ASSUME NEW k \in 0..m + 1
        PROVE  v[k] = IF k = 0 THEN 1 ELSE b * v[k - 1]
    BY <2>1 DEF Products
  <2>3. Products(v, b, m + 1)
    BY <2>2 DEF Products
  <2>. QED
    BY <2>3
<1>. HIDE DEF T
<1>3. Nat \subseteq T
  BY <1>1, <1>2, NatInduct
<1>. QED
  BY <1>3 DEF T

LEMMA PowerIsLast ==
  ASSUME NEW b, NEW n \in Nat
  PROVE  \E w : Products(w, b, n) /\ power(b, n) = w[n]
<1>. DEFINE w == CHOOSE w : Products(w, b, n)
<1>1. Products(w, b, n)
  BY ProductsExist
<1>2. power(b, n) = w[n]
  BY Zenon DEF power, Products
<1>. QED
  BY <1>1, <1>2

LEMMA ProductsAgree ==
  ASSUME NEW b, NEW n \in Nat, NEW w, NEW v,
         Products(w, b, n), Products(v, b, n + 1)
  PROVE  w[n] = v[n]
<1>. DEFINE T == {k \in Nat : k <= n => w[k] = v[k]}
<1>1. 0 \in T
  BY DEF Products
<1>2. ASSUME NEW k \in Nat, k \in T PROVE k + 1 \in T
  <2>1. CASE k + 1 <= n
    <3>1. w[k + 1] = b * w[k]
      BY <2>1 DEF Products
    <3>2. v[k + 1] = b * v[k]
      BY <2>1 DEF Products
    <3>. QED
      BY <2>1, <1>2, <3>1, <3>2
  <2>. QED
    BY <2>1
<1>. HIDE DEF T
<1>3. Nat \subseteq T
  BY <1>1, <1>2, NatInduct
<1>. QED
  BY <1>3 DEF T

(* The two equations of the power.                                          *)
LEMMA PowerZero ==
  ASSUME NEW b
  PROVE  power(b, 0) = 1
<1>1. PICK w : Products(w, b, 0) /\ power(b, 0) = w[0]
  BY PowerIsLast
<1>. QED
  BY <1>1 DEF Products

LEMMA PowerNext ==
  ASSUME NEW b, NEW n \in Nat
  PROVE  power(b, n + 1) = b * power(b, n)
<1>1. PICK w : Products(w, b, n) /\ power(b, n) = w[n]
  BY PowerIsLast
<1>2. PICK v : Products(v, b, n + 1) /\ power(b, n + 1) = v[n + 1]
  BY PowerIsLast
<1>3. v[n + 1] = b * v[n]
  BY <1>2 DEF Products
<1>4. w[n] = v[n]
  BY <1>1, <1>2, ProductsAgree
<1>. QED
  BY <1>1, <1>2, <1>3, <1>4

(* A power of a positive number is positive.                                *)
LEMMA PowerPositive ==
  ASSUME NEW b \in Nat \ {0}, NEW n \in Nat
  PROVE  power(b, n) \in Nat \ {0}
<1>. DEFINE T == {k \in Nat : power(b, k) \in Nat \ {0}}
<1>1. 0 \in T
  BY PowerZero
<1>2. ASSUME NEW k \in Nat, k \in T PROVE k + 1 \in T
  <2>. DEFINE x == power(b, k)
  <2>1. x \in Nat \ {0} /\ power(b, k + 1) = b * x
    BY <1>2, PowerNext
  <2>. HIDE DEF x
  <2>2. b * x \in Nat \ {0}
    BY <2>1
  <2>. QED
    BY <2>1, <2>2
<1>. HIDE DEF T
<1>3. Nat \subseteq T
  BY <1>1, <1>2, NatInduct
<1>. QED
  BY <1>3 DEF T

LEMMA PowerAdd ==
  ASSUME NEW b \in Nat \ {0}, NEW m \in Nat, NEW n \in Nat
  PROVE  power(b, m + n) = power(b, n) * power(b, m)
<1>. DEFINE T == {k \in Nat : power(b, m + k) = power(b, k) * power(b, m)}
<1>1. power(b, m) \in Nat
  BY PowerPositive
<1>2. 0 \in T
  BY <1>1, PowerZero
<1>3. ASSUME NEW k \in Nat, k \in T PROVE k + 1 \in T
  <2>. DEFINE x == power(b, m)
              y == power(b, k)
  <2>1. x \in Nat /\ y \in Nat /\ power(b, m + k) = y * x
    BY <1>3, PowerPositive
  <2>2. power(b, m + k + 1) = b * (y * x)
    BY <2>1, PowerNext
  <2>3. power(b, k + 1) = b * y
    BY PowerNext
  <2>. HIDE DEF x, y
  <2>4. b * (y * x) = (b * y) * x
    BY <2>1
  <2>5. m + (k + 1) = m + k + 1
    OBVIOUS
  <2>. QED
    BY <2>2, <2>3, <2>4, <2>5 DEF x
<1>. HIDE DEF T
<1>4. Nat \subseteq T
  BY <1>2, <1>3, NatInduct
<1>. QED
  BY <1>4 DEF T

(* Powers of two and more grow.                                             *)
LEMMA PowerGrows ==
  ASSUME NEW b \in Nat, b >= 2, NEW n \in Nat
  PROVE  n < power(b, n) /\ power(b, n) < power(b, n + 1)
<1>. DEFINE T == {k \in Nat : k < power(b, k)}
<1>1. 0 \in T
  BY PowerZero
<1>2. ASSUME NEW k \in Nat PROVE power(b, k + 1) >= power(b, k) + power(b, k)
                                 /\ power(b, k) \in Nat \ {0}
  <2>. DEFINE x == power(b, k)
  <2>1. x \in Nat \ {0} /\ power(b, k + 1) = b * x
    BY PowerPositive, PowerNext
  <2>. HIDE DEF x
  <2>2. b * x >= x + x
    BY <2>1
  <2>. QED
    BY <2>1, <2>2 DEF x
<1>3. ASSUME NEW k \in Nat, k \in T PROVE k + 1 \in T
  BY <1>2, <1>3, PowerPositive
<1>. HIDE DEF T
<1>4. Nat \subseteq T
  BY <1>1, <1>3, NatInduct
<1>5. power(b, n + 1) \in Nat
  BY PowerPositive
<1>. QED
  BY <1>2, <1>4, <1>5 DEF T

LEMMA PowerMonotone ==
  ASSUME NEW b \in Nat \ {0}, NEW m \in Nat, NEW n \in Nat, m <= n
  PROVE  power(b, m) <= power(b, n)
<1>. DEFINE x == power(b, m)
            y == power(b, n - m)
<1>1. x \in Nat \ {0} /\ y \in Nat \ {0}
  BY PowerPositive
<1>2. power(b, m + (n - m)) = y * x
  BY PowerAdd
<1>. HIDE DEF x, y
<1>3. y * x >= x
  BY <1>1
<1>. QED
  BY <1>2, <1>3 DEF x
-----------------------------------------------------------------------------
(* Quotient and remainder: what they are, and that nothing else is.         *)
LEMMA DivMod ==
  ASSUME NEW n \in Int, NEW d \in Nat \ {0}
  PROVE  /\ n \div d \in Int
         /\ n % d \in 0..d - 1
         /\ n = d * (n \div d) + (n % d)
OBVIOUS

LEMMA DivModUnique ==
  ASSUME NEW n \in Int, NEW d \in Nat \ {0}, NEW q \in Int, NEW r \in 0..d - 1,
         n = d * q + r
  PROVE  n \div d = q /\ n % d = r
<1>. DEFINE k == n \div d
            s == n % d
<1>1. k \in Int /\ s \in 0..d - 1 /\ n = d * k + s
  BY DivMod
<1>. HIDE DEF k, s
<1>2. CASE k >= q + 1
  <2>1. d * k >= d * (q + 1)
    BY <1>1, <1>2
  <2>2. d * (q + 1) = d * q + d
    OBVIOUS
  <2>. QED
    BY <1>1, <2>1, <2>2
<1>3. CASE k <= q - 1
  <2>1. d * k <= d * (q - 1)
    BY <1>1, <1>3
  <2>2. d * (q - 1) = d * q - d
    OBVIOUS
  <2>. QED
    BY <1>1, <2>1, <2>2
<1>4. CASE k = q
  BY <1>1, <1>4 DEF k, s
<1>. QED
  BY <1>1, <1>2, <1>3, <1>4
=============================================================================
