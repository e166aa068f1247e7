------------------------ MODULE CircularStackProofs -------------------------
(***************************************************************************)
(* The circular stack is a bounded stack, for every set of elements and    *)
(* every capacity.  A position goes round at most once in a step           *)
(* (ModOnce), so that the remainders become differences; one lemma for     *)
(* each action says what becomes of the elements.                          *)
(***************************************************************************)
EXTENDS CircularStack, SequenceTheorems, Induction

LEMMA ModOnce ==
  ASSUME NEW c \in Nat \ {0}, NEW x \in Nat, x < c + c
  PROVE  x % c = IF x < c THEN x ELSE x - c
<1>1. x = c * (x \div c) + (x % c) /\ x % c \in 0..c - 1 /\ x \div c \in Int
  OBVIOUS
<1>2. x \div c = 0 \/ x \div c = 1
  <2>. DEFINE d == x \div c
  <2>1. d \in Int /\ c * d <= x /\ x < c * d + c
    BY <1>1
  <2>. HIDE DEF d
  <2>2. CASE d >= 2
    <3>1. c * d >= c * 2
      BY <2>2, <2>1
    <3>. QED
      BY <3>1, <2>1
  <2>3. CASE d <= -1
    <3>1. c * d <= c * (-1)
      BY <2>3, <2>1
    <3>. QED
      BY <3>1, <2>1
  <2>. QED
    BY <2>1, <2>2, <2>3 DEF d
<1>. QED
  BY <1>1, <1>2
-----------------------------------------------------------------------------
IInv == TypeOK /\ ReadsWhatWasPushed

(* Where the i-th element from the oldest lies.                             *)
Place(i) == diff(i_end, sz - (i - 1))

LEMMA PlaceInArray ==
  ASSUME TypeOK, i_end < cap, NEW i \in 1..sz
  PROVE  Place(i) \in 0..cap - 1 /\ Contents[i] = v[Place(i)]
<1>1. Place(i) \in 0..cap - 1
  BY CircularStackAssumption DEF TypeOK, Place, diff
<1>. QED
  BY <1>1 DEF Contents, At, Cell, Place

LEMMA ContentsIsSeq ==
  ASSUME IInv, intact
  PROVE  Contents \in Seq(Value) /\ Len(Contents) = sz /\ sz \in Nat
<1>1. sz \in Nat
  BY CircularStackAssumption DEF IInv, TypeOK
<1>2. Contents \in [1..sz -> Value]
  BY <1>1 DEF IInv, ReadsWhatWasPushed, Contents
<1>. QED
  BY <1>1, <1>2

(* The indices and cells after a push, without the remainder.               *)
LEMMA PushIndices ==
  ASSUME IInv, intact, NEW t \in Value, Push(t)
  PROVE  /\ i_end' = IF i_end + 1 = cap THEN 0 ELSE i_end + 1
         /\ sz' = IF sz < cap THEN sz + 1 ELSE sz
         /\ cap' = cap /\ cap \in Nat \ {0} /\ sz' \in 1..cap
         /\ i_end \in 0..cap - 1 /\ i_end' \in 0..cap - 1
         /\ v' = [p \in 0..cap - 1 |-> IF p = i_end THEN t ELSE v[p]]
<1>1. cap \in Nat \ {0} /\ i_end \in 0..cap - 1 /\ sz \in 0..cap
  BY CircularStackAssumption DEF IInv, TypeOK
<1>2. (i_end + 1) % cap = IF i_end + 1 < cap THEN i_end + 1 ELSE i_end + 1 - cap
  <2>. DEFINE x == i_end + 1
  <2>1. x \in Nat /\ x < cap + cap
    BY <1>1
  <2>. HIDE DEF x
  <2>2. x % cap = IF x < cap THEN x ELSE x - cap
    BY <1>1, <2>1, ModOnce
  <2>. QED
    BY <1>1, <2>1, <2>2 DEF x
<1>. QED
  BY <1>1, <1>2 DEF Push

LEMMA PushEffect ==
  ASSUME IInv, intact, NEW t \in Value, Push(t)
  PROVE  Contents' = S!Pushed(Contents, t, cap) /\ IInv'
<1>1. TypeOK'
  BY PushIndices, CircularStackAssumption DEF Push, IInv, TypeOK
<1>2. cap \in Nat \ {0} /\ sz \in 0..cap /\ i_end \in 0..cap - 1
  BY CircularStackAssumption DEF IInv, TypeOK
<1>3. ASSUME NEW i \in 1..sz'
      PROVE  Contents'[i] = IF i = sz' THEN t
                            ELSE IF sz < cap THEN Contents[i] ELSE Contents[i + 1]
  <2>. DEFINE j == IF sz < cap THEN i ELSE i + 1
  <2>1. Place(i)' \in 0..cap - 1 /\ Contents'[i] = v'[Place(i)']
    <3>1. Place(i)' \in 0..cap - 1
      BY PushIndices DEF Place, diff
    <3>. QED
      BY <3>1, PushIndices DEF Contents, At, Cell, Place
  <2>2. CASE i = sz'
    <3>1. Place(i)' = i_end
      BY <2>2, PushIndices, <1>2 DEF Place, diff
    <3>. QED
      BY <2>1, <2>2, <3>1, PushIndices
  <2>3. CASE i # sz'
    <3>1. j \in 1..sz /\ Place(i)' = Place(j) /\ Place(j) # i_end
      <4>1. j \in 1..sz
        BY <2>3, PushIndices, <1>2
      <4>2. CASE sz < cap
        BY <2>3, <4>2, PushIndices, <1>2 DEF Place, diff
      <4>3. CASE ~(sz < cap)
        BY <2>3, <4>3, PushIndices, <1>2 DEF Place, diff
      <4>. QED
        BY <4>1, <4>2, <4>3
    <3>2. Contents[j] = v[Place(j)] /\ Place(j) \in 0..cap - 1
      BY <3>1, <1>2, PlaceInArray DEF IInv
    <3>. QED
      BY <2>1, <2>3, <3>1, <3>2, PushIndices
  <2>. QED
    BY <2>2, <2>3
<1>4. intact' /\ cap' = cap
  BY DEF Push
<1>5. ReadsWhatWasPushed'
  <2>1. ASSUME NEW i \in 1..sz' PROVE Contents'[i] \in Value
    <3>1. i = sz' \/ (IF sz < cap THEN i ELSE i + 1) \in 1..sz
      BY PushIndices, <1>2
    <3>. QED
      BY <1>3, <3>1 DEF IInv, ReadsWhatWasPushed
  <2>. QED
    BY <2>1 DEF ReadsWhatWasPushed
<1>6. IInv'
  BY <1>1, <1>5 DEF IInv
<1>7. Contents' = S!Pushed(Contents, t, cap)
  <2>1. Contents \in Seq(Value) /\ Len(Contents) = sz
    BY ContentsIsSeq
  <2>2. Contents' \in Seq(Value) /\ Len(Contents') = sz'
    <3>1. sz' \in Nat /\ Contents' \in [1..sz' -> Value]
      BY <1>4, <1>5, PushIndices DEF ReadsWhatWasPushed, Contents
    <3>. QED
      BY <3>1
  <2>3. CASE sz < cap
    <3>1. Contents' = Append(Contents, t)
      BY <2>1, <2>2, <2>3, <1>2, <1>3, PushIndices, AppendProperties, SeqEqual
    <3>. QED
      BY <2>1, <2>3, <3>1 DEF S!Pushed
  <2>4. CASE ~(sz < cap)
    <3>. DEFINE rest == Tail(Contents)
    <3>1. /\ rest \in Seq(Value) /\ Len(rest) = sz - 1
          /\ \A i \in 1..sz - 1 : rest[i] = Contents[i + 1]
      BY <2>1, <2>4, <1>2, HeadTailProperties
    <3>. HIDE DEF rest
    <3>2. /\ Append(rest, t) \in Seq(Value) /\ Len(Append(rest, t)) = sz
          /\ \A i \in 1..sz - 1 : Append(rest, t)[i] = Contents[i + 1]
          /\ Append(rest, t)[sz] = t
      BY <3>1, <1>2, AppendProperties
    <3>3. Contents' = Append(rest, t)
      BY <2>2, <2>4, <3>2, <1>2, <1>3, PushIndices, SeqEqual
    <3>. QED
      BY <2>1, <2>4, <3>3 DEF S!Pushed, rest
  <2>. QED
    BY <2>3, <2>4
<1>. QED
  BY <1>6, <1>7

LEMMA PopIndices ==
  ASSUME TypeOK, i_end < cap, NEW n \in Nat, Pop(n)
  PROVE  \E k \in 0..sz :
           /\ k = IF n < sz THEN n ELSE sz
           /\ sz' = sz - k
           /\ i_end' = diff(i_end, k)
           /\ i_end' \in 0..cap - 1
           /\ cap' = cap /\ v' = v /\ intact' = intact
<1>1. cap \in Nat \ {0} /\ i_end \in 0..cap - 1 /\ sz \in 0..cap
  BY CircularStackAssumption DEF TypeOK
<1>. DEFINE k == IF n < sz THEN n ELSE sz
<1>2. k \in 0..sz
  BY <1>1
<1>3. sz' = sz - k /\ i_end' = (i_end + cap - k) % cap
  BY DEF Pop
<1>. HIDE DEF k
<1>4. (i_end + cap - k) % cap = diff(i_end, k)
  <2>. DEFINE x == i_end + cap - k
  <2>1. x \in Nat /\ x < cap + cap
    BY <1>1, <1>2
  <2>2. diff(i_end, k) = IF x < cap THEN x ELSE x - cap
    BY <1>1, <1>2 DEF diff
  <2>. HIDE DEF x
  <2>3. x % cap = IF x < cap THEN x ELSE x - cap
    BY <1>1, <2>1, ModOnce
  <2>. QED
    BY <2>2, <2>3 DEF x
<1>5. diff(i_end, k) \in 0..cap - 1
  BY <1>1, <1>2 DEF diff
<1>6. cap' = cap /\ v' = v /\ intact' = intact
  BY DEF Pop
<1>7. k = IF n < sz THEN n ELSE sz
  BY DEF k
<1>. QED
  BY <1>2, <1>3, <1>4, <1>5, <1>6, <1>7

LEMMA PopEffect ==
  ASSUME IInv, intact, NEW n \in Nat, Pop(n)
  PROVE  IInv' /\ \E k \in 0..Len(Contents) : Contents' = S!Popped(Contents, k)
<1>1. cap \in Nat \ {0} /\ i_end \in 0..cap - 1 /\ sz \in 0..cap /\ TypeOK
  BY CircularStackAssumption DEF IInv, TypeOK
<1>0. i_end < cap
  BY <1>1
<1>2. PICK k \in 0..sz :
           /\ sz' = sz - k
           /\ i_end' = diff(i_end, k)
           /\ i_end' \in 0..cap - 1
           /\ cap' = cap /\ v' = v /\ intact' = intact
  BY <1>0, <1>1, PopIndices
<1>3. TypeOK'
  BY <1>1, <1>2, CircularStackAssumption DEF TypeOK
<1>4. ASSUME NEW i \in 1..sz - k PROVE Contents'[i] = Contents[i]
  <2>1. Place(i)' = Place(i) /\ Place(i) \in 0..cap - 1
    BY <1>1, <1>2 DEF Place, diff
  <2>2. Contents'[i] = v'[Place(i)']
    BY <1>2, <2>1 DEF Contents, At, Cell, Place
  <2>. QED
    BY <1>1, <1>2, <2>1, <2>2, PlaceInArray
<1>5. Contents \in Seq(Value) /\ Len(Contents) = sz
  BY ContentsIsSeq
<1>6. \A i \in 1..sz - k : Contents'[i] \in Value
  BY <1>1, <1>4 DEF IInv, ReadsWhatWasPushed
<1>7. IInv'
  BY <1>2, <1>3, <1>6 DEF IInv, ReadsWhatWasPushed
<1>8. Contents' \in Seq(Value) /\ Len(Contents') = sz - k
  <2>1. sz' \in Nat /\ Contents' \in [1..sz' -> Value]
    BY <1>1, <1>2, <1>6 DEF Contents
  <2>. QED
    BY <1>2, <2>1
<1>9. Contents' = S!Popped(Contents, k)
  <2>1. CASE k < sz
    <3>1. \A i \in 1..sz - k : Contents[i] \in Value
      BY <1>1 DEF IInv, ReadsWhatWasPushed
    <3>. DEFINE kept == SubSeq(Contents, 1, sz - k)
    <3>2. /\ kept \in Seq(Value) /\ Len(kept) = sz - k
          /\ \A i \in 1..sz - k : kept[i] = Contents[i]
      BY <1>1, <2>1, <3>1, SubSeqProperties
    <3>. HIDE DEF kept
    <3>3. Contents' = kept
      BY <1>4, <1>8, <3>2, SeqEqual
    <3>. QED
      BY <1>5, <2>1, <3>3 DEF kept, S!Popped
  <2>2. CASE k = sz
    <3>1. Contents' = << >>
      BY <1>1, <1>8, <2>2
    <3>. QED
      BY <1>1, <1>5, <2>2, <3>1 DEF S!Popped
  <2>. QED
    BY <1>1, <2>1, <2>2
<1>. QED
  BY <1>5, <1>7, <1>9

LEMMA ResizeEffect ==
  ASSUME IInv, NEW s \in 0..MaxCapacity, Resize(s)
  PROVE  /\ IInv'
         /\ intact' => /\ Contents' = Contents /\ intact
                       /\ cap' \in Nat \ {0} /\ Len(Contents) <= cap'
<1>1. /\ cap \in 0..MaxCapacity /\ sz \in 0..cap /\ i_end \in 0..MaxCapacity
      /\ MaxCapacity \in Nat
      /\ \A p \in 0..cap - 1 : v[p] \in Value \cup {Any}
  BY CircularStackAssumption DEF IInv, TypeOK
<1>2. TypeOK'
  <2>1. v' \in [0..s - 1 -> Value \cup {Any}]
    BY <1>1 DEF Resize, Cell
  <2>2. intact' \in BOOLEAN /\ (intact' => i_end' < s)
    BY DEF IInv, TypeOK, Resize, StaysWithin
  <2>. QED
    BY <1>1, <2>1, <2>2 DEF TypeOK, Resize
<1>3. ASSUME intact'
      PROVE  /\ Contents' = Contents /\ intact /\ ReadsWhatWasPushed'
             /\ cap' \in Nat \ {0} /\ Len(Contents) <= cap'
  <2>1. intact /\ sz <= i_end /\ i_end < s /\ cap' = s /\ sz' = sz /\ i_end' = i_end
    <3>1. intact /\ StaysWithin(s)
      BY Zenon, <1>3 DEF Resize
    <3>. QED
      BY <1>1, <3>1 DEF Resize, StaysWithin
  <2>2. ASSUME NEW i \in 1..sz PROVE Contents'[i] = Contents[i]
    <3>0. i_end < cap
      BY <2>1 DEF IInv, TypeOK
    <3>1. Place(i)' = Place(i) /\ Place(i) \in 0..cap - 1 /\ Place(i) \in 0..s - 1
      BY <1>1, <2>1, <3>0 DEF Place, diff
    <3>2. Contents'[i] = v'[Place(i)'] /\ v'[Place(i)] = v[Place(i)]
      BY <2>1, <3>1 DEF Contents, At, Cell, Place, Resize
    <3>3. Contents[i] = v[Place(i)]
      BY <3>0, PlaceInArray DEF IInv
    <3>. QED
      BY <3>1, <3>2, <3>3
  <2>3. Contents' = Contents
    BY <2>1, <2>2 DEF Contents
  <2>4. Len(Contents) = sz
    BY <2>1, ContentsIsSeq
  <2>. QED
    BY <1>1, <2>1, <2>3, <2>4 DEF IInv, ReadsWhatWasPushed
<1>4. ReadsWhatWasPushed'
  BY <1>3 DEF ReadsWhatWasPushed
<1>. QED
  BY <1>2, <1>3, <1>4 DEF IInv
-----------------------------------------------------------------------------
LEMMA Unintact ==
  ASSUME IInv, ~intact, [Next]_vars
  PROVE  TypeOK' /\ ~intact'
<1>. USE CircularStackAssumption DEF IInv, TypeOK
<1>1. ASSUME NEW t \in Value, Push(t) PROVE TypeOK' /\ ~intact'
  <2>1. cap' = cap /\ cap \in 1..MaxCapacity /\ intact' = intact
    BY <1>1 DEF Push
  <2>2. v' \in [0..cap - 1 -> Value \cup {Any}]
    BY <1>1 DEF Push
  <2>3. i_end' \in 0..cap - 1
    BY <1>1, <2>1 DEF Push
  <2>4. sz' \in 0..cap
    BY <1>1, <2>1 DEF Push
  <2>. QED
    BY <2>1, <2>2, <2>3, <2>4
<1>2. ASSUME NEW n \in 0..MaxCapacity + 1, Pop(n) PROVE TypeOK' /\ ~intact'
  <2>1. cap' = cap /\ cap \in 1..MaxCapacity /\ intact' = intact /\ v' = v
    BY <1>2 DEF Pop
  <2>2. sz' \in 0..cap
    BY <1>2, <2>1 DEF Pop
  <2>3. i_end' \in 0..cap - 1
    BY <1>2, <2>1 DEF Pop
  <2>. QED
    BY <2>1, <2>2, <2>3
<1>3. ASSUME NEW s \in 0..MaxCapacity, Resize(s) PROVE TypeOK' /\ ~intact'
  BY Zenon, <1>3, ResizeEffect DEF Resize
<1>4. CASE UNCHANGED vars
  BY <1>4 DEF vars
<1>. QED
  BY <1>1, <1>2, <1>3, <1>4 DEF Next

(* The indices and cells are what they should be, and no cell that was      *)
(* never written counts as an element (circular_stack.h:147-195).           *)
THEOREM StackInvariance == Spec => []IInv
<1>1. Init => IInv
  BY CircularStackAssumption DEF Init, IInv, TypeOK, ReadsWhatWasPushed
<1>2. IInv /\ [Next]_vars => IInv'
  <2>. SUFFICES ASSUME IInv, [Next]_vars PROVE IInv'
    OBVIOUS
  <2>1. CASE ~intact
    BY <2>1, Unintact DEF IInv, ReadsWhatWasPushed
  <2>2. ASSUME intact, NEW t \in Value, Push(t) PROVE IInv'
    BY <2>2, PushEffect
  <2>3. ASSUME intact, NEW n \in 0..MaxCapacity + 1, Pop(n) PROVE IInv'
    BY <2>3, PopEffect
  <2>4. ASSUME NEW s \in 0..MaxCapacity, Resize(s) PROVE IInv'
    BY <2>4, ResizeEffect
  <2>5. CASE UNCHANGED vars
    BY <2>5 DEF vars, IInv, TypeOK, ReadsWhatWasPushed, Contents, At, Cell, diff
  <2>. QED
    BY <2>1, <2>2, <2>3, <2>4, <2>5 DEF Next
<1>. QED
  BY <1>1, <1>2, PTL DEF Spec

(* Types, from the invariant (circular_stack.h:94-102).                     *)
THEOREM StackTypeCorrect == Spec => []TypeOK
<1>1. IInv => TypeOK
  BY DEF IInv
<1>. QED
  BY <1>1, StackInvariance, PTL

(* What is read was pushed, while no resize moved the elements' places      *)
(* (circular_stack.h:176-229).                                              *)
THEOREM ReadsArePushes == Spec => []ReadsWhatWasPushed
<1>1. IInv => ReadsWhatWasPushed
  BY DEF IInv
<1>. QED
  BY <1>1, StackInvariance, PTL

(* The circular stack implements the bounded stack: a push adds the newest  *)
(* element and forgets the oldest of a full stack, a pop removes the newest *)
(* (circular_stack.h:169-195).                                              *)
THEOREM StackIsImplemented == Spec => ImplementsStack
<1>1. Init => S!Init
  BY CircularStackAssumption DEF Init, S!Init, Contents
<1>2. IInv /\ [Next]_vars => [S!Next]_(S!vars)
  <2>. SUFFICES ASSUME IInv, [Next]_vars PROVE [S!Next]_(S!vars)
    OBVIOUS
  <2>1. CASE ~intact
    BY <2>1, Unintact DEF S!Next, S!Unspecified, TypeOK
  <2>2. ASSUME intact, NEW t \in Value, Push(t) PROVE S!Next
    BY <2>2, PushEffect DEF Push, S!Next, S!Push
  <2>3. ASSUME intact, NEW n \in 0..MaxCapacity + 1, Pop(n) PROVE S!Next
    <3>1. n \in Nat
      BY CircularStackAssumption
    <3>. QED
      BY <2>3, <3>1, PopEffect DEF Pop, S!Next, S!Pop
  <2>4. ASSUME NEW s \in 0..MaxCapacity, Resize(s) PROVE S!Next
    <3>1. CASE intact'
      <4>1. intact' = intact
        BY <2>4, <3>1, ResizeEffect DEF IInv, TypeOK
      <4>. QED
        BY <2>4, <3>1, <4>1, ResizeEffect DEF S!Next, S!Resize
    <3>2. CASE ~intact'
      <4>1. TypeOK'
        BY <2>4, ResizeEffect DEF IInv
      <4>. QED
        BY <3>2, <4>1 DEF S!Next, S!Unspecified, TypeOK
    <3>. QED
      BY <3>1, <3>2
  <2>5. CASE UNCHANGED vars
    BY <2>5 DEF vars, S!vars, Contents, At, Cell, diff
  <2>. QED
    BY <2>1, <2>2, <2>3, <2>4, <2>5 DEF Next
<1>. QED
  BY <1>1, <1>2, StackInvariance, PTL DEF Spec, ImplementsStack, S!Spec
-----------------------------------------------------------------------------
(* The positions of the iterator, as pos_inc gives them...                  *)
Positions(at) ==
  at = [n \in 0..cap |-> IF n = 0 THEN start
                         ELSE IF at[n - 1] = cap THEN cap
                         ELSE pos_inc(at[n - 1])]

(* ... and as they are: one after the other from start to the last index.   *)
Visited(n) == IF n = 0 \/ start + n < sz THEN start + n ELSE cap

LEMMA NextVisited ==
  ASSUME TypeOK, i_end < cap, NEW n \in 1..cap
  PROVE  Visited(n) = IF Visited(n - 1) = cap THEN cap ELSE pos_inc(Visited(n - 1))
<1>1. /\ cap \in Nat \ {0} /\ sz \in 0..cap /\ i_end \in 0..cap - 1
      /\ start \in 0..cap - 1
  BY CircularStackAssumption DEF TypeOK, start, diff
<1>. HIDE DEF start
<1>2. CASE Visited(n - 1) = cap
  BY <1>1, <1>2 DEF Visited
<1>3. CASE Visited(n - 1) # cap
  <2>1. Visited(n - 1) = start + n - 1
    BY <1>1, <1>3 DEF Visited
  <2>2. CASE start + n < sz
    <3>. DEFINE x == start + n
    <3>1. x \in Nat /\ x < cap
      BY <1>1, <2>2
    <3>. HIDE DEF x
    <3>2. x % cap = x
      BY <1>1, <3>1, ModOnce
    <3>3. start + n - 1 + 1 = x /\ x < sz
      BY <1>1, <2>2 DEF x
    <3>. QED
      BY <1>1, <1>3, <2>1, <3>2, <3>3 DEF Visited, pos_inc, x
  <2>3. CASE ~(start + n < sz)
    BY <1>1, <1>3, <2>1, <2>3 DEF Visited, pos_inc
  <2>. QED
    BY <2>2, <2>3
<1>. QED
  BY <1>2, <1>3

LEMMA LoopVisits ==
  ASSUME TypeOK, i_end < cap
  PROVE  \E at : /\ at = [n \in 0..cap |-> Visited(n)]
                 /\ Loop = LET turns == {n \in 0..cap : at[n] # cap}
                           IN  [n \in {m + 1 : m \in turns} |->
                                  IF at[n - 1] < sz THEN At(at[n - 1])
                                  ELSE "throws"]
<1>1. cap \in Nat \ {0} /\ start \in Nat
  BY CircularStackAssumption DEF TypeOK, start, diff
<1>2. Visited(0) = start
  BY <1>1 DEF Visited
<1>. DEFINE at == CHOOSE at : Positions(at)
            vis == [n \in 0..cap |-> Visited(n)]
<1>3. Positions(vis)
  <2>1. ASSUME NEW n \in 0..cap
        PROVE  vis[n] = IF n = 0 THEN start
                        ELSE IF vis[n - 1] = cap THEN cap
                        ELSE pos_inc(vis[n - 1])
    <3>1. CASE n = 0
      BY <1>1, <1>2, <3>1
    <3>2. CASE n # 0
      <4>1. n \in 1..cap /\ n - 1 \in 0..cap
        BY <1>1, <3>2
      <4>. QED
        BY <3>2, <4>1, NextVisited
    <3>. QED
      BY <3>1, <3>2
  <2>. QED
    BY <2>1 DEF Positions
<1>4. Positions(at)
  BY <1>3
<1>5. at = vis
  <2>. HIDE DEF at
  <2>. DEFINE T == {n \in Nat : n <= cap => at[n] = Visited(n)}
  <2>0. TypeOK /\ i_end < cap
    OBVIOUS
  <2>1. 0 \in T
    BY <1>1, <1>2, <1>4 DEF Positions
  <2>2. ASSUME NEW n \in Nat, n \in T PROVE n + 1 \in T
    <3>1. CASE n + 1 <= cap
      <4>. DEFINE k == n + 1
      <4>1. k \in 1..cap /\ k - 1 = n /\ at[n] = Visited(n)
        BY <1>1, <2>2, <3>1
      <4>. HIDE DEF k
      <4>2. at[k] = IF at[k - 1] = cap THEN cap ELSE pos_inc(at[k - 1])
        BY <1>1, <1>4, <4>1 DEF Positions
      <4>3. Visited(k) = IF Visited(k - 1) = cap THEN cap
                         ELSE pos_inc(Visited(k - 1))
        BY <2>0, <4>1, NextVisited
      <4>. QED
        BY <4>1, <4>2, <4>3 DEF k
    <3>. QED
      BY <3>1
  <2>. HIDE DEF T
  <2>3. Nat \subseteq T
    BY <2>1, <2>2, NatInduct
  <2>4. \A n \in 0..cap : at[n] = Visited(n)
    BY <1>1, <2>3 DEF T
  <2>5. at = [n \in 0..cap |-> at[n]]
    BY <1>4 DEF Positions
  <2>. QED
    BY <2>4, <2>5
<1>6. Loop = LET turns == {n \in 0..cap : at[n] # cap}
             IN  [n \in {m + 1 : m \in turns} |->
                    IF at[n - 1] < sz THEN At(at[n - 1]) ELSE "throws"]
  BY Zenon DEF Loop, Positions
<1>. QED
  BY <1>5, <1>6

(* A loop over an unresized stack visits the newest elements only, for      *)
(* every capacity (circular_stack.h:231-283).                               *)
THEOREM LoopsAreNewest == Spec => []LoopIsNewest
<1>1. IInv => LoopIsNewest
  <2>. SUFFICES ASSUME IInv, intact
                PROVE  Loop = IF start < sz THEN SubSeq(Contents, start + 1, sz)
                              ELSE <<"throws">>
    BY DEF LoopIsNewest
  <2>1. /\ cap \in Nat \ {0} /\ sz \in 0..cap /\ i_end \in 0..cap - 1
        /\ start \in 0..cap - 1 /\ i_end < cap /\ TypeOK
    BY CircularStackAssumption DEF IInv, TypeOK, start, diff
  <2>2. PICK at : /\ at = [n \in 0..cap |-> Visited(n)]
                  /\ Loop = LET turns == {n \in 0..cap : at[n] # cap}
                            IN  [n \in {m + 1 : m \in turns} |->
                                   IF at[n - 1] < sz THEN At(at[n - 1])
                                   ELSE "throws"]
    BY <2>1, LoopVisits
  <2>. DEFINE turns == {n \in 0..cap : at[n] # cap}
              After == {m + 1 : m \in turns}
  <2>3. CASE start < sz
    <3>1. turns = 0..sz - start - 1
      BY <2>1, <2>2, <2>3 DEF Visited
    <3>2. After = 1..sz - start
      <4>1. \A n \in 1..sz - start : n - 1 \in turns /\ n = (n - 1) + 1
        BY <2>1, <3>1
      <4>2. \A m \in turns : m + 1 \in 1..sz - start
        BY <2>1, <3>1
      <4>. HIDE DEF turns
      <4>. QED
        BY <4>1, <4>2
    <3>3. ASSUME NEW n \in 1..sz - start
          PROVE  (IF at[n - 1] < sz THEN At(at[n - 1]) ELSE "throws")
                   = Contents[start + n]
      <4>1. at[n - 1] = start + n - 1
        BY <2>1, <2>2, <2>3 DEF Visited
      <4>. DEFINE j == start + n
      <4>2. j \in 1..sz /\ j - 1 < sz /\ at[n - 1] = j - 1
        BY <2>1, <2>3, <4>1
      <4>. HIDE DEF j
      <4>3. Contents[j] = At(j - 1)
        BY <4>2 DEF Contents
      <4>. QED
        BY <4>2, <4>3 DEF j
    <3>. DEFINE tail == [n \in 1..sz - start |-> Contents[start + n]]
    <3>4. Loop = tail
      <4>. HIDE DEF After
      <4>1. Loop = [n \in After |->
                      IF at[n - 1] < sz THEN At(at[n - 1]) ELSE "throws"]
        BY <2>2 DEF After
      <4>. QED
        BY <3>2, <3>3, <4>1
    <3>5. SubSeq(Contents, start + 1, sz) = tail
      <4>1. Contents \in Seq(Value) /\ Len(Contents) = sz
        BY ContentsIsSeq
      <4>. HIDE DEF start
      <4>. QED
        BY <2>1, <2>3, <4>1
    <3>. QED
      BY <2>3, <3>4, <3>5
  <2>4. CASE ~(start < sz)
    <3>1. turns = {0}
      BY <2>1, <2>2, <2>4 DEF Visited
    <3>2. at[0] = start
      BY <2>1, <2>2 DEF Visited
    <3>3. Loop = [n \in {1} |-> "throws"]
      <4>1. After = {1}
        BY <3>1
      <4>. HIDE DEF After
      <4>2. Loop = [n \in After |->
                      IF at[n - 1] < sz THEN At(at[n - 1]) ELSE "throws"]
        BY <2>2 DEF After
      <4>. QED
        BY <2>4, <3>2, <4>1, <4>2
    <3>. QED
      BY <2>4, <3>3
  <2>. QED
    BY <2>3, <2>4
<1>. QED
  BY <1>1, StackInvariance, PTL
=============================================================================
