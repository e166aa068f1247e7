--------------------------- MODULE CircularStack ----------------------------
(***************************************************************************)
(* The class CircularStack (include/ametsuchi/merkle_tree/                 *)
(* circular_stack.h): a bounded stack in an array that is used in a        *)
(* circle, and its iterator, which passes array positions where indices    *)
(* from the oldest element are expected.                                   *)
(*                                                                         *)
(* A cell that malloc or realloc has just given, and memory past the       *)
(* array, holds Any: whatever is there.                                    *)
(***************************************************************************)
EXTENDS Integers, Sequences

CONSTANTS
  Value,         \* the elements
  Any,           \* what memory that was not written may hold
  MaxCapacity    \* bound: the arguments of the constructor and of resize

ASSUME CircularStackAssumption == MaxCapacity \in Nat \ {0} /\ Any \notin Value

VARIABLES
  v,        \* the array
  cap,      \* its length
  sz,       \* elements stored
  i_end,    \* the position after the last element
  intact    \* history: every resize found the elements where they could stay

vars == <<v, cap, sz, i_end, intact>>

(* Mutant of diff: the wrap-around is missed when p = n.                    *)
diff_WrapsLate(p, n) == IF p <= n THEN p + cap - n ELSE p - n

(* The position n before p.                                                 *)
diff(p, n) == IF p < n THEN p + cap - n ELSE p - n

start == diff(i_end, sz)

(* The memory at position p.                                                *)
Cell(p) == IF p \in 0..cap - 1 THEN v[p] ELSE Any

(* operator[], for s < sz; it throws for the others.                        *)
At(s) == Cell(diff(i_end, sz - s))

(* The elements, the oldest first.                                          *)
Contents == [i \in 1..sz |-> At(i - 1)]

(* A constructor that returns.                                              *)
Init ==
  /\ cap \in 1..MaxCapacity
  /\ v = [p \in 0..cap - 1 |-> Any]
  /\ sz = 0
  /\ i_end = 0
  /\ intact = TRUE

(* Mutant of Push: the position does not go round.                          *)
Push_Straight(t) ==
  /\ cap > 0
  /\ v' = [p \in 0..cap - 1 |-> IF p = i_end THEN t ELSE v[p]]
  /\ i_end' = IF i_end + 1 < cap THEN i_end + 1 ELSE i_end
  /\ sz' = IF sz < cap THEN sz + 1 ELSE sz
  /\ UNCHANGED <<cap, intact>>

(* push.  Without capacity, % 0 ends the process.  A position past the      *)
(* array is written outside of it.                                          *)
Push(t) ==
  /\ cap > 0
  /\ v' = [p \in 0..cap - 1 |-> IF p = i_end THEN t ELSE v[p]]
  /\ i_end' = (i_end + 1) % cap
  /\ sz' = IF sz < cap THEN sz + 1 ELSE sz
  /\ UNCHANGED <<cap, intact>>

(* pop: as many as there are, of n.                                         *)
Pop(n) ==
  /\ cap > 0
  /\ LET removed == IF n < sz THEN n ELSE sz
     IN  /\ sz' = sz - removed
         /\ i_end' = (i_end + cap - removed) % cap
  /\ UNCHANGED <<v, cap, intact>>

(* Mutant of StaysWithin: the end may lie at s.                             *)
StaysWithin_AtEnd(s) == sz <= i_end /\ i_end <= s

(* The elements lie in one piece that ends before position s.               *)
StaysWithin(s) == sz <= i_end /\ i_end < s

(* resize: realloc keeps the cells at their positions, and i_end stays.     *)
Resize(s) ==
  /\ cap' = s
  /\ sz' = IF sz < s THEN sz ELSE s
  /\ v' = [p \in 0..s - 1 |-> Cell(p)]
  /\ intact' = (intact /\ StaysWithin(s))
  /\ UNCHANGED i_end

Next ==
  \/ \E t \in Value : Push(t)
  \/ \E n \in 0..MaxCapacity + 1 : Pop(n)
  \/ \E s \in 0..MaxCapacity : Resize(s)

Spec == Init /\ [][Next]_vars
-----------------------------------------------------------------------------
(* Mutant of pos_inc: the last index is not the end.                        *)
pos_inc_Late(pos) == IF pos > sz THEN cap ELSE (pos + 1) % cap

(* ForwardIter::pos_inc(1): an iterator at or past the last index becomes   *)
(* end(), which is the capacity.                                            *)
pos_inc(pos) == IF pos + 1 >= sz THEN cap ELSE (pos + 1) % cap

(* What a loop from begin() to end() reads with operator*, which hands the  *)
(* position to operator[]; "throws" for an index that operator[] refuses.   *)
Loop ==
  LET at[n \in 0..cap] == IF n = 0 THEN start
                          ELSE IF at[n - 1] = cap THEN cap
                          ELSE pos_inc(at[n - 1])
      turns == {n \in 0..cap : at[n] # cap}
  IN  [n \in {m + 1 : m \in turns} |->
         IF at[n - 1] < sz THEN At(at[n - 1]) ELSE "throws"]
-----------------------------------------------------------------------------
TypeOK ==
  /\ cap \in 0..MaxCapacity
  /\ v \in [0..cap - 1 -> Value \cup {Any}]
  /\ sz \in 0..cap
  /\ i_end \in 0..MaxCapacity
  /\ intact \in BOOLEAN
  /\ intact => i_end < cap

(* While no resize moved the elements' places apart, every element that is  *)
(* counted was pushed: no cell that was never written is read, however      *)
(* pushes and pops go round the array (circular_stack.h:177-229).           *)
ReadsWhatWasPushed == intact => \A i \in 1..sz : Contents[i] \in Value

(* A loop over the elements leaves out the oldest ones, one for each        *)
(* position before the oldest, and ends with the newest; when there are no  *)
(* more elements than that, or none at all, its first access throws         *)
(* (circular_stack.h:231-283).  It visits all elements only if the oldest   *)
(* is in the first cell.                                                    *)
LoopIsNewest ==
  intact => Loop = IF start < sz THEN SubSeq(Contents, start + 1, sz)
                   ELSE <<"throws">>

(* The array is a bounded stack: its elements, seen from the oldest, change *)
(* as those of a stack that forgets its oldest element, as long as resize   *)
(* finds them where they can stay.                                          *)
S == INSTANCE BoundedStack WITH
       stack <- Contents, capacity <- cap, specified <- intact

ImplementsStack == S!Spec
=============================================================================
