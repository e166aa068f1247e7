------------------------------ MODULE StackOps ------------------------------
(***************************************************************************)
(* The operations of a stack that holds at most capacity elements and      *)
(* forgets the oldest of them when one more is pushed.  The stack is a     *)
(* sequence, the oldest element first.                                     *)
(***************************************************************************)
EXTENDS Integers, Sequences

(* Mutant of Pushed: the stack holds one element more.                      *)
Pushed_Wide(stack, t, capacity) ==
  IF Len(stack) <= capacity THEN Append(stack, t)
  ELSE Append(Tail(stack), t)

(* The stack after a push of t.                                             *)
Pushed(stack, t, capacity) ==
  IF Len(stack) < capacity THEN Append(stack, t)
  ELSE Append(Tail(stack), t)

(* The stack after n pops, or as many as it has elements.                   *)
Popped(stack, n) ==
  IF n < Len(stack) THEN SubSeq(stack, 1, Len(stack) - n) ELSE << >>
=============================================================================
