---------------------------- MODULE BoundedStack ----------------------------
(***************************************************************************)
(* What a CircularStack (include/ametsuchi/merkle_tree/circular_stack.h)   *)
(* promises, without its indices: a bounded stack.  Once specified is      *)
(* FALSE, nothing is promised any more.                                    *)
(***************************************************************************)
EXTENDS StackOps

CONSTANT Value   \* the elements

VARIABLES stack, capacity, specified

vars == <<stack, capacity, specified>>

Init ==
  /\ stack = << >>
  /\ capacity \in Nat \ {0}
  /\ specified = TRUE

Push(t) ==
  /\ specified
  /\ stack' = Pushed(stack, t, capacity)
  /\ UNCHANGED <<capacity, specified>>

Pop ==
  /\ \E n \in 0..Len(stack) : stack' = Popped(stack, n)
  /\ UNCHANGED <<capacity, specified>>

(* Room for another number of elements, in which those there are have room. *)
Resize ==
  /\ capacity' \in Nat \ {0}
  /\ Len(stack) <= capacity'
  /\ UNCHANGED <<stack, specified>>

Unspecified == specified' = FALSE

Next ==
  \/ Unspecified
  \/ \E t \in Value : Push(t)
  \/ Pop
  \/ Resize

Spec == Init /\ [][Next]_vars
=============================================================================
