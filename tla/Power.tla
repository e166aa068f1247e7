------------------------------- MODULE Power --------------------------------
(***************************************************************************)
(* Powers, as the loops of the code build them: a product that is one at   *)
(* first and is multiplied n times by b (div_ in the constructor of        *)
(* src/ametsuchi/currency.cc, cap in include/ametsuchi/merkle_tree/        *)
(* narrow_merkle_tree.h).                                                  *)
(***************************************************************************)
EXTENDS Integers

power(b, n) ==
  LET product[k \in 0..n] == IF k = 0 THEN 1 ELSE b * product[k - 1]
  IN  product[n]
=============================================================================
