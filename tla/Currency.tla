------------------------------ MODULE Currency ------------------------------
(***************************************************************************)
(* The class Currency of src/ametsuchi/currency.cc: a fixed-point number   *)
(* held as a uint64_t amount and the number of its decimals.  The          *)
(* operators work on any record with these two fields, as the code works   *)
(* on the two fields of the flatbuffer.                                    *)
(***************************************************************************)
EXTENDS Power

CONSTANTS
  Word,          \* number of values of the amount's type: 2^64 in the code
  MaxPrecision   \* AMETSUCHI_MAX_PRECISION: 18 in the code

ASSUME CurrencyAssumption == Word \in Nat \ {0} /\ MaxPrecision \in Nat

Amount == 0 .. Word - 1

(* The constructor throws std::bad_alloc otherwise. *)
Constructible(c) == c.precision <= MaxPrecision

integer(c) == c.amount \div power(10, c.precision)

fractional(c) == c.amount % power(10, c.precision)

(* Mutant of Less: the fractional parts are not looked at.                  *)
Less_WholeUnits(a, b) == integer(a) < integer(b)

(* operator<: the two integer parts first, then the two raw fractional      *)
(* parts, whatever their numbers of decimals.                               *)
Less(a, b) ==
  \/ integer(a) < integer(b)
  \/ integer(a) = integer(b) /\ fractional(a) < fractional(b)

(* Mutants of Plus and Minus: the result is not taken modulo the word.      *)
Plus_Wide(a, b) ==
  [amount |-> a.amount + b.amount, precision |-> a.precision]

Minus_Signed(a, b) ==
  [amount |-> a.amount - b.amount, precision |-> a.precision]

(* operator+ and operator-: unsigned arithmetic on the raw amounts, the     *)
(* precision of the left operand.                                           *)
Plus(a, b) ==
  [amount |-> (a.amount + b.amount) % Word, precision |-> a.precision]

Minus(a, b) ==
  [amount |-> (a.amount - b.amount) % Word, precision |-> a.precision]
=============================================================================
