------------------------------- MODULE Ledger -------------------------------
(***************************************************************************)
(* What the database promises of the ledger (include/ametsuchi/            *)
(* ametsuchi.h:50-82): a log that only grows at its end, of which a        *)
(* checkpoint is kept; what was appended since the checkpoint may be       *)
(* forgotten, what is in the checkpoint never.                             *)
(***************************************************************************)
EXTENDS Sequences

CONSTANT Transaction

VARIABLES current, checkpoint

vars == <<current, checkpoint>>

Init == current = << >> /\ checkpoint = << >>

AppendTx(tx) ==
  /\ current' = Append(current, tx)
  /\ UNCHANGED checkpoint

Commit ==
  /\ checkpoint' = current
  /\ UNCHANGED current

Discard ==
  /\ current' = checkpoint
  /\ UNCHANGED checkpoint

Next == (\E tx \in Transaction : AppendTx(tx)) \/ Commit \/ Discard

Spec == Init /\ [][Next]_vars
=============================================================================
