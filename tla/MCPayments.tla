---------------------------- MODULE MCPayments ----------------------------
(* Payments with two deposits, of the same or of different users, and      *)
(* three callbacks, so that two of them can race and a third come later.   *)
EXTENDS Payments

MCAmounts == {3}
==========================================================================
