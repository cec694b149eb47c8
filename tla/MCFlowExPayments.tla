------------------------- MODULE MCFlowExPayments -------------------------
(* FlowExPayments with two deposits of one user, two callbacks and one     *)
(* limit order.  The properties are invariants; deposits are alike, and so *)
(* are callbacks.                                                          *)
EXTENDS FlowExPayments, TLC

MCAmounts == {1}

\* One credit is a double; the sum of two is past Exact, and is none.
MCCredits == {5}

\* Half of Whole.
MCPercents == {1}

MCSymmetry == Permutations(Deposits) \cup Permutations(Callbacks)

MCCurrencies == {USD, "BTC"}
==========================================================================
