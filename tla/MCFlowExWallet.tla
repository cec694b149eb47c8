-------------------------- MODULE MCFlowExWallet --------------------------
(* FlowExWallet on four calls of one user with two currencies.             *)
EXTENDS FlowExWallet, TLC

MCCredits == {3}

\* Half of Whole.
MCPercents == {1}

MCCurrencies == {USD, "BTC"}

\* The properties checked with it are invariants, and the calls are alike.
MCSymmetry == Permutations(Calls)
==========================================================================
