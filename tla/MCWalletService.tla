--------------------------- MODULE MCWalletService ---------------------------
(* WalletService on four calls of one user with two currencies: two that    *)
(* overlap can double a wallet, and two more can then lock its rows in      *)
(* opposite orders.                                                         *)
EXTENDS WalletService, TLC

CONSTANTS u1, c1, c2, c3, c4

\* Half of three units, or of one, is no whole number of units; rounded up,
\* half of one unit is all of it.  Three and three are past Exact, where five
\* or seven units cannot be stored.
MCCredits == {1, 3}

\* One percentage that is refused and one, half of Whole, that must round.
MCPercents == {0, 1}

MCCurrencies == {USD, "BTC"}

Charge(n) == [op |-> "charge", userId |-> u1, amount |-> n]

Lock(s, k, p) ==
  [op |-> "lock", userId |-> u1, side |-> s, currency |-> k, percent |-> p]

Half == Lock("BUY", "BTC", 1)
HalfOfCoins == Lock("SELL", "BTC", 1)
Nothing == Lock("SELL", USD, 0)

Asked(a, b, c, d) == c1 :> a @@ c2 :> b @@ c3 :> c @@ c4 :> d

(* Calls are alike, so one order of the requests stands for all.           *)
MCRequests ==
  { Asked(Charge(3), Charge(3), Charge(3), Charge(3)),
    Asked(Charge(1), Charge(3), Half, Half),
    Asked(Charge(3), Charge(3), Charge(3), Half),
    Asked(Charge(3), Charge(3), Half, Half),
    Asked(Charge(3), Half, Half, Half),
    Asked(Charge(3), Half, HalfOfCoins, HalfOfCoins),
    Asked(Charge(1), Charge(1), Half, Nothing) }

MCInit == req \in MCRequests /\ Init

MCSpec == MCInit /\ [][Next]_vars /\ Fairness
==========================================================================
