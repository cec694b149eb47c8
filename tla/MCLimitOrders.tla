--------------------------- MODULE MCLimitOrders ---------------------------
(* LimitOrders with two orders and a charge of one user, and two workers.  *)
EXTENDS LimitOrders, TLC

CONSTANTS u1, o1, o2, w1, w2

MCPrices == {1, 2}

MCPercents == {1}

MCFunding == USD :> 12 @@ Coin :> 12

MCCharge == <<[userId |-> u1, amount |-> 3]>>

Wants(s, p) == [userId |-> u1, side |-> s, price |-> p, percent |-> 1]

(* The orders lock one row at one price or at two, or two rows; two sales   *)
(* lock as two purchases do.                                                *)
MCRequests ==
  {o1 :> Wants("BUY", 2) @@ o2 :> b :
     b \in {Wants("BUY", 2), Wants("SELL", 2), Wants("BUY", 1)}}
===========================================================================
