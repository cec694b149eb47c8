---------------------------- MODULE MCOrderSaga ----------------------------
(* OrderSaga with three orders of one user, who has 20 units of USD.       *)
EXTENDS OrderSaga

\* Half: of twenty, of the ten that are left, and of five, which is no whole
\* number and makes what is locked pass Exact.
MCPercents == {1}

MCCurrencies == {USD, "BTC"}
==========================================================================
