--------------------------- MODULE MCCandleFeed ---------------------------
(* CandleFeed with two candles, two clients, a message of another process *)
(* and two faults.                                                         *)
EXTENDS CandleFeed
==========================================================================
