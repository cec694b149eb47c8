--------------------------- MODULE MCGatewayFeed ---------------------------
(* GatewayFeed with three streams of two sockets on two channels, and three *)
(* clients of two connections each.                                         *)
EXTENDS GatewayFeed, TLC

CONSTANTS k1, k2, s1, s2, s3

MCSocketOf == s1 :> k1 @@ s2 :> k1 @@ s3 :> k2
==========================================================================
