---------------------------- MODULE MCSessions ----------------------------
(* Sessions with three calls of the user service, two addresses, two       *)
(* usernames and two codes, one user who has signed up before, one request *)
(* and two sockets.  No property is about liveness; calls are alike, codes *)
(* are, and so are sockets.                                                *)
EXTENDS Sessions, TLC

CONSTANTS e1, n1, p1

MCAccounts ==
  {{[username |-> n1, email |-> e1, password |-> p1, verified |-> FALSE]}}

MCSymmetry == Permutations(Calls) \cup Permutations(Codes) \cup Permutations(Sockets)
==========================================================================
