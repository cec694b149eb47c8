----------------------------- MODULE MCAuthOtp -----------------------------
(* AuthOtp with three calls, two addresses, two usernames and two codes,   *)
(* and with one user who has signed up before.                             *)
EXTENDS AuthOtp

CONSTANTS e1, n1, p1

MCAccounts ==
  {{[username |-> n1, email |-> e1, password |-> p1, verified |-> FALSE]}}
==========================================================================
