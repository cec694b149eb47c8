--------------------------- MODULE WalletLedger ---------------------------
(***************************************************************************)
(* What the wallet service promises to the services that use it: the table *)
(* of wallets changes one row at a time, and a change either opens an      *)
(* empty row, adds to the balance, or reserves a part of what the row has  *)
(* available.  Nothing that an earlier change recorded is ever lost.       *)
(*                                                                         *)
(* WalletService implements this specification; Payments and OrderSaga use *)
(* its actions as the remote end of their calls.                           *)
(***************************************************************************)
EXTENDS Funds

CONSTANTS Users,      \* the users' ids
          Currencies, \* the currencies a wallet can be in
          WalletIds,  \* the ids of wallet rows
          NoWallet    \* the value of an id with no row

VARIABLE wallets      \* the committed rows of the table "wallet"

Wallet == [userId : Users, currency : Currencies, balance : Nat, locked : Nat]

TypeOK == wallets \in [WalletIds -> Wallet \cup {NoWallet}]

Exists(i) == wallets[i] # NoWallet

BelongsTo(i, u, k) == wallets[i].userId = u /\ wallets[i].currency = k

\* The row a change starts from: the row with this id, or a new one.
Before(i, u, k) == IF Exists(i) THEN wallets[i] ELSE Opened(u, k)

Usable(i, u, k) == Exists(i) => BelongsTo(i, u, k)

Init == wallets = [i \in WalletIds |-> NoWallet]

Open(i, u, k) ==
  /\ ~Exists(i)
  /\ wallets' = [wallets EXCEPT ![i] = Opened(u, k)]

\* Add n units to the balance, and store what is left of that as a double.
Credit(i, u, k, n) ==
  /\ Usable(i, u, k)
  /\ wallets' = [wallets EXCEPT ![i] =
                   [Before(i, u, k) EXCEPT !.balance = ToNumber((@ + n) * Whole)]]

\* Reserve x parts of a unit of what is available, and store likewise.
Reserve(i, u, k, x) ==
  /\ Usable(i, u, k)
  /\ x <= Available(Before(i, u, k)) * Whole
  /\ wallets' = [wallets EXCEPT ![i] =
                   [Before(i, u, k) EXCEPT !.locked = ToNumber(@ * Whole + x)]]

(* The amounts are bounded by the row, so that TLC can decide whether a    *)
(* given step is one of these.                                             *)
Change(i, u, k) ==
  \/ Open(i, u, k)
  \/ /\ wallets'[i] # NoWallet
     /\ \/ \E n \in 0 .. wallets'[i].balance + Spacing : Credit(i, u, k, n)
        \/ \E x \in 0 .. Available(Before(i, u, k)) * Whole : Reserve(i, u, k, x)

Next == \E i \in WalletIds, u \in Users, k \in Currencies : Change(i, u, k)

Spec == Init /\ [][Next]_wallets

==========================================================================
