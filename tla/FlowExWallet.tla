---------------------------- MODULE FlowExWallet ----------------------------
(***************************************************************************)
(* The wallet table of apps/FlowEx, written by two services: chargeWallet  *)
(* of modules/wallet/wallet.service.ts, which takes no row lock, and       *)
(* lockUsdForBuy and lockCryptoForSell of modules/order, which do.         *)
(*                                                                         *)
(* A reservation is the lockFunds of WalletService, but for the answer to  *)
(* a user with no funds, and the steps of that module are used as they     *)
(* are.  A charge reads without a lock, and its save is TypeORM's: it      *)
(* selects the row again, and updates the columns in which the entity      *)
(* differs from it.  The update waits for the row's lock, as any does.     *)
(***************************************************************************)
EXTENDS Funds, FiniteSets, Functions

CONSTANTS Users, Currencies, Calls, Credits, Percents, NoWallet, NoCall
                   \* as in WalletService

VARIABLES wallets, lock, pc, req, cur, todo, entity, moved, reply, \* as there
          diff,      \* the columns a charge will update, once it has compared
          overlapped \* the rows some call changed while a charge held a copy

service == <<wallets, lock, pc, req, cur, todo, entity, moved, reply>>
vars == <<service, diff, overlapped>>

Service == INSTANCE WalletService

ASSUME FlowExAssumption ==
  /\ USD \in Currencies
  /\ Credits \subseteq Nat
  /\ Percents \subseteq Int /\ \A p \in Percents : ValidPercent(p)
  /\ NoWallet \notin Service!Wallet
  /\ NoCall \notin Calls

Columns == {"balance", "locked"}

\* diff[c] is empty before the comparison, and then holds its result.
TypeOK ==
  /\ Service!TypeOK
  /\ diff \in [Calls -> SUBSET SUBSET Columns]
  /\ \A c \in Calls : \A x, y \in diff[c] : x = y
  /\ overlapped \subseteq Calls

Init ==
  /\ Service!Init
  /\ diff = [c \in Calls |-> {}]
  /\ overlapped = {}

IsCharge(c) == req[c].op = "charge"

\* Charges that have read the row i and not yet written it.
Holding(i) == {c \in Calls : IsCharge(c) /\ cur[c] = i /\ pc[c] \in {"update", "commit"}}

Overlap(c) == overlapped' = IF Holding(cur[c]) \ {c} = {} THEN overlapped
                            ELSE overlapped \cup {cur[c]}

----------------------------------------------------------------------------
(* Both services: a transaction that opens a wallet when it finds none.    *)

OpenWallet(c) ==
  /\ Service!Begin(c) \/ Service!MissWallet(c) \/ Service!InsertWallet(c)
  /\ UNCHANGED <<diff, overlapped>>

----------------------------------------------------------------------------
(* lockUsdForBuy and lockCryptoForSell.                                    *)

\* Mutant: the query builder does not set the lock.
LockWalletWithoutLock(c) ==
  /\ ~IsCharge(c) /\ Service!ScanRowsUnlocked(c)
  /\ UNCHANGED <<diff, overlapped>>

\* SELECT ... FOR UPDATE, row by row.
LockWallet(c) ==
  /\ ~IsCharge(c)
  /\ Service!ScanRows(c) \/ Service!LockRow(c) \/ Service!LockLastRow(c)
  /\ UNCHANGED <<diff, overlapped>>

ReserveShare(c) ==
  /\ Service!ReserveShare(c)
  /\ UNCHANGED <<diff, overlapped>>

\* BadRequestException: the transaction, and a wallet it opened, are undone.
RefuseReservation(c) ==
  /\ Service!Goto(c, "update", "done")
  /\ ~IsCharge(c)
  /\ ShareOf(Available(entity[c]), req[c].percent) <= 0
  /\ lock' = Service!Unlocked(c)
  /\ reply' = [reply EXCEPT ![c] = "insufficient"]
  /\ UNCHANGED <<wallets, req, cur, todo, entity, moved, diff, overlapped>>

CommitReservation(c) ==
  /\ ~IsCharge(c)
  /\ Service!Commit(c) \/ Service!CommitUnacknowledged(c)
  /\ Overlap(c)
  /\ UNCHANGED diff

----------------------------------------------------------------------------
(* chargeWallet.                                                           *)

\* findOne: no lock, and it waits for nobody.
ReadWallet(c) ==
  /\ IsCharge(c) /\ Service!ScanRowsUnlocked(c)
  /\ UNCHANGED <<diff, overlapped>>

\* Mutant: the new balance is the amount.
AddToBalanceOverwrites(c) ==
  /\ Service!AddToBalanceOverwrites(c)
  /\ UNCHANGED <<diff, overlapped>>

AddToBalance(c) ==
  /\ Service!AddToBalance(c)
  /\ UNCHANGED <<diff, overlapped>>

\* save, first part: what differs from the row as it is now.  The balance
\* always does: it is a number by now, where the row has a string.
CompareColumns(c) ==
  LET now == Service!Base(c) IN
  /\ pc[c] = "commit" /\ IsCharge(c) /\ diff[c] = {}
  /\ diff' = [diff EXCEPT ![c] =
                {{k \in Columns : k = "balance" \/ entity[c][k] # now[k]}}]
  /\ UNCHANGED <<service, overlapped>>

\* save, second part, and the commit.
WriteColumns(c) ==
  LET now == Service!Base(c)
      new(k, dirty) == IF k \in dirty THEN entity[c][k] ELSE now[k]
  IN /\ Service!Goto(c, "commit", "done")
     /\ lock[cur[c]] \in {NoCall, c}
     /\ \E dirty \in diff[c] :
          wallets' = [wallets EXCEPT ![cur[c]] =
                        [now EXCEPT !.balance = new("balance", dirty),
                                    !.locked = new("locked", dirty)]]
     /\ lock' = Service!Unlocked(c)
     /\ Overlap(c)
     /\ UNCHANGED <<req, cur, todo, entity, moved, diff>>

CommitCharge(c) == WriteColumns(c) /\ UNCHANGED reply

CommitChargeUnacknowledged(c) ==
  WriteColumns(c) /\ reply' = [reply EXCEPT ![c] = "error"]

----------------------------------------------------------------------------
Rollback(c) == Service!Rollback(c) /\ UNCHANGED <<diff, overlapped>>

Step(c) ==
  \/ OpenWallet(c)
  \/ LockWallet(c) \/ ReserveShare(c) \/ RefuseReservation(c) \/ CommitReservation(c)
  \/ ReadWallet(c) \/ AddToBalance(c) \/ CompareColumns(c) \/ CommitCharge(c)

Finished == (\A c \in Calls : pc[c] = "done") /\ UNCHANGED vars

Next ==
  \/ \E c \in Calls : Step(c) \/ CommitChargeUnacknowledged(c) \/ Rollback(c)
  \/ Finished

Spec == Init /\ [][Next]_vars

----------------------------------------------------------------------------
(* Properties.                                                             *)

Done(i, op) == {c \in Calls : pc[c] = "done" /\ cur[c] = i /\ req[c].op = op}

\* What is held is what was moved: exactly, as long as it is a double, and
\* later but for a rounding in each of so many calls.
Tallies(held, due, calls) ==
  /\ held <= due + Spacing * calls /\ due <= held + Spacing * calls
  /\ held < Exact => held = due

(* A charge or a reservation is lost, or more is locked than a wallet      *)
(* holds, only when some call changed the row between the read and the     *)
(* save of a charge.  A row that was spared that has kept its books, as    *)
(* far as toNumber() can keep them.                                        *)
LostOnlyByOverlap ==
  \A i \in Calls : Service!Exists(i) /\ i \notin overlapped =>
    /\ wallets[i].locked <= wallets[i].balance
    /\ \A op \in {"charge", "lock"} :
         Tallies(wallets[i][Service!Column(op)],
                 SumFunctionOnSet(moved, Done(i, op)), Cardinality(Done(i, op)))

(* A reservation works on the row as it is, to its commit: the charges     *)
(* that take no lock of their own still wait for its lock to write.        *)
ReservationIsCurrent ==
  \A c \in Calls : ~IsCharge(c) =>
    LET now == Service!Base(c)
        share == ShareOf(Available(now), req[c].percent)
    IN  /\ pc[c] = "update" => entity[c] = now
        /\ pc[c] = "commit" =>
             entity[c] = [now EXCEPT !.locked = ToNumber(@ * Whole + share)]

(* The wallet's entity says of lockedBalance that it is "for pending Limit *)
(* orders" (wallet.entity.ts:20): once the calls have ended it is what was *)
(* reserved for orders.  A charge that read the wallet before an order was *)
(* placed writes the old lockedBalance back.                               *)
LockedIsForPendingOrders ==
  (\A c \in Calls : pc[c] = "done") =>
    \A i \in Calls : Service!Exists(i) =>
      wallets[i].locked = SumFunctionOnSet(moved, Done(i, "lock"))
==========================================================================
