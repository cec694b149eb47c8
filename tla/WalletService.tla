--------------------------- MODULE WalletService ---------------------------
(***************************************************************************)
(* apps/wallet/src/services/wallet.service.ts: chargeWallet, lockFunds and *)
(* getOrCreateWallet, each call a database transaction at READ COMMITTED   *)
(* that takes row locks with SELECT ... FOR UPDATE.                        *)
(*                                                                         *)
(* One element of Calls is one call of chargeWallet or lockFunds.  A call  *)
(* inserts at most one row, so the id of a row is the call that inserted   *)
(* it.  What a transaction has inserted or saved and not yet committed is  *)
(* in its own "entity" and invisible to the others.                        *)
(***************************************************************************)
EXTENDS Funds, FiniteSets, Functions

CONSTANTS Users, Currencies, \* as in WalletLedger
          Calls,             \* the calls to the service
          Credits,           \* the units of USD a charge can add
          Percents,          \* the percentages lockFunds can be asked for, in
                             \* steps of which Whole are 100 percent
          NoWallet, NoCall   \* no row, and no owner of a row's lock

VARIABLES wallets, \* committed rows of the table, by the call that inserted them
          lock,    \* the call whose transaction holds the row's lock, or NoCall
          pc,      \* where each call is
          req,     \* the request each call carries
          cur,     \* the row the call's transaction waits for or works on
          todo,    \* the rows its SELECT has still to lock after that one
          entity,  \* the WalletEntity in the call's memory
          moved,   \* the units the call was to add, or says it has reserved
          reply    \* what the caller is told

vars == <<wallets, lock, pc, req, cur, todo, entity, moved, reply>>

Wallet == [userId : Users, currency : Currencies, balance : Nat, locked : Nat]

ChargeRequest == [op : {"charge"}, userId : Users, amount : Credits]

LockRequest == [op : {"lock"}, userId : Users, side : {"BUY", "SELL"},
                currency : Currencies, percent : Percents]

Request == ChargeRequest \cup LockRequest

ASSUME ConstantsAssumption ==
  /\ USD \in Currencies
  /\ Credits \subseteq Nat
  /\ Percents \subseteq Int
  /\ NoWallet \notin Wallet
  /\ NoCall \notin Calls

\* A charge goes to the USD wallet; a reservation takes the currency it sells.
CurrencyToUse(q) ==
  IF q.op = "charge" THEN USD
  ELSE IF q.side = "BUY" THEN USD ELSE q.currency

OpensTx(q) == q.op = "lock" => ValidPercent(q.percent)

Exists(i) == wallets[i] # NoWallet

HasKey(w, q) == w.userId = q.userId /\ w.currency = CurrencyToUse(q)

\* Mutant: the SELECT asks for the user's wallets in every currency.
MatchingEveryCurrency(c) ==
  {i \in Calls : Exists(i) /\ wallets[i].userId = req[c].userId}

Matching(c) == {i \in Calls : Exists(i) /\ HasKey(wallets[i], req[c])}

Unlocked(c) == [i \in Calls |-> IF lock[i] = c THEN NoCall ELSE lock[i]]

TypeOK ==
  /\ wallets \in [Calls -> Wallet \cup {NoWallet}]
  /\ lock \in [Calls -> Calls \cup {NoCall}]
  /\ pc \in [Calls -> {"idle", "select", "lock", "insert", "update", "commit", "done"}]
  /\ req \in [Calls -> Request]
  /\ cur \in [Calls -> Calls]
  /\ todo \in [Calls -> SUBSET Calls]
  /\ entity \in [Calls -> Wallet \cup {NoWallet}]
  /\ moved \in [Calls -> Nat]
  /\ reply \in [Calls -> {"none", "ok", "invalid", "insufficient", "error"}]

Init ==
  /\ wallets = [c \in Calls |-> NoWallet]
  /\ lock = [c \in Calls |-> NoCall]
  /\ pc = [c \in Calls |-> "idle"]
  /\ req \in [Calls -> Request]
  /\ cur = [c \in Calls |-> c]
  /\ todo = [c \in Calls |-> {}]
  /\ entity = [c \in Calls |-> NoWallet]
  /\ moved = [c \in Calls |-> 0]
  /\ reply = [c \in Calls |-> "none"]

----------------------------------------------------------------------------
(* The steps of one call.                                                  *)

Goto(c, from, to) == pc[c] = from /\ pc' = [pc EXCEPT ![c] = to]

RejectPercent(c) ==
  /\ Goto(c, "idle", "done")
  /\ ~OpensTx(req[c])
  /\ reply' = [reply EXCEPT ![c] = "invalid"]
  /\ UNCHANGED <<wallets, lock, req, cur, todo, entity, moved>>

Begin(c) ==
  /\ Goto(c, "idle", "select")
  /\ OpensTx(req[c])
  /\ UNCHANGED <<wallets, lock, req, cur, todo, entity, moved, reply>>

\* Mutant: no pessimistic_write lock, so the SELECT waits for nobody.
ScanRowsUnlocked(c) ==
  /\ Goto(c, "select", "update")
  /\ \E i \in Matching(c) :
       /\ cur' = [cur EXCEPT ![c] = i]
       /\ entity' = [entity EXCEPT ![c] = wallets[i]]
  /\ UNCHANGED <<wallets, lock, req, todo, moved, reply>>

(* getOrCreateWallet, SELECT ... FOR UPDATE.  The statement locks the rows *)
(* it finds one after the other, waits for each that another transaction   *)
(* holds, and keeps those it has.  There is no ORDER BY, so two statements *)
(* may take the same rows in different orders.                             *)
ScanRows(c) ==
  /\ Goto(c, "select", "lock")
  /\ \E i \in Matching(c) :
       /\ cur' = [cur EXCEPT ![c] = i]
       /\ todo' = [todo EXCEPT ![c] = Matching(c) \ {i}]
  /\ UNCHANGED <<wallets, lock, req, entity, moved, reply>>

TakeLock(c) ==
  /\ pc[c] = "lock"
  /\ lock[cur[c]] = NoCall
  /\ lock' = [lock EXCEPT ![cur[c]] = c]

LockRow(c) ==
  /\ TakeLock(c)
  /\ \E i \in todo[c] :
       /\ cur' = [cur EXCEPT ![c] = i]
       /\ todo' = [todo EXCEPT ![c] = @ \ {i}]
  /\ UNCHANGED <<wallets, pc, req, entity, moved, reply>>

\* With the last row the statement returns, and getOne takes one of the rows
\* it has locked.
LockLastRow(c) ==
  /\ TakeLock(c)
  /\ todo[c] = {}
  /\ Goto(c, "lock", "update")
  /\ \E i \in Calls :
       /\ lock'[i] = c
       /\ cur' = [cur EXCEPT ![c] = i]
       /\ entity' = [entity EXCEPT ![c] = wallets[i]]
  /\ UNCHANGED <<wallets, req, todo, moved, reply>>

\* Mutant: the SELECT skips rows that are locked.
MissWalletSkipLocked(c) ==
  /\ Goto(c, "select", "insert")
  /\ \A i \in Matching(c) : lock[i] # NoCall
  /\ UNCHANGED <<wallets, lock, req, cur, todo, entity, moved, reply>>

\* There is no row to lock: the transaction goes on to insert one.
MissWallet(c) ==
  /\ Goto(c, "select", "insert")
  /\ Matching(c) = {}
  /\ UNCHANGED <<wallets, lock, req, cur, todo, entity, moved, reply>>

InsertWallet(c) ==
  /\ Goto(c, "insert", "update")
  /\ cur' = [cur EXCEPT ![c] = c]
  /\ entity' = [entity EXCEPT ![c] =
                  Opened(req[c].userId, CurrencyToUse(req[c]))]
  /\ lock' = [lock EXCEPT ![c] = c]
  /\ UNCHANGED <<wallets, req, todo, moved, reply>>

\* Mutant: the charge replaces the balance.
AddToBalanceOverwrites(c) ==
  /\ Goto(c, "update", "commit")
  /\ req[c].op = "charge"
  /\ entity' = [entity EXCEPT ![c].balance = req[c].amount]
  /\ moved' = [moved EXCEPT ![c] = req[c].amount]
  /\ reply' = [reply EXCEPT ![c] = "ok"]
  /\ UNCHANGED <<wallets, lock, req, cur, todo>>

\* Mutant: the save goes to the database on another connection.
AddToBalanceOutsideTransaction(c) ==
  /\ Goto(c, "update", "commit")
  /\ req[c].op = "charge"
  /\ lock[cur[c]] = NoCall
  /\ entity' = [entity EXCEPT ![c].balance = ToNumber((@ + req[c].amount) * Whole)]
  /\ moved' = [moved EXCEPT ![c] = req[c].amount]
  /\ reply' = [reply EXCEPT ![c] = "ok"]
  /\ UNCHANGED <<wallets, lock, req, cur, todo>>

\* chargeWallet: add to the balance and save.
AddToBalance(c) ==
  /\ Goto(c, "update", "commit")
  /\ req[c].op = "charge"
  /\ entity' = [entity EXCEPT ![c].balance = ToNumber((@ + req[c].amount) * Whole)]
  /\ moved' = [moved EXCEPT ![c] = req[c].amount]
  /\ reply' = [reply EXCEPT ![c] = "ok"]
  /\ UNCHANGED <<wallets, lock, req, cur, todo>>

\* Mutant: the reservation is taken off the locked balance.
ReserveShareInverted(c) ==
  LET share == ShareOf(Available(entity[c]), req[c].percent) IN
  /\ Goto(c, "update", "commit")
  /\ req[c].op = "lock"
  /\ share > 0
  /\ entity' = [entity EXCEPT ![c].locked = ToNumber(@ * Whole - share)]
  /\ moved' = [moved EXCEPT ![c] = ToNumber(share)]
  /\ reply' = [reply EXCEPT ![c] = "ok"]
  /\ UNCHANGED <<wallets, lock, req, cur, todo>>

\* lockFunds: reserve the percentage of what is available, save, and answer
\* with the amount, which is rounded apart from the sum that is saved.
ReserveShare(c) ==
  LET share == ShareOf(Available(entity[c]), req[c].percent) IN
  /\ Goto(c, "update", "commit")
  /\ req[c].op = "lock"
  /\ share > 0
  /\ entity' = [entity EXCEPT ![c].locked = ToNumber(@ * Whole + share)]
  /\ moved' = [moved EXCEPT ![c] = ToNumber(share)]
  /\ reply' = [reply EXCEPT ![c] = "ok"]
  /\ UNCHANGED <<wallets, lock, req, cur, todo>>

\* lockFunds: nothing to reserve.  The transaction still commits, and with
\* it the row that getOrCreateWallet may have inserted.
RefuseShare(c) ==
  /\ Goto(c, "update", "commit")
  /\ req[c].op = "lock"
  /\ ShareOf(Available(entity[c]), req[c].percent) <= 0
  /\ reply' = [reply EXCEPT ![c] = "insufficient"]
  /\ UNCHANGED <<wallets, lock, req, cur, todo, entity, moved>>

CommitRow(c) ==
  /\ Goto(c, "commit", "done")
  /\ wallets' = [wallets EXCEPT ![cur[c]] = entity[c]]
  /\ lock' = Unlocked(c)
  /\ UNCHANGED <<req, cur, todo, entity, moved>>

Commit(c) == CommitRow(c) /\ UNCHANGED reply

(* Faults.  The connection or the process dies after the commit and before *)
(* its acknowledgement: the row has changed and the caller sees an error.  *)
CommitUnacknowledged(c) ==
  CommitRow(c) /\ reply' = [reply EXCEPT ![c] = "error"]

(* A statement fails, or the process dies, before the commit: the database *)
(* rolls the transaction back.  A crash of the service is, for the tables, *)
(* the rollback of every open transaction, one after the other.            *)
Rollback(c) ==
  /\ pc[c] \in {"select", "lock", "insert", "update", "commit"}
  /\ pc' = [pc EXCEPT ![c] = "done"]
  /\ lock' = Unlocked(c)
  /\ todo' = [todo EXCEPT ![c] = {}]
  /\ moved' = [moved EXCEPT ![c] = 0]
  /\ reply' = [reply EXCEPT ![c] = "error"]
  /\ UNCHANGED <<wallets, req, cur, entity>>

(* Calls that wait for each other in a ring.  PostgreSQL looks for one     *)
(* when a wait has taken some time, and fails the statement of one of them *)
(* ("deadlock detected").                                                  *)
Deadlocked(c) ==
  \E D \in SUBSET Calls :
    /\ c \in D
    /\ \A d \in D : pc[d] = "lock"
    /\ {lock[cur[d]] : d \in D} = D

DeadlockVictim(c) == Deadlocked(c) /\ Rollback(c)

\* What a call does when nothing fails.
Step(c) ==
  \/ RejectPercent(c) \/ Begin(c)
  \/ ScanRows(c) \/ LockRow(c) \/ LockLastRow(c) \/ DeadlockVictim(c)
  \/ MissWallet(c) \/ InsertWallet(c)
  \/ AddToBalance(c) \/ ReserveShare(c) \/ RefuseShare(c)
  \/ Commit(c)

Finished == (\A c \in Calls : pc[c] = "done") /\ UNCHANGED vars

Next ==
  \/ \E c \in Calls : Step(c) \/ CommitUnacknowledged(c) \/ Rollback(c)
  \/ Finished

Spec == Init /\ [][Next]_vars

(* The database answers every statement, grants a row lock that has been   *)
(* released and breaks a deadlock: a call that is not stuck goes on.       *)
Fairness == \A c \in Calls : WF_vars(Step(c))

FairSpec == Spec /\ Fairness

----------------------------------------------------------------------------
(* Properties.                                                             *)

(* A wallet never has more reserved than it holds, whatever charges and    *)
(* reservations on it overlap, fail or lose their acknowledgement          *)
(* (lockFunds computes "available" from the row it has locked).            *)
LockedWithinBalance ==
  \A i \in Calls : Exists(i) => wallets[i].locked <= wallets[i].balance

(* The row a call computes from is the committed one, until it commits: no *)
(* other call changes it between the SELECT ... FOR UPDATE and the save.   *)
Base(c) == IF Exists(cur[c]) THEN wallets[cur[c]]
           ELSE Opened(req[c].userId, CurrencyToUse(req[c]))

LoadedRowIsCurrent == \A c \in Calls : pc[c] = "update" => entity[c] = Base(c)

Rows(u, k) == {i \in Calls : Exists(i) /\ wallets[i].userId = u
                                       /\ wallets[i].currency = k}

Ended(u, k, op) == {c \in Calls : pc[c] = "done" /\ req[c].op = op
                      /\ req[c].userId = u /\ CurrencyToUse(req[c]) = k}

Column(op) == IF op = "charge" THEN "balance" ELSE "locked"

Units(col) == [i \in Calls |-> IF Exists(i) THEN wallets[i][col] ELSE 0]

(* For every user and currency, over all the rows there may be: the        *)
(* balances add up to the charges that committed, and the locked balances  *)
(* to what the reservations that committed said they had reserved; a call  *)
(* that rolled back or was refused has left nothing behind.  That is exact *)
(* while every amount is small enough for a double; past it the books can  *)
(* drift (chargeWallet and lockFunds both leave Big through toNumber()),   *)
(* by no more than one spacing of the doubles for each call.               *)
BooksBalance ==
  \A u \in Users, k \in Currencies, op \in {"charge", "lock"} :
    LET held == SumFunctionOnSet(Units(Column(op)), Rows(u, k))
        due == SumFunctionOnSet(moved, Ended(u, k, op))
        drift == Spacing * Cardinality(Ended(u, k, op))
    IN  /\ held <= due + drift /\ due <= held + drift
        /\ (\A i \in Rows(u, k) : Units(Column(op))[i] < Exact) => held = due

(* Two first calls of a user may each insert a wallet (FOR UPDATE locks    *)
(* nothing when there is no row).  Once a wallet is committed and no call  *)
(* is about to commit another, no call ever starts to insert a second one. *)
Inserting(c) == pc[c] \in {"insert", "update", "commit"} /\ ~Exists(cur[c])

Settled(c) == Matching(c) # {} /\ \A d \in Calls :
                Inserting(d) => ~HasKey(Opened(req[d].userId, CurrencyToUse(req[d])), req[c])

SettledWalletIsNeverDoubled == [][\A c \in Calls : Settled(c) => Settled(c)']_vars

(* The service implements the ledger: every commit is one change of one    *)
(* row, computed from that row as it was, and everything else a stutter.   *)
Ledger == INSTANCE WalletLedger WITH WalletIds <- Calls

ImplementsLedger == Ledger!Spec

(* Calls wait for each other in a ring only over a user's doubled wallets: *)
(* a call that locks the rows of one user in one currency, of which there  *)
(* is one, holds nothing while it waits.                                   *)
OnlyDoubledWalletsDeadlock ==
  \A c \in Calls : Deadlocked(c) =>
    Cardinality(Rows(req[c].userId, CurrencyToUse(req[c]))) > 1

(* Every call that arrives is answered: whatever the order in which calls  *)
(* find, lock and insert rows, none waits for ever on a row lock.          *)
EveryCallIsAnswered == \A c \in Calls : pc[c] # "idle" ~> pc[c] = "done"
==========================================================================
