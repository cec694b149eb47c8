---------------------------- MODULE OrderSaga ----------------------------
(***************************************************************************)
(* createOrder of apps/order/src/order.service.ts together with the wallet *)
(* service it calls.  The order service opens a database transaction of    *)
(* its own, calls lockFunds over gRPC (which commits in the wallet         *)
(* service's database), inserts the order, adds it to the order book in    *)
(* Redis, and commits.  Nothing undoes lockFunds or the Redis write when a *)
(* later step fails.                                                       *)
(*                                                                         *)
(* One element of Orders is one call of createOrder; it also names the row *)
(* the call inserts.  lockFunds is a reservation of the WalletLedger; each *)
(* user has at most one row in a currency here.                            *)
(***************************************************************************)
EXTENDS Funds, FiniteSets, Functions

CONSTANTS Users, Currencies, Orders, NoWallet,
          Percents, \* the percentOfWallet an order can ask for, in steps
                    \* of which Whole are 100 percent
          Funding   \* the units of USD each user starts with

VARIABLES wallets,  \* rows of the wallet service, one for a user and currency
          ask,      \* what each createOrder is called with
          rpc,      \* the lockFunds call of each createOrder
          reserved, \* the units the wallet service says it reserved for each
          pc,       \* where each createOrder is
          orders,   \* status of each committed order row, or "none"
          book,     \* the ids in the sorted sets orderbook:{currency}:{side}
          result,   \* what the caller is told
          faulty    \* the calls during which something failed

vars == <<wallets, ask, rpc, reserved, pc, orders, book, result, faulty>>

Ask == [userId : Users, currency : Currencies, side : {"BUY", "SELL"},
        percent : Percents]

Ledger == INSTANCE WalletLedger WITH WalletIds <- Users \X Currencies

ASSUME SagaAssumption ==
  /\ USD \in Currencies
  /\ Percents \subseteq Int /\ \A p \in Percents : ValidPercent(p)
  /\ Funding \in Nat /\ Stored(Funding)
  /\ NoWallet \notin Ledger!Wallet

Pays(q) == IF q.side = "BUY" THEN USD ELSE q.currency

Row(q) == <<q.userId, Pays(q)>>

Wallet(q) == Ledger!Before(Row(q), q.userId, Pays(q))

TypeOK ==
  /\ Ledger!TypeOK
  /\ ask \in [Orders -> Ask]
  /\ rpc \in [Orders -> {"none", "sent", "ok", "refused"}]
  /\ reserved \in [Orders -> Nat]
  /\ pc \in [Orders -> {"idle", "lock", "save", "zadd", "commit", "done"}]
  /\ orders \in [Orders -> {"none", "OPEN"}]
  /\ book \subseteq Orders
  /\ result \in [Orders -> {"none", "created", "rejected", "error"}]
  /\ faulty \subseteq Orders

\* Users who have deposited USD and not ordered yet.
Init ==
  /\ wallets = [i \in Users \X Currencies |->
                  IF i[2] = USD THEN [Opened(i[1], USD) EXCEPT !.balance = Funding]
                  ELSE NoWallet]
  /\ ask \in [Orders -> Ask]
  /\ rpc = [o \in Orders |-> "none"]
  /\ reserved = [o \in Orders |-> 0]
  /\ pc = [o \in Orders |-> "idle"]
  /\ orders = [o \in Orders |-> "none"]
  /\ book = {}
  /\ result = [o \in Orders |-> "none"]
  /\ faulty = {}

----------------------------------------------------------------------------
(* The wallet service.  A request that has been sent is served even when   *)
(* its caller has given up waiting.                                        *)

LockFunds(o, answer) ==
  LET q == ask[o]
      share == ShareOf(Available(Wallet(q)), q.percent)
  IN /\ rpc[o] = "sent"
     /\ share > 0
     /\ Ledger!Reserve(Row(q), q.userId, Pays(q), share)
     /\ reserved' = [reserved EXCEPT ![o] = ToNumber(share)]
     /\ rpc' = [rpc EXCEPT ![o] = answer]
     /\ UNCHANGED <<ask, pc, orders, book, result>>

WalletReserves(o) == LockFunds(o, "ok") /\ UNCHANGED faulty

\* The commit is not acknowledged: lockFunds answers 'Internal error'.
WalletReservesUnacknowledged(o) ==
  LockFunds(o, "refused") /\ faulty' = faulty \cup {o}

\* Mutant: a refusal is never sent back.
WalletRefusesSilently(o) ==
  LET q == ask[o] IN
  /\ rpc[o] = "sent"
  /\ ShareOf(Available(Wallet(q)), q.percent) <= 0
  /\ rpc' = [rpc EXCEPT ![o] = "none"]
  /\ UNCHANGED <<wallets, ask, reserved, pc, orders, book, result, faulty>>

\* Nothing is available; an empty row may have been opened to find out.
WalletRefuses(o) ==
  LET q == ask[o] IN
  /\ rpc[o] = "sent"
  /\ ShareOf(Available(Wallet(q)), q.percent) <= 0
  /\ rpc' = [rpc EXCEPT ![o] = "refused"]
  /\ \/ Ledger!Open(Row(q), q.userId, Pays(q))
     \/ Ledger!Exists(Row(q)) /\ UNCHANGED wallets
  /\ UNCHANGED <<ask, reserved, pc, orders, book, result, faulty>>

\* The wallet service's transaction fails and is rolled back.
WalletFails(o) ==
  /\ rpc[o] = "sent"
  /\ rpc' = [rpc EXCEPT ![o] = "refused"]
  /\ UNCHANGED <<wallets, ask, reserved, pc, orders, book, result, faulty>>

----------------------------------------------------------------------------
(* createOrder.                                                            *)

Goto(o, from, to) == pc[o] = from /\ pc' = [pc EXCEPT ![o] = to]

CallLockFunds(o) ==
  /\ Goto(o, "idle", "lock")
  /\ rpc' = [rpc EXCEPT ![o] = "sent"]
  /\ UNCHANGED <<wallets, ask, reserved, orders, book, result, faulty>>

\* Mutant: the field success of the answer is not looked at.
FundsLockedUnchecked(o) ==
  /\ Goto(o, "lock", "save")
  /\ rpc[o] \in {"ok", "refused"}
  /\ UNCHANGED <<wallets, ask, rpc, reserved, orders, book, result, faulty>>

FundsLocked(o) ==
  /\ Goto(o, "lock", "save")
  /\ rpc[o] = "ok"
  /\ UNCHANGED <<wallets, ask, rpc, reserved, orders, book, result, faulty>>

\* success is false: RpcException, and the transaction is rolled back.
FundsRefused(o) ==
  /\ Goto(o, "lock", "done")
  /\ rpc[o] = "refused"
  /\ result' = [result EXCEPT ![o] = "rejected"]
  /\ UNCHANGED <<wallets, ask, rpc, reserved, orders, book, faulty>>

\* Mutant: the order is validated after the funds are locked.
SaveOrderOrReject(o) ==
  /\ \/ Goto(o, "save", "zadd") /\ UNCHANGED result
     \/ Goto(o, "save", "done") /\ result' = [result EXCEPT ![o] = "rejected"]
  /\ UNCHANGED <<wallets, ask, rpc, reserved, orders, book, faulty>>

\* The INSERT; the row is not committed.
SaveOrder(o) ==
  /\ Goto(o, "save", "zadd")
  /\ UNCHANGED <<wallets, ask, rpc, reserved, orders, book, result, faulty>>

\* Mutant: the zadd is not awaited, and its failure goes unnoticed.
AddToBookNotAwaited(o) ==
  /\ Goto(o, "zadd", "commit")
  /\ book' \in {book, book \cup {o}}
  /\ UNCHANGED <<wallets, ask, rpc, reserved, orders, result, faulty>>

AddToBook(o) ==
  /\ Goto(o, "zadd", "commit")
  /\ book' = book \cup {o}
  /\ UNCHANGED <<wallets, ask, rpc, reserved, orders, result, faulty>>

\* Mutant: the order is committed with a status of its own.
CommitRowPending(o) ==
  /\ Goto(o, "commit", "done")
  /\ orders' = [orders EXCEPT ![o] = "PENDING"]
  /\ UNCHANGED <<wallets, ask, rpc, reserved, book>>

CommitRow(o) ==
  /\ Goto(o, "commit", "done")
  /\ orders' = [orders EXCEPT ![o] = "OPEN"]
  /\ UNCHANGED <<wallets, ask, rpc, reserved, book>>

CommitOrder(o) ==
  /\ CommitRow(o)
  /\ result' = [result EXCEPT ![o] = "created"]
  /\ UNCHANGED faulty

CommitOrderUnacknowledged(o) ==
  /\ CommitRow(o)
  /\ result' = [result EXCEPT ![o] = "error"]
  /\ faulty' = faulty \cup {o}

(* The answer of lockFunds is lost, a statement or the Redis command fails *)
(* or loses its answer, or the service dies: the order's row is rolled     *)
(* back and the call fails.                                                *)
FailOrder(o) ==
  /\ pc[o] \in {"lock", "save", "zadd", "commit"}
  /\ pc' = [pc EXCEPT ![o] = "done"]
  /\ book' \in IF pc[o] = "zadd" THEN {book, book \cup {o}} ELSE {book}
  /\ result' = [result EXCEPT ![o] = "error"]
  /\ faulty' = faulty \cup {o}
  /\ UNCHANGED <<wallets, ask, rpc, reserved, orders>>

Step(o) ==
  \/ CallLockFunds(o) \/ FundsLocked(o) \/ FundsRefused(o)
  \/ SaveOrder(o) \/ AddToBook(o) \/ CommitOrder(o)

Serve(o) == WalletReserves(o) \/ WalletRefuses(o)

Finished == (\A o \in Orders : pc[o] = "done" /\ rpc[o] # "sent") /\ UNCHANGED vars

Next ==
  \/ \E o \in Orders : \/ Step(o) \/ Serve(o)
                       \/ WalletReservesUnacknowledged(o) \/ WalletFails(o)
                       \/ CommitOrderUnacknowledged(o) \/ FailOrder(o)
  \/ Finished

Spec == Init /\ [][Next]_vars

(* The wallet service serves the requests that reach it (EveryCallIsAnswered *)
(* of WalletService) and every await of a call in progress returns.  Nobody  *)
(* owes the service a call.                                                  *)
FairSpec ==
  /\ Spec
  /\ \A o \in Orders : WF_vars(pc[o] # "idle" /\ Step(o)) /\ WF_vars(Serve(o))

----------------------------------------------------------------------------
(* Properties.                                                             *)

Settled == \A o \in Orders : pc[o] \in {"idle", "done"} /\ rpc[o] # "sent"

OpenOrders(i) == {o \in Orders : orders[o] = "OPEN" /\ Row(ask[o]) = i}

LockedOf(i) == Ledger!Before(i, i[1], i[2]).locked

Reservations(i) == {o \in Orders : rpc[o] \in {"ok", "refused"} /\ Row(ask[o]) = i}

(* The open orders of a user never claim more than what is locked for      *)
(* them in the wallet service, and that is never more than the wallet      *)
(* holds: two databases, kept together only by the order of the calls.     *)
(* The amount an order claims and the locked balance leave Big apart       *)
(* (lockFunds), so where the locked balance is too large for every amount  *)
(* to be a double, the claims can pass it by a spacing of the doubles for  *)
(* each answer.                                                            *)
OpenOrdersAreBacked ==
  \A i \in Users \X Currencies :
    LET claims == SumFunctionOnSet(reserved, OpenOrders(i))
        drift == IF LockedOf(i) < Exact THEN 0
                 ELSE Spacing * Cardinality(Reservations(i))
    IN  /\ claims <= LockedOf(i) + drift
        /\ LockedOf(i) <= Ledger!Before(i, i[1], i[2]).balance

(* An open order is in the book: the matching side can always find it      *)
(* (the Redis write comes before the commit, never after).                 *)
OpenOrderIsInBook == \A o \in Orders : orders[o] = "OPEN" => o \in book

(* Only a failure separates the two services: a reservation that no open   *)
(* order claims, or an id in the book with no order, belongs to a call     *)
(* during which something failed.                                          *)
OrphanOnlyByFault ==
  \A o \in Orders : pc[o] = "done" /\ o \notin faulty =>
    /\ (reserved[o] > 0) => orders[o] = "OPEN"
    /\ o \in book => orders[o] = "OPEN"

(* A call that was rejected for lack of funds has reserved nothing, and    *)
(* one that succeeded has an order and its reservation; only "error" tells *)
(* the caller nothing.                                                     *)
AnswerIsTrue ==
  \A o \in Orders :
    /\ result[o] = "created" => orders[o] = "OPEN" /\ o \in book /\ rpc[o] = "ok"
    /\ result[o] = "rejected" /\ o \notin faulty => reserved[o] = 0 /\ orders[o] = "none"

(* Every order that is placed is answered.                                 *)
EveryOrderIsAnswered == \A o \in Orders : pc[o] = "lock" ~> result[o] # "none"

(* wallet.entity.ts:17 says of lockedBalance that it is "for pending Limit *)
(* orders": once every call has ended, what is locked is what the open     *)
(* orders claim, at least as long as the wallet service answered truly.    *)
(* The code does not keep it: a failure after lockFunds has answered       *)
(* leaves the funds locked for an order that does not exist.               *)
AnsweredTruly == \A o \in Orders : reserved[o] > 0 => rpc[o] = "ok"

LockedIsForPendingOrders ==
  Settled /\ AnsweredTruly =>
    \A i \in Users \X Currencies : LockedOf(i) < Exact =>
      LockedOf(i) = SumFunctionOnSet(reserved, OpenOrders(i))
==========================================================================
