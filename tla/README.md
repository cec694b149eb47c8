# Verification of flowEx

flowEx is a TypeScript/NestJS exchange. The repository holds two generations of
it: `apps/FlowEx`, one process that does everything, and the services it is
being split into (`apps/gateway`, `apps/user`, `apps/wallet`, `apps/order`,
`apps/market`), which call each other over gRPC and keep separate databases.
This directory holds TLA+ modules translated from that source, the TLC
configurations that check them on small instances, and TLAPS proofs of the
results that matter most.

## 1. Inventory

Paths are relative to `src/apps` unless they start with `src/`.

| Part | State it keeps | Operations | Talks to |
|---|---|---|---|
| Wallet service: wallets (`wallet/src/services/wallet.service.ts`) | table `wallet`: user, currency, balance, lockedBalance | `chargeWallet`, `lockFunds`, `getOrCreateWallet`, `Deposit` | order service calls `lockFunds`; `verifyPayment` calls `chargeWallet` |
| Wallet service: payments (`wallet/src/services/transaction.service.ts`, `zarinpale.service.ts`) | table `transaction`: amount, authority, status | `create`, `getGatewayUrl`, `verifyPayment`; HTTP client `sendRequest`, `verify` | ZarinPal over HTTP; the user's browser through `/wallet/callback` of the gateway |
| Order service (`order/src/order.service.ts`) | table `order`; sorted sets `orderbook:{currency}:{side}` in Redis | `createOrder` | `lockFunds` over gRPC, Redis |
| User service (`user/src/modules/auth/services`) | table `user`; keys `otp:{email}` in Redis with an expiry; tokens that expire after 7 days | `signUp`, `signIn`, `checkOtp`, `validateJwtToken` | Redis, SMTP; the guard of the gateway |
| Market service (`market/src/market.service.ts`) | one Centrifuge client, its subscriptions and their listeners | `connect`, `publishOrderBook`, `StreamCandles` | Nobitex websocket, Redis publish, gRPC streams |
| Gateway's candle sockets (`gateway/src/modules/market/market.gateway.ts`) | sockets of browsers, one gRPC call for each subscription | `handleSubscribeToCandles`, `handleDisconnect` | `StreamCandles` of the market service |
| FlowEx limit orders (`FlowEx/src/modules/order`) | tables `order` and `wallet`; `order:limit:{side}:{currency}` in Redis; BullMQ queue | `placeLimitOrder`, `checkLimitOrders`, `executeLimitOrder`, the processor | candles of the Redis channel, sockets |
| FlowEx wallet and transactions (`FlowEx/src/modules/wallet`, `transaction`) | tables `wallet`, `transaction` | `getOrCreate`, `chargeWallet`, `verifyPayment` | ZarinPal |
| FlowEx candle feed (`FlowEx/src/modules/market`) | Centrifuge client, Redis candle cache, socket rooms | `connect`, `subscribeAllCandles`, `save`, room handlers | Nobitex websocket, sockets |
| FlowEx sockets (`order/order.gateway.ts`, `wallet/wallet.gateway.ts`) | the sockets in the room of each user | `handleConnection`, `authenticate`, `handleDisconnect` | tokens of the user service; the room gets `order-closed` |
| Gateway (`gateway/src`) | none | HTTP controllers, JWT guard, validation, exception filters | one gRPC call for each request |
| Shared code (`src/libs`, `src/proto`) | none | types, enums, message definitions, wiring | - |

### How they interact

* **A deposit** is three requests: `Deposit` inserts a PENDING row and asks
  ZarinPal for an authority inside one database transaction; the user pays or
  cancels on ZarinPal's page; ZarinPal redirects the browser to
  `/wallet/callback`, whose `verifyPayment` confirms the payment with ZarinPal,
  saves COMPLETED and only then, in another transaction, calls `chargeWallet`. The
  route is an open GET: any authority and any Status can arrive at any time.
* **An order** spans two databases and Redis: `createOrder` opens a transaction
  in the order database, has `lockFunds` commit in the wallet database, inserts
  the row, adds its id to Redis, commits.
* **A limit order** of FlowEx is placed in one transaction plus a `zadd`;
  each candle queues a check; the check moves the ids at that price from Redis
  to the job queue, and the execution settles two wallets and the order. Inside
  the settling transaction the room of the user is told `order-closed`.
* **A login** ends in a token. The gateway's guard has it validated by the user
  service; the FlowEx sockets verify it themselves.
* **A candle subscription** of a browser is one gRPC call of the gateway, and all
  calls for a channel share one Centrifuge subscription in the market service.

### What is hard about it, and what makes each part correct

| Part | Hard behaviour | Correct means |
|---|---|---|
| Wallets | overlapping transactions at READ COMMITTED; `FOR UPDATE` that finds no row locks nothing, and that finds two locks them one by one; lost acknowledgements; amounts that become doubles | the row a call computes from is current until it commits; locked <= balance; the books add up as far as doubles can say it; each call is one ledger change; only doubled wallets deadlock, and no call waits for ever |
| Payments | callbacks for what nobody has paid; repeated, overlapping and crossing callbacks; answers of ZarinPal that are lost; a crash between two commits; deposits that hold the database connections | only paid deposits are credited; a confirmed payment is credited; only an overlap credits twice; the wallet holds exactly the credits |
| Orders | two databases and Redis without compensation; lost or late answers | an open order is backed by a reservation and is in the book; only a failure leaves an orphan; the caller is told the truth |
| Limit orders | id visible before the row; `queue.add` before `zrem`; two workers; stalled jobs run again; charges of the same wallet that take no lock; price moves between check and execution; an announcement before the commit | each order is settled once, at its price, from what it locked; none is lost, settled twice or wrongly announced, and no wallet's locks are wrong, except by the known races or a failed job |
| User service | OTP read-then-write race; mail that fails after the save; OTP reuse | one live code for each email; a code that was sent works; only who logged in by it passes the guard or enters a room |
| FlowEx sockets | a socket that goes away while its token is verified; an exception in `handleDisconnect` that ends the process | who has been let in leaves without bringing anybody down |
| Market, candle feed | reconnection, listeners that pile up, a subscription shared by streams that one of them closes; commands that ioredis sends again; a second process on the same channel | a live stream is fed; candles are shown and checked in order, and none is left out |
| FlowEx wallet | charges without a row lock | no charge is lost |

`PROJECT.json` lists each of these hazards with its line and the properties that
cover it, or says why none does.

## 2. Plan

1. `WalletLedger` (abstract) and `WalletService` (detailed, implements it):
   every other money flow ends here. *Done, with proofs.*
2. `Payments` and `OrderSaga`: the two services' multi-step protocols, with the
   ledger's actions as the remote end. *Done, with proofs.*
3. `LimitOrders`: the FlowEx order life cycle, with one worker. *Done; see 7.*
4. `AuthOtp`: sign-up, sign-in and the code in Redis. *Done, with proofs.*
5. `MarketFeed` and `CandleFeed`: clients, subscriptions and listeners over
   reconnections, and the way of a candle to the limit orders. *Done; `CandleFeed`
   with proofs, `MarketFeed` with those of `GatewayFeed`, which composes it.*
6. `FlowExWallet` and `FlowExPayments`: deposits that end in charges without a
   row lock. They do *not* implement `WalletLedger`; what is checked is that only
   an overlap loses anything. *Done, with proofs.*
7. `LimitOrders` with two workers (two processes of FlowEx), where the read of
   the open order outside the settling transaction matters, with stalled jobs, and
   with the socket event that announces a settlement before it commits. *Done,
   with proofs.*
8. The sockets: `GatewayFeed`, the gateway's candle sockets as callers of
   `MarketFeed`, and `Sessions`, what a token opens. The connection pool of the
   wallet service, in `Payments`. *Done; `GatewayFeed` and `Sessions` with proofs.*
9. What a small scale hides: `toNumber()` (`Funds`), `FOR UPDATE` row by row and
   PostgreSQL's deadlock detection (`WalletService`), callbacks with any content
   (`Payments`), charges beside the limit orders (`LimitOrders`), the queue's own
   connection and a second process (`CandleFeed`). *Done, with proofs.*
10. Proofs that are left: that the wallets of `Payments` and `OrderSaga` follow
   `WalletLedger`, and for `OrderSaga` and `LimitOrders` which of the traces of a
   call can be there together at its end.

## 3. Modules

Amounts are natural numbers of units, one unit the last place of `numeric(30,10)`.
The code computes with `Big`, exactly, and every result leaves it through
`toNumber()` as a double before it is stored. Three constants say what becomes of it:
`Whole` is 100 percent in the smallest step of a percentage (the DTOs are
`@IsNumber`, so 33.5 percent is one; a share is computed exactly in parts of 1/`Whole`
unit), up to `Exact` units every whole number survives `toNumber()`, and beyond it
only the multiples of `Spacing` do. In the code `Exact` is about 2^53 units of 10^-10,
so an amount of about 900 000 dollars; in the runs it is small enough to be crossed, and
the theorems hold for all values.

In every module a failed or dead process is a step that ends a call where it
stands, and the database rolls back what the call had not committed. A crash of
a whole service is the sequence of those steps for all its calls. Definitions
marked *Mutant* are not part of a specification: each is a plausible bug in the
definition that follows it, kept to show that a property notices it.

**`Funds`** - the arithmetic of `lockFunds` and `chargeWallet`, shared by the others:
`Available`, `ShareOf` (in parts, which is what the code tests), `Round` (half a unit
goes away from zero), `ToNumber` (what is stored of so many parts) and `Stored` (the
amounts a column can hold), `ValidPercent`, and the row `getOrCreateWallet` opens.

**`WalletLedger`** - the abstract specification of the wallet table: one row
changes at a time, by `Open`, `Credit` or `Reserve`, computed from the row as it
was. No row is overwritten by a stale copy.

**`WalletService`** - `chargeWallet` and `lockFunds` as transactions. `pc` follows the
statements: `select` and `lock` (the `FOR UPDATE` query, which takes the rows it finds
one after the other, in any order, and keeps them while it waits for the next: `cur`
is the row it wants, `todo` are those that come after), `insert`, `update` (the entity
is changed in memory and saved), `commit`. `wallets` holds committed rows only; what a
transaction has saved lives in its `entity`. `lock` is the row lock table. There is no
unique constraint on (user, currency), so the model lets two first calls insert a row
each, as the code does; over such a doubled wallet two calls can wait for each other
(`Deadlocked`), and `DeadlockVictim` is PostgreSQL failing one of them.
`CommitUnacknowledged` and `Rollback` are the other failures. `WalletService` maps to
`WalletLedger` with no mapping of its own: the committed rows are the ledger's rows.

**`Payments`** - `Deposit` with `create` and `getGatewayUrl` (`dep`), the ZarinPal
session (external), and `verifyPayment` (`pc`) split where it awaits: read the
row, ask ZarinPal, save the status, charge. Since the route is open, a callback is any
`Message`: any authority with OK, NOK or another Status, before or after the payment.
`Answer` is a request that is answered at once (the deposit is settled; there is no
such authority; the Status is neither), `Find` one whose row the callback goes on with.
A user who cancels can return to ZarinPal's page and pay. `raced` and `dropped` only
record history. A `Deposit` that waits for ZarinPal keeps its database connection
(`HasConnection`), and every other statement waits until the pool has one to
spare (`ConnectionIsFree`, `PoolSize`).

**`OrderSaga`** - `createOrder` split where it awaits, with the `lockFunds` request
and answer in `rpc`: the wallet service serves a request that was sent even if
its caller gave up. `faulty` records the calls during which something failed.

**`LimitOrders`** - `placeLimitOrder` (`place`), the Redis set (`book`), the job
queue and the workers (`pc`). One worker is one FlowEx process: BullMQ's default
concurrency is one job. The settlement is three steps: `LoadOpenOrder` outside the
transaction, `AnnounceClosed` (row locks, `zrem` and the socket event) and `Settle`
(the commit). `CrashInJob` requeues the job of a dead worker and `Stall` that of a
slow one, which goes on; `FailJob` drops it, because the jobs are added with one
attempt. Each element of `Charges` is a `chargeWallet` of the same users' USD wallets:
`ReadForCharge` copies the row without a lock, `SaveCharge` writes the balance and, if
the comparison found it different, the locked balance too (`FlowExWallet` has these
steps in detail). `announced` is what clients were told; `overlapped`, `early`,
`failed`, `closed`, `lost` (rows in which a charge has written over a change) and
`rounded` (rows whose locked balance `toNumber()` has changed) record history.

**`AuthOtp`** - `signUp`, `signIn` and `checkOtp` of the user service, one element of
`Calls` each, split where they await: the two uniqueness checks, the `INSERT`, the
read of `otp:{email}` and the `SETEX`, the mail, the lookup and the update of
`verifyEmail`. `users` is the table, `otp` the keys of Redis; `Expire` may take a
code at any time (the clock is not modelled). Emails that are unique are so
through the constraints of `user.entity.ts`, and not through the checks before
the `INSERT`. An answer of "sent" stands for the mail.

**`Sessions`** - extends `AuthOtp` with what a token opens: requests to a guarded
route (`Present`, then `PassGuard`, where `validateJwtToken` looks the user up, or
`RefuseRequest`) and the sockets of the FlowEx namespaces `order` and `wallet`, whose
code is the same (`TurnAway`, or `Present` and then `JoinRoom` or `RefuseSocket`). A
token is named by the login that returned it, and `ExpireToken` may end it at any time.
`online` are the sockets whose disconnection Nest will report: it binds
`handleDisconnect` after the synchronous part of `handleConnection`, so one that is
turned away at once is not among them. `withUser` are those whose `client.data.user`
is set. `handleDisconnect` reads `user.userId`: without a user that is a TypeError
(`thrown`), which nothing catches, and `Crash` is the end of the process and of its
other sockets. A socket that has gone while `verifyAsync` was awaited does not get into
the room any more: socket.io's `join` does nothing then.

**`MarketFeed`** - the Centrifuge client of the market service and the candle streams
that callers open over gRPC. `subs` is the registry of subscriptions of the
current client, `listeners` the order book listeners that pile up, `on` what each
stream listens to. `Restart` is a new process.

**`GatewayFeed`** - composes `MarketFeed` with the gateway's sockets. One element of
`Streams` is one message `subscribeToCandles` and the gRPC call it makes: `call` is
the gateway's end of it, `stream` (of `MarketFeed`) the other. The gateway never
ends a call: `HandleDisconnect` leaves those of its socket open. `LoseCall` is the
loss of a process or of the connection, `NoticeEnd` the teardown that follows in
the market service, and `ServeCall` may come after either.

**`CandleFeed`** - one symbol and resolution of FlowEx: the handler of a candle as a
pipeline of Redis commands (`wire`, `answers`), the cache (as this process puts it),
the room's sockets (`shown`), and the Redis subscriber that queues the check of the
limit orders: its `inbox`, the calls of `queue.add` on BullMQ's own connection
(`adds`, `added`) and the jobs (`checks`). The handler is `async` and the client does
not wait for it, so candles overlap. SUBSCRIBE is sent and not awaited, so the
subscriber hears nothing until `Subscribed`. A publication is lost when the subscriber
is down; a command is sent twice when its connection drops before the answer
(`PublisherLost`, `QueueLost`). `PublishForeign` is the other FlowEx process, which
publishes candles of its own on the channel. `dropped` and `resent` record which
candles these faults touched.

**`FlowExWallet`** - the wallet table of FlowEx under `chargeWallet`, which takes no
lock, and the reservations of limit orders, which do. The steps are those of
`WalletService` where the code is the same (`Service == INSTANCE WalletService`).
TypeORM's `save` is two steps: `CompareColumns` selects the row again and
`WriteColumns` updates the columns that differ. The balance always does, because it
compares the number of `toNumber()` with the string of a numeric column.

**`FlowExPayments`** - composes `Payments` (as `Pay`, the statements are the same in
both generations) with `FlowExWallet`: a callback that reaches `chargeWallet` goes
through the unlocked transaction instead of an atomic credit. Its pool is larger
than the number of deposits; the waiting for connections is `Payments`' subject.

Simplifications that hold for all: the payment and order modules keep one wallet
row for a user and currency (the doubled row is `WalletService`'s subject);
`OrderSaga` and `LimitOrders` start from funded wallets, which a deposit
produces (`Payments` and `FlowExPayments` start from no wallet at all);
`LimitOrders` is for one coin, because sets and jobs are keyed by coin.

## 4. Runs

| Run | Instance | Shows |
|---|---|---|
| `wallet` | 4 calls, 1 user, 2 currencies, 7 assignments of requests | the properties below, with doubled wallets and deadlocks too, and that the service implements the ledger |
| `payments` | 2 deposits of the same or of different users, 3 callbacks with any content, 1 connection | payment properties with overlap, repetition and failures |
| `orders` | 3 orders, 1 user, 2 currencies | the saga's properties with a failure at every step |
| `limit_orders` | 2 orders, 1 user, 2 workers, 2 prices, 2 candles, 1 fault or charge | the life of limit orders and their wallets |
| `auth` | 3 calls, 2 emails, 2 usernames, 1 password, 2 codes, 1 account that exists, 1 request, 2 sockets | sign-up and login with overlap, failures and expiry, and what a login opens |
| `market` | 3 subscriptions of 2 sockets, 2 channels, 3 clients of 2 connections | what can starve a subscriber |
| `candles` | 2 candles, 1 of another process, 2 clients, 2 faults | the order and the completeness of candles |
| `flowex_payments` | 2 deposits and 1 limit order of 1 user, 2 callbacks | what charges without a lock can lose |
| `orders_orphan` | as `orders` | a disagreement: see below |
| `payments_units` | as `payments` | a disagreement: see below |
| `auth_reuse` | the calls of `auth`, on `AuthOtp` alone | a disagreement: see below |
| `flowex_wallet_lost` | 4 calls of 1 user on `FlowExWallet` alone | a disagreement: see below |

`wallet`
: `TypeOK`; `LockedWithinBalance`; `LoadedRowIsCurrent` (no lost update);
  `BooksBalance` (balances and locked balances are the committed charges and
  reservations, over all rows, doubled ones included: exactly while the amounts are
  below `Exact`, and within a `Spacing` for each call beyond it);
  `OnlyDoubledWalletsDeadlock` (calls wait for each other in a ring only over the rows
  of a user who has two of one currency: the code *can* deadlock there, since a
  statement keeps the rows it has locked while it waits for the next);
  `SettledWalletIsNeverDoubled` (the insert race is over once a wallet is
  committed and nobody is inserting); `ImplementsLedger` (refinement);
  `EveryCallIsAnswered` (a ring does not last: PostgreSQL fails one of its calls).

`payments`
: `TypeOK`; `CreditedDepositIsPaid` (an OK may arrive for a deposit nobody has paid:
  it is ZarinPal's answer that counts); `DoubleCreditOnlyByRace` (the code *can*
  credit twice, when two callbacks overlap between the read of PENDING and the
  save; the property says that nothing else can); `CompletedIsCredited`;
  `ConfirmedPaymentIsCredited` (with every connection taken by deposits that wait,
  a confirmed payment still gets one in the end).

`orders`
: `TypeOK`; `OpenOrdersAreBacked`; `OpenOrderIsInBook`; `OrphanOnlyByFault`;
  `AnswerIsTrue`; `EveryOrderIsAnswered`.

`limit_orders`
: `TypeOK`; `LockedIsForOpenOrders` (a wallet has no more locked than it holds, and that
  is what its open orders will pay, unless `toNumber()` has changed the sum. Two things
  *can* break it: an order that two workers settled at a time, and a charge that writes
  over a change it has not read; nothing else can); `SettledTwiceOnlyByOverlap` (the code
  *can* settle an order twice: two workers read it as open, one of them with a job that
  was queued twice or was taken for stalled; nothing else can); `SettledAtTarget`;
  `StrandedOnlyByRaceOrFailure`; `AnnouncedIsClosed` (an announcement that came
  before its commit comes true, or the execution is still to be run, or it
  failed); `QueuedOrderIsClosed`.

`auth`
: `SessionTypeOK`; `CodesAreForUsers` (no code exists for an address without an
  account); `SentCodeWorks` (the code a call was told was sent is the one in Redis,
  unless it expired or two calls raced for it); `SessionIsOfVerifiedUser` (past a guard
  and in a room are only users who are verified and logged in by a code stored for
  their address); `OnlyUnverifiedThrow`
  (the exception of `handleDisconnect` that ends the process comes only of a socket
  whose token was still being verified or was refused: one that has been let into a
  room leaves quietly).

`market`
: `GatewayTypeOK`; `StarvedOnlyByLostCallOrReplacement` (streams share a
  subscription that the end of any of them closes; since the gateway never ends a
  call, only a lost one does, or a client that was replaced);
  `BookRecovers`; `SubscriberIsFed` (a call that is not lost and not cut off in this
  way gets candles).

`candles`
: `TypeOK`; `CandlesStayInOrder` (the sockets and the limit orders hear of candles in
  the order of their arrival, and of none that the cache does not have; a candle may
  come twice or late to the limit orders only if ioredis has sent its PUBLISH or its
  `queue.add` again, or if it is one of the other process);
  `EveryCandleIsChecked` (each candle with a price is checked, but for those that a
  fault has taken or that came before SUBSCRIBE took effect).

`flowex_payments`
: `CreditsLostOnlyByOverlap` (a wallet row that no call changed under a charge holds
  what its calls have moved; a user with only such rows holds what the confirmed
  deposits are worth: exactly up to `Exact`, within a `Spacing` for each beyond; a
  deposit is credited twice only by callbacks that overlap); `ReservationIsCurrent` (a
  reservation holds the row lock, and charges wait for it to write).

### The four disagreements

* `orders_orphan` - `wallet.entity.ts:17` says that `lockedBalance` is for pending
  limit orders. `LockedIsForPendingOrders` states that, for calls that the wallet
  service answered truly. `createOrder` has no compensation for `lockFunds`: TLC
  shows a call whose answer is lost and leaves funds locked with no order.
* `payments_units` - `zarinpale.service.ts:52` converts the amount to Rial by
  multiplying with 10, and `wallet.service.ts:39` says that `chargeWallet` converts
  Rial to dollars; the amount charged was never multiplied.
  `PaidRialsAreConverted` says that both comments hold, and fails.
* `auth_reuse` - the mail of `mailer.service.ts:44` says that a code "can only be
  used once". `verify` compares the code and leaves it in Redis: TLC logs in
  twice with one code (`CodeIsUsedOnce`).
* `flowex_wallet_lost` - the FlowEx `wallet.entity.ts:20` says that `lockedBalance`
  is for pending limit orders. `LockedIsForPendingOrders` fails: a charge that
  read the wallet before an order was placed writes the old value back.

### Why the bounds are enough

Calls interact in pairs: by a row lock, a stale read, a crossing callback. Two calls
give every pair, and a third is there for what a pair leaves behind (a callback that
arrives after two that overlapped, an order that takes a share of what two others left).
One user is enough for wallets and orders, because rows of different users share
nothing: every query is by user, and the sums of `BooksBalance` are for each user.
`payments` has two, since a callback finds its user through the transaction row.

In `wallet` two calls can double a wallet, and two more can then lock its rows in
opposite orders, so there are four. A ring of three needs nothing that a ring of two
does not. Calls are alike, and `MCSpec` fixes which call has which of their requests; the
seven assignments are charges alone, charges with reservations of half of what is
available, in dollars and in coins, and a reservation of nothing, which is refused.

The scales are small, so that amounts cross `Exact`. In `wallet` (`Whole` = 2,
`Exact` = 4, `Spacing` = 2), credits of 1 and 3 units make half of a balance round
(half of one unit rounds to all of it) and two of 3 pass `Exact`, where sums of 5 and 7
cannot be stored. In `orders` (`Whole` = 2, `Exact` = 16, `Spacing` = 4) three orders
take half of what is left of 20 units each: the third share is no whole number, and what
is then locked passes `Exact` and is less than the three answers claim. In `limit_orders`
(`Whole` = `Exact` = `Spacing` = 4) two orders take a quarter of what is left of 12
units: the second share is no whole number, and what is then locked passes `Exact`; the
charge makes a balance of 15, which cannot be stored. In `flowex_payments` (`Exact` = 8, `Spacing` = 4) one credit
of 5 units can be stored and the sum of two cannot. The amounts of `payments` do not
round: what a credit does to a sum is the subject of `wallet`.

`limit_orders` needs two orders (one may hold the row lock the other waits for, and both
can be hit by one candle), two prices (hit and not hit), two workers (they read one
order at a time) and two candles (one to queue an execution, one that checks the book
again while the first is unfinished). The requests are two purchases on one wallet row at
one price, two at two prices, and a purchase beside a sale; two sales lock as two
purchases do, and exchanging the orders gives the rest. `MaxTicks` bounds the candles in
the guards, `MaxEvents` the faults of workers and the charges together. One fault in the
life of two orders already gives every pair of a fault and another worker's step, and one
charge is enough for what a stale copy does to orders (two charges that overlap are the
subject of `flowex_payments`); a fault and a charge in one behaviour are left to the
proof, which covers any number of both. `payments` has one connection, so that one
deposit that waits stops every callback.

`auth` needs a third call for what two that raced leave behind (a code that a check then
uses), two emails and names to be equal or not, and an account that is not verified to be
there already; a request touches nobody, and sockets meet in one thing, the process that
the exception of one ends for the other. `market`: a stream that opens, one that closes
the channel, one that comes later, two of them of one socket; a channel beside theirs; a
client to replace, its replacement and one more (`MaxClients`), each connecting again
(`MaxConnects`). `candles`: two candles overlap in every way two handlers can,
`MaxForeign` puts one of another process before, between or after them, and two faults
give one during the other's recovery (`MaxCandles`, `MaxFlowExClients`, `MaxFaults`).
`flowex_payments`: two charges and a reservation are every pair that can share a row;
three more would be alike. Nothing else is cut off. Symmetry is used in `auth`,
`flowex_payments` and `flowex_wallet_lost` only, over calls, codes, sockets or deposits
that the definitions treat alike, and only invariants and properties of single steps are
checked with it.

`Next` of each module has a `Finished` stutter (`CandleFeed` needs none: its client
goes on connecting) for the state in which every call
has ended, so deadlock is checked everywhere and means a call that is stuck.

### Fairness

`WF` is assumed of the steps that the code itself takes once a call is in progress: the
database answers a statement and breaks a deadlock, Node runs the continuation, the
wallet service serves a request that reached it, a free BullMQ worker takes the next
job. No fairness is assumed of callers, users, ZarinPal's redirects, candles or
failures. A row lock needs no more than weak fairness on an instance with finitely many
calls, since each holder commits or rolls back. In `Payments` the request of a deposit
to ZarinPal ends, with an answer or without: `HttpModule` gives it five seconds
(`wallet/src/wallet.module.ts:22`; in FlowEx ten, `http.module.ts:7`). A waiting
statement needs no strong fairness: the deposits are finitely many, and when they are
done the pool stays free. In `MarketFeed` and `GatewayFeed` a timer goes off, a client
that tries to connect does so in the end (Centrifuge backs off and tries for ever), and
a gRPC request that was sent is served; in `CandleFeed`, Redis executes and answers
commands, and messages are handled; a subscription need never take effect.
`BookRecovers` assumes nothing of the connections that are lost again: their number is
bounded by `MaxConnects`.

### What is assumed of libraries

* PostgreSQL at READ COMMITTED: a `FOR UPDATE` locks the rows it finds one by one, in
  an order nobody has asked for, waits for each that is locked and reads it then; an
  update waits for the row's lock; a ring of waiting transactions is found, and a
  statement of one of them fails; unique constraints hold.
* TypeORM's `save` of a loaded entity selects the row again and updates the
  columns that differ, where a number differs from the string that the driver returns
  for a numeric column; inside a transaction nothing is seen before the commit.
* Centrifuge reports `disconnected` only when it has given up, resubscribes after
  a lost connection, and keeps an unsubscribed subscription registered.
* ioredis keeps commands in order and sends those that were not answered again
  after a reconnection (its default), on each connection by itself, BullMQ's included;
  a subscriber misses what is published while it is down or before it has subscribed.
* BullMQ's `add` is one command, which adds a job each time it is executed; BullMQ
  hands a stalled job to a worker again, ahead of the others, whether its
  worker is dead or only slow, and drops one that failed, because the jobs are
  added with one attempt.
* A connection pool serves whoever waits when a connection comes back; a
  transaction holds one connection from its begin to its end.
* socket.io (4.8.1) takes a socket that disconnects out of its rooms, and its `join`
  does nothing from then on. Nest calls `handleDisconnect` for a socket once
  `handleConnection` has returned or is awaited, and nothing catches what it throws: the
  process may end.
* gRPC ends a call when a process or the connection is lost, each side notices in
  its own time, and the server's observable is then unsubscribed.

## 5. Proofs

Eight modules. `Funds_proofs` has the lemmas that several of the others need: what
`Round` and `ToNumber` do, and what holds of the sums that balance the books (both
below). The other
seven prove their theorems for every value of the constants that the named assumption
of the specification allows, each from an inductive invariant that is proved by one
lemma for each action or group of actions. Two specifications may share a module:
`Sessions_proofs` begins with `AuthOtp`, which `Sessions` extends, and `Feeds_proofs`
has the two feeds of candles, `CandleFeed` and `GatewayFeed`, which share neither a
name nor a variable.

| Module | Theorem | Says |
|---|---|---|
| `WalletService_proofs` | `Invariance` | `Spec => []IInv` |
| | `TypeCorrect` | `Spec => []TypeOK` |
| | `NeverOverlocked` | `Spec => []LockedWithinBalance` |
| | `NoStaleRow` | `Spec => []LoadedRowIsCurrent` |
| | `RingsAreOverDoubledWallets` | `Spec => []OnlyDoubledWalletsDeadlock` |
| | `RefinesLedger` | `Spec => Ledger!Spec`: the detailed service implements the abstract one |
| | `BooksInvariance` | `Spec => []BookKeeping` |
| | `BooksAlwaysBalance` | `Spec => []BooksBalance` |
| | `NeverDoubledOnceSettled` | `Spec => SettledWalletIsNeverDoubled`, an action property |
| `OrderSaga_proofs` | `Invariance` | `Spec => []IInv` |
| | `TypeCorrect` | `Spec => []TypeOK` |
| | `OpenInBook` | `Spec => []OpenOrderIsInBook` |
| | `OrphansNeedFaults` | `Spec => []OrphanOnlyByFault` |
| | `TrueAnswers` | `Spec => []AnswerIsTrue` |
| | `BooksInvariance` | `Spec => []LockedForServed` |
| | `OrdersAreBacked` | `Spec => []OpenOrdersAreBacked` |
| `Payments_proofs` | `Invariance` | `Spec => []IInv` |
| | `TypeCorrect` | `Spec => []TypeOK` |
| | `OnlyPaidIsCredited` | `Spec => []CreditedDepositIsPaid` |
| | `DoubleCreditNeedsRace` | `Spec => []DoubleCreditOnlyByRace` |
| | `CompletedGetsCredited` | `Spec => []CompletedIsCredited` |
| `Sessions_proofs` | `Invariance` | `Spec => []IInv`, of `AuthOtp` |
| | `TypeCorrect` | `Spec => []TypeOK` |
| | `UniqueUsers` | `Spec => []UsersAreUnique` |
| | `CodesForUsers` | `Spec => []CodesAreForUsers` |
| | `SentCodesWork` | `Spec => []SentCodeWorks` |
| | `LoginsNeedCodes` | `Spec => []LoginIsByStoredCode` |
| | `SessionInvariance` | `SessionSpec => []SessionInv` |
| | `SessionsImplementService` | `SessionSpec => Spec`: the sessions implement `AuthOtp` |
| | `SessionTypeCorrect` | `SessionSpec => []SessionTypeOK` |
| | `OnlyVerifiedUsersEnter` | `SessionSpec => []SessionIsOfVerifiedUser` |
| | `MembersLeaveQuietly` | `SessionSpec => OnlyUnverifiedThrow`, an action property |
| `Feeds_proofs` | `CandleInvariance` | `Spec => []CandleInv`, of `CandleFeed` |
| | `CandleTypeCorrect` | `Spec => []TypeOK` |
| | `CandlesInOrder` | `Spec => []CandlesStayInOrder` |
| | `GatewayInvariance` | `GatewaySpec => []GatewayInv`, of `GatewayFeed` |
| | `GatewayTypeCorrect` | `GatewaySpec => []GatewayTypeOK` |
| | `OnlyLossStarves` | `GatewaySpec => []StarvedOnlyByLostCallOrReplacement` |
| `LimitOrders_proofs` | `Invariance` | `Spec => []IInv` |
| | `SettledOnce` | `Spec => []SettledTwiceOnlyByOverlap` |
| | `AtTarget` | `Spec => []SettledAtTarget` |
| | `StrandedInKnownWays` | `Spec => []StrandedOnlyByRaceOrFailure` |
| | `AnnouncementsComeTrue` | `Spec => []AnnouncedIsClosed` |
| | `FundsInvariance` | `Spec => []FundsInv` |
| | `FundsAreLockedForOpenOrders` | `Spec => []LockedIsForOpenOrders` |
| | `TypeCorrect` | `Spec => []TypeOK` |
| `FlowExPayments_proofs` | `Invariance` | `PaymentsSpec => []Inv` |
| | `TypeCorrect` | `PaymentsSpec => []TypeOK`, of the transactions (`FlowExWallet`) |
| | `ReservationsAreCurrent` | `PaymentsSpec => []ReservationIsCurrent` |
| | `OnlyOverlapsLoseCredits` | `PaymentsSpec => []CreditsLostOnlyByOverlap` |

**The doubles** (`Funds_proofs`, from `FundsAssumption`). `Round` is monotone and leaves
whole units alone, and `ToNumber` inherits that across the change of its spacing at
`Exact` (`ToNumberMonotone`, `ToNumberIsStored`): so a reservation of a share of what is
available stays within a balance that is itself stored (`ReserveStaysWithin`), however
either is rounded, and a charge never takes a balance below what is locked
(`ChargeOnlyAdds`). `ToNumberNear` bounds what one conversion can change, and from it
`ChargeGrows` and `ReserveGrows` say how far a column moves away from what was asked:
not at all below `Exact`, by no more than a `Spacing` beyond. `DriftGrows` adds that up over
the calls.

**The sums** (`Funds_proofs`). Books are balanced by `SumFunctionOnSet`, a fold that
takes some element of a finite set and goes on with the rest. `SumsExist` and
`SumsAgree` show that the recursion has exactly one solution, by the smallest set for
which that fails (`SmallestSet`, from the well-foundedness of strict inclusion on a
finite set: an argument without the induction theorems, which take an operator as a
parameter). From it come `SumTakes` (any element can be taken out first), `SumOfPart`
(a part of a sum of naturals is not larger) and `SumChanges`, which every proof about
books cites: when one element's value changes, or whether it is in the set, the sum
changes by the difference.

**`WalletService`** (from `ConstantsAssumption`). `LockedWithinBalance` is not
inductive: a commit writes an `entity` that the invariant says nothing about. `IInv`
adds that a call past its query holds the lock of the row it works on (or that the row
is one it inserted and nobody else sees), that the row's owner and currency are the ones
it asked for, that what the columns hold has been through `toNumber()`
(`RowsAreStored`), and that the entity it is about to commit is the committed row or an
empty one with one change (`SavedIsOneChange`), the one `moved` says, rounded. With the
lock held, no other call commits to that row, so the entity stays one ledger change
ahead of it; this is also what makes the commit a `Credit`, a `Reserve` or an `Open` in
the refinement. What a call holds while it is still locking rows is said by
`LocksAreForTheKey` (rows of its user and currency only) and `WaitsForOthers` (the row
it waits for, and those to come, are others of the same key): so two calls in a ring
each hold one row and want another of the same key, which makes two rows
(`RingNeedsTwoRows`). `BookKeeping` adds to `BooksBalance` that both sides are sums over
finite sets: rows and ended calls are finitely many at any time, whatever `Calls` is.
Each step of a call but its last leaves both sums, and the commit moves both alike but
for one rounding, because the row it writes is one change of the committed row. For
`SettledWalletIsNeverDoubled`, `OwnRow` says that a call works on no row but its own
until it has found or inserted one: so a call starts to insert only when it has just
found none, and a settled wallet is found by everybody.

**`OrderSaga`** (from `SagaAssumption`). What an order leaves behind depends on how
far its call came, and `IInv` says how far for each trace of it: a reservation
needs a request that was served (`RequestsAreServedOnce`), a refused one has
reserved nothing unless its commit was lost (`RefusalIsTrue`), a call goes on only
with a granted lock (`FundsAreLocked`), the book has the id before the row exists
and not before `zadd` (`BookBeforeRow`), and a call that ends without a failure
ends with an order or a refusal (`RowAtTheEnd`, `CleanEnd`). `WalletsCoverLocks`
is what the guard of `lockFunds` preserves; with `ShareBounds` it keeps the
amounts in their types. `LockedForServed` says what is locked in a row: what was
reserved for every call whose `lockFunds` was served, with or without an answer. The
open orders are among these calls, and an order of a call that lost its answer is
not, so the claims of the open orders are a part of that sum. Answers
and locked balances are rounded apart from each other, so the two differ by the drift
of as many reservations where amounts pass `Exact`.

**`Payments`** (from `PaymentAssumption`). A callback reads PENDING, then waits for
the gateway, then saves and charges, and holds no lock between. Nothing is assumed of
who sends it, of what it names or of its Status. `IInv` says what it
may still rely on at each step: that only a deposit that is done has a row
(`RowsOfDoneDeposits`) and the callback works on one that has (`CallbackHasRow`), that
what the gateway confirmed stays confirmed (`ConfirmedIsVerified`: the only way to the
save is ZarinPal's answer) and that a row it is about to charge for has been saved
(`ChargedIsSaved`). `VerifiesAlone` is the strengthening of
`DoubleCreditOnlyByRace`: as long as no two callbacks for a deposit overlapped, the
one that is verifying is alone and nothing has been credited before it.

**`AuthOtp`** (in `Sessions_proofs`, from `AuthAssumption`). Calls look at a row or at
the Redis key and act on it later. `IInv` says what is left of what they saw: a user
never goes away, so a call past its lookup has one (`HasAccount`), and a verified one
stays verified (`KnownIsVerified`); the code in Redis is the one its call has made
(`StoredByCall`, `FreshIsStored`); a call about to store that no other overlapped finds
the key free and is alone (`StoresAlone`), and what it stores stays until it expires
(`StoredStays`). `StoresAlone` is why `SentCodeWorks` has only the one exception. The
proof goes through `Moves`, which says once what a step of a call may do to the table,
to the codes and to the answers: `CallMoves` shows it for each action, and each part of
the invariant is preserved by any such move.

**`Sessions`** (from `SessionAssumption` and `AuthAssumption`). Every step of a session
is a step of `AuthOtp` or leaves its variables alone, so `IInv` of `AuthOtp` holds
throughout. `SessionInv` adds what a token stands for: a login is the last answer of
its call (`LoginIsDone`), a token is the answer of a login and whoever is past the
guard has one (`TokenIsOfLogin`), and a socket that is connected is being verified or is
in its room and has its user (`OnlineHasUser`): so of those that leave, only the former
make `handleDisconnect` throw.

**`CandleFeed`** (in `Feeds_proofs`, from `CandleAssumption`). The handlers interleave
and Redis executes, answers, loses and repeats; what orders all of it is `Sent`, the
commands that were sent and whose handler has not gone on, executed ones first. Redis
executing one of them changes nothing in `Sent`, and neither does sending them again.
`SentInOrder`: in `Sent` the commands of one kind are in the order of the candles, and
a candle that is published comes before any that waits for its SET. `CachedFirst`,
`HeardInOrder`, `ShownInOrder` and `CheckedInOrder` say how far the cache, the sockets
and the stations of a candle on its way to the limit orders (inbox, calls of
`queue.add`, jobs) have come in that order. `CheckedInOrder` is about the candles that
are not `Exempt`: those of another process, which have no place in this order, and those
whose PUBLISH or `queue.add` was sent again, which may be executed a second time after
a later one. All other candles keep their order across the stations, also where an
exempt one stands between them. That the
cache only grows is not among them: after a SET is sent again it may go back to an
older candle, though never to one older than those already published.

**`GatewayFeed`** (in `Feeds_proofs`, from `FeedAssumption`). A channel can be
unsubscribed by another socket than the one that waits for it, so the property needs
to know by whom: `UnsubscribedByLostCall` says it was a call of the same client and
channel that has ended. `StreamHasSubscription` says that an open stream listens to
a subscription of the current client or of one before it.

**`LimitOrders`** (from `LimitAssumption`). `IInv` follows an order from the book to
its settlement. A worker has the job of its step, and the ids it goes through are at
the price of its check (`WorkerHasJob`), so every execution is queued at the price of
its order (`JobsAtTarget`). A row exists when its placement is done and while it is
settled (`RowsOfPlaced`). An order that was added to the book and is no longer there
is waiting for its execution, closed, early or failed (`NotLost`): this must hold
before the row is committed, too, because `zadd` comes first, and of the order a
worker has queued and is about to remove. `SettlesAlone` strengthens
`SettledTwiceOnlyByOverlap`: while no worker has read an order during another's
settlement, whoever settles it is alone and it is still open. What the steps do to
queued and running jobs is said once, by the lemmas about `Executions`.
`FundsInv` is about the wallets. A placement reads what is available and commits
later: `PlacementHoldsRow` says that meanwhile it has the row lock alone, no
settlement of its user is about to commit and charges wait, so what it found is still
there. `RowsStored` says that all columns, and the copies of the charges, have been
through `toNumber()`. `CleanIsBacked` is the property with finite sums, for the rows that
no overlapping settlements and no charge with a stale copy has spoilt (`Clean`), and
exactly for those that `toNumber()` has left alone. A settlement takes what the order
has locked from both columns of one row and only adds to the other (`VolumeIsNat`); a
charge either finds its copy as it was, and only adds, or makes the row one that is not
clean any more (`SaveChargeFunds`).
`EachSettlesOnce` gives `closed` the bound of `TypeOK`: once an order is closed nobody
reads it as open, so the settlements still to come are those of the workers that have
read it, each of which commits once; for this `Workers` is finite.

**`FlowExPayments`** (from `FlowExAssumption` and `FlowExPaymentsAssumption`). Its
charges take no lock. `CopyIsFresh` says what the copy of a call is worth: as long as
nobody has written the row of a charge since it was read (`overlapped` names the
others), the copy is the committed row with the amount added and rounded (`Grown`), and
what `save` will write is the balance and no other column (`Dirty`). A reservation holds
the lock (`HoldsLock`) and even charges wait for it when they write, so its copy is
always such a row: this is `ReservationIsCurrent`. `PaymentInv` is the invariant of
`Payments_proofs` for a charge of many steps, with the callback staying where it is
until its transaction ends (`ChargeIsOfDeposit`: the amount charged is what the row it
read is worth). The books are kept per row (`RowBooks`: what the calls that ended with
it have moved) and per user (`UserBooks`: the balances against the worth of the credited
deposits), both exactly while the amounts are below `Exact` (`AllExact`) and within a
`Spacing` for each call or credit beyond. No set of calls or deposits need be finite.

### What the assumptions say

`FundsAssumption` asks that `Whole` and `Spacing` are positive and that `Exact` is a
multiple of `Spacing`, as 2^53 is. `ConstantsAssumption` asks that percentages are
integers, in steps of which `Whole` are 100 percent and of any size, since
`lockFunds` itself refuses what is no share. `SagaAssumption`, `LimitAssumption` and
`FlowExAssumption` ask for steps above 0 and up to `Whole`: the DTOs of the two order
endpoints have `@Min(1)` and `@Max(100)` and admit any number between, so `Whole` is as
fine as the finest percentage. `SagaAssumption` and `LimitAssumption` also ask that the
first funding is an amount that can be stored. All ask that credits or fundings are natural
numbers and that the dollar is a currency, and that `NoWallet`, `NoCall` and `NoToken`,
where there are any, are no wallet, no call and no token. `PaymentAssumption` and
`FlowExPaymentsAssumption` ask for positive amounts, the latter for at least one;
`LimitAssumption` for finitely many workers, positive prices and natural bounds;
`FeedAssumption` and `CandleAssumption` for natural bounds and a first client;
`AuthAssumption` for accounts to begin with that the unique constraints admit. No
assumption bounds the users, calls, deposits, orders, streams, sockets or candles.
TLC evaluates each in the runs of its module.

### Only model-checked

The liveness properties (`EveryCallIsAnswered`, `ConfirmedPaymentIsCredited`,
`EveryOrderIsAnswered`, `QueuedOrderIsClosed`, `BookRecovers`, `SubscriberIsFed`,
`EveryCandleIsChecked`) stay with TLC: liveness under fairness and `ENABLED` are
beyond the proof system used. Every invariant and action property that a passing run
checks has a theorem. No module declares a `RECURSIVE` operator.

## 6. Not modelled

* The gateway's controllers, validation and exception filters: they keep no state
  and forward each request to one gRPC call; the calls are the first actions of
  `AuthOtp`, `Payments` and `OrderSaga`. `rpc-error.interceptor.ts` is not installed
  (`gateway/src/main.ts:14`).
* How many times an order book is published: `MarketFeed` counts the listeners that
  pile up, and nothing in the repository says that there should be one.
* That candles come back after the FlowEx client was replaced: they do not, since
  nothing subscribes the new client. `CandleFeed` models it, and nothing in the
  repository promises otherwise.
* Of the doubles: that ties go to the even one, that the distance between them doubles
  again and again (one `Spacing` stands for all of it), amounts below zero that pass
  `Exact`, and amounts that do not fit into `numeric(30,10)`, which the database refuses
  (a failed statement is modelled). Prices are whole numbers.
* A channel that Nobitex refuses: the symbol of a subscription is taken as one it has.
* A sign-up whose mail has failed and that is repeated: the steps are in `AuthOtp`, and
  nothing in the repository promises that it works.
* `pnlPercent`, wording, logging, HTTP status codes, the contents of tokens, wiring
  and types.
