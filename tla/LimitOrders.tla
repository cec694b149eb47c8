---------------------------- MODULE LimitOrders ----------------------------
(***************************************************************************)
(* Limit orders of apps/FlowEx: placing them (order.service.ts), looking   *)
(* for the ones a price hits and settling them (order-execution.service.ts,*)
(* run by the BullMQ processor limit-order.processor.ts), for one coin.    *)
(*                                                                         *)
(* The order book is a Redis sorted set, the job queue is BullMQ's, and    *)
(* orders and wallets are rows of one database.  Only the Redis writes and *)
(* the socket events are visible before a transaction commits.  One element*)
(* of Orders is one call of placeLimitOrder and names the row it inserts;  *)
(* each element of Workers is a FlowEx process, whose processor has the    *)
(* default concurrency of one job.                                         *)
(*                                                                         *)
(* Deposits are paid into the same USD wallets meanwhile: each element of  *)
(* Charges is one call of chargeWallet (modules/wallet/wallet.service.ts), *)
(* which takes no row lock.                                                *)
(***************************************************************************)
EXTENDS Funds, Sequences, FiniteSets, Functions

CONSTANTS Users, Orders, Workers,
          Coin,      \* the symbol: the currency of the orders and of a wallet
          Prices,    \* the prices of a candle and of an order
          Percents,  \* the percentOfWallet of an order, in steps of which
                     \* Whole are 100 percent
          Funding,   \* the units of USD and of the coin a user starts with
          Requests,  \* what the calls of placeLimitOrder may be called with
          Credit,    \* what each call of chargeWallet adds, and to whom
          MaxTicks,  \* bounds: candles,
          MaxEvents  \* and, together, failures of a worker and charges

Ask == [userId : Users, side : {"BUY", "SELL"}, price : Prices, percent : Percents]

Charges == DOMAIN Credit

ASSUME LimitAssumption ==
  /\ Prices \subseteq Nat \ {0}
  /\ Percents \subseteq Int /\ \A p \in Percents : ValidPercent(p)
  /\ Funding \in [{USD, Coin} -> Nat]
  /\ \A k \in {USD, Coin} : Stored(Funding[k])
  /\ Credit \in [Charges -> [userId : Users, amount : Nat]]
  /\ Coin # USD
  /\ Requests \subseteq [Orders -> Ask]
  /\ IsFiniteSet(Workers)
  /\ MaxTicks \in Nat /\ MaxEvents \in Nat

VARIABLES wallets,  \* balance and locked units of each user and currency
          ask,      \* what each placeLimitOrder is called with
          amount,   \* the units each order has locked
          place,    \* where each placeLimitOrder is
          orders,   \* status of each committed order row, or "none"
          exit,     \* exitPrice of each closed order
          charge,   \* where each chargeWallet is
          copy,     \* the row it has read
          book,     \* the ids in order:limit:{side}:{currency}
          queue,    \* the waiting jobs
          job,      \* the job each worker processes
          pc,       \* where each worker is
          side,     \* the side a worker scans
          todo,     \* orderIds it has read and not yet moved
          cur,      \* the order it moves or settles
          announced, \* orders whose 'order-closed' was emitted
          closed,   \* how often each order has been settled
          overlapped, \* orders that a worker read while another settled them
          early,    \* orders whose job ran before their row was committed
          failed,   \* orders whose execution failed
          rounded,  \* rows whose locked balance toNumber() has changed
          lost,     \* rows in which a charge has written over a change
          ticks, events

tables == <<wallets, amount, place, orders, exit>>
charging == <<charge, copy>>
worker == <<job, pc, side, todo, cur>>
spoilt == <<rounded, lost>>
history == <<announced, closed, overlapped, early, failed, spoilt>>
bounds == <<ticks, events>>
vars == <<tables, charging, ask, book, queue, worker, history, bounds>>

CheckJob == [name : {"check"}, price : Prices]

ExecuteJob == [name : {"execute"}, order : Orders, price : Prices]

NoJob == <<>>

\* The wallet row an order locks: USD to buy, the coin to sell.
Row(o) == <<ask[o].userId, IF ask[o].side = "BUY" THEN USD ELSE Coin>>

Columns == [balance : Int, locked : Int]

TypeOK ==
  /\ wallets \in [Users \X {USD, Coin} -> Columns]
  /\ charge \in [Charges -> {"idle", "save", "done"}]
  /\ copy \in [Charges -> Columns]
  /\ rounded \subseteq Users \X {USD, Coin}
  /\ lost \subseteq Users \X {USD, Coin}
  /\ ask \in [Orders -> Ask]
  /\ amount \in [Orders -> Nat]
  /\ place \in [Orders -> {"idle", "commit", "done", "failed"}]
  /\ orders \in [Orders -> {"none", "OPEN", "CLOSE"}]
  /\ exit \in [Orders -> Prices \cup {0}]
  /\ book \subseteq Orders
  /\ queue \in Seq(CheckJob \cup ExecuteJob)
  /\ job \in [Workers -> CheckJob \cup ExecuteJob \cup {NoJob}]
  /\ pc \in [Workers -> {"free", "scan", "add", "remove", "load", "settle", "commit"}]
  /\ side \in [Workers -> {"BUY", "SELL"}]
  /\ todo \in [Workers -> SUBSET Orders]
  /\ cur \in [Workers -> Orders \cup {NoJob}]
  /\ announced \subseteq Orders /\ overlapped \subseteq Orders
  /\ closed \in [Orders -> 0 .. Cardinality(Workers)]
  /\ early \subseteq Orders /\ failed \subseteq Orders
  /\ ticks \in 0 .. MaxTicks /\ events \in 0 .. MaxEvents

Init ==
  /\ wallets = [i \in Users \X {USD, Coin} |->
                  [balance |-> Funding[i[2]], locked |-> 0]]
  /\ ask \in Requests
  /\ amount = [o \in Orders |-> 0]
  /\ place = [o \in Orders |-> "idle"]
  /\ orders = [o \in Orders |-> "none"]
  /\ exit = [o \in Orders |-> 0]
  /\ book = {} /\ queue = <<>>
  /\ job = [w \in Workers |-> NoJob]
  /\ pc = [w \in Workers |-> "free"]
  /\ side = [w \in Workers |-> "BUY"]
  /\ todo = [w \in Workers |-> {}]
  /\ cur = [w \in Workers |-> NoJob]
  /\ announced = {} /\ overlapped = {}
  /\ closed = [o \in Orders |-> 0]
  /\ early = {} /\ failed = {}
  /\ rounded = {} /\ lost = {}
  /\ charge = [c \in Charges |-> "idle"]
  /\ copy = [c \in Charges |-> [balance |-> 0, locked |-> 0]]
  /\ ticks = 0 /\ events = 0

----------------------------------------------------------------------------
(* placeLimitOrder: one transaction that locks the wallet row, inserts the *)
(* order and adds it to the book before it commits.                        *)

\* A placement locks one wallet row, a settlement the two of its user.
RowIsLocked(i) ==
  \/ \E o \in Orders : place[o] = "commit" /\ Row(o) = i
  \/ \E w \in Workers : pc[w] = "commit" /\ ask[cur[w]].userId = i[1]

\* lockUsdForBuy or lockCryptoForSell, in parts.
ShareOfWallet(o) == ShareOf(Available(wallets[Row(o)]), ask[o].percent)

(* The order row holds the amount by itself; the wallet row, the sum with  *)
(* what was locked.  Each leaves Big on its own.                           *)
PlaceOrder(o) ==
  /\ place[o] = "idle"
  /\ ~RowIsLocked(Row(o))
  /\ ShareOfWallet(o) > 0
  /\ amount' = [amount EXCEPT ![o] = ToNumber(ShareOfWallet(o))]
  /\ book' = book \cup {o}
  /\ place' = [place EXCEPT ![o] = "commit"]
  /\ UNCHANGED <<wallets, orders, exit, charging, ask, queue, worker, history, bounds>>

NoteRounding(i, n) ==
  rounded' = IF wallets'[i].locked = wallets[i].locked + n THEN rounded
             ELSE rounded \cup {i}

\* The wallet row is locked, and so still as it was read.
CommitOrder(o) ==
  /\ place[o] = "commit"
  /\ place' = [place EXCEPT ![o] = "done"]
  /\ wallets' = [wallets EXCEPT ![Row(o)].locked =
                    ToNumber(@ * Whole + ShareOfWallet(o))]
  /\ NoteRounding(Row(o), amount[o])
  /\ orders' = [orders EXCEPT ![o] = "OPEN"]
  /\ UNCHANGED <<amount, exit, charging, ask, book, queue, worker, announced, closed,
                 overlapped, early, failed, lost, bounds>>

(* Nothing is available, or the transaction fails: all is rolled back but  *)
(* the id in the book.                                                     *)
AbortOrder(o) ==
  /\ place[o] \in {"idle", "commit"}
  /\ place' = [place EXCEPT ![o] = "failed"]
  /\ UNCHANGED <<wallets, amount, orders, exit, charging, ask, book, queue, worker,
                 history, bounds>>

----------------------------------------------------------------------------
(* chargeWallet.  It reads the row without a lock; its save updates the    *)
(* balance, and the locked balance too when the copy differs from the row  *)
(* as TypeORM reads it again, in between or just now.  The update waits    *)
(* for the row's lock.                                                     *)

UsdRow(c) == <<Credit[c].userId, USD>>

CountEvent == events < MaxEvents /\ events' = events + 1

ReadForCharge(c) ==
  /\ charge[c] = "idle"
  /\ charge' = [charge EXCEPT ![c] = "save"]
  /\ copy' = [copy EXCEPT ![c] = wallets[UsdRow(c)]]
  /\ CountEvent
  /\ UNCHANGED <<tables, ask, book, queue, worker, history, ticks>>

Charged(row, n) == [row EXCEPT !.balance = ToNumber((@ + n) * Whole)]

SaveCharge(c) ==
  LET i == UsdRow(c) IN
  /\ charge[c] = "save"
  /\ ~RowIsLocked(i)
  /\ charge' = [charge EXCEPT ![c] = "done"]
  /\ \E n \in {wallets[i].locked, copy[c].locked} :
       wallets' = [wallets EXCEPT ![i] =
                     [Charged(copy[c], Credit[c].amount) EXCEPT !.locked = n]]
  /\ lost' = IF wallets'[i] = Charged(wallets[i], Credit[c].amount) THEN lost
             ELSE lost \cup {i}
  /\ UNCHANGED <<amount, place, orders, exit, copy, ask, book, queue, worker, announced,
                 closed, overlapped, early, failed, rounded, bounds>>

----------------------------------------------------------------------------
(* A candle of the coin arrives: services/market.service.ts queues a check.*)
Tick(p) ==
  /\ ticks < MaxTicks
  /\ ticks' = ticks + 1
  /\ queue' = Append(queue, [name |-> "check", price |-> p])
  /\ UNCHANGED <<tables, charging, ask, book, worker, history, events>>

----------------------------------------------------------------------------
(* The worker.  It takes the jobs in order, one at a time.                 *)

Goto(w, from, to) == pc[w] = from /\ pc' = [pc EXCEPT ![w] = to]

\* Mutant: the name of the execution job is not one the switch knows.
TakeJobUnknownName(w) ==
  /\ pc[w] = "free" /\ queue # <<>>
  /\ queue' = Tail(queue)
  /\ IF Head(queue).name = "check"
     THEN /\ job' = [job EXCEPT ![w] = Head(queue)]
          /\ pc' = [pc EXCEPT ![w] = "scan"]
     ELSE UNCHANGED <<job, pc>>
  /\ UNCHANGED <<tables, charging, ask, book, side, todo, cur, history, bounds>>

TakeJob(w) ==
  /\ pc[w] = "free" /\ queue # <<>>
  /\ job' = [job EXCEPT ![w] = Head(queue)]
  /\ queue' = Tail(queue)
  /\ pc' = [pc EXCEPT ![w] = IF Head(queue).name = "check" THEN "scan" ELSE "load"]
  /\ UNCHANGED <<tables, charging, ask, book, side, todo, cur, history, bounds>>

(* checkLimitOrders moves the ids of one side one by one, then reads the   *)
(* other side, then the job is done.                                       *)
GoOnWith(w, ids) ==
  /\ todo' = [todo EXCEPT ![w] = ids]
  /\ \/ /\ ids # {}
        /\ pc' = [pc EXCEPT ![w] = "add"]
        /\ UNCHANGED <<side, job>>
     \/ /\ ids = {} /\ side[w] = "BUY"
        /\ side' = [side EXCEPT ![w] = "SELL"]
        /\ pc' = [pc EXCEPT ![w] = "scan"]
        /\ UNCHANGED job
     \/ /\ ids = {} /\ side[w] = "SELL"
        /\ side' = [side EXCEPT ![w] = "BUY"]
        /\ pc' = [pc EXCEPT ![w] = "free"]
        /\ job' = [job EXCEPT ![w] = NoJob]

IdsAt(w, prices) == {o \in book : ask[o].side = side[w] /\ ask[o].price \in prices}

\* Mutant: the range starts at zero and not at the price.
ScanUpTo(w) ==
  /\ pc[w] = "scan"
  /\ GoOnWith(w, IdsAt(w, 0 .. job[w].price))
  /\ UNCHANGED <<tables, charging, ask, book, queue, cur, history, bounds>>

\* Mutant: what is read is taken out of the book at once.
ScanAndRemove(w) ==
  /\ pc[w] = "scan"
  /\ GoOnWith(w, IdsAt(w, {job[w].price}))
  /\ book' = book \ IdsAt(w, {job[w].price})
  /\ UNCHANGED <<tables, charging, ask, queue, cur, history, bounds>>

\* The ids whose score is exactly the price.
Scan(w) ==
  /\ pc[w] = "scan"
  /\ GoOnWith(w, IdsAt(w, {job[w].price}))
  /\ UNCHANGED <<tables, charging, ask, book, queue, cur, history, bounds>>

QueueExecution(w) ==
  /\ Goto(w, "add", "remove")
  /\ \E o \in todo[w] :
       /\ queue' = Append(queue, [name |-> "execute", order |-> o,
                                  price |-> job[w].price])
       /\ cur' = [cur EXCEPT ![w] = o]
  /\ UNCHANGED <<tables, charging, ask, book, job, side, todo, history, bounds>>

RemoveFromBook(w) ==
  /\ pc[w] = "remove"
  /\ book' = book \ {cur[w]}
  /\ cur' = [cur EXCEPT ![w] = NoJob]
  /\ GoOnWith(w, todo[w] \ {cur[w]})
  /\ UNCHANGED <<tables, charging, ask, queue, history, bounds>>

\* Mutant: the order is loaded whatever its status.
LoadAnyOrder(w) ==
  /\ Goto(w, "load", "settle")
  /\ orders[job[w].order] # "none"
  /\ cur' = [cur EXCEPT ![w] = job[w].order]
  /\ UNCHANGED <<tables, charging, ask, book, queue, job, side, todo, history, bounds>>

(* executeLimitOrder reads the order outside the transaction that settles  *)
(* it, and the settlement goes by what was read here.                      *)
LoadOpenOrder(w) ==
  LET o == job[w].order IN
  /\ Goto(w, "load", "settle")
  /\ orders[o] = "OPEN"
  /\ cur' = [cur EXCEPT ![w] = o]
  /\ overlapped' = IF \E v \in Workers : pc[v] \in {"settle", "commit"} /\ cur[v] = o
                   THEN overlapped \cup {o} ELSE overlapped
  /\ UNCHANGED <<tables, charging, ask, book, queue, job, side, todo, announced, closed,
                 early, failed, spoilt, bounds>>

\* Mutant: the order is announced before its status is looked at.
LoadNoOrderAnnouncing(w) ==
  /\ Goto(w, "load", "free")
  /\ orders[job[w].order] # "OPEN"
  /\ early' = IF orders[job[w].order] = "none" THEN early \cup {job[w].order}
              ELSE early
  /\ announced' = announced \cup {job[w].order}
  /\ job' = [job EXCEPT ![w] = NoJob]
  /\ UNCHANGED <<tables, charging, ask, book, queue, side, todo, cur, closed,
                 overlapped, failed, spoilt, bounds>>

LoadNoOrder(w) ==
  /\ Goto(w, "load", "free")
  /\ orders[job[w].order] # "OPEN"
  /\ early' = IF orders[job[w].order] = "none" THEN early \cup {job[w].order}
              ELSE early
  /\ job' = [job EXCEPT ![w] = NoJob]
  /\ UNCHANGED <<tables, charging, ask, book, queue, side, todo, cur, announced,
                 closed, overlapped, failed, spoilt, bounds>>

(* The settling transaction waits for the locks of the user's two wallet   *)
(* rows, saves wallets and order, and then, before it commits, takes the   *)
(* id out of the book and emits 'order-closed'.                            *)
AnnounceClosed(w) ==
  LET u == ask[cur[w]].userId IN
  /\ Goto(w, "settle", "commit")
  /\ ~RowIsLocked(<<u, USD>>) /\ ~RowIsLocked(<<u, Coin>>)
  /\ book' = book \ {cur[w]}
  /\ announced' = announced \cup {cur[w]}
  /\ UNCHANGED <<tables, charging, ask, queue, job, side, todo, cur, closed,
                 overlapped, early, failed, spoilt, bounds>>

\* Mutant: the settlement of a sale leaves the coins locked.
SettleOrderKeepingLock(o, price) ==
  LET u == ask[o].userId
      n == amount[o]
      Pay(row) == [balance |-> ToNumber((row.balance - n) * Whole),
                   locked |-> ToNumber((row.locked - n) * Whole)]
  IN /\ wallets' =
          IF ask[o].side = "BUY" THEN [wallets EXCEPT ![<<u, USD>>] = Pay(@)]
          ELSE [wallets EXCEPT ![<<u, Coin>>].balance = ToNumber((@ - n) * Whole)]
     /\ orders' = [orders EXCEPT ![o] = "CLOSE"]
     /\ exit' = [exit EXCEPT ![o] = price]
     /\ closed' = [closed EXCEPT ![o] = @ + 1]
     /\ UNCHANGED rounded

\* amount / price, in parts: Big keeps more digits than the column does.
Volume(n, price) == Round(n * Whole, price)

(* What the transaction of executeLimitOrder commits.  Every column leaves *)
(* Big on its own.                                                         *)
SettleOrder(o, price) ==
  LET u == ask[o].userId
      n == amount[o]
      Pay(row) == [balance |-> ToNumber((row.balance - n) * Whole),
                   locked |-> ToNumber((row.locked - n) * Whole)]
      Gain(row, parts) == [row EXCEPT !.balance = ToNumber(@ * Whole + parts)]
  IN /\ wallets' =
          IF ask[o].side = "BUY"
          THEN [wallets EXCEPT ![<<u, Coin>>] = Gain(@, Volume(n, price)),
                               ![<<u, USD>>] = Pay(@)]
          ELSE [wallets EXCEPT ![<<u, USD>>] = Gain(@, n * price * Whole),
                               ![<<u, Coin>>] = Pay(@)]
     /\ NoteRounding(Row(o), -n)
     /\ orders' = [orders EXCEPT ![o] = "CLOSE"]
     /\ exit' = [exit EXCEPT ![o] = price]
     /\ closed' = [closed EXCEPT ![o] = @ + 1]

EndJob(w) ==
  /\ pc' = [pc EXCEPT ![w] = "free"]
  /\ job' = [job EXCEPT ![w] = NoJob]
  /\ todo' = [todo EXCEPT ![w] = {}]
  /\ cur' = [cur EXCEPT ![w] = NoJob]
  /\ side' = [side EXCEPT ![w] = "BUY"]

Settle(w) ==
  /\ pc[w] = "commit"
  /\ SettleOrder(cur[w], job[w].price)
  /\ EndJob(w)
  /\ UNCHANGED <<charging, ask, amount, place, book, queue, announced, overlapped,
                 early, failed, lost, bounds>>

(* A settlement that fails before it emits may have sent its zrem.         *)
BookAfterFailure(w) ==
  IF pc[w] = "settle" THEN {book, book \ {cur[w]}} ELSE {book}

\* An exception ends the job, and it is not tried again (attempts is 1).
FailJob(w) ==
  /\ pc[w] # "free"
  /\ CountEvent
  /\ EndJob(w)
  /\ book' \in BookAfterFailure(w)
  /\ failed' = IF job[w].name = "execute" THEN failed \cup {job[w].order}
               ELSE failed
  /\ UNCHANGED <<tables, charging, ask, queue, announced, closed, overlapped, early,
                 spoilt, ticks>>

(* BullMQ gives a job whose worker does not renew its lock to a worker     *)
(* again, ahead of the others.                                             *)
Requeue(w) == CountEvent /\ queue' = <<job[w]>> \o queue

\* The process is dead: before the settlement commits or after.
CrashInJob(w) ==
  /\ pc[w] # "free"
  /\ Requeue(w)
  /\ EndJob(w)
  /\ book' \in BookAfterFailure(w)
  /\ UNCHANGED <<tables, charging, ask, history, ticks>>

CrashAfterSettle(w) ==
  /\ pc[w] = "commit"
  /\ Requeue(w)
  /\ EndJob(w)
  /\ SettleOrder(cur[w], job[w].price)
  /\ UNCHANGED <<charging, ask, amount, place, book, announced, overlapped, early,
                 failed, lost, ticks>>

\* The process is only slow, and goes on with the job that is given away.
Stall(w) ==
  /\ pc[w] # "free"
  /\ Requeue(w)
  /\ UNCHANGED <<tables, charging, ask, book, worker, history, ticks>>

Work(w) ==
  \/ TakeJob(w) \/ Scan(w) \/ QueueExecution(w) \/ RemoveFromBook(w)
  \/ LoadOpenOrder(w) \/ LoadNoOrder(w)
  \/ AnnounceClosed(w) \/ Settle(w)

Finished ==
  /\ \A o \in Orders : place[o] \in {"done", "failed"}
  /\ ticks = MaxTicks /\ queue = <<>>
  /\ \A w \in Workers : pc[w] = "free"
  /\ UNCHANGED vars

Next ==
  \/ \E o \in Orders : PlaceOrder(o) \/ CommitOrder(o) \/ AbortOrder(o)
  \/ \E c \in Charges : ReadForCharge(c) \/ SaveCharge(c)
  \/ \E p \in Prices : Tick(p)
  \/ \E w \in Workers : \/ Work(w) \/ FailJob(w)
                        \/ CrashInJob(w) \/ CrashAfterSettle(w)
                        \/ Stall(w)
  \/ Finished

Spec == Init /\ [][Next]_vars

(* A free worker takes the next job and goes on with it, and a transaction *)
(* that is open commits or fails.  Nobody owes an order or a candle.       *)
FairSpec ==
  /\ Spec
  /\ \A w \in Workers : WF_vars(Work(w))
  /\ \A o \in Orders : WF_vars(CommitOrder(o))

----------------------------------------------------------------------------
(* Properties.                                                             *)

OpenOrders(i) == {o \in Orders : orders[o] = "OPEN" /\ Row(o) = i}

Jobs == {queue[k] : k \in DOMAIN queue} \cup {job[w] : w \in Workers}

HasJob(o) == \E j \in Jobs : j # NoJob /\ j.name = "execute" /\ j.order = o

(* A wallet never has more locked than it holds, and what is locked is     *)
(* what its open orders will pay: placing, settling, failing, running a    *)
(* job again and charging all keep it.  What breaks it is an order that    *)
(* two workers settled at a time, which is paid for twice, and a charge    *)
(* that writes over a change it has not read; toNumber() only makes the    *)
(* two sums differ, of amounts too large for each to be a double.          *)
LockedIsForOpenOrders ==
  \A i \in DOMAIN wallets :
    (\A o \in overlapped : Row(o) # i) /\ i \notin lost =>
      /\ wallets[i].locked <= wallets[i].balance
      /\ i \notin rounded => wallets[i].locked = SumFunctionOnSet(amount, OpenOrders(i))

(* An order whose settlements do not overlap is settled at most once,      *)
(* although its id can be queued twice (queue.add comes before zrem) and a *)
(* stalled job runs again.                                                 *)
SettledTwiceOnlyByOverlap ==
  \A o \in Orders \ overlapped : closed[o] = IF orders[o] = "CLOSE" THEN 1 ELSE 0

(* An order is settled at the price it asked for, whatever the candles     *)
(* that arrived between the check that queued it and its execution.        *)
SettledAtTarget == \A o \in Orders : closed[o] > 0 => exit[o] = ask[o].price

(* An open order that is neither in the book nor in a job will never be    *)
(* executed.  That happens only to one whose job ran before its row was    *)
(* committed (zadd comes before the commit) or whose execution failed.     *)
StrandedOnlyByRaceOrFailure ==
  \A o \in Orders : orders[o] = "OPEN" =>
    o \in book \/ HasJob(o) \/ o \in early \/ o \in failed

(* A client that was told its order is closed finds it closed, or its job  *)
(* has not ended: the event comes before the commit, but only a failure in *)
(* between makes it wrong for good.                                        *)
AnnouncedIsClosed ==
  \A o \in announced : orders[o] = "CLOSE" \/ HasJob(o) \/ o \in failed

(* An execution that is queued for an open order closes it, or fails.      *)
QueuedOrderIsClosed ==
  \A o \in Orders :
    orders[o] = "OPEN" /\ HasJob(o) ~> orders[o] = "CLOSE" \/ o \in failed
==========================================================================
