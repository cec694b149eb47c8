------------------------- MODULE LimitOrders_proofs -------------------------
(***************************************************************************)
(* Proofs about LimitOrders, for any orders, workers, prices and requests, *)
(* and any number of candles and faults: first about the orders and their  *)
(* jobs, then about what the wallets hold for them.                        *)
(***************************************************************************)
EXTENDS LimitOrders, Funds_proofs

JobsOK ==
  /\ queue \in Seq(CheckJob \cup ExecuteJob)
  /\ job \in [Workers -> CheckJob \cup ExecuteJob \cup {NoJob}]

\* TypeOK but for the wallets, the amounts and the counters.
OrdersTypeOK ==
  /\ ask \in [Orders -> Ask]
  /\ place \in [Orders -> {"idle", "commit", "done", "failed"}]
  /\ orders \in [Orders -> {"none", "OPEN", "CLOSE"}]
  /\ exit \in [Orders -> Prices \cup {0}]
  /\ book \subseteq Orders
  /\ announced \subseteq Orders /\ overlapped \subseteq Orders
  /\ closed \in [Orders -> Nat]
  /\ early \subseteq Orders /\ failed \subseteq Orders

WorkersTypeOK ==
  /\ pc \in [Workers -> {"free", "scan", "add", "remove", "load", "settle", "commit"}]
  /\ side \in [Workers -> {"BUY", "SELL"}]
  /\ todo \in [Workers -> SUBSET Orders]
  /\ cur \in [Workers -> Orders \cup {NoJob}]

Settling(w, o) == pc[w] \in {"settle", "commit"} /\ cur[w] = o

\* What a worker works on at each step.
WorkerHasJob ==
  \A w \in Workers :
    /\ pc[w] = "free" => job[w] = NoJob
    /\ pc[w] \in {"scan", "add", "remove"} => job[w] \in CheckJob
    /\ pc[w] \in {"load", "settle", "commit"} => job[w] \in ExecuteJob
    /\ pc[w] \in {"settle", "commit"} => cur[w] = job[w].order
    /\ pc[w] \in {"add", "remove"} => \A o \in todo[w] : ask[o].price = job[w].price
    /\ pc[w] = "remove" => cur[w] \in todo[w]

\* A row is there once the order is placed, and before it is settled.
RowsOfPlaced ==
  /\ \A o \in Orders : orders[o] = "none" <=> place[o] # "done"
  /\ \A w \in Workers, o \in Orders : Settling(w, o) => orders[o] # "none"

\* The executions that are queued or being worked on.
Executions == (Range(queue) \cup Range(job)) \cap ExecuteJob

\* They have the price their order has asked for.
JobsAtTarget == \A j \in Executions : j.price = ask[j.order].price

\* Without an overlap, who settles an order is alone and finds it open.
SettlesAlone ==
  \A o \in Orders :
    /\ closed[o] > 0 <=> orders[o] = "CLOSE"
    /\ o \notin overlapped =>
         /\ closed[o] <= 1
         /\ \A w, v \in Workers : Settling(w, o) /\ Settling(v, o) =>
              w = v /\ orders[o] = "OPEN"

\* An order that has left the book is waiting for its execution, was
\* executed, or is lost in one of the ways that are known.
Handled(o) ==
  HasJob(o) \/ orders[o] = "CLOSE" \/ o \in early \/ o \in failed

NotLost ==
  /\ \A o \in Orders : place[o] \in {"commit", "done"} => o \in book \/ Handled(o)
  /\ \A w \in Workers : pc[w] = "remove" => Handled(cur[w])

\* An order that was announced had its row, which is closed or will be.
AnnouncedIsTrue ==
  \A o \in announced :
    orders[o] # "none" /\ (orders[o] = "CLOSE" \/ HasJob(o) \/ o \in failed)

IInv ==
  /\ OrdersTypeOK /\ JobsOK /\ WorkersTypeOK
  /\ WorkerHasJob /\ RowsOfPlaced /\ JobsAtTarget
  /\ SettlesAlone /\ SettledAtTarget /\ NotLost /\ AnnouncedIsTrue

----------------------------------------------------------------------------
(* Jobs and queues.                                                        *)

LEMMA JobsAreJobs == NoJob \notin CheckJob \cup ExecuteJob
<1>1. \A j \in CheckJob \cup ExecuteJob : "name" \in DOMAIN j
  BY DEF CheckJob, ExecuteJob
<1>2. DOMAIN NoJob = {}
  BY DEF NoJob
<1>. QED  BY <1>1, <1>2

LEMMA AppendedJobs ==
  ASSUME NEW S, NEW q \in Seq(S), NEW x \in S
  PROVE  Append(q, x) \in Seq(S) /\ Range(Append(q, x)) = Range(q) \cup {x}
<1>1. Append(q, x) \in Seq(S)
  OBVIOUS
<1>2. /\ DOMAIN Append(q, x) = 1 .. Len(q) + 1 /\ DOMAIN q = 1 .. Len(q) /\ Len(q) \in Nat
      /\ \A k \in 1 .. Len(q) : Append(q, x)[k] = q[k]
      /\ Append(q, x)[Len(q) + 1] = x
  OBVIOUS
<1>3. Range(Append(q, x)) \subseteq Range(q) \cup {x}
  BY <1>2 DEF Range
<1>4. Range(q) \cup {x} \subseteq Range(Append(q, x))
  BY <1>2 DEF Range
<1>. QED  BY <1>1, <1>3, <1>4

LEMMA TakenJobs ==
  ASSUME NEW S, NEW q \in Seq(S), q # <<>>
  PROVE  /\ Head(q) \in S /\ Tail(q) \in Seq(S)
         /\ Range(q) = {Head(q)} \cup Range(Tail(q))
<1>1. Head(q) \in S /\ Tail(q) \in Seq(S)
  OBVIOUS
<1>2. /\ DOMAIN q = 1 .. Len(q) /\ Len(q) \in Nat \ {0}
      /\ DOMAIN Tail(q) = 1 .. Len(q) - 1
      /\ Head(q) = q[1] /\ \A k \in 1 .. Len(q) - 1 : Tail(q)[k] = q[k + 1]
  OBVIOUS
<1>3. Range(q) \subseteq {Head(q)} \cup Range(Tail(q))
  <2>. SUFFICES ASSUME NEW k \in DOMAIN q PROVE q[k] \in {Head(q)} \cup Range(Tail(q))
    BY DEF Range
  <2>1. CASE k = 1
    BY <1>2, <2>1
  <2>2. CASE k # 1
    <3>1. k - 1 \in DOMAIN Tail(q) /\ Tail(q)[k - 1] = q[k]
      BY <1>2, <2>2
    <3>. QED  BY <3>1 DEF Range
  <2>. QED  BY <2>1, <2>2
<1>4. {Head(q)} \cup Range(Tail(q)) \subseteq Range(q)
  <2>1. \A k \in DOMAIN Tail(q) : k + 1 \in DOMAIN q /\ Tail(q)[k] = q[k + 1]
    BY <1>2
  <2>2. Head(q) \in Range(q)
    BY <1>2 DEF Range
  <2>. QED  BY <2>1, <2>2 DEF Range
<1>. QED  BY <1>1, <1>3, <1>4

LEMMA RequeuedJobs ==
  ASSUME NEW S, NEW q \in Seq(S), NEW x \in S
  PROVE  <<x>> \o q \in Seq(S) /\ Range(<<x>> \o q) = {x} \cup Range(q)
<1>1. <<x>> \o q \in Seq(S)
  OBVIOUS
<1>2. /\ DOMAIN (<<x>> \o q) = 1 .. Len(q) + 1 /\ DOMAIN q = 1 .. Len(q) /\ Len(q) \in Nat
      /\ (<<x>> \o q)[1] = x
      /\ \A k \in 1 .. Len(q) : (<<x>> \o q)[k + 1] = q[k]
  OBVIOUS
<1>3. Range(<<x>> \o q) \subseteq {x} \cup Range(q)
  <2>. SUFFICES ASSUME NEW k \in 1 .. Len(q) + 1
                PROVE  (<<x>> \o q)[k] \in {x} \cup Range(q)
    BY <1>2 DEF Range
  <2>1. CASE k = 1
    BY <1>2, <2>1
  <2>2. CASE k # 1
    <3>1. k - 1 \in 1 .. Len(q) /\ (<<x>> \o q)[k] = q[k - 1]
      BY <1>2, <2>2
    <3>. QED  BY <1>2, <3>1 DEF Range
  <2>. QED  BY <2>1, <2>2
<1>4. {x} \cup Range(q) \subseteq Range(<<x>> \o q)
  <2>1. \A k \in DOMAIN q : k + 1 \in DOMAIN (<<x>> \o q) /\ (<<x>> \o q)[k + 1] = q[k]
    BY <1>2
  <2>2. x \in Range(<<x>> \o q)
    BY <1>2 DEF Range
  <2>. QED  BY <2>1, <2>2 DEF Range
<1>. QED  BY <1>1, <1>3, <1>4

HasExecution == \A o \in Orders : HasJob(o) <=> \E j \in Executions : j.order = o

LEMMA HasJobMeans == JobsOK => HasExecution
<1>. SUFFICES ASSUME JobsOK PROVE HasExecution
  OBVIOUS
<1>1. Jobs = Range(queue) \cup Range(job)
  BY DEF Jobs, Range, JobsOK
<1>2. \A j \in Jobs : j \in CheckJob \cup ExecuteJob \cup {NoJob}
  BY DEF Jobs, JobsOK
<1>3. \A j \in CheckJob : j.name = "check"
  BY DEF CheckJob
<1>4. \A j \in ExecuteJob : j.name = "execute"
  BY DEF ExecuteJob
<1>. QED  BY <1>1, <1>2, <1>3, <1>4, JobsAreJobs DEF HasExecution, HasJob, Executions

\* A worker's job is replaced.
LEMMA ReplacedJobs ==
  ASSUME JobsOK, NEW w \in Workers, NEW j \in CheckJob \cup ExecuteJob \cup {NoJob},
         job' = [job EXCEPT ![w] = j]
  PROVE  /\ job' \in [Workers -> CheckJob \cup ExecuteJob \cup {NoJob}]
         /\ Range(job') \subseteq Range(job) \cup {j}
         /\ Range(job) \subseteq Range(job') \cup {job[w]}
         /\ j \in Range(job') /\ job[w] \in Range(job)
BY DEF Range, JobsOK

\* What the steps do to the jobs.
LEMMA JobsSame ==
  ASSUME JobsOK, UNCHANGED <<queue, job>>
  PROVE  JobsOK' /\ Executions' = Executions
BY DEF JobsOK, Executions

LEMMA JobQueued ==
  ASSUME JobsOK, NEW x \in CheckJob \cup ExecuteJob,
         queue' = Append(queue, x), UNCHANGED job
  PROVE  JobsOK' /\ Executions' = Executions \cup ({x} \cap ExecuteJob)
<1>1. JobsOK'
  BY AppendedJobs DEF JobsOK
<1>2. Range(queue') = Range(queue) \cup {x}
  BY AppendedJobs DEF JobsOK
<1>. QED  BY <1>1, <1>2 DEF Executions

LEMMA JobTaken ==
  ASSUME JobsOK, WorkerHasJob, NEW w \in Workers, TakeJob(w)
  PROVE  JobsOK' /\ Executions' = Executions
<1>1. queue \in Seq(CheckJob \cup ExecuteJob) /\ queue # <<>> /\ queue' = Tail(queue)
  BY DEF JobsOK, TakeJob
<1>2. /\ Head(queue) \in CheckJob \cup ExecuteJob
      /\ queue' \in Seq(CheckJob \cup ExecuteJob)
      /\ Range(queue) = {Head(queue)} \cup Range(queue')
  BY <1>1, TakenJobs
<1>3. job[w] = NoJob /\ job' = [job EXCEPT ![w] = Head(queue)]
  BY DEF WorkerHasJob, TakeJob
<1>4. JobsOK'
  BY <1>2, <1>3 DEF JobsOK
<1>5. /\ Range(job') \subseteq Range(job) \cup {Head(queue)}
      /\ Range(job) \subseteq Range(job') \cup {NoJob} /\ Head(queue) \in Range(job')
  BY <1>2, <1>3, ReplacedJobs
<1>. QED  BY <1>2, <1>4, <1>5, JobsAreJobs DEF Executions

LEMMA JobEnded ==
  ASSUME JobsOK, NEW w \in Workers, job' = [job EXCEPT ![w] = NoJob], UNCHANGED queue
  PROVE  /\ JobsOK' /\ Executions' \subseteq Executions
         /\ Executions \subseteq Executions' \cup {job[w]}
<1>1. JobsOK'
  BY DEF JobsOK
<1>2. /\ Range(job') \subseteq Range(job) \cup {NoJob}
      /\ Range(job) \subseteq Range(job') \cup {job[w]}
  BY ReplacedJobs
<1>. QED  BY <1>1, <1>2, JobsAreJobs DEF Executions

LEMMA JobRequeued ==
  ASSUME JobsOK, NEW w \in Workers, job[w] # NoJob, queue' = <<job[w]>> \o queue,
         job' = job \/ job' = [job EXCEPT ![w] = NoJob]
  PROVE  JobsOK' /\ Executions' = Executions
<1>1. job[w] \in CheckJob \cup ExecuteJob /\ job[w] \in Range(job)
  BY DEF JobsOK, Range
<1>2. /\ queue' \in Seq(CheckJob \cup ExecuteJob)
      /\ Range(queue') = {job[w]} \cup Range(queue)
  BY <1>1, RequeuedJobs DEF JobsOK
<1>3. JobsOK'
  BY <1>2 DEF JobsOK
<1>4. /\ Range(job') \subseteq Range(job) \cup {NoJob}
      /\ Range(job) \subseteq Range(job') \cup {job[w]}
  BY ReplacedJobs
<1>. QED  BY <1>1, <1>2, <1>3, <1>4, JobsAreJobs DEF Executions

\* What is waiting for its execution, or is settled or lost, stays so.
LEMMA StillHandled ==
  ASSUME JobsOK, JobsOK', Executions \subseteq Executions',
         \A o \in Orders : orders[o] = "CLOSE" => orders'[o] = "CLOSE",
         early \subseteq early', failed \subseteq failed'
  PROVE  \A o \in Orders : (HasJob(o) => HasJob(o)') /\ (Handled(o) => Handled(o)')
<1>1. HasExecution /\ HasExecution'
  BY HasJobMeans, PTL
<1>. QED  BY <1>1 DEF HasExecution, Handled

----------------------------------------------------------------------------
(* placeLimitOrder.                                                        *)

LEMMA PlaceOrderStep == ASSUME IInv, NEW o \in Orders, PlaceOrder(o) PROVE IInv'
<1>1. JobsOK' /\ Executions' = Executions
  BY JobsSame DEF IInv, PlaceOrder, worker
<1>2. OrdersTypeOK' /\ WorkersTypeOK'
  BY DEF IInv, PlaceOrder, OrdersTypeOK, WorkersTypeOK, worker, history
<1>3. WorkerHasJob' /\ JobsAtTarget'
  BY <1>1 DEF IInv, PlaceOrder, WorkerHasJob, JobsAtTarget, worker
<1>4. RowsOfPlaced' /\ SettlesAlone' /\ SettledAtTarget'
  BY DEF IInv, PlaceOrder, OrdersTypeOK, RowsOfPlaced, SettlesAlone, SettledAtTarget,
         Settling, worker, history
<1>5. \A a \in Orders : (HasJob(a) => HasJob(a)') /\ (Handled(a) => Handled(a)')
  BY <1>1, StillHandled DEF IInv, PlaceOrder, history
<1>6. NotLost' /\ AnnouncedIsTrue'
  BY <1>5 DEF IInv, PlaceOrder, OrdersTypeOK, WorkersTypeOK, WorkerHasJob, NotLost,
              AnnouncedIsTrue, worker, history
<1>. QED  BY <1>1, <1>2, <1>3, <1>4, <1>6 DEF IInv

LEMMA CommitOrderStep == ASSUME IInv, NEW o \in Orders, CommitOrder(o) PROVE IInv'
<1>1. JobsOK' /\ Executions' = Executions
  BY JobsSame DEF IInv, CommitOrder, worker
<1>2. OrdersTypeOK' /\ WorkersTypeOK'
  BY DEF IInv, CommitOrder, OrdersTypeOK, WorkersTypeOK, worker, history
<1>3. WorkerHasJob' /\ JobsAtTarget'
  BY <1>1 DEF IInv, CommitOrder, WorkerHasJob, JobsAtTarget, worker
<1>4. orders[o] = "none"
  BY DEF IInv, CommitOrder, RowsOfPlaced
<1>5. RowsOfPlaced' /\ SettlesAlone' /\ SettledAtTarget'
  BY <1>4 DEF IInv, CommitOrder, OrdersTypeOK, RowsOfPlaced, SettlesAlone,
              SettledAtTarget, Settling, worker, history
<1>6. \A a \in Orders : (HasJob(a) => HasJob(a)') /\ (Handled(a) => Handled(a)')
  BY <1>1, <1>4, StillHandled DEF IInv, CommitOrder, OrdersTypeOK, history
<1>7. NotLost' /\ AnnouncedIsTrue'
  BY <1>4, <1>6 DEF IInv, CommitOrder, OrdersTypeOK, WorkersTypeOK, WorkerHasJob,
                    NotLost, AnnouncedIsTrue, worker, history
<1>. QED  BY <1>1, <1>2, <1>3, <1>5, <1>7 DEF IInv

LEMMA AbortOrderStep == ASSUME IInv, NEW o \in Orders, AbortOrder(o) PROVE IInv'
<1>1. JobsOK' /\ Executions' = Executions
  BY JobsSame DEF IInv, AbortOrder, worker
<1>2. OrdersTypeOK' /\ WorkersTypeOK'
  BY DEF IInv, AbortOrder, OrdersTypeOK, WorkersTypeOK, worker, history
<1>3. WorkerHasJob' /\ JobsAtTarget'
  BY <1>1 DEF IInv, AbortOrder, WorkerHasJob, JobsAtTarget, worker
<1>4. RowsOfPlaced' /\ SettlesAlone' /\ SettledAtTarget'
  BY DEF IInv, AbortOrder, OrdersTypeOK, RowsOfPlaced, SettlesAlone, SettledAtTarget,
         Settling, worker, history
<1>5. \A a \in Orders : (HasJob(a) => HasJob(a)') /\ (Handled(a) => Handled(a)')
  BY <1>1, StillHandled DEF IInv, AbortOrder, history
<1>6. NotLost' /\ AnnouncedIsTrue'
  BY <1>5 DEF IInv, AbortOrder, OrdersTypeOK, WorkersTypeOK, WorkerHasJob, NotLost,
              AnnouncedIsTrue, worker, history
<1>. QED  BY <1>1, <1>2, <1>3, <1>4, <1>6 DEF IInv

----------------------------------------------------------------------------
(* Candles, and jobs that are taken.                                       *)

LEMMA TickStep == ASSUME IInv, NEW p \in Prices, Tick(p) PROVE IInv'
<1>1. JobsOK' /\ Executions' = Executions
  <2>1. [name |-> "check", price |-> p] \in CheckJob \ ExecuteJob
    BY DEF CheckJob, ExecuteJob
  <2>. QED  BY <2>1, JobQueued DEF IInv, Tick, worker
<1>2. OrdersTypeOK' /\ WorkersTypeOK'
  BY DEF IInv, Tick, OrdersTypeOK, WorkersTypeOK, tables, worker, history
<1>3. WorkerHasJob' /\ JobsAtTarget'
  BY <1>1 DEF IInv, Tick, WorkerHasJob, JobsAtTarget, worker
<1>4. RowsOfPlaced' /\ SettlesAlone' /\ SettledAtTarget'
  BY DEF IInv, Tick, RowsOfPlaced, SettlesAlone, SettledAtTarget, Settling, tables,
         worker, history
<1>5. \A a \in Orders : (HasJob(a) => HasJob(a)') /\ (Handled(a) => Handled(a)')
  BY <1>1, StillHandled DEF IInv, Tick, tables, history
<1>6. NotLost' /\ AnnouncedIsTrue'
  BY <1>5 DEF IInv, Tick, OrdersTypeOK, WorkersTypeOK, WorkerHasJob, NotLost,
              AnnouncedIsTrue, tables, worker, history
<1>. QED  BY <1>1, <1>2, <1>3, <1>4, <1>6 DEF IInv

LEMMA TakeJobStep == ASSUME IInv, NEW w \in Workers, TakeJob(w) PROVE IInv'
<1>1. JobsOK' /\ Executions' = Executions
  BY JobTaken DEF IInv
<1>2. OrdersTypeOK' /\ WorkersTypeOK'
  BY DEF IInv, TakeJob, OrdersTypeOK, WorkersTypeOK, tables, history
<1>3. WorkerHasJob' /\ JobsAtTarget'
  <2>1. IF Head(queue).name = "check" THEN Head(queue) \in CheckJob
        ELSE Head(queue) \in ExecuteJob
    <3>1. Head(queue) \in CheckJob \cup ExecuteJob
      BY TakenJobs DEF IInv, JobsOK, TakeJob
    <3>. QED  BY <3>1 DEF CheckJob, ExecuteJob
  <2>. QED  BY <1>1, <2>1 DEF IInv, TakeJob, JobsOK, WorkersTypeOK, WorkerHasJob,
                              JobsAtTarget
<1>4. RowsOfPlaced' /\ SettlesAlone' /\ SettledAtTarget'
  BY DEF IInv, TakeJob, WorkersTypeOK, RowsOfPlaced, SettlesAlone, SettledAtTarget,
         Settling, tables, history
<1>5. \A a \in Orders : (HasJob(a) => HasJob(a)') /\ (Handled(a) => Handled(a)')
  BY <1>1, StillHandled DEF IInv, TakeJob, tables, history
<1>6. NotLost' /\ AnnouncedIsTrue'
  BY <1>5 DEF IInv, TakeJob, OrdersTypeOK, WorkersTypeOK, WorkerHasJob, NotLost,
              AnnouncedIsTrue, tables, history
<1>. QED  BY <1>1, <1>2, <1>3, <1>4, <1>6 DEF IInv

----------------------------------------------------------------------------
(* checkLimitOrders.                                                       *)

LEMMA CheckGoesOn ==
  ASSUME IInv, NEW w \in Workers, job[w] \in CheckJob, UNCHANGED queue,
         NEW ids \in SUBSET Orders, GoOnWith(w, ids)
  PROVE  JobsOK' /\ Executions' = Executions
<1>1. CASE job' = job
  BY <1>1, JobsSame DEF IInv
<1>2. CASE job' = [job EXCEPT ![w] = NoJob]
  <2>1. job[w] \notin Executions
    BY DEF Executions, CheckJob, ExecuteJob
  <2>. QED  BY <1>2, <2>1, JobEnded DEF IInv
<1>. QED  BY <1>1, <1>2 DEF GoOnWith

LEMMA CheckerHasJob ==
  ASSUME IInv, NEW w \in Workers, job[w] \in CheckJob,
         NEW ids \in SUBSET Orders, \A o \in ids : ask[o].price = job[w].price,
         GoOnWith(w, ids), UNCHANGED ask, \A v \in Workers \ {w} : cur'[v] = cur[v]
  PROVE  WorkerHasJob'
<1>1. \A v \in Workers \ {w} : /\ pc'[v] = pc[v] /\ job'[v] = job[v]
                               /\ todo'[v] = todo[v] /\ cur'[v] = cur[v]
  BY DEF IInv, GoOnWith, JobsOK, WorkersTypeOK
<1>2. /\ pc'[w] \in {"add", "scan"} => job'[w] = job[w]
      /\ pc'[w] = "free" => job'[w] = NoJob
      /\ pc'[w] \in {"add", "scan", "free"} /\ todo'[w] = ids
  BY DEF IInv, GoOnWith, JobsOK, WorkersTypeOK
<1>. SUFFICES ASSUME NEW v \in Workers
              PROVE  /\ pc'[v] = "free" => job'[v] = NoJob
                     /\ pc'[v] \in {"scan", "add", "remove"} => job'[v] \in CheckJob
                     /\ pc'[v] \in {"load", "settle", "commit"} => job'[v] \in ExecuteJob
                     /\ pc'[v] \in {"settle", "commit"} => cur'[v] = job'[v].order
                     /\ pc'[v] \in {"add", "remove"} =>
                          \A o \in todo'[v] : ask[o].price = job'[v].price
                     /\ pc'[v] = "remove" => cur'[v] \in todo'[v]
  BY DEF WorkerHasJob
<1>3. CASE v = w
  BY <1>2, <1>3
<1>4. CASE v # w
  BY <1>1, <1>4 DEF IInv, WorkerHasJob
<1>. QED  BY <1>3, <1>4

LEMMA ScanStep == ASSUME IInv, NEW w \in Workers, Scan(w) PROVE IInv'
<1>. DEFINE ids == IdsAt(w, {job[w].price})
<1>1. /\ ids \in SUBSET Orders /\ \A o \in ids : ask[o].price = job[w].price
      /\ GoOnWith(w, ids) /\ pc[w] = "scan"
      /\ job[w] \in CheckJob
  BY DEF IInv, Scan, IdsAt, OrdersTypeOK, WorkerHasJob
<1>. HIDE DEF ids
<1>2. JobsOK' /\ Executions' = Executions
  BY <1>1, CheckGoesOn DEF Scan
<1>3. OrdersTypeOK' /\ WorkersTypeOK'
  BY <1>1 DEF IInv, Scan, GoOnWith, OrdersTypeOK, WorkersTypeOK, tables, history
<1>4. WorkerHasJob' /\ JobsAtTarget'
  BY <1>1, <1>2, CheckerHasJob DEF IInv, Scan, JobsAtTarget
<1>5. RowsOfPlaced' /\ SettlesAlone' /\ SettledAtTarget'
  BY <1>1 DEF IInv, Scan, GoOnWith, WorkersTypeOK, RowsOfPlaced, SettlesAlone,
              SettledAtTarget, Settling, tables, history
<1>6. \A a \in Orders : (HasJob(a) => HasJob(a)') /\ (Handled(a) => Handled(a)')
  BY <1>2, StillHandled DEF IInv, Scan, tables, history
<1>7. NotLost' /\ AnnouncedIsTrue'
  BY <1>1, <1>6 DEF IInv, Scan, GoOnWith, OrdersTypeOK, WorkersTypeOK, WorkerHasJob,
                    NotLost, AnnouncedIsTrue, tables, history
<1>. QED  BY <1>2, <1>3, <1>4, <1>5, <1>7 DEF IInv

LEMMA QueueExecutionStep ==
  ASSUME IInv, NEW w \in Workers, QueueExecution(w) PROVE IInv'
<1>1. PICK o \in todo[w] :
        /\ queue' = Append(queue, [name |-> "execute", order |-> o,
                                   price |-> job[w].price])
        /\ cur' = [cur EXCEPT ![w] = o]
  BY DEF QueueExecution
<1>. DEFINE x == [name |-> "execute", order |-> o, price |-> job[w].price]
<1>2. o \in Orders /\ ask[o].price = job[w].price /\ job[w] \in CheckJob /\ pc[w] = "add"
  BY <1>1 DEF IInv, WorkersTypeOK, WorkerHasJob, QueueExecution, Goto
<1>3. x \in ExecuteJob /\ x.order = o /\ x.price = ask[o].price
  BY <1>2 DEF CheckJob, ExecuteJob
<1>. HIDE DEF x
<1>4. JobsOK' /\ Executions' = Executions \cup {x}
  BY <1>1, <1>3, JobQueued DEF IInv, QueueExecution, x
<1>5. OrdersTypeOK' /\ WorkersTypeOK'
  BY <1>1, <1>2 DEF IInv, QueueExecution, Goto, OrdersTypeOK, WorkersTypeOK, tables,
                    history
<1>6. WorkerHasJob' /\ JobsAtTarget'
  BY <1>1, <1>2, <1>3, <1>4 DEF IInv, QueueExecution, Goto, WorkersTypeOK,
                                WorkerHasJob, JobsAtTarget
<1>7. RowsOfPlaced' /\ SettlesAlone' /\ SettledAtTarget'
  BY <1>1, <1>2 DEF IInv, QueueExecution, Goto, WorkersTypeOK, RowsOfPlaced,
                    SettlesAlone, SettledAtTarget, Settling, tables, history
<1>8. \A a \in Orders : (HasJob(a) => HasJob(a)') /\ (Handled(a) => Handled(a)')
  BY <1>4, StillHandled DEF IInv, QueueExecution, tables, history
<1>9. Handled(o)'
  <2>1. HasExecution'
    BY <1>4, HasJobMeans, PTL
  <2>. QED  BY <1>2, <1>3, <1>4, <2>1 DEF HasExecution, Handled
<1>10. NotLost' /\ AnnouncedIsTrue'
  BY <1>1, <1>2, <1>8, <1>9 DEF IInv, QueueExecution, Goto, OrdersTypeOK,
     WorkersTypeOK, WorkerHasJob, NotLost, AnnouncedIsTrue, tables, history
<1>. QED  BY <1>4, <1>5, <1>6, <1>7, <1>10 DEF IInv

LEMMA RemoveFromBookStep ==
  ASSUME IInv, NEW w \in Workers, RemoveFromBook(w) PROVE IInv'
<1>. DEFINE ids == todo[w] \ {cur[w]}
<1>1. /\ ids \in SUBSET Orders /\ \A o \in ids : ask[o].price = job[w].price
      /\ GoOnWith(w, ids) /\ pc[w] = "remove"
      /\ job[w] \in CheckJob
  BY DEF IInv, RemoveFromBook, WorkersTypeOK, WorkerHasJob
<1>. HIDE DEF ids
<1>2. JobsOK' /\ Executions' = Executions
  BY <1>1, CheckGoesOn DEF RemoveFromBook
<1>3. OrdersTypeOK' /\ WorkersTypeOK'
  BY <1>1 DEF IInv, RemoveFromBook, GoOnWith, OrdersTypeOK, WorkersTypeOK, tables,
              history
<1>4. WorkerHasJob' /\ JobsAtTarget'
  <2>1. \A v \in Workers \ {w} : cur'[v] = cur[v]
    BY DEF IInv, RemoveFromBook, WorkersTypeOK
  <2>. QED  BY <1>1, <1>2, <2>1, CheckerHasJob DEF IInv, RemoveFromBook, JobsAtTarget
<1>5. RowsOfPlaced' /\ SettlesAlone' /\ SettledAtTarget'
  BY <1>1 DEF IInv, RemoveFromBook, GoOnWith, WorkersTypeOK, RowsOfPlaced,
              SettlesAlone, SettledAtTarget, Settling, tables, history
<1>6. \A a \in Orders : (HasJob(a) => HasJob(a)') /\ (Handled(a) => Handled(a)')
  BY <1>2, StillHandled DEF IInv, RemoveFromBook, tables, history
<1>7. Handled(cur[w])
  BY <1>1 DEF IInv, NotLost
<1>8. NotLost' /\ AnnouncedIsTrue'
  BY <1>1, <1>6, <1>7 DEF IInv, RemoveFromBook, GoOnWith, OrdersTypeOK,
     WorkersTypeOK, WorkerHasJob, NotLost, AnnouncedIsTrue, tables, history
<1>. QED  BY <1>2, <1>3, <1>4, <1>5, <1>8 DEF IInv

----------------------------------------------------------------------------
(* executeLimitOrder.                                                      *)

\* A worker that executes has the job of the order.
LEMMA ExecutesAJob ==
  ASSUME IInv, NEW w \in Workers, pc[w] \in {"load", "settle", "commit"}
  PROVE  /\ job[w] \in Executions /\ job[w].order \in Orders
         /\ job[w].price \in Prices /\ job[w].price = ask[job[w].order].price
         /\ HasJob(job[w].order)
         /\ pc[w] # "load" => cur[w] = job[w].order
<1>1. job[w] \in ExecuteJob /\ job[w] \in Range(job)
  BY DEF IInv, WorkerHasJob, JobsOK, Range
<1>2. job[w].order \in Orders /\ job[w].price \in Prices /\ job[w] \in Executions
  BY <1>1 DEF ExecuteJob, Executions
<1>3. HasExecution
  BY HasJobMeans DEF IInv
<1>. QED  BY <1>2, <1>3 DEF IInv, WorkerHasJob, JobsAtTarget, HasExecution

LEMMA LoadOpenOrderStep ==
  ASSUME IInv, NEW w \in Workers, LoadOpenOrder(w) PROVE IInv'
<1>. DEFINE o == job[w].order
<1>1. /\ pc[w] = "load" /\ pc' = [pc EXCEPT ![w] = "settle"] /\ orders[o] = "OPEN"
      /\ cur' = [cur EXCEPT ![w] = o] /\ o \in Orders
      /\ job[w] \in ExecuteJob
  BY ExecutesAJob DEF LoadOpenOrder, Goto, Executions
<1>2. JobsOK' /\ Executions' = Executions
  BY JobsSame DEF IInv, LoadOpenOrder
<1>3. overlapped \subseteq overlapped' /\ overlapped' \subseteq Orders
  BY <1>1 DEF IInv, LoadOpenOrder, OrdersTypeOK
<1>4. o \notin overlapped' => \A v \in Workers : ~Settling(v, o)
  BY DEF LoadOpenOrder, Settling
<1>. HIDE DEF o
<1>5. OrdersTypeOK' /\ WorkersTypeOK'
  BY <1>1, <1>3 DEF IInv, LoadOpenOrder, OrdersTypeOK, WorkersTypeOK, tables
<1>6. WorkerHasJob' /\ JobsAtTarget'
  BY <1>1, <1>2 DEF IInv, LoadOpenOrder, JobsOK, WorkersTypeOK, WorkerHasJob,
                    JobsAtTarget, o
<1>7. \A v \in Workers, a \in Orders : Settling(v, a)' =>
        Settling(v, a) \/ (v = w /\ a = o)
  BY <1>1 DEF IInv, WorkersTypeOK, Settling
<1>8. RowsOfPlaced' /\ SettlesAlone' /\ SettledAtTarget'
  BY <1>1, <1>3, <1>4, <1>7 DEF IInv, LoadOpenOrder, OrdersTypeOK, RowsOfPlaced,
     SettlesAlone, SettledAtTarget, tables
<1>9. \A a \in Orders : (HasJob(a) => HasJob(a)') /\ (Handled(a) => Handled(a)')
  BY <1>2, StillHandled DEF IInv, LoadOpenOrder, tables
<1>10. NotLost' /\ AnnouncedIsTrue'
  BY <1>1, <1>9 DEF IInv, LoadOpenOrder, OrdersTypeOK, WorkersTypeOK, WorkerHasJob,
                    NotLost, AnnouncedIsTrue, tables
<1>. QED  BY <1>2, <1>5, <1>6, <1>8, <1>10 DEF IInv

LEMMA LoadNoOrderStep ==
  ASSUME IInv, NEW w \in Workers, LoadNoOrder(w) PROVE IInv'
<1>. DEFINE o == job[w].order
<1>1. /\ pc[w] = "load" /\ pc' = [pc EXCEPT ![w] = "free"] /\ o \in Orders
      /\ (orders[o] = "none" /\ o \in early') \/ orders[o] = "CLOSE"
      /\ early \subseteq early' /\ early' \subseteq Orders
  BY ExecutesAJob DEF IInv, OrdersTypeOK, LoadNoOrder, Goto
<1>2. /\ JobsOK' /\ Executions' \subseteq Executions
      /\ Executions \subseteq Executions' \cup {job[w]}
  BY JobEnded DEF IInv, LoadNoOrder
<1>3. OrdersTypeOK' /\ WorkersTypeOK'
  BY <1>1 DEF IInv, LoadNoOrder, OrdersTypeOK, WorkersTypeOK, tables
<1>4. WorkerHasJob' /\ JobsAtTarget'
  BY <1>1, <1>2 DEF IInv, LoadNoOrder, JobsOK, WorkersTypeOK, WorkerHasJob,
                    JobsAtTarget
<1>5. RowsOfPlaced' /\ SettlesAlone' /\ SettledAtTarget'
  BY <1>1 DEF IInv, LoadNoOrder, OrdersTypeOK, WorkersTypeOK, RowsOfPlaced,
              SettlesAlone, SettledAtTarget, Settling, tables
<1>6. HasExecution /\ HasExecution'
  BY <1>2, HasJobMeans, PTL DEF IInv
<1>7. \A a \in Orders : a # o /\ HasJob(a) => HasJob(a)'
  BY <1>2, <1>6 DEF HasExecution
<1>8. \A a \in Orders : Handled(a) => Handled(a)'
  BY <1>1, <1>7 DEF Handled, LoadNoOrder, tables
<1>9. NotLost' /\ AnnouncedIsTrue'
  BY <1>1, <1>7, <1>8 DEF IInv, LoadNoOrder, OrdersTypeOK, WorkersTypeOK,
     WorkerHasJob, NotLost, AnnouncedIsTrue, tables
<1>. QED  BY <1>2, <1>3, <1>4, <1>5, <1>9 DEF IInv

LEMMA AnnounceClosedStep ==
  ASSUME IInv, NEW w \in Workers, AnnounceClosed(w) PROVE IInv'
<1>. DEFINE o == cur[w]
<1>1. /\ pc[w] = "settle" /\ pc' = [pc EXCEPT ![w] = "commit"]
      /\ o \in Orders /\ HasJob(o) /\ orders[o] # "none"
  BY ExecutesAJob DEF IInv, RowsOfPlaced, Settling, AnnounceClosed, Goto
<1>2. JobsOK' /\ Executions' = Executions
  BY JobsSame DEF IInv, AnnounceClosed
<1>3. OrdersTypeOK' /\ WorkersTypeOK'
  BY <1>1 DEF IInv, AnnounceClosed, OrdersTypeOK, WorkersTypeOK, tables
<1>4. WorkerHasJob' /\ JobsAtTarget'
  BY <1>1, <1>2 DEF IInv, AnnounceClosed, WorkersTypeOK, WorkerHasJob, JobsAtTarget
<1>5. \A v \in Workers, a \in Orders : Settling(v, a)' => Settling(v, a)
  BY <1>1 DEF IInv, AnnounceClosed, WorkersTypeOK, Settling
<1>6. RowsOfPlaced' /\ SettlesAlone' /\ SettledAtTarget'
  BY <1>5 DEF IInv, AnnounceClosed, RowsOfPlaced, SettlesAlone, SettledAtTarget, tables
<1>7. \A a \in Orders : (HasJob(a) => HasJob(a)') /\ (Handled(a) => Handled(a)')
  BY <1>2, StillHandled DEF IInv, AnnounceClosed, tables
<1>8. NotLost' /\ AnnouncedIsTrue'
  BY <1>1, <1>7 DEF IInv, AnnounceClosed, OrdersTypeOK, WorkersTypeOK, WorkerHasJob,
                    Handled, NotLost, AnnouncedIsTrue, tables
<1>. QED  BY <1>2, <1>3, <1>4, <1>6, <1>8 DEF IInv

----------------------------------------------------------------------------
(* Jobs that end, that fail and that are given to another worker.          *)

LEMMA EndedWorker ==
  ASSUME IInv, NEW w \in Workers, EndJob(w), UNCHANGED ask
  PROVE  /\ WorkersTypeOK' /\ WorkerHasJob'
         /\ \A v \in Workers, o \in Orders :
              Settling(v, o)' => Settling(v, o) /\ v # w
<1>1. WorkersTypeOK'
  BY DEF IInv, EndJob, WorkersTypeOK
<1>2. WorkerHasJob'
  BY DEF IInv, EndJob, JobsOK, WorkersTypeOK, WorkerHasJob
<1>3. \A v \in Workers, o \in Orders : Settling(v, o)' => Settling(v, o) /\ v # w
  BY DEF IInv, EndJob, WorkersTypeOK, Settling
<1>. QED  BY <1>1, <1>2, <1>3

LEMMA SettledRows ==
  ASSUME IInv, NEW w \in Workers, pc[w] = "commit",
         SettleOrder(cur[w], job[w].price), EndJob(w),
         UNCHANGED <<ask, place, book, announced, overlapped, early, failed>>
  PROVE  /\ OrdersTypeOK' /\ RowsOfPlaced' /\ SettlesAlone' /\ SettledAtTarget'
         /\ orders'[cur[w]] = "CLOSE" /\ cur[w] = job[w].order
         /\ \A o \in Orders : orders[o] = "CLOSE" => orders'[o] = "CLOSE"
         /\ \A o \in Orders : orders[o] # "none" => orders'[o] # "none"
<1>. DEFINE o == cur[w]
<1>1. /\ o \in Orders /\ o = job[w].order /\ job[w].price = ask[o].price
      /\ job[w].price \in Prices /\ Settling(w, o)
  BY ExecutesAJob DEF Settling
<1>2. /\ orders' = [orders EXCEPT ![o] = "CLOSE"]
      /\ exit' = [exit EXCEPT ![o] = job[w].price]
      /\ closed' = [closed EXCEPT ![o] = @ + 1]
  BY DEF SettleOrder
<1>. HIDE DEF o
<1>3. OrdersTypeOK'
  BY <1>1, <1>2 DEF IInv, OrdersTypeOK
<1>4. \A v \in Workers, a \in Orders : Settling(v, a)' => Settling(v, a) /\ v # w
  BY EndedWorker
<1>5. RowsOfPlaced'
  BY <1>1, <1>2, <1>4 DEF IInv, OrdersTypeOK, RowsOfPlaced
<1>6. SettlesAlone'
  <2>. SUFFICES ASSUME NEW a \in Orders
                PROVE  /\ closed'[a] > 0 <=> orders'[a] = "CLOSE"
                       /\ a \notin overlapped =>
                            /\ closed'[a] <= 1
                            /\ \A u, v \in Workers :
                                 Settling(u, a)' /\ Settling(v, a)' =>
                                   u = v /\ orders'[a] = "OPEN"
    BY DEF SettlesAlone
  <2>1. CASE a = o
    BY <1>1, <1>2, <1>4, <2>1 DEF IInv, OrdersTypeOK, SettlesAlone
  <2>2. CASE a # o
    BY <1>2, <1>4, <2>2 DEF IInv, OrdersTypeOK, SettlesAlone
  <2>. QED  BY <2>1, <2>2
<1>7. SettledAtTarget'
  BY <1>1, <1>2 DEF IInv, OrdersTypeOK, SettledAtTarget
<1>8. /\ \A a \in Orders : orders[a] = "CLOSE" => orders'[a] = "CLOSE"
      /\ \A a \in Orders : orders[a] # "none" => orders'[a] # "none"
      /\ orders'[o] = "CLOSE"
  BY <1>1, <1>2 DEF IInv, OrdersTypeOK
<1>. QED  BY <1>1, <1>3, <1>5, <1>6, <1>7, <1>8 DEF o

LEMMA SettleStep == ASSUME IInv, NEW w \in Workers, Settle(w) PROVE IInv'
<1>. DEFINE o == cur[w]
<1>1. /\ pc[w] = "commit" /\ SettleOrder(o, job[w].price) /\ EndJob(w)
      /\ job' = [job EXCEPT ![w] = NoJob]
      /\ UNCHANGED <<ask, place, book, queue, announced, overlapped, early, failed>>
  BY DEF Settle, EndJob
<1>2. /\ OrdersTypeOK' /\ RowsOfPlaced' /\ SettlesAlone' /\ SettledAtTarget'
      /\ orders'[o] = "CLOSE" /\ o = job[w].order
      /\ \A a \in Orders : orders[a] = "CLOSE" => orders'[a] = "CLOSE"
      /\ \A a \in Orders : orders[a] # "none" => orders'[a] # "none"
  BY <1>1, SettledRows
<1>3. /\ JobsOK' /\ Executions' \subseteq Executions
      /\ Executions \subseteq Executions' \cup {job[w]}
  BY <1>1, JobEnded DEF IInv
<1>4. WorkersTypeOK' /\ WorkerHasJob'
  BY <1>1, EndedWorker
<1>5. JobsAtTarget'
  BY <1>1, <1>3 DEF IInv, JobsAtTarget
<1>6. HasExecution /\ HasExecution'
  BY <1>3, HasJobMeans, PTL DEF IInv
<1>7. \A a \in Orders : a # o /\ HasJob(a) => HasJob(a)'
  BY <1>2, <1>3, <1>6 DEF HasExecution
<1>8. \A a \in Orders : Handled(a) => Handled(a)'
  BY <1>1, <1>2, <1>7 DEF Handled
<1>9. NotLost' /\ AnnouncedIsTrue'
  <2>1. \A v \in Workers : pc'[v] = "remove" => pc[v] = "remove" /\ cur'[v] = cur[v]
    BY <1>1 DEF IInv, EndJob, WorkersTypeOK
  <2>. QED  BY <1>1, <1>2, <1>7, <1>8, <2>1 DEF IInv, OrdersTypeOK, WorkersTypeOK,
               WorkerHasJob, NotLost, AnnouncedIsTrue
<1>. QED  BY <1>2, <1>3, <1>4, <1>5, <1>9 DEF IInv

LEMMA CrashAfterSettleStep ==
  ASSUME IInv, NEW w \in Workers, CrashAfterSettle(w) PROVE IInv'
<1>1. /\ pc[w] = "commit" /\ SettleOrder(cur[w], job[w].price) /\ EndJob(w)
      /\ job' = [job EXCEPT ![w] = NoJob] /\ queue' = <<job[w]>> \o queue
      /\ UNCHANGED <<ask, place, book, announced, overlapped, early, failed>>
  BY DEF CrashAfterSettle, EndJob, Requeue
<1>2. /\ OrdersTypeOK' /\ RowsOfPlaced' /\ SettlesAlone' /\ SettledAtTarget'
      /\ \A a \in Orders : orders[a] = "CLOSE" => orders'[a] = "CLOSE"
      /\ \A a \in Orders : orders[a] # "none" => orders'[a] # "none"
  BY <1>1, SettledRows
<1>3. JobsOK' /\ Executions' = Executions
  <2>1. job[w] # NoJob
    BY <1>1, JobsAreJobs DEF IInv, WorkerHasJob
  <2>. QED  BY <1>1, <2>1, JobRequeued DEF IInv
<1>4. WorkersTypeOK' /\ WorkerHasJob'
  BY <1>1, EndedWorker
<1>5. JobsAtTarget'
  BY <1>1, <1>3 DEF IInv, JobsAtTarget
<1>6. \A a \in Orders : (HasJob(a) => HasJob(a)') /\ (Handled(a) => Handled(a)')
  BY <1>1, <1>2, <1>3, StillHandled DEF IInv
<1>7. NotLost' /\ AnnouncedIsTrue'
  <2>1. \A v \in Workers : pc'[v] = "remove" => pc[v] = "remove" /\ cur'[v] = cur[v]
    BY <1>1 DEF IInv, EndJob, WorkersTypeOK
  <2>. QED  BY <1>1, <1>2, <1>6, <2>1 DEF IInv, OrdersTypeOK, WorkersTypeOK,
               WorkerHasJob, NotLost, AnnouncedIsTrue
<1>. QED  BY <1>2, <1>3, <1>4, <1>5, <1>7 DEF IInv

\* A failure takes nothing out of the book but the order of the job.
LEMMA BookOfFailure ==
  ASSUME IInv, NEW w \in Workers, book' \in BookAfterFailure(w)
  PROVE  /\ book' \subseteq Orders
         /\ \A o \in Orders : o \in book /\ o \notin book' =>
              pc[w] = "settle" /\ o = job[w].order /\ HasJob(o)
<1>1. pc[w] = "settle" => cur[w] = job[w].order /\ HasJob(cur[w])
  BY ExecutesAJob
<1>. QED  BY <1>1 DEF IInv, OrdersTypeOK, BookAfterFailure

LEMMA FailJobStep == ASSUME IInv, NEW w \in Workers, FailJob(w) PROVE IInv'
<1>1. /\ EndJob(w) /\ job' = [job EXCEPT ![w] = NoJob]
      /\ failed \subseteq failed' /\ book' \in BookAfterFailure(w)
      /\ UNCHANGED <<tables, ask, queue, announced, closed, overlapped, early>>
  BY DEF FailJob, EndJob
<1>2. /\ job[w] \in ExecuteJob => job[w].order \in Orders /\ job[w].order \in failed'
      /\ failed' \subseteq Orders
  <2>1. job[w] \in CheckJob \cup ExecuteJob
    BY DEF IInv, WorkersTypeOK, WorkerHasJob, FailJob
  <2>. QED  BY <2>1 DEF IInv, OrdersTypeOK, FailJob, CheckJob, ExecuteJob
<1>3. /\ JobsOK' /\ Executions' \subseteq Executions
      /\ Executions \subseteq Executions' \cup {job[w]}
  BY <1>1, JobEnded DEF IInv
<1>4. /\ book' \subseteq Orders
      /\ \A o \in Orders : o \in book /\ o \notin book' => o \in failed'
  <2>1. pc[w] = "settle" => job[w] \in ExecuteJob
    BY DEF IInv, WorkerHasJob
  <2>. QED  BY <1>1, <1>2, <2>1, BookOfFailure
<1>5. OrdersTypeOK'
  BY <1>1, <1>2, <1>4 DEF IInv, OrdersTypeOK, tables
<1>6. /\ WorkersTypeOK' /\ WorkerHasJob'
      /\ \A v \in Workers, o \in Orders : Settling(v, o)' => Settling(v, o)
  BY <1>1, EndedWorker
<1>7. JobsAtTarget'
  BY <1>1, <1>3 DEF IInv, JobsAtTarget
<1>8. RowsOfPlaced' /\ SettlesAlone' /\ SettledAtTarget'
  BY <1>1, <1>6 DEF IInv, RowsOfPlaced, SettlesAlone, SettledAtTarget, tables
<1>9. HasExecution /\ HasExecution'
  BY <1>3, HasJobMeans, PTL DEF IInv
<1>10. \A o \in Orders : HasJob(o) => HasJob(o)' \/ o \in failed'
  <2>. SUFFICES ASSUME NEW o \in Orders, HasJob(o) PROVE HasJob(o)' \/ o \in failed'
    OBVIOUS
  <2>1. PICK j \in Executions : j.order = o
    BY <1>9 DEF HasExecution
  <2>2. CASE j \in Executions'
    BY <1>9, <2>1, <2>2 DEF HasExecution
  <2>3. CASE j = job[w]
    BY <1>2, <2>1, <2>3 DEF Executions
  <2>. QED  BY <1>3, <2>2, <2>3
<1>11. \A o \in Orders : Handled(o) => Handled(o)'
  BY <1>1, <1>10 DEF Handled, tables
<1>12. NotLost' /\ AnnouncedIsTrue'
  <2>1. \A v \in Workers : pc'[v] = "remove" => pc[v] = "remove" /\ cur'[v] = cur[v]
    BY <1>1 DEF IInv, EndJob, WorkersTypeOK
  <2>2. \A o \in Orders : o \in failed' => Handled(o)'
    BY DEF Handled
  <2>. QED  BY <1>1, <1>4, <1>10, <1>11, <2>1, <2>2 DEF IInv, OrdersTypeOK,
               WorkersTypeOK, WorkerHasJob, NotLost, AnnouncedIsTrue, tables
<1>. QED  BY <1>3, <1>5, <1>6, <1>7, <1>8, <1>12 DEF IInv

LEMMA CrashInJobStep == ASSUME IInv, NEW w \in Workers, CrashInJob(w) PROVE IInv'
<1>1. /\ EndJob(w) /\ job' = [job EXCEPT ![w] = NoJob]
      /\ queue' = <<job[w]>> \o queue /\ book' \in BookAfterFailure(w)
      /\ UNCHANGED <<tables, ask, history>>
  BY DEF CrashInJob, EndJob, Requeue
<1>2. JobsOK' /\ Executions' = Executions
  <2>1. job[w] # NoJob
    BY JobsAreJobs DEF IInv, WorkersTypeOK, WorkerHasJob, CrashInJob
  <2>. QED  BY <1>1, <2>1, JobRequeued DEF IInv
<1>3. /\ book' \subseteq Orders
      /\ \A o \in Orders : o \in book /\ o \notin book' => HasJob(o)
  BY <1>1, BookOfFailure
<1>4. OrdersTypeOK'
  BY <1>1, <1>3 DEF IInv, OrdersTypeOK, tables, history
<1>5. /\ WorkersTypeOK' /\ WorkerHasJob'
      /\ \A v \in Workers, o \in Orders : Settling(v, o)' => Settling(v, o)
  BY <1>1, EndedWorker
<1>6. JobsAtTarget'
  BY <1>1, <1>2 DEF IInv, JobsAtTarget
<1>7. RowsOfPlaced' /\ SettlesAlone' /\ SettledAtTarget'
  BY <1>1, <1>5 DEF IInv, RowsOfPlaced, SettlesAlone, SettledAtTarget, tables, history
<1>8. \A o \in Orders : (HasJob(o) => HasJob(o)') /\ (Handled(o) => Handled(o)')
  BY <1>1, <1>2, StillHandled DEF IInv, tables, history
<1>9. NotLost' /\ AnnouncedIsTrue'
  <2>1. \A v \in Workers : pc'[v] = "remove" => pc[v] = "remove" /\ cur'[v] = cur[v]
    BY <1>1 DEF IInv, EndJob, WorkersTypeOK
  <2>2. \A o \in Orders : HasJob(o) => Handled(o)'
    BY <1>8 DEF Handled
  <2>. QED  BY <1>1, <1>3, <1>8, <2>1, <2>2 DEF IInv, OrdersTypeOK, WorkersTypeOK,
               WorkerHasJob, NotLost, AnnouncedIsTrue, tables, history
<1>. QED  BY <1>2, <1>4, <1>5, <1>6, <1>7, <1>9 DEF IInv

LEMMA StallStep == ASSUME IInv, NEW w \in Workers, Stall(w) PROVE IInv'
<1>1. UNCHANGED <<tables, ask, book, worker, history>> /\ queue' = <<job[w]>> \o queue
  BY DEF Stall, Requeue
<1>2. JobsOK' /\ Executions' = Executions
  <2>1. job[w] # NoJob
    BY JobsAreJobs DEF IInv, WorkersTypeOK, WorkerHasJob, Stall
  <2>. QED  BY <1>1, <2>1, JobRequeued DEF IInv, worker
<1>3. OrdersTypeOK' /\ WorkersTypeOK'
  BY <1>1 DEF IInv, OrdersTypeOK, WorkersTypeOK, tables, worker, history
<1>4. WorkerHasJob' /\ JobsAtTarget'
  BY <1>1, <1>2 DEF IInv, WorkerHasJob, JobsAtTarget, worker
<1>5. RowsOfPlaced' /\ SettlesAlone' /\ SettledAtTarget'
  BY <1>1 DEF IInv, RowsOfPlaced, SettlesAlone, SettledAtTarget, Settling, tables,
              worker, history
<1>6. \A o \in Orders : (HasJob(o) => HasJob(o)') /\ (Handled(o) => Handled(o)')
  BY <1>1, <1>2, StillHandled DEF IInv, tables, history
<1>7. NotLost' /\ AnnouncedIsTrue'
  BY <1>1, <1>6 DEF IInv, OrdersTypeOK, WorkersTypeOK, WorkerHasJob, NotLost,
                    AnnouncedIsTrue, tables, worker, history
<1>. QED  BY <1>2, <1>3, <1>4, <1>5, <1>7 DEF IInv

----------------------------------------------------------------------------
(* The theorems.                                                           *)

LEMMA InitIInv == Init => IInv
<1>. SUFFICES ASSUME Init PROVE IInv
  OBVIOUS
<1>1. OrdersTypeOK /\ WorkersTypeOK /\ JobsOK
  BY LimitAssumption DEF Init, OrdersTypeOK, WorkersTypeOK, JobsOK
<1>2. WorkerHasJob /\ RowsOfPlaced /\ SettlesAlone /\ SettledAtTarget
  BY DEF Init, WorkerHasJob, RowsOfPlaced, SettlesAlone, SettledAtTarget, Settling
<1>3. JobsAtTarget
  BY JobsAreJobs DEF Init, JobsAtTarget, Executions, Range
<1>4. NotLost /\ AnnouncedIsTrue
  BY DEF Init, NotLost, AnnouncedIsTrue
<1>. QED  BY <1>1, <1>2, <1>3, <1>4 DEF IInv

\* What a charge and a stuttering step leave alone.
OrdersAlone == <<place, orders, exit, ask, book, queue, worker, announced, closed,
                 overlapped, early, failed>>

LEMMA OrdersAloneStep == ASSUME IInv, UNCHANGED OrdersAlone PROVE IInv'
<1>1. JobsOK' /\ Executions' = Executions
  BY JobsSame DEF IInv, OrdersAlone, worker
<1>2. OrdersTypeOK' /\ WorkersTypeOK'
  BY DEF IInv, OrdersTypeOK, WorkersTypeOK, OrdersAlone, worker
<1>3. WorkerHasJob' /\ JobsAtTarget'
  BY <1>1 DEF IInv, WorkerHasJob, JobsAtTarget, OrdersAlone, worker
<1>4. RowsOfPlaced' /\ SettlesAlone' /\ SettledAtTarget'
  BY DEF IInv, RowsOfPlaced, SettlesAlone, SettledAtTarget, Settling, OrdersAlone, worker
<1>5. \A o \in Orders : (HasJob(o) => HasJob(o)') /\ (Handled(o) => Handled(o)')
  BY <1>1, StillHandled DEF IInv, OrdersAlone
<1>6. NotLost' /\ AnnouncedIsTrue'
  BY <1>5 DEF IInv, OrdersTypeOK, WorkersTypeOK, WorkerHasJob, NotLost, AnnouncedIsTrue,
              OrdersAlone, worker
<1>. QED  BY <1>1, <1>2, <1>3, <1>4, <1>6 DEF IInv

LEMMA ChargeLeavesOrders ==
  ASSUME \/ \E c \in Charges : ReadForCharge(c) \/ SaveCharge(c)
         \/ UNCHANGED vars
  PROVE  UNCHANGED OrdersAlone
<1>1. ASSUME NEW c \in Charges, ReadForCharge(c) PROVE UNCHANGED OrdersAlone
  BY <1>1 DEF ReadForCharge, OrdersAlone, tables, history
<1>2. ASSUME NEW c \in Charges, SaveCharge(c) PROVE UNCHANGED OrdersAlone
  BY <1>2 DEF SaveCharge, OrdersAlone
<1>3. CASE UNCHANGED vars
  BY <1>3 DEF vars, OrdersAlone, tables, history
<1>. QED  BY <1>1, <1>2, <1>3

(* The inductive invariant of limit orders: what a worker holds at each     *)
(* step of checkLimitOrders and executeLimitOrder, and where an order that  *)
(* has left the book is.                                                    *)
THEOREM Invariance == Spec => []IInv
<1>1. Init => IInv
  BY InitIInv
<1>2. IInv /\ [Next]_vars => IInv'
  <2>. SUFFICES ASSUME IInv, [Next]_vars PROVE IInv'
    OBVIOUS
  <2>1. CASE \E o \in Orders : PlaceOrder(o) \/ CommitOrder(o) \/ AbortOrder(o)
    BY <2>1, PlaceOrderStep, CommitOrderStep, AbortOrderStep
  <2>2. CASE \E p \in Prices : Tick(p)
    BY <2>2, TickStep
  <2>3. CASE \E w \in Workers : Work(w)
    BY <2>3, TakeJobStep, ScanStep, QueueExecutionStep, RemoveFromBookStep,
       LoadOpenOrderStep, LoadNoOrderStep, AnnounceClosedStep, SettleStep DEF Work
  <2>4. CASE \E w \in Workers :
               FailJob(w) \/ CrashInJob(w) \/ CrashAfterSettle(w) \/ Stall(w)
    BY <2>4, FailJobStep, CrashInJobStep, CrashAfterSettleStep, StallStep
  <2>5. CASE UNCHANGED vars \/ \E c \in Charges : ReadForCharge(c) \/ SaveCharge(c)
    BY <2>5, ChargeLeavesOrders, OrdersAloneStep
  <2>. QED  BY <2>1, <2>2, <2>3, <2>4, <2>5 DEF Next, Finished
<1>. QED  BY <1>1, <1>2, PTL DEF Spec

(* An order is settled twice only if a second worker read it as open while *)
(* another was settling it: queue.add before zrem, crashes and stalls alone *)
(* never do it.                                                             *)
THEOREM SettledOnce == Spec => []SettledTwiceOnlyByOverlap
<1>1. IInv => SettledTwiceOnlyByOverlap
  <2>. SUFFICES ASSUME IInv, NEW o \in Orders \ overlapped
                PROVE  closed[o] = IF orders[o] = "CLOSE" THEN 1 ELSE 0
    BY DEF SettledTwiceOnlyByOverlap
  <2>1. closed[o] \in Nat /\ closed[o] <= 1 /\ (closed[o] > 0 <=> orders[o] = "CLOSE")
    BY DEF IInv, OrdersTypeOK, SettlesAlone
  <2>. QED  BY <2>1
<1>. QED  BY <1>1, Invariance, PTL

(* executeLimitOrder settles every order at the price that was asked for,  *)
(* although it takes the price from the job and not from the order's row.  *)
THEOREM AtTarget == Spec => []SettledAtTarget
<1>1. IInv => SettledAtTarget
  BY DEF IInv
<1>. QED  BY <1>1, Invariance, PTL

(* An open order out of the book whose execution is not queued met the race *)
(* of its own placement, or its execution failed: nothing else strands one. *)
THEOREM StrandedInKnownWays == Spec => []StrandedOnlyByRaceOrFailure
<1>1. IInv => StrandedOnlyByRaceOrFailure
  <2>. SUFFICES ASSUME IInv, NEW o \in Orders, orders[o] = "OPEN"
                PROVE  o \in book \/ HasJob(o) \/ o \in early \/ o \in failed
    BY DEF StrandedOnlyByRaceOrFailure
  <2>1. place[o] = "done"
    BY DEF IInv, RowsOfPlaced
  <2>. QED  BY <2>1 DEF IInv, NotLost, Handled
<1>. QED  BY <1>1, Invariance, PTL

(* 'order-closed' is emitted before the commit, and is wrong for good only  *)
(* about an order whose execution then failed.                              *)
THEOREM AnnouncementsComeTrue == Spec => []AnnouncedIsClosed
<1>1. IInv => AnnouncedIsClosed
  BY DEF IInv, AnnouncedIsTrue, AnnouncedIsClosed
<1>. QED  BY <1>1, Invariance, PTL

----------------------------------------------------------------------------
(* The wallets.  What is locked in a row is what its open orders will pay. *)

Rows == Users \X {USD, Coin}

FundsTypeOK ==
  /\ wallets \in [Rows -> Columns]
  /\ charge \in [Charges -> {"idle", "save", "done"}]
  /\ copy \in [Charges -> Columns]
  /\ amount \in [Orders -> Nat]
  /\ rounded \subseteq Rows /\ lost \subseteq Rows

\* Every column has been through toNumber().
StoredRow(row) == Stored(row.balance) /\ Stored(row.locked)

RowsStored ==
  /\ \A i \in Rows : StoredRow(wallets[i])
  /\ \A c \in Charges : StoredRow(copy[c])

\* An order that is being placed holds its row alone, no settlement of its
\* user is under way, and charges wait: what it found available still is.
PlacementHoldsRow ==
  \A o \in Orders : place[o] = "commit" =>
    /\ ShareOfWallet(o) > 0
    /\ amount[o] = ToNumber(ShareOfWallet(o))
    /\ \A a \in Orders : place[a] = "commit" /\ Row(a) = Row(o) => a = o
    /\ \A w \in Workers : pc[w] = "commit" => ask[cur[w]].userId # ask[o].userId

\* Only finitely many orders are open, however many there are.
FiniteOpenOrders == \A i \in Rows : IsFiniteSet(OpenOrders(i))

Clean(i) == (\A o \in overlapped : Row(o) # i) /\ i \notin lost

Backed(i) ==
  /\ wallets[i].locked <= wallets[i].balance
  /\ i \notin rounded => wallets[i].locked = SumFunctionOnSet(amount, OpenOrders(i))

CleanIsBacked == \A i \in Rows : Clean(i) => Backed(i)

FundsInv ==
  /\ FundsTypeOK
  /\ RowsStored
  /\ PlacementHoldsRow
  /\ FiniteOpenOrders
  /\ CleanIsBacked

LEMMA RowIsRow == ASSUME OrdersTypeOK, NEW o \in Orders PROVE Row(o) \in Rows
BY DEF OrdersTypeOK, Ask, Row, Rows

LEMMA InitFunds == ASSUME Init PROVE FundsInv
<1>1. FundsTypeOK
  <2>1. \A i \in Rows : Funding[i[2]] \in Nat
    BY LimitAssumption DEF Rows
  <2>. QED  BY <2>1 DEF Init, FundsTypeOK, Rows, Columns
<1>2. RowsStored
  <2>1. Stored(0) /\ \A i \in Rows : Stored(Funding[i[2]])
    BY LimitAssumption, FundsAssumption, ToNumberNat DEF Rows
  <2>2. ASSUME NEW i \in Rows
        PROVE  wallets[i].balance = Funding[i[2]] /\ wallets[i].locked = 0
    <3>1. wallets[i] = [balance |-> Funding[i[2]], locked |-> 0]
      BY DEF Init, Rows
    <3>. DEFINE f == Funding[i[2]]
    <3>. HIDE DEF f
    <3>2. wallets[i] = [balance |-> f, locked |-> 0]
      BY <3>1 DEF f
    <3>3. wallets[i].balance = f /\ wallets[i].locked = 0
      BY <3>2
    <3>. QED  BY <3>3 DEF f
  <2>3. \A c \in Charges : copy[c] = [balance |-> 0, locked |-> 0]
    BY DEF Init
  <2>5. \A c \in Charges : copy[c].balance = 0 /\ copy[c].locked = 0
    BY <2>3
  <2>. QED  BY <2>1, <2>2, <2>5 DEF RowsStored, StoredRow
<1>3. PlacementHoldsRow
  BY DEF Init, PlacementHoldsRow
<1>4. \A i \in Rows : OpenOrders(i) = {}
  BY DEF Init, OpenOrders
<1>5. \A i \in Rows : wallets[i].locked = 0 /\ wallets[i].balance \in Nat
  BY LimitAssumption DEF Init, Rows
<1>6. FiniteOpenOrders
  BY <1>4, FS_EmptySet DEF FiniteOpenOrders
<1>7. CleanIsBacked
  <2>. SUFFICES ASSUME NEW i \in Rows PROVE Backed(i)
    BY DEF CleanIsBacked
  <2>1. SumFunctionOnSet(amount, OpenOrders(i)) = 0
    BY <1>4, SumEmpty
  <2>. QED  BY <1>5, <2>1 DEF Backed
<1>. QED  BY <1>1, <1>2, <1>3, <1>6, <1>7 DEF FundsInv

(* A step that touches no row, places no order and begins no settlement.   *)
LEMMA KeepsFunds ==
  ASSUME FundsInv, UNCHANGED <<wallets, amount, orders, ask, charging, spoilt>>,
         \A o \in Orders : place'[o] = "commit" => place[o] = "commit",
         overlapped \subseteq overlapped',
         \A w \in Workers : pc'[w] = "commit" => pc[w] = "commit" /\ cur'[w] = cur[w]
  PROVE  FundsInv'
<1>1. FundsTypeOK' /\ RowsStored'
  BY DEF FundsInv, FundsTypeOK, RowsStored, charging, spoilt
<1>2. \A o : Row(o)' = Row(o) /\ ShareOfWallet(o)' = ShareOfWallet(o)
  BY DEF Row, ShareOfWallet, Available
<1>3. PlacementHoldsRow'
  BY <1>2 DEF FundsInv, PlacementHoldsRow
<1>4. \A i : OpenOrders(i)' = OpenOrders(i)
  BY <1>2 DEF OpenOrders
<1>5. FiniteOpenOrders'
  BY <1>4 DEF FundsInv, FiniteOpenOrders
<1>6. CleanIsBacked'
  BY <1>2, <1>4 DEF FundsInv, CleanIsBacked, Clean, Backed, spoilt
<1>. QED  BY <1>1, <1>3, <1>5, <1>6 DEF FundsInv

(* What an order asks for is there, if anything is.                        *)
LEMMA ShareIsThere ==
  ASSUME OrdersTypeOK, FundsTypeOK, NEW o \in Orders, ShareOfWallet(o) > 0
  PROVE  LET row == wallets[Row(o)]
         IN  /\ Row(o) \in Rows /\ row \in Columns /\ row.locked <= row.balance
             /\ ShareOfWallet(o) \in Nat
             /\ ShareOfWallet(o) \in 0 .. (row.balance - row.locked) * Whole
<1>. DEFINE row == wallets[Row(o)]
            a == Available(row)
            p == ask[o].percent
<1>1. Row(o) \in Rows /\ row \in Columns
  BY RowIsRow DEF FundsTypeOK
<1>2. a = row.balance - row.locked /\ row.balance \in Int /\ row.locked \in Int
  BY <1>1 DEF Available, Columns
<1>3. p \in Int /\ ValidPercent(p)
  BY LimitAssumption DEF OrdersTypeOK, Ask
<1>4. ShareOfWallet(o) = ShareOf(a, p)
  BY DEF ShareOfWallet
<1>. HIDE DEF a, p
<1>5. a \in Nat
  BY <1>2, <1>3, <1>4 DEF ShareOf, ValidPercent
<1>6. ShareOf(a, p) \in 0 .. a * Whole
  BY <1>3, <1>5, FundsAssumption, ShareBounds
<1>7. a * Whole \in Int
  BY <1>5, FundsAssumption DEF FundsAssumption
<1>. HIDE DEF row
<1>. QED  BY <1>1, <1>2, <1>4, <1>5, <1>6, <1>7 DEF row

LEMMA PlaceOrderFunds ==
  ASSUME IInv, FundsInv, NEW o \in Orders, PlaceOrder(o) PROVE FundsInv'
<1>. DEFINE n == ToNumber(ShareOfWallet(o))
<1>1. /\ place[o] = "idle" /\ place' = [place EXCEPT ![o] = "commit"]
      /\ ~RowIsLocked(Row(o)) /\ ShareOfWallet(o) > 0
      /\ amount' = [amount EXCEPT ![o] = n]
      /\ UNCHANGED <<wallets, orders, ask, pc, cur, overlapped, charging, spoilt>>
  BY DEF PlaceOrder, worker, history
<1>2. n \in Nat
  <2>1. ShareOfWallet(o) \in Nat
    BY <1>1, ShareIsThere DEF IInv, FundsInv
  <2>. QED  BY <2>1, FundsAssumption, ToNumberNat
<1>3. FundsTypeOK' /\ RowsStored'
  BY <1>1, <1>2 DEF FundsInv, FundsTypeOK, RowsStored, charging, spoilt
<1>4. \A a : Row(a)' = Row(a) /\ ShareOfWallet(a)' = ShareOfWallet(a)
  BY <1>1 DEF Row, ShareOfWallet, Available
<1>5. PlacementHoldsRow'
  <2>1. /\ \A a \in Orders : place[a] = "commit" => Row(a) # Row(o)
        /\ \A w \in Workers : pc[w] = "commit" => ask[cur[w]].userId # ask[o].userId
    BY <1>1 DEF RowIsLocked, Row
  <2>2. /\ amount'[o] = n
        /\ \A a \in Orders : a # o => amount'[a] = amount[a] /\ place'[a] = place[a]
    BY <1>1 DEF IInv, OrdersTypeOK, FundsInv, FundsTypeOK
  <2>. QED  BY <1>1, <1>2, <1>4, <2>1, <2>2 DEF FundsInv, PlacementHoldsRow
<1>. HIDE DEF n
<1>6. \A i : OpenOrders(i)' = OpenOrders(i) /\ o \notin OpenOrders(i)
  BY <1>1, <1>4 DEF OpenOrders, IInv, RowsOfPlaced
<1>7. FiniteOpenOrders'
  BY <1>6 DEF FundsInv, FiniteOpenOrders
<1>8. \A i \in Rows : SumFunctionOnSet(amount', OpenOrders(i)) =
                        SumFunctionOnSet(amount, OpenOrders(i))
  <2>. SUFFICES ASSUME NEW i \in Rows
                PROVE  SumFunctionOnSet(amount', OpenOrders(i)) =
                         SumFunctionOnSet(amount, OpenOrders(i))
    OBVIOUS
  <2>. DEFINE S == OpenOrders(i)
              g == amount'
  <2>1. IsFiniteSet(S)
    BY DEF FundsInv, FiniteOpenOrders
  <2>2. \A a \in S : amount[a] = g[a]
    BY <1>1, <1>6 DEF OpenOrders, FundsInv, FundsTypeOK
  <2>. HIDE DEF S, g
  <2>3. SumFunctionOnSet(amount, S) = SumFunctionOnSet(g, S)
    BY <2>1, <2>2, SumSame
  <2>. QED  BY <2>3 DEF S, g
<1>9. \A i \in Rows : (Clean(i)' <=> Clean(i)) /\ (Backed(i)' <=> Backed(i))
  BY <1>1, <1>4, <1>6, <1>8 DEF Clean, Backed, spoilt
<1>10. CleanIsBacked'
  BY <1>9 DEF FundsInv, CleanIsBacked
<1>. QED  BY <1>3, <1>5, <1>7, <1>10 DEF FundsInv

(* The row that a placement commits.                                       *)
LEMMA CommittedWallets ==
  ASSUME IInv, FundsInv, NEW o \in Orders, CommitOrder(o)
  PROVE  LET r == Row(o)
         IN /\ r \in Rows /\ wallets' \in [Rows -> Columns] /\ amount[o] \in Nat
            /\ \A i \in Rows : StoredRow(wallets'[i])
            /\ wallets'[r].balance = wallets[r].balance
            /\ wallets'[r].locked <= wallets'[r].balance
            /\ r \notin rounded' =>
                 r \notin rounded /\ wallets'[r].locked = wallets[r].locked + amount[o]
            /\ \A i \in Rows : i # r =>
                 wallets'[i] = wallets[i] /\ (i \in rounded' <=> i \in rounded)
            /\ rounded' \subseteq Rows
<1>. DEFINE r == Row(o)
            row == wallets[r]
            x == ShareOfWallet(o)
            n == ToNumber(row.locked * Whole + x)
            w == [row EXCEPT !.locked = n]
<1>1. /\ place[o] = "commit" /\ wallets' = [wallets EXCEPT ![r] = w]
      /\ NoteRounding(r, amount[o])
  BY DEF CommitOrder
<1>2. /\ r \in Rows /\ row \in Columns /\ row.locked <= row.balance
      /\ x \in 0 .. (row.balance - row.locked) * Whole
      /\ amount[o] \in Nat
  <2>1. x > 0
    BY <1>1 DEF FundsInv, PlacementHoldsRow
  <2>. QED  BY <2>1, ShareIsThere DEF IInv, FundsInv, FundsTypeOK
<1>3. /\ row.balance \in Int /\ row.locked \in Int
      /\ Stored(row.balance) /\ Stored(row.locked)
  BY <1>2 DEF FundsInv, RowsStored, StoredRow, Columns
<1>. HIDE DEF x
<1>4. n \in Int /\ Stored(n) /\ n <= row.balance
  <2>. DEFINE b == row.balance
              l == row.locked
  <2>1. /\ b \in Int /\ l \in Int /\ Stored(b) /\ Stored(l) /\ l <= b
        /\ x \in 0 .. (b - l) * Whole
    BY <1>2, <1>3
  <2>. HIDE DEF b, l
  <2>2. LET m == ToNumber(l * Whole + x) IN m \in Int /\ Stored(m) /\ m <= b
    BY <2>1, FundsAssumption, ReserveStaysBelow
  <2>. QED  BY <2>2 DEF b, l
<1>. HIDE DEF n
<1>5. w \in Columns /\ w.balance = row.balance /\ w.locked = n /\ StoredRow(w)
  BY <1>2, <1>3, <1>4 DEF Columns, StoredRow
<1>. HIDE DEF w
<1>6. /\ wallets'[r] = w /\ wallets' \in [Rows -> Columns]
      /\ \A i \in Rows : i # r => wallets'[i] = wallets[i]
  BY <1>1, <1>2, <1>5 DEF FundsInv, FundsTypeOK
<1>7. /\ r \notin rounded' =>
           r \notin rounded /\ wallets'[r].locked = row.locked + amount[o]
      /\ \A i \in Rows : i # r => (i \in rounded' <=> i \in rounded)
      /\ rounded' \subseteq Rows
  BY <1>1, <1>2 DEF NoteRounding, FundsInv, FundsTypeOK
<1>8. \A i \in Rows : StoredRow(wallets'[i])
  BY <1>5, <1>6 DEF FundsInv, RowsStored
<1>. QED  BY <1>2, <1>4, <1>5, <1>6, <1>7, <1>8

LEMMA CommitOrderFunds ==
  ASSUME IInv, FundsInv, NEW o \in Orders, CommitOrder(o) PROVE FundsInv'
<1>. DEFINE r == Row(o)
<1>1. /\ place[o] = "commit" /\ place' = [place EXCEPT ![o] = "done"]
      /\ orders' = [orders EXCEPT ![o] = "OPEN"]
      /\ UNCHANGED <<amount, ask, pc, cur, overlapped, lost, charging>>
  BY DEF CommitOrder, worker
<1>2. /\ r \in Rows /\ wallets' \in [Rows -> Columns] /\ amount[o] \in Nat
      /\ \A i \in Rows : StoredRow(wallets'[i])
      /\ wallets'[r].balance = wallets[r].balance
      /\ wallets'[r].locked <= wallets'[r].balance
      /\ r \notin rounded' =>
           r \notin rounded /\ wallets'[r].locked = wallets[r].locked + amount[o]
      /\ \A i \in Rows : i # r =>
           wallets'[i] = wallets[i] /\ (i \in rounded' <=> i \in rounded)
      /\ rounded' \subseteq Rows
  BY CommittedWallets
<1>3. FundsTypeOK' /\ RowsStored'
  BY <1>1, <1>2 DEF FundsInv, FundsTypeOK, RowsStored, charging
<1>4. \A a : Row(a)' = Row(a)
  BY <1>1 DEF Row
<1>5. PlacementHoldsRow'
  <2>. SUFFICES ASSUME NEW a \in Orders, place'[a] = "commit"
                PROVE  /\ ShareOfWallet(a)' > 0 /\ amount'[a] = ToNumber(ShareOfWallet(a)')
                       /\ \A b \in Orders : place'[b] = "commit" /\ Row(b)' = Row(a)' => b = a
                       /\ \A v \in Workers : pc'[v] = "commit" =>
                            ask'[cur'[v]].userId # ask'[a].userId
    BY DEF PlacementHoldsRow
  <2>1. /\ a # o /\ place[a] = "commit"
        /\ \A b \in Orders : place'[b] = "commit" => place[b] = "commit"
    BY <1>1 DEF IInv, OrdersTypeOK
  <2>2. Row(a) # r /\ Row(a) \in Rows
    BY <1>1, <2>1, RowIsRow DEF IInv, FundsInv, PlacementHoldsRow
  <2>3. ShareOfWallet(a)' = ShareOfWallet(a)
    BY <1>1, <1>2, <1>4, <2>2 DEF ShareOfWallet, Available
  <2>. QED  BY <1>1, <1>4, <2>1, <2>3 DEF FundsInv, PlacementHoldsRow
<1>6. \A i \in Rows : /\ OpenOrders(i)' = OpenOrders(i) \cup (IF i = r THEN {o} ELSE {})
                      /\ o \notin OpenOrders(i)
  BY <1>1, <1>4 DEF OpenOrders, IInv, OrdersTypeOK, RowsOfPlaced
<1>7. ASSUME NEW i \in Rows
      PROVE  /\ IsFiniteSet(OpenOrders(i)')
             /\ Backed(i) => Backed(i)'
  <2>. DEFINE S == OpenOrders(i)
              T == OpenOrders(i)'
  <2>1. /\ IsFiniteSet(S) /\ T \ {o} = S \ {o} /\ o \notin S
        /\ o \in T <=> i = r
        /\ \A a \in S : amount[a] \in Int
        /\ \A a \in T : amount[a] \in Int
    BY <1>6 DEF FundsInv, FiniteOpenOrders, FundsTypeOK, OpenOrders
  <2>. HIDE DEF S, T
  <2>2. /\ IsFiniteSet(T)
        /\ SumFunctionOnSet(amount, T) = SumFunctionOnSet(amount, S)
                                          - (IF o \in S THEN amount[o] ELSE 0)
                                          + (IF o \in T THEN amount[o] ELSE 0)
    BY <2>1, SumChanges
  <2>3. SumFunctionOnSet(amount, S) \in Int
    BY <2>1, SumType
  <2>4. ASSUME wallets[i].locked <= wallets[i].balance,
               i \notin rounded => wallets[i].locked = SumFunctionOnSet(amount, S)
        PROVE  /\ wallets'[i].locked <= wallets'[i].balance
               /\ i \notin rounded' => wallets'[i].locked = SumFunctionOnSet(amount, T)
    <3>1. CASE i = r
      BY <1>2, <2>1, <2>2, <2>3, <2>4, <3>1
    <3>2. CASE i # r
      BY <1>2, <2>1, <2>2, <2>3, <2>4, <3>2
    <3>. QED  BY <3>1, <3>2
  <2>. QED  BY <1>1, <2>2, <2>4 DEF Backed, S, T
<1>8. FiniteOpenOrders' /\ CleanIsBacked'
  BY <1>1, <1>4, <1>7 DEF FundsInv, FiniteOpenOrders, CleanIsBacked, Clean
<1>. QED  BY <1>3, <1>5, <1>8 DEF FundsInv

LEMMA AnnounceClosedFunds ==
  ASSUME IInv, FundsInv, NEW w \in Workers, AnnounceClosed(w) PROVE FundsInv'
<1>1. /\ pc' = [pc EXCEPT ![w] = "commit"]
      /\ ~RowIsLocked(<<ask[cur[w]].userId, USD>>) /\ ~RowIsLocked(<<ask[cur[w]].userId, Coin>>)
      /\ UNCHANGED <<wallets, amount, place, orders, ask, cur, overlapped, charging, spoilt>>
  BY DEF AnnounceClosed, Goto, tables
<1>2. \A o \in Orders : place[o] = "commit" => ask[cur[w]].userId # ask[o].userId
  BY <1>1 DEF RowIsLocked, Row
<1>3. \A o : /\ Row(o)' = Row(o) /\ OpenOrders(o)' = OpenOrders(o)
             /\ ShareOfWallet(o)' = ShareOfWallet(o)
  BY <1>1 DEF Row, OpenOrders, ShareOfWallet, Available
<1>4. PlacementHoldsRow'
  BY <1>1, <1>2, <1>3 DEF IInv, WorkersTypeOK, FundsInv, PlacementHoldsRow
<1>5. FundsTypeOK' /\ RowsStored' /\ FiniteOpenOrders' /\ CleanIsBacked'
  BY <1>1, <1>3 DEF FundsInv, FundsTypeOK, RowsStored, FiniteOpenOrders, CleanIsBacked,
                    Clean, Backed, charging, spoilt
<1>. QED  BY <1>4, <1>5 DEF FundsInv

(* The coins that an amount of USD buys are a natural number of parts.     *)
LEMMA VolumeIsNat ==
  ASSUME NEW n \in Nat, NEW p \in Nat \ {0} PROVE Volume(n, p) \in Nat
<1>. DEFINE a == 2 * (n * Whole) + p
            b == 2 * p
<1>1. a \in Nat /\ b \in Nat /\ b > 0
  BY FundsAssumption DEF FundsAssumption
<1>. HIDE DEF a, b
<1>2. a \div b \in Nat
  BY <1>1
<1>. QED  BY <1>2 DEF Volume, Round, a, b

(* The row that pays for an order, and the row that gains by it.           *)
Paid(row, n) == [balance |-> ToNumber((row.balance - n) * Whole),
                 locked |-> ToNumber((row.locked - n) * Whole)]

Gained(row, x) == [row EXCEPT !.balance = ToNumber(@ * Whole + x)]

LEMMA PaidRow ==
  ASSUME NEW row \in Columns, NEW n \in Nat
  PROVE  /\ Paid(row, n) \in Columns /\ StoredRow(Paid(row, n))
         /\ row.locked <= row.balance => Paid(row, n).locked <= Paid(row, n).balance
<1>. DEFINE x == (row.balance - n) * Whole
            y == (row.locked - n) * Whole
<1>1. row.balance \in Int /\ row.locked \in Int /\ Whole \in Nat \ {0}
  BY FundsAssumption DEF Columns, FundsAssumption
<1>2. x \in Int /\ y \in Int
  BY <1>1
<1>3. row.locked <= row.balance => y <= x
  <2>. SUFFICES ASSUME row.locked <= row.balance PROVE y <= x
    OBVIOUS
  <2>. DEFINE l == row.locked - n
              b == row.balance - n
  <2>1. l \in Int /\ b \in Int /\ l <= b
    BY <1>1
  <2>. HIDE DEF l, b
  <2>2. Whole * l <= Whole * b /\ Whole * l = l * Whole /\ Whole * b = b * Whole
    BY <1>1, <2>1, TimesMonotone
  <2>. QED  BY <2>2 DEF l, b
<1>4. Paid(row, n) = [balance |-> ToNumber(x), locked |-> ToNumber(y)]
  BY DEF Paid
<1>. HIDE DEF x, y
<1>5. /\ ToNumber(x) \in Int /\ Stored(ToNumber(x))
      /\ ToNumber(y) \in Int /\ Stored(ToNumber(y))
      /\ y <= x => ToNumber(y) <= ToNumber(x)
  BY <1>2, FundsAssumption, ToNumberIsStored, ToNumberMonotone
<1>. DEFINE v == ToNumber(x)
            u == ToNumber(y)
<1>6. /\ Paid(row, n) = [balance |-> v, locked |-> u]
      /\ v \in Int /\ u \in Int /\ Stored(v) /\ Stored(u) /\ (y <= x => u <= v)
  BY <1>4, <1>5
<1>. HIDE DEF u, v
<1>. QED  BY <1>3, <1>6 DEF Columns, StoredRow

LEMMA GainedRow ==
  ASSUME NEW row \in Columns, StoredRow(row), NEW x \in Nat
  PROVE  /\ Gained(row, x) \in Columns /\ StoredRow(Gained(row, x))
         /\ Gained(row, x).locked = row.locked
         /\ row.balance <= Gained(row, x).balance
<1>. DEFINE n == ToNumber(row.balance * Whole + x)
<1>1. row.balance \in Int /\ row.locked \in Int /\ Stored(row.balance) /\ Stored(row.locked)
  BY DEF Columns, StoredRow
<1>2. n \in Int /\ Stored(n) /\ row.balance <= n
  BY <1>1, FundsAssumption, GainOnlyAdds
<1>3. Gained(row, x) = [row EXCEPT !.balance = n]
  BY DEF Gained, Columns
<1>. HIDE DEF n
<1>. QED  BY <1>1, <1>2, <1>3 DEF Columns, StoredRow

(* The settlement pays with what the order has locked, and the other row   *)
(* of the user gains.                                                      *)
LEMMA SettledWallets ==
  ASSUME IInv, FundsInv, NEW w \in Workers, pc[w] = "commit",
         SettleOrder(cur[w], job[w].price)
  PROVE  LET o == cur[w]
             r == Row(o)
         IN /\ o \in Orders /\ r \in Rows /\ amount[o] \in Nat
            /\ wallets' \in [Rows -> Columns] /\ rounded' \subseteq Rows
            /\ \A i \in Rows : StoredRow(wallets'[i])
            /\ wallets[r].locked <= wallets[r].balance =>
                 wallets'[r].locked <= wallets'[r].balance
            /\ r \notin rounded' =>
                 r \notin rounded /\ wallets'[r].locked = wallets[r].locked - amount[o]
            /\ \A i \in Rows : i # r => /\ wallets'[i].locked = wallets[i].locked
                                        /\ wallets'[i].balance >= wallets[i].balance
                                        /\ i \in rounded' <=> i \in rounded
            /\ \A i \in Rows : i[1] # ask[o].userId => wallets'[i] = wallets[i]
<1>. DEFINE o == cur[w]
            r == Row(o)
            u == ask[o].userId
            n == amount[o]
            p == job[w].price
            sold == <<u, IF ask[o].side = "BUY" THEN Coin ELSE USD>>
            x == IF ask[o].side = "BUY" THEN Volume(n, p) ELSE n * p * Whole
<1>1. /\ o \in Orders /\ p \in Nat \ {0}
  <2>1. job[w] \in ExecuteJob /\ o = job[w].order
    BY DEF IInv, WorkerHasJob
  <2>. QED  BY <2>1, LimitAssumption DEF ExecuteJob
<1>2. /\ n \in Nat /\ u \in Users /\ Coin # USD /\ ask[o].side \in {"BUY", "SELL"}
      /\ wallets \in [Rows -> Columns] /\ rounded \subseteq Rows
      /\ \A i \in Rows : wallets[i] \in Columns /\ StoredRow(wallets[i])
  BY <1>1, LimitAssumption DEF IInv, OrdersTypeOK, Ask, FundsInv, FundsTypeOK, RowsStored
<1>3. /\ r \in Rows /\ sold \in Rows /\ sold # r /\ r[1] = u /\ sold[1] = u
  BY <1>2 DEF Row, Rows
<1>4. x \in Nat
  <2>1. Volume(n, p) \in Nat /\ n * p \in Nat
    BY <1>1, <1>2, VolumeIsNat
  <2>2. n * p * Whole \in Nat
    BY <2>1, FundsAssumption DEF FundsAssumption
  <2>. QED  BY <2>1, <2>2
<1>5. wallets' = [wallets EXCEPT ![sold] = Gained(@, x), ![r] = Paid(@, n)]
  <2>1. CASE ask[o].side = "BUY"
    BY <2>1 DEF SettleOrder, Gained, Paid, Row
  <2>2. CASE ask[o].side = "SELL"
    BY <2>2 DEF SettleOrder, Gained, Paid, Row
  <2>. QED  BY <1>2, <2>1, <2>2
<1>6. /\ rounded' \subseteq Rows
      /\ r \notin rounded' => r \notin rounded /\ wallets'[r].locked = wallets[r].locked + (-n)
      /\ \A i \in Rows : i # r => (i \in rounded' <=> i \in rounded)
  BY <1>2, <1>3 DEF SettleOrder, NoteRounding
<1>. HIDE DEF r, sold, x, n, u, o, p
<1>7. /\ wallets'[r] = Paid(wallets[r], n) /\ wallets'[sold] = Gained(wallets[sold], x)
      /\ \A i \in Rows : i # r /\ i # sold => wallets'[i] = wallets[i]
  BY <1>2, <1>3, <1>5
<1>8. /\ Paid(wallets[r], n) \in Columns /\ StoredRow(Paid(wallets[r], n))
      /\ wallets[r].locked <= wallets[r].balance =>
           Paid(wallets[r], n).locked <= Paid(wallets[r], n).balance
  BY <1>2, <1>3, PaidRow
<1>9. /\ Gained(wallets[sold], x) \in Columns /\ StoredRow(Gained(wallets[sold], x))
      /\ Gained(wallets[sold], x).locked = wallets[sold].locked
      /\ wallets[sold].balance <= Gained(wallets[sold], x).balance
  BY <1>2, <1>3, <1>4, GainedRow
<1>10. wallets' \in [Rows -> Columns] /\ \A i \in Rows : StoredRow(wallets'[i])
  <2>1. wallets' \in [Rows -> Columns]
    BY <1>2, <1>5, <1>8, <1>9
  <2>. QED  BY <1>2, <1>7, <1>8, <1>9, <2>1
<1>11. \A i \in Rows : i # r => /\ wallets'[i].locked = wallets[i].locked
                                /\ wallets'[i].balance >= wallets[i].balance
  <2>1. \A i \in Rows : wallets[i].balance \in Int /\ wallets'[i].balance \in Int
    BY <1>2, <1>10 DEF Columns
  <2>2. Gained(wallets[sold], x).balance \in Int
    BY <1>9 DEF Columns
  <2>. QED  BY <1>3, <1>7, <1>9, <2>1, <2>2
<1>12. \A i \in Rows : i[1] # u => wallets'[i] = wallets[i]
  BY <1>3, <1>7
<1>13. wallets'[r].locked = wallets[r].locked + (-n) =>
         wallets'[r].locked = wallets[r].locked - n
  BY <1>2, <1>3 DEF Columns
<1>. QED  BY <1>1, <1>2, <1>3, <1>6, <1>7, <1>8, <1>10, <1>11, <1>12, <1>13 DEF r, n, u, o

LEMMA SettledFunds ==
  ASSUME IInv, FundsInv, NEW w \in Workers, pc[w] = "commit",
         SettleOrder(cur[w], job[w].price), EndJob(w),
         UNCHANGED <<ask, amount, place, overlapped, lost, charging>>
  PROVE  FundsInv'
<1>. DEFINE o == cur[w]
            r == Row(o)
<1>1. /\ o \in Orders /\ r \in Rows /\ amount[o] \in Nat
      /\ wallets' \in [Rows -> Columns] /\ rounded' \subseteq Rows
      /\ \A i \in Rows : StoredRow(wallets'[i])
      /\ wallets[r].locked <= wallets[r].balance =>
           wallets'[r].locked <= wallets'[r].balance
      /\ r \notin rounded' =>
           r \notin rounded /\ wallets'[r].locked = wallets[r].locked - amount[o]
      /\ \A i \in Rows : i # r => /\ wallets'[i].locked = wallets[i].locked
                                  /\ wallets'[i].balance >= wallets[i].balance
                                  /\ i \in rounded' <=> i \in rounded
      /\ \A i \in Rows : i[1] # ask[o].userId => wallets'[i] = wallets[i]
  BY SettledWallets
<1>2. /\ orders' = [orders EXCEPT ![o] = "CLOSE"] /\ pc' = [pc EXCEPT ![w] = "free"]
      /\ \A v \in Workers : v # w => cur'[v] = cur[v]
  BY DEF SettleOrder, EndJob, IInv, WorkersTypeOK
<1>3. FundsTypeOK' /\ RowsStored'
  BY <1>1 DEF FundsInv, FundsTypeOK, RowsStored, charging
<1>4. \A a : Row(a)' = Row(a)
  BY DEF Row
<1>5. PlacementHoldsRow'
  <2>. SUFFICES ASSUME NEW a \in Orders, place[a] = "commit"
                PROVE  /\ ShareOfWallet(a)' > 0 /\ amount[a] = ToNumber(ShareOfWallet(a)')
                       /\ \A v \in Workers : pc'[v] = "commit" =>
                            ask[cur'[v]].userId # ask[a].userId
    BY <1>4 DEF FundsInv, PlacementHoldsRow
  <2>1. /\ ShareOfWallet(a) > 0 /\ amount[a] = ToNumber(ShareOfWallet(a))
        /\ \A v \in Workers : pc[v] = "commit" => ask[cur[v]].userId # ask[a].userId
    BY DEF FundsInv, PlacementHoldsRow
  <2>2. wallets'[Row(a)] = wallets[Row(a)]
    <3>1. Row(a) \in Rows /\ Row(a)[1] = ask[a].userId
      BY RowIsRow DEF IInv, Row
    <3>. QED  BY <1>1, <2>1, <3>1
  <2>3. ShareOfWallet(a)' = ShareOfWallet(a)
    BY <1>4, <2>2 DEF ShareOfWallet, Available
  <2>4. \A v \in Workers : pc'[v] = "commit" => pc[v] = "commit" /\ v # w
    BY <1>2 DEF IInv, WorkersTypeOK
  <2>. QED  BY <1>2, <2>1, <2>3, <2>4
<1>6. \A i \in Rows : OpenOrders(i)' = OpenOrders(i) \ {o}
  BY <1>1, <1>2, <1>4 DEF OpenOrders, IInv, OrdersTypeOK
<1>7. Clean(r) => o \in OpenOrders(r)
  <2>1. o \notin overlapped => orders[o] = "OPEN"
    BY <1>1 DEF IInv, SettlesAlone, Settling
  <2>. QED  BY <1>1, <2>1 DEF Clean, OpenOrders
<1>8. \A i \in Rows : i # r => o \notin OpenOrders(i)
  BY DEF OpenOrders
<1>9. ASSUME NEW i \in Rows
      PROVE  /\ IsFiniteSet(OpenOrders(i)')
             /\ Clean(i) /\ Backed(i) => Backed(i)'
  <2>. DEFINE S == OpenOrders(i)
              T == OpenOrders(i)'
              f == amount
  <2>1. /\ IsFiniteSet(S) /\ T \ {o} = S \ {o} /\ o \notin T
        /\ \A a \in S : f[a] \in Int
        /\ \A a \in T : f[a] \in Int
    BY <1>6 DEF FundsInv, FiniteOpenOrders, FundsTypeOK, OpenOrders
  <2>2. Clean(i) => (o \in S <=> i = r)
    BY <1>7, <1>8
  <2>3. wallets[i].locked \in Int /\ wallets[i].balance \in Int
        /\ wallets'[i].locked \in Int /\ wallets'[i].balance \in Int
    BY <1>1 DEF FundsInv, FundsTypeOK, Columns
  <2>. HIDE DEF S, T, f
  <2>4. /\ IsFiniteSet(T)
        /\ SumFunctionOnSet(f, T) = SumFunctionOnSet(f, S)
                                     - (IF o \in S THEN f[o] ELSE 0)
                                     + (IF o \in T THEN f[o] ELSE 0)
    BY <2>1, SumChanges
  <2>5. SumFunctionOnSet(f, S) \in Int
    BY <2>1, SumType
  <2>6. ASSUME Clean(i), i \notin rounded => wallets[i].locked = SumFunctionOnSet(f, S),
               wallets[i].locked <= wallets[i].balance
        PROVE  /\ wallets'[i].locked <= wallets'[i].balance
               /\ i \notin rounded' => wallets'[i].locked = SumFunctionOnSet(f, T)
    <3>1. CASE i = r
      BY <1>1, <2>1, <2>2, <2>3, <2>4, <2>5, <2>6, <3>1 DEF f
    <3>2. CASE i # r
      <4>1. /\ wallets'[i].locked = wallets[i].locked
            /\ wallets'[i].balance >= wallets[i].balance
            /\ i \in rounded' <=> i \in rounded
        BY <1>1, <3>2
      <4>2. SumFunctionOnSet(f, T) = SumFunctionOnSet(f, S)
        BY <2>1, <2>2, <2>4, <2>5, <2>6, <3>2
      <4>. QED  BY <2>3, <2>6, <4>1, <4>2
    <3>. QED  BY <3>1, <3>2
  <2>. QED  BY <2>4, <2>6 DEF Backed, S, T, f
<1>10. FiniteOpenOrders' /\ CleanIsBacked'
  BY <1>4, <1>9 DEF FundsInv, FiniteOpenOrders, CleanIsBacked, Clean
<1>. QED  BY <1>3, <1>5, <1>10 DEF FundsInv

----------------------------------------------------------------------------
(* chargeWallet.                                                           *)

LEMMA UsdRowIsRow ==
  ASSUME NEW c \in Charges PROVE UsdRow(c) \in Rows /\ Credit[c].amount \in Nat
BY LimitAssumption DEF UsdRow, Rows

LEMMA ReadForChargeFunds ==
  ASSUME FundsInv, NEW c \in Charges, ReadForCharge(c) PROVE FundsInv'
<1>1. /\ charge' = [charge EXCEPT ![c] = "save"]
      /\ copy' = [copy EXCEPT ![c] = wallets[UsdRow(c)]]
      /\ UNCHANGED <<wallets, amount, place, orders, ask, pc, cur, overlapped, spoilt>>
  BY DEF ReadForCharge, tables, worker, history
<1>2. wallets[UsdRow(c)] \in Columns /\ StoredRow(wallets[UsdRow(c)])
  BY UsdRowIsRow DEF FundsInv, FundsTypeOK, RowsStored
<1>3. FundsTypeOK' /\ RowsStored'
  BY <1>1, <1>2 DEF FundsInv, FundsTypeOK, RowsStored, spoilt
<1>4. \A o : /\ Row(o)' = Row(o) /\ OpenOrders(o)' = OpenOrders(o)
             /\ ShareOfWallet(o)' = ShareOfWallet(o)
  BY <1>1 DEF Row, OpenOrders, ShareOfWallet, Available
<1>5. PlacementHoldsRow' /\ FiniteOpenOrders' /\ CleanIsBacked'
  BY <1>1, <1>4 DEF FundsInv, PlacementHoldsRow, FiniteOpenOrders, CleanIsBacked, Clean,
                    Backed, spoilt
<1>. QED  BY <1>3, <1>5 DEF FundsInv

LEMMA ChargedRow ==
  ASSUME NEW row \in Columns, StoredRow(row), NEW n \in Nat
  PROVE  /\ Charged(row, n) \in Columns /\ StoredRow(Charged(row, n))
         /\ Charged(row, n).locked = row.locked
         /\ row.balance <= Charged(row, n).balance
<1>. DEFINE m == ToNumber((row.balance + n) * Whole)
<1>1. row.balance \in Int /\ row.locked \in Int /\ Stored(row.balance) /\ Stored(row.locked)
  BY DEF Columns, StoredRow
<1>2. m \in Int /\ Stored(m) /\ row.balance <= m
  BY <1>1, FundsAssumption, ChargeOnlyAdds
<1>3. Charged(row, n) = [row EXCEPT !.balance = m]
  BY DEF Charged, Columns
<1>. HIDE DEF m
<1>. QED  BY <1>1, <1>2, <1>3 DEF Columns, StoredRow

LEMMA SaveChargeFunds ==
  ASSUME IInv, FundsInv, NEW c \in Charges, SaveCharge(c) PROVE FundsInv'
<1>. DEFINE i == UsdRow(c)
            n == Credit[c].amount
            v == Charged(copy[c], n)
<1>1. /\ charge' = [charge EXCEPT ![c] = "done"] /\ ~RowIsLocked(i)
      /\ lost' = IF wallets'[i] = Charged(wallets[i], n) THEN lost ELSE lost \cup {i}
      /\ UNCHANGED <<amount, place, orders, copy, ask, pc, cur, overlapped, rounded>>
  BY DEF SaveCharge, worker
<1>2. PICK m \in {wallets[i].locked, copy[c].locked} :
        wallets' = [wallets EXCEPT ![i] = [v EXCEPT !.locked = m]]
  BY DEF SaveCharge
<1>3. /\ i \in Rows /\ n \in Nat
      /\ wallets[i] \in Columns /\ StoredRow(wallets[i])
      /\ copy[c] \in Columns /\ StoredRow(copy[c])
      /\ wallets \in [Rows -> Columns]
  BY UsdRowIsRow DEF FundsInv, FundsTypeOK, RowsStored
<1>4. v \in Columns /\ StoredRow(v)
  BY <1>3, ChargedRow
<1>. HIDE DEF i, n, v
<1>5. [v EXCEPT !.locked = m] \in Columns /\ StoredRow([v EXCEPT !.locked = m])
  <2>1. m \in Int /\ Stored(m)
    BY <1>3 DEF Columns, StoredRow
  <2>2. /\ [v EXCEPT !.locked = m] \in Columns
        /\ [v EXCEPT !.locked = m].locked = m /\ [v EXCEPT !.locked = m].balance = v.balance
    BY <1>4, <2>1 DEF Columns
  <2>. QED  BY <1>4, <2>1, <2>2 DEF StoredRow
<1>6. /\ wallets' \in [Rows -> Columns] /\ StoredRow(wallets'[i])
      /\ \A j \in Rows : j # i => wallets'[j] = wallets[j]
  BY <1>2, <1>3, <1>5
<1>7. FundsTypeOK' /\ RowsStored'
  BY <1>1, <1>3, <1>6 DEF FundsInv, FundsTypeOK, RowsStored
<1>8. \A o : Row(o)' = Row(o) /\ OpenOrders(o)' = OpenOrders(o)
  BY <1>1 DEF Row, OpenOrders
<1>9. PlacementHoldsRow'
  <2>1. \A o \in Orders : place[o] = "commit" => ShareOfWallet(o)' = ShareOfWallet(o)
    <3>. SUFFICES ASSUME NEW o \in Orders, place[o] = "commit"
                  PROVE  ShareOfWallet(o)' = ShareOfWallet(o)
      OBVIOUS
    <3>1. Row(o) \in Rows /\ Row(o) # i
      BY <1>1, RowIsRow DEF IInv, RowIsLocked
    <3>2. wallets'[Row(o)] = wallets[Row(o)]
      BY <1>6, <3>1
    <3>. QED  BY <1>1, <1>8, <3>2 DEF ShareOfWallet, Available
  <2>. QED  BY <1>1, <1>8, <2>1 DEF FundsInv, PlacementHoldsRow
<1>10. FiniteOpenOrders'
  BY <1>8 DEF FundsInv, FiniteOpenOrders
<1>11. ASSUME NEW j \in Rows, Clean(j)' PROVE Backed(j)'
  <2>1. Clean(j) /\ Backed(j)
    BY <1>1, <1>8, <1>11 DEF FundsInv, CleanIsBacked, Clean
  <2>2. CASE j # i
    BY <1>1, <1>6, <1>8, <2>1, <2>2 DEF Backed
  <2>3. CASE j = i
    <3>1. wallets'[i] = Charged(wallets[i], n)
      BY <1>1, <1>11, <2>3 DEF Clean
    <3>2. wallets'[i].locked = wallets[i].locked /\ wallets[i].balance <= wallets'[i].balance
      BY <1>3, <3>1, ChargedRow
    <3>3. /\ wallets[i].locked \in Int /\ wallets[i].balance \in Int
          /\ wallets'[i].balance \in Int
      BY <1>3, <1>6 DEF Columns
    <3>. QED  BY <1>1, <1>8, <2>1, <2>3, <3>2, <3>3 DEF Backed
  <2>. QED  BY <2>2, <2>3
<1>12. CleanIsBacked'
  BY <1>11 DEF CleanIsBacked
<1>. QED  BY <1>7, <1>9, <1>10, <1>12 DEF FundsInv

LEMMA NextFunds == IInv /\ FundsInv /\ [Next]_vars => FundsInv'
<1>. SUFFICES ASSUME IInv, FundsInv, [Next]_vars PROVE FundsInv'
  OBVIOUS
<1>1. ASSUME NEW o \in Orders, PlaceOrder(o) \/ CommitOrder(o) \/ AbortOrder(o)
      PROVE  FundsInv'
  <2>1. CASE AbortOrder(o)
    BY <2>1, KeepsFunds
    DEF AbortOrder, worker, history, charging, spoilt, IInv, OrdersTypeOK
  <2>. QED  BY <1>1, <2>1, PlaceOrderFunds, CommitOrderFunds
<1>2. ASSUME NEW w \in Workers, AnnounceClosed(w) PROVE FundsInv'
  BY <1>2, AnnounceClosedFunds
<1>3. ASSUME NEW w \in Workers, Settle(w) \/ CrashAfterSettle(w) PROVE FundsInv'
  BY <1>3, SettledFunds DEF Settle, CrashAfterSettle
<1>4. CASE \/ \E p \in Prices : Tick(p)
          \/ UNCHANGED vars
          \/ \E w \in Workers : Stall(w)
  BY <1>4, KeepsFunds DEF Tick, vars, tables, worker, history, charging, spoilt, Stall
<1>5. ASSUME NEW w \in Workers, TakeJob(w) \/ Scan(w) \/ QueueExecution(w) \/ RemoveFromBook(w)
      PROVE  FundsInv'
  <2>1. UNCHANGED <<wallets, amount, place, orders, ask, overlapped, charging, spoilt>>
    BY <1>5 DEF TakeJob, Scan, QueueExecution, RemoveFromBook, tables, history
  <2>2. pc' \in [Workers -> {"free", "scan", "add", "remove", "load", "settle", "commit"}]
        /\ pc'[w] # "commit"
        /\ \A v \in Workers : v # w => pc'[v] = pc[v] /\ cur'[v] = cur[v]
    BY <1>5 DEF TakeJob, Scan, QueueExecution, RemoveFromBook, GoOnWith, Goto, IInv,
       WorkersTypeOK
  <2>. QED  BY <2>1, <2>2, KeepsFunds
<1>6. ASSUME NEW w \in Workers, LoadOpenOrder(w) \/ LoadNoOrder(w) \/
                                FailJob(w) \/ CrashInJob(w)
      PROVE  FundsInv'
  <2>1. /\ UNCHANGED <<wallets, amount, place, orders, ask, charging, spoilt>>
        /\ overlapped \subseteq overlapped'
    BY <1>6 DEF LoadOpenOrder, LoadNoOrder, FailJob, CrashInJob, tables, history
  <2>2. pc'[w] # "commit"
        /\ \A v \in Workers : v # w => pc'[v] = pc[v] /\ cur'[v] = cur[v]
    BY <1>6 DEF LoadOpenOrder, LoadNoOrder, FailJob, CrashInJob, EndJob, Goto, IInv,
       WorkersTypeOK
  <2>. QED  BY <2>1, <2>2, KeepsFunds
<1>7. ASSUME NEW c \in Charges, ReadForCharge(c) \/ SaveCharge(c) PROVE FundsInv'
  BY <1>7, ReadForChargeFunds, SaveChargeFunds
<1>. QED  BY <1>1, <1>2, <1>3, <1>4, <1>5, <1>6, <1>7 DEF Next, Work, Finished

(* The invariant of the wallets, on top of that of the orders.             *)
THEOREM FundsInvariance == Spec => []FundsInv
  BY Invariance, InitFunds, NextFunds, PTL DEF Spec

(* Placing, settling, failing, running jobs again and charging, by any     *)
(* number of workers and calls, keep what is locked in a row within the    *)
(* balance, and equal to what its open orders will pay unless toNumber()   *)
(* has changed it: but for the rows of an order that two workers settled   *)
(* at a time, and those in which a charge wrote over a change it had not   *)
(* read.                                                                   *)
THEOREM FundsAreLockedForOpenOrders == Spec => []LockedIsForOpenOrders
<1>1. FundsInv => LockedIsForOpenOrders
  BY DEF FundsInv, FundsTypeOK, CleanIsBacked, Clean, Backed, LockedIsForOpenOrders, Rows
<1>. QED  BY <1>1, FundsInvariance, PTL

----------------------------------------------------------------------------
(* How often an order can be settled.  A worker settles it once for each   *)
(* time it has read it as open, and nobody reads it as open once it is     *)
(* closed: those who still settle it then are all there will ever be.      *)

Settlers(o) == {w \in Workers : Settling(w, o)}

EachSettlesOnce ==
  \A o \in Orders : orders[o] = "CLOSE" =>
    closed[o] + Cardinality(Settlers(o)) <= Cardinality(Workers)

Bounds == ticks \in 0 .. MaxTicks /\ events \in 0 .. MaxEvents

LEMMA SettlersAreWorkers ==
  ASSUME NEW W \in SUBSET Workers
  PROVE  /\ IsFiniteSet(W) /\ Cardinality(W) \in Nat /\ Cardinality(Workers) \in Nat
         /\ Cardinality(W) <= Cardinality(Workers)
BY FS_Subset, FS_CardinalityType, LimitAssumption

LEMMA KeepsSettlers ==
  ASSUME IInv, EachSettlesOnce, UNCHANGED closed,
         \A o \in Orders : orders'[o] = "CLOSE" =>
           /\ orders[o] = "CLOSE"
           /\ \A w \in Workers : Settling(w, o)' => Settling(w, o)
  PROVE  EachSettlesOnce'
<1>. SUFFICES ASSUME NEW o \in Orders, orders'[o] = "CLOSE"
              PROVE  closed[o] + Cardinality(Settlers(o)') <= Cardinality(Workers)
  BY DEF EachSettlesOnce
<1>1. closed[o] + Cardinality(Settlers(o)) <= Cardinality(Workers) /\ closed[o] \in Nat
  BY DEF EachSettlesOnce, IInv, OrdersTypeOK
<1>. DEFINE S == Settlers(o)
            T == Settlers(o)'
<1>2. S \in SUBSET Workers /\ T \in SUBSET S
  BY DEF Settlers
<1>. HIDE DEF S, T
<1>3. /\ Cardinality(T) <= Cardinality(S) /\ Cardinality(T) \in Nat
      /\ Cardinality(S) \in Nat /\ Cardinality(Workers) \in Nat
  BY <1>2, SettlersAreWorkers, FS_Subset, FS_CardinalityType
<1>. QED  BY <1>1, <1>3 DEF S, T

LEMMA SettleCounts ==
  ASSUME IInv, EachSettlesOnce, NEW w \in Workers, pc[w] = "commit",
         SettleOrder(cur[w], job[w].price), EndJob(w)
  PROVE  EachSettlesOnce'
<1>. DEFINE a == cur[w]
<1>1. a \in Orders
  BY ExecutesAJob DEF IInv, WorkerHasJob
<1>2. /\ closed' = [closed EXCEPT ![a] = @ + 1] /\ orders' = [orders EXCEPT ![a] = "CLOSE"]
      /\ pc' = [pc EXCEPT ![w] = "free"] /\ \A v \in Workers : v # w => cur'[v] = cur[v]
  BY DEF SettleOrder, EndJob, IInv, WorkersTypeOK
<1>. SUFFICES ASSUME NEW o \in Orders, orders'[o] = "CLOSE"
              PROVE  closed'[o] + Cardinality(Settlers(o)') <= Cardinality(Workers)
  BY DEF EachSettlesOnce
<1>3. closed[o] \in Nat /\ (orders[o] # "CLOSE" => closed[o] = 0)
  BY DEF IInv, OrdersTypeOK, SettlesAlone
<1>. DEFINE S == Settlers(o)
            T == Settlers(o)'
<1>4. S \in SUBSET Workers /\ T = S \ {w} /\ (w \in S <=> o = a)
  BY <1>2 DEF Settlers, Settling, IInv, WorkersTypeOK
<1>. HIDE DEF S, T
<1>5. /\ IsFiniteSet(S) /\ Cardinality(S) \in Nat /\ Cardinality(Workers) \in Nat
      /\ Cardinality(S) <= Cardinality(Workers)
      /\ Cardinality(T) = IF o = a THEN Cardinality(S) - 1 ELSE Cardinality(S)
  BY <1>4, SettlersAreWorkers, FS_RemoveElement
<1>6. orders[o] = "CLOSE" => closed[o] + Cardinality(S) <= Cardinality(Workers)
  BY DEF EachSettlesOnce, S
<1>7. CASE o = a
  <2>1. closed'[o] = closed[o] + 1
    BY <1>2, <1>7 DEF IInv, OrdersTypeOK
  <2>. QED  BY <1>3, <1>5, <1>6, <1>7, <2>1 DEF T
<1>8. CASE o # a
  <2>1. closed'[o] = closed[o] /\ orders[o] = "CLOSE"
    BY <1>2, <1>8 DEF IInv, OrdersTypeOK
  <2>. QED  BY <1>3, <1>5, <1>6, <1>8, <2>1 DEF T
<1>. QED  BY <1>7, <1>8

LEMMA NextSettlers == IInv /\ EachSettlesOnce /\ [Next]_vars => EachSettlesOnce'
<1>. SUFFICES ASSUME IInv, EachSettlesOnce, [Next]_vars PROVE EachSettlesOnce'
  OBVIOUS
<1>1. ASSUME NEW w \in Workers, Settle(w) \/ CrashAfterSettle(w) PROVE EachSettlesOnce'
  BY <1>1, SettleCounts DEF Settle, CrashAfterSettle
<1>2. ASSUME NEW o \in Orders, PlaceOrder(o) \/ CommitOrder(o) \/ AbortOrder(o)
      PROVE  EachSettlesOnce'
  BY <1>2, KeepsSettlers
  DEF PlaceOrder, CommitOrder, AbortOrder, worker, history, Settling, IInv, OrdersTypeOK
<1>3. CASE \/ \E p \in Prices : Tick(p)
          \/ UNCHANGED vars
          \/ \E w \in Workers : Stall(w)
  BY <1>3, KeepsSettlers DEF Tick, vars, tables, worker, history, Stall, Settling
<1>4. ASSUME NEW w \in Workers,
             \/ TakeJob(w) \/ Scan(w) \/ QueueExecution(w) \/ RemoveFromBook(w)
             \/ LoadNoOrder(w) \/ FailJob(w) \/ CrashInJob(w)
      PROVE  EachSettlesOnce'
  <2>1. UNCHANGED <<orders, closed>>
    BY <1>4 DEF TakeJob, Scan, QueueExecution, RemoveFromBook, LoadNoOrder, FailJob,
       CrashInJob, tables, history
  <2>2. pc'[w] \notin {"settle", "commit"}
        /\ \A v \in Workers : v # w => pc'[v] = pc[v] /\ cur'[v] = cur[v]
    BY <1>4 DEF TakeJob, Scan, QueueExecution, RemoveFromBook, LoadNoOrder, FailJob,
       CrashInJob, EndJob, GoOnWith, Goto, IInv, WorkersTypeOK
  <2>. QED  BY <2>1, <2>2, KeepsSettlers DEF Settling
<1>5. ASSUME NEW w \in Workers, AnnounceClosed(w) PROVE EachSettlesOnce'
  BY <1>5, KeepsSettlers
  DEF AnnounceClosed, Goto, tables, Settling, IInv, WorkersTypeOK
<1>6. ASSUME NEW w \in Workers, LoadOpenOrder(w) PROVE EachSettlesOnce'
  <2>1. /\ orders[job[w].order] = "OPEN" /\ UNCHANGED <<orders, closed>>
        /\ pc' = [pc EXCEPT ![w] = "settle"] /\ cur' = [cur EXCEPT ![w] = job[w].order]
    BY <1>6 DEF LoadOpenOrder, Goto, tables
  <2>2. \A v \in Workers, o \in Orders :
           Settling(v, o)' => Settling(v, o) \/ orders[o] = "OPEN"
    BY <2>1 DEF Settling, IInv, WorkersTypeOK
  <2>. QED  BY <2>1, <2>2, KeepsSettlers
<1>7. ASSUME NEW c \in Charges, ReadForCharge(c) \/ SaveCharge(c) PROVE EachSettlesOnce'
  BY <1>7, KeepsSettlers, ChargeLeavesOrders DEF OrdersAlone, worker, Settling
<1>. QED  BY <1>1, <1>2, <1>3, <1>4, <1>5, <1>6, <1>7 DEF Next, Work, Finished

LEMMA NextBounds == Bounds /\ [Next]_vars => Bounds'
<1>. SUFFICES ASSUME Bounds, [Next]_vars PROVE Bounds'
  OBVIOUS
<1>1. ASSUME UNCHANGED bounds PROVE Bounds'
  BY <1>1 DEF Bounds, bounds
<1>2. ASSUME UNCHANGED ticks, CountEvent PROVE Bounds'
  BY <1>2, LimitAssumption DEF Bounds, CountEvent
<1>3. CASE \E p \in Prices : Tick(p)
  BY <1>3, LimitAssumption DEF Bounds, Tick
<1>4. ASSUME NEW o \in Orders, PlaceOrder(o) \/ CommitOrder(o) \/ AbortOrder(o)
      PROVE  Bounds'
  BY <1>1, <1>4 DEF PlaceOrder, CommitOrder, AbortOrder
<1>5. ASSUME NEW w \in Workers, Work(w) PROVE Bounds'
  BY <1>1, <1>5 DEF Work, TakeJob, Scan, QueueExecution, RemoveFromBook, LoadOpenOrder,
     LoadNoOrder, AnnounceClosed, Settle
<1>6. ASSUME NEW w \in Workers,
             FailJob(w) \/ CrashInJob(w) \/ CrashAfterSettle(w) \/ Stall(w)
      PROVE  Bounds'
  BY <1>2, <1>6 DEF FailJob, CrashInJob, CrashAfterSettle, Stall, Requeue
<1>7. CASE UNCHANGED vars
  BY <1>1, <1>7 DEF vars
<1>8. ASSUME NEW c \in Charges, ReadForCharge(c) \/ SaveCharge(c) PROVE Bounds'
  BY <1>1, <1>2, <1>8 DEF ReadForCharge, SaveCharge
<1>. QED  BY <1>3, <1>4, <1>5, <1>6, <1>7, <1>8 DEF Next, Finished

(* Every variable keeps its type: an order is never settled more often     *)
(* than there are workers, whatever they overlap, crash or do again, and   *)
(* no amount or balance leaves the integers.                               *)
THEOREM TypeCorrect == Spec => []TypeOK
<1>1. Init => EachSettlesOnce /\ Bounds
  BY LimitAssumption DEF Init, EachSettlesOnce, Bounds
<1>2. IInv /\ FundsInv /\ EachSettlesOnce /\ Bounds => TypeOK
  <2>. SUFFICES ASSUME IInv, FundsInv, EachSettlesOnce, Bounds PROVE TypeOK
    OBVIOUS
  <2>1. \A o \in Orders : closed[o] \in 0 .. Cardinality(Workers)
    <3>. SUFFICES ASSUME NEW o \in Orders PROVE closed[o] \in 0 .. Cardinality(Workers)
      OBVIOUS
    <3>1. closed[o] \in Nat /\ (orders[o] # "CLOSE" => closed[o] = 0)
      BY DEF IInv, OrdersTypeOK, SettlesAlone
    <3>2. Cardinality(Settlers(o)) \in Nat /\ Cardinality(Workers) \in Nat
      BY SettlersAreWorkers DEF Settlers
    <3>. QED  BY <3>1, <3>2 DEF EachSettlesOnce
  <2>. QED  BY <2>1 DEF IInv, OrdersTypeOK, WorkersTypeOK, JobsOK, FundsInv, FundsTypeOK,
            Rows, Columns, Bounds, TypeOK
<1>. QED  BY <1>1, <1>2, Invariance, FundsInvariance, NextSettlers, NextBounds, PTL DEF Spec
=============================================================================
