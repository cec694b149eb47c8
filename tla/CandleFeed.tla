----------------------------- MODULE CandleFeed -----------------------------
(***************************************************************************)
(* The way of a candle through apps/FlowEx: from the Nobitex client        *)
(* (nobitex.service.ts) into the Redis cache and channel                   *)
(* (candle.service.ts), to the sockets of the candle's room, and, through  *)
(* the Redis subscriber of order/services/market.service.ts, to the job    *)
(* that checks the limit orders.  One symbol and resolution.               *)
(*                                                                         *)
(* The handler of a candle awaits SET, then PUBLISH, then emits; handlers  *)
(* of later candles start in between.  The subscriber and the queue have   *)
(* connections of their own.  Redis executes the commands of a connection, *)
(* and answers them, in the order they were sent.  ioredis sends what was  *)
(* not answered once more when it has reconnected (its default): what was  *)
(* executed is then executed twice.  Candles are numbered as they arrive.  *)
(* Another FlowEx process, which publishes its candles on the same channel,*)
(* belongs to the environment.                                             *)
(***************************************************************************)
EXTENDS Naturals, Sequences

CONSTANTS MaxCandles,       \* bounds: candles,
          MaxFlowExClients, \* clients made by one process,
          MaxForeign,       \* messages of another process,
          MaxFaults         \* and losses of a connection or of the process

ASSUME CandleAssumption ==
  /\ MaxCandles \in Nat
  /\ MaxFlowExClients \in Nat \ {0}
  /\ MaxForeign \in Nat
  /\ MaxFaults \in Nat

VARIABLES flowexClient, \* the clients are numbered as this process makes them
          flowexLink,   \* the client's state, as its events have reported it
          received,     \* how many candles have arrived
          blank,        \* those whose price is missing or zero
          wire,         \* commands sent to Redis and not executed
          answers,      \* commands executed whose handler has not gone on
          cache,        \* the last candle put under candle:{symbol}:{resolution}
          subscriber,   \* redisSub is connected and has subscribed
          inbox,        \* messages published to redisSub
          adds,         \* calls of queue.add sent to Redis and not executed
          added,        \* those executed and not answered
          checks,       \* the check-limit-orders jobs, as they were added
          shown,        \* the candles emitted to the room
          foreign,      \* how many messages the other process has published
          dropped,      \* candles that a fault has taken, or nobody was there for
          resent,       \* candles whose PUBLISH or queue.add was sent again
          faults

nobitex == <<flowexClient, flowexLink>>
redis == <<wire, answers, cache>>
queue == <<adds, added, checks>>
history == <<dropped, resent, faults>>
candleVars ==
  <<nobitex, received, blank, redis, subscriber, inbox, queue, shown, foreign, history>>

Candles == 1 .. MaxCandles

\* A candle of the other process, whatever its number there.
Foreign == 0
Message == Candles \cup {Foreign}

Command == [op : {"set", "publish"}, candle : Candles]

TypeOK ==
  /\ flowexClient \in 1 .. MaxFlowExClients
  /\ flowexLink \in {"connecting", "connected", "disconnected"}
  /\ received \in 0 .. MaxCandles /\ cache \in 0 .. MaxCandles
  /\ blank \subseteq Candles /\ dropped \subseteq Message /\ resent \subseteq Message
  /\ wire \in Seq(Command) /\ answers \in Seq(Command)
  /\ subscriber \in BOOLEAN
  /\ inbox \in Seq(Message)
  /\ adds \in Seq(Message) /\ added \in Seq(Message) /\ checks \in Seq(Message)
  /\ shown \in Seq(Candles)
  /\ foreign \in 0 .. MaxForeign
  /\ faults \in 0 .. MaxFaults

CandleInit ==
  /\ flowexClient = 1 /\ flowexLink = "connecting"
  /\ received = 0 /\ blank = {} /\ dropped = {} /\ resent = {}
  /\ wire = <<>> /\ answers = <<>> /\ cache = 0
  /\ subscriber = FALSE /\ inbox = <<>>
  /\ adds = <<>> /\ added = <<>> /\ checks = <<>>
  /\ shown = <<>>
  /\ foreign = 0 /\ faults = 0

Rest == <<received, blank, redis, subscriber, inbox, queue, shown, foreign, history>>

----------------------------------------------------------------------------
(* The client.  subscribeAllCandles has subscribed the first one only.     *)

FlowExConnected ==
  /\ flowexLink = "connecting"
  /\ flowexLink' = "connected"
  /\ UNCHANGED <<flowexClient, Rest>>

\* The client gets a lost connection back by itself, or it gives up.
FlowExDisconnected ==
  /\ flowexLink = "connected"
  /\ \/ flowexLink' = "connecting"
     \/ flowexClient < MaxFlowExClients /\ flowexLink' = "disconnected"
  /\ UNCHANGED <<flowexClient, Rest>>

\* After five seconds: a new client, with no subscriptions.
FlowExReconnect ==
  /\ flowexLink = "disconnected"
  /\ flowexClient' = flowexClient + 1
  /\ flowexLink' = "connecting"
  /\ UNCHANGED Rest

----------------------------------------------------------------------------
(* The handler of a candle.                                                *)

\* Mutant: the closure holds the candle after its own.
SendNext(op, n) == wire' = Append(wire, [op |-> op, candle |-> n + 1])

Send(op, n) == wire' = Append(wire, [op |-> op, candle |-> n])

Arrive ==
  /\ flowexClient = 1 /\ flowexLink = "connected" /\ received < MaxCandles
  /\ received' = received + 1
  /\ blank' \in {blank, blank \cup {received + 1}}
  /\ Send("set", received + 1)
  /\ UNCHANGED <<nobitex, answers, cache, subscriber, inbox, queue, shown, foreign,
                 history>>

\* Redis executes a command; a message goes to the subscribers there are.
Execute ==
  LET cmd == Head(wire) IN
  /\ wire # <<>>
  /\ wire' = Tail(wire)
  /\ answers' = Append(answers, cmd)
  /\ \/ cmd.op = "set" /\ cache' = cmd.candle /\ UNCHANGED <<inbox, dropped>>
     \/ /\ cmd.op = "publish" /\ UNCHANGED cache
        /\ IF subscriber THEN inbox' = Append(inbox, cmd.candle) /\ UNCHANGED dropped
           ELSE dropped' = dropped \cup {cmd.candle} /\ UNCHANGED inbox
  /\ UNCHANGED <<nobitex, received, blank, subscriber, queue, shown, foreign, resent,
                 faults>>

\* Mutant: the PUBLISH of a candle overtakes the commands sent before it.
ContinueLate ==
  LET cmd == Head(answers) IN
  /\ answers # <<>>
  /\ answers' = Tail(answers)
  /\ \/ cmd.op = "set" /\ wire' = <<[cmd EXCEPT !.op = "publish"]>> \o wire
                       /\ UNCHANGED shown
     \/ cmd.op = "publish" /\ shown' = Append(shown, cmd.candle) /\ UNCHANGED wire
  /\ UNCHANGED <<nobitex, received, blank, cache, subscriber, inbox, queue, foreign,
                 history>>

\* save returns from SET and sends PUBLISH; the handler returns from save
\* and emits.
Continue ==
  LET cmd == Head(answers) IN
  /\ answers # <<>>
  /\ answers' = Tail(answers)
  /\ \/ cmd.op = "set" /\ Send("publish", cmd.candle) /\ UNCHANGED shown
     \/ cmd.op = "publish" /\ shown' = Append(shown, cmd.candle) /\ UNCHANGED wire
  /\ UNCHANGED <<nobitex, received, blank, cache, subscriber, inbox, queue, foreign,
                 history>>

----------------------------------------------------------------------------
(* The subscriber of the order module.                                     *)

\* SUBSCRIBE, sent by onModuleInit and again after a loss, takes effect.
Subscribed ==
  /\ ~subscriber
  /\ subscriber' = TRUE
  /\ UNCHANGED <<nobitex, received, blank, redis, inbox, queue, shown, foreign, history>>

\* A candle of the other process, published on the same channel.
PublishForeign ==
  /\ subscriber /\ foreign < MaxForeign
  /\ foreign' = foreign + 1
  /\ inbox' = Append(inbox, Foreign)
  /\ UNCHANGED <<nobitex, received, blank, redis, subscriber, queue, shown, history>>

\* Mutant: the candle of a message is looked at only when the next arrives.
EnqueueAllButLast ==
  /\ Len(inbox) > 1
  /\ inbox' = Tail(inbox)
  /\ adds' = IF Head(inbox) \in blank THEN adds ELSE Append(adds, Head(inbox))
  /\ UNCHANGED <<nobitex, received, blank, redis, subscriber, added, checks, shown, foreign,
                 history>>

(* The handler of a message: a candle without a price, or with a price of  *)
(* zero, is not checked; the others go to queue.add.                       *)
EnqueueCheck ==
  /\ inbox # <<>>
  /\ inbox' = Tail(inbox)
  /\ adds' = IF Head(inbox) \in blank THEN adds ELSE Append(adds, Head(inbox))
  /\ UNCHANGED <<nobitex, received, blank, redis, subscriber, added, checks, shown, foreign,
                 history>>

\* Redis adds a job, each time the command is executed.
ExecuteAdd ==
  /\ adds # <<>>
  /\ adds' = Tail(adds)
  /\ added' = Append(added, Head(adds))
  /\ checks' = Append(checks, Head(adds))
  /\ UNCHANGED <<nobitex, received, blank, redis, subscriber, inbox, shown, foreign,
                 history>>

\* queue.add returns, and the handler of the message is done.
AddReturns ==
  /\ added # <<>>
  /\ added' = Tail(added)
  /\ UNCHANGED <<nobitex, received, blank, redis, subscriber, inbox, adds, checks, shown,
                 foreign, history>>

----------------------------------------------------------------------------
(* Faults.                                                                 *)

Elements(s) == {s[k] : k \in DOMAIN s}

\* The connection of the subscriber is lost, with what was on its way.
SubscriberLost ==
  /\ subscriber /\ faults < MaxFaults
  /\ faults' = faults + 1
  /\ subscriber' = FALSE
  /\ inbox' = <<>>
  /\ dropped' = dropped \cup Elements(inbox)
  /\ UNCHANGED <<nobitex, received, blank, redis, queue, shown, foreign, resent>>

(* The connection of the commands is lost and comes back: some of those    *)
(* executed have not been answered, and are sent again, with the others.   *)
PublisherLost ==
  /\ faults < MaxFaults
  /\ faults' = faults + 1
  /\ \E k \in 0 .. Len(answers) :
       LET again == SubSeq(answers, k + 1, Len(answers)) IN
       /\ answers' = SubSeq(answers, 1, k)
       /\ wire' = again \o wire
       /\ resent' = resent \cup {c.candle : c \in {e \in Elements(again) : e.op = "publish"}}
  /\ UNCHANGED <<nobitex, received, blank, cache, subscriber, inbox, queue, shown, foreign,
                 dropped>>

\* So is the connection of the queue.
QueueLost ==
  /\ faults < MaxFaults
  /\ faults' = faults + 1
  /\ \E k \in 0 .. Len(added) :
       LET again == SubSeq(added, k + 1, Len(added)) IN
       /\ added' = SubSeq(added, 1, k)
       /\ adds' = again \o adds
       /\ resent' = resent \cup Elements(again)
  /\ UNCHANGED <<nobitex, received, blank, redis, subscriber, inbox, checks, shown, foreign,
                 dropped>>

(* The process dies and starts again, and subscribes its first client.     *)
(* Commands that Redis has received may be executed or not; here they are  *)
(* not, and Execute or ExecuteAdd before the crash is the other case.      *)
Crash ==
  /\ faults < MaxFaults
  /\ faults' = faults + 1
  /\ flowexClient' = 1 /\ flowexLink' = "connecting"
  /\ wire' = <<>> /\ answers' = <<>> /\ inbox' = <<>> /\ adds' = <<>> /\ added' = <<>>
  /\ subscriber' = FALSE
  /\ dropped' = dropped \cup (1 .. received \ Elements(checks))
  /\ UNCHANGED <<received, blank, cache, checks, shown, foreign, resent>>

Next ==
  \/ FlowExConnected \/ FlowExDisconnected \/ FlowExReconnect
  \/ Arrive \/ Execute \/ Continue
  \/ Subscribed \/ PublishForeign \/ EnqueueCheck \/ ExecuteAdd \/ AddReturns
  \/ SubscriberLost \/ PublisherLost \/ QueueLost \/ Crash

Spec == CandleInit /\ [][Next]_candleVars

(* Redis answers, Node goes on with what was answered, and messages are    *)
(* handled.  Nobody owes a candle, and none is owed after a fault.         *)
FairSpec ==
  /\ Spec
  /\ WF_candleVars(Execute) /\ WF_candleVars(Continue)
  /\ WF_candleVars(EnqueueCheck) /\ WF_candleVars(ExecuteAdd)

----------------------------------------------------------------------------
(* Properties.                                                             *)

\* The candles of a sequence, those to be left out aside, are in order.
Increasing(s, except) ==
  \A i, j \in DOMAIN s : i < j /\ {s[i], s[j]} \cap except = {} => s[i] < s[j]

(* However the handlers of successive candles interleave, the sockets are  *)
(* served in the order of the candles, each at most once.  So are the limit*)
(* orders, as far as the candles of this process go, except for those whose*)
(* PUBLISH or queue.add was sent again.  And no one hears of a candle that *)
(* has not been put in the cache.                                          *)
CandlesStayInOrder ==
  /\ Increasing(shown, {})
  /\ Increasing(checks, resent \cup {Foreign})
  /\ \A n \in Elements(inbox) \cup Elements(checks) \cup Elements(shown) : n <= cache

(* A candle with a price is checked against the limit orders, unless it    *)
(* comes before the subscriber has subscribed, or a fault of the subscriber*)
(* or of the process has taken it.                                         *)
EveryCandleIsChecked ==
  \A n \in Candles :
    received >= n ~> n \in blank \cup dropped \cup Elements(checks)
==========================================================================
