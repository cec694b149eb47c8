----------------------------- MODULE MarketFeed -----------------------------
(***************************************************************************)
(* apps/market/src/market.service.ts: the websocket client of the market   *)
(* service, the subscription that publishes an order book to Redis, and    *)
(* the candle streams that callers open over gRPC.                         *)
(*                                                                         *)
(* The Centrifuge client is external.  It reconnects by itself when the    *)
(* connection is lost, resubscribes what was subscribed, and reports       *)
(* "connected" each time.  It reports "disconnected" only when it has      *)
(* given up, and the service then makes a new client after five seconds.   *)
(* A subscription belongs to one client; an unsubscribed one stays         *)
(* registered and is found by getSubscription.                             *)
(***************************************************************************)
EXTENDS Naturals

CONSTANTS Streams,     \* the calls of StreamCandles
          Channels,    \* the candle channels public:candle-{symbol}-{resolution}
          MaxClients,  \* bounds: clients made,
          MaxConnects  \* and connections of one client

ASSUME FeedAssumption ==
  /\ MaxClients \in Nat \ {0}
  /\ MaxConnects \in Nat \ {0}

VARIABLES client,    \* this.client: the clients are numbered as they are made
          link,      \* its state, as its events have reported it
          connects,  \* how often it has connected
          listeners, \* the publication listeners of its order book subscription
          subs,      \* state of its subscriptions to the candle channels
          timer,     \* a setTimeout(connect) is pending
          stream,    \* where each stream is
          on         \* the client and channel whose subscription it listens to

vars == <<client, link, connects, listeners, subs, timer, stream, on>>

Clients == 1 .. MaxClients

FeedTypeOK ==
  /\ client \in Clients
  /\ link \in {"connecting", "connected", "disconnected"}
  /\ connects \in 0 .. MaxConnects
  /\ listeners \in 0 .. MaxConnects
  /\ subs \in [Channels -> {"none", "subscribed", "unsubscribed"}]
  /\ timer \in BOOLEAN
  /\ stream \in [Streams -> {"idle", "open", "closed"}]
  /\ on \in [Streams -> (Clients \X Channels) \cup {<<>>}]

\* connect(): a new client with no subscriptions.
NewClient(n) ==
  /\ client' = n
  /\ link' = "connecting"
  /\ connects' = 0 /\ listeners' = 0
  /\ subs' = [ch \in Channels |-> "none"]

Init ==
  /\ client = 1 /\ link = "connecting"
  /\ connects = 0 /\ listeners = 0
  /\ subs = [ch \in Channels |-> "none"]
  /\ timer = FALSE
  /\ stream = [s \in Streams |-> "idle"]
  /\ on = [s \in Streams |-> <<>>]

----------------------------------------------------------------------------
(* The events of the client.                                               *)

\* Mutant: publishOrderBook is called by connect as well as by its event.
ConnectedTwice ==
  /\ link = "connecting" /\ connects < MaxConnects
  /\ link' = "connected"
  /\ connects' = connects + 1
  /\ listeners' = listeners + 2
  /\ UNCHANGED <<client, subs, timer, stream, on>>

\* "connected": publishOrderBook finds or makes the subscription, and adds
\* a listener to it each time.
Connected ==
  /\ link = "connecting" /\ connects < MaxConnects
  /\ link' = "connected"
  /\ connects' = connects + 1
  /\ listeners' = listeners + 1
  /\ UNCHANGED <<client, subs, timer, stream, on>>

\* The connection is lost; the client is on its own to get it back.
Lost ==
  /\ link = "connected" /\ connects < MaxConnects
  /\ link' = "connecting"
  /\ UNCHANGED <<client, connects, listeners, subs, timer, stream, on>>

\* Mutant: no new client is made after a disconnection.
DisconnectedForGood ==
  /\ link # "disconnected" /\ client < MaxClients
  /\ link' = "disconnected"
  /\ UNCHANGED <<client, connects, listeners, subs, timer, stream, on>>

\* "disconnected": the server has told the client not to come back.
Disconnected ==
  /\ link # "disconnected" /\ client < MaxClients
  /\ link' = "disconnected"
  /\ timer' = TRUE
  /\ UNCHANGED <<client, connects, listeners, subs, stream, on>>

Reconnect ==
  /\ timer
  /\ timer' = FALSE
  /\ NewClient(client + 1)
  /\ UNCHANGED <<stream, on>>

\* The process dies and is started again: its streams and its timer are gone.
Restart ==
  /\ client < MaxClients
  /\ NewClient(client + 1)
  /\ timer' = FALSE
  /\ stream' = [s \in Streams |-> IF stream[s] = "open" THEN "closed" ELSE stream[s]]
  /\ UNCHANGED on

ClientEvent == Connected \/ Lost \/ Disconnected \/ Reconnect \/ Restart

----------------------------------------------------------------------------
(* StreamCandles.                                                          *)

\* Mutant: a subscription that was made is not subscribed.
OpenStreamMute(s, ch) ==
  /\ stream[s] = "idle"
  /\ on' = [on EXCEPT ![s] = <<client, ch>>]
  /\ subs' = [subs EXCEPT ![ch] = IF @ = "none" THEN "unsubscribed" ELSE @]
  /\ stream' = [stream EXCEPT ![s] = "open"]
  /\ UNCHANGED <<client, link, connects, listeners, timer>>

\* A subscription that exists is used as it is, subscribed or not.
OpenStream(s, ch) ==
  /\ stream[s] = "idle"
  /\ on' = [on EXCEPT ![s] = <<client, ch>>]
  /\ subs' = [subs EXCEPT ![ch] = IF @ = "none" THEN "subscribed" ELSE @]
  /\ stream' = [stream EXCEPT ![s] = "open"]
  /\ UNCHANGED <<client, link, connects, listeners, timer>>

\* The caller goes away: the subscription of the stream is unsubscribed,
\* whoever else listens to it.
CloseStream(s) ==
  /\ stream[s] = "open"
  /\ stream' = [stream EXCEPT ![s] = "closed"]
  /\ subs' = IF on[s][1] = client
             THEN [subs EXCEPT ![on[s][2]] = "unsubscribed"] ELSE subs
  /\ UNCHANGED <<client, link, connects, listeners, timer, on>>

(* What the callers of the streams do is left to them: see GatewayFeed.    *)
----------------------------------------------------------------------------

\* A candle of the stream's channel reaches the stream.
Fed(s) == on[s][1] = client /\ subs[on[s][2]] = "subscribed" /\ link = "connected"

(* The order book is published again after every loss and disconnection,   *)
(* and after a restart.                                                    *)
BookRecovers == link # "connected" ~> link = "connected" /\ listeners > 0
==========================================================================
