---------------------------- MODULE GatewayFeed ----------------------------
(***************************************************************************)
(* The candle sockets of the gateway (apps/gateway,                        *)
(* modules/market/market.gateway.ts) and the gRPC calls they make, composed*)
(* with the market service that serves these calls (MarketFeed).           *)
(*                                                                         *)
(* A message 'subscribeToCandles' opens one gRPC stream and forwards its   *)
(* candles to the socket.  Nothing closes the stream when the socket goes  *)
(* away: it lasts as long as the processes and the connection between them.*)
(* One element of Streams is one such message and call.                    *)
(***************************************************************************)
EXTENDS MarketFeed

CONSTANTS Sockets,  \* the websocket connections of browsers
          SocketOf  \* the socket that sends each message

ASSUME GatewayAssumption == SocketOf \in [Streams -> Sockets]

VARIABLES socket, \* whether each is connected
          call,   \* the gateway's end of each stream
          asked   \* the channel it asked for

gateway == <<socket, call, asked>>

GatewayTypeOK ==
  /\ FeedTypeOK
  /\ socket \in [Sockets -> {"connected", "gone"}]
  /\ call \in [Streams -> {"none", "live", "ended"}]
  /\ asked \in [Streams -> Channels \cup {<<>>}]

GatewayInit ==
  /\ Init
  /\ socket = [k \in Sockets |-> "connected"]
  /\ call = [s \in Streams |-> "none"]
  /\ asked = [s \in Streams |-> <<>>]

----------------------------------------------------------------------------
\* A socket may subscribe at any time, to a channel it has already as well.
HandleSubscribeToCandles(s, ch) ==
  /\ socket[SocketOf[s]] = "connected" /\ call[s] = "none"
  /\ call' = [call EXCEPT ![s] = "live"]
  /\ asked' = [asked EXCEPT ![s] = ch]
  /\ UNCHANGED <<vars, socket>>

\* Mutant: a call of the socket is cancelled.
HandleDisconnectCancels(k) ==
  /\ socket[k] = "connected"
  /\ socket' = [socket EXCEPT ![k] = "gone"]
  /\ \/ \E s \in Streams : SocketOf[s] = k /\ CloseStream(s)
     \/ (\A s \in Streams : SocketOf[s] # k) /\ UNCHANGED vars
  /\ UNCHANGED <<call, asked>>

\* handleDisconnect only logs: the socket's calls go on.
HandleDisconnect(k) ==
  /\ socket[k] = "connected"
  /\ socket' = [socket EXCEPT ![k] = "gone"]
  /\ UNCHANGED <<vars, call, asked>>

(* A call ends on the gateway's side when one of the processes dies or the *)
(* connection between them is lost.  The socket is told, and nothing calls *)
(* again in its place.                                                     *)
LoseCall(s) ==
  /\ call[s] = "live"
  /\ call' = [call EXCEPT ![s] = "ended"]
  /\ UNCHANGED <<vars, socket, asked>>

\* The request arrives, maybe from a gateway that is no longer there.
ServeCall(s) ==
  /\ call[s] # "none"
  /\ OpenStream(s, asked[s])
  /\ UNCHANGED gateway

\* The market service notices that the call has ended.
NoticeEnd(s) ==
  /\ call[s] = "ended"
  /\ CloseStream(s)
  /\ UNCHANGED gateway

GatewayFinished ==
  /\ link = "connected" /\ client = MaxClients /\ connects = MaxConnects
  /\ \A s \in Streams : call[s] # "live" /\ stream[s] # "open"
  /\ UNCHANGED <<vars, gateway>>

GatewayNext ==
  \/ ClientEvent /\ UNCHANGED gateway
  \/ \E k \in Sockets : HandleDisconnect(k)
  \/ \E s \in Streams :
       \/ \E ch \in Channels : HandleSubscribeToCandles(s, ch)
       \/ LoseCall(s) \/ ServeCall(s) \/ NoticeEnd(s)
  \/ GatewayFinished

GatewaySpec == GatewayInit /\ [][GatewayNext]_<<vars, gateway>>

(* A timer that is set goes off, a client that tries to connect does so in *)
(* the end, and a request that arrives is served.                          *)
FairGatewaySpec ==
  /\ GatewaySpec
  /\ WF_<<vars, gateway>>(Reconnect /\ UNCHANGED gateway)
  /\ WF_<<vars, gateway>>(Connected /\ UNCHANGED gateway)
  /\ \A s \in Streams : WF_<<vars, gateway>>(ServeCall(s))

----------------------------------------------------------------------------
(* Properties.                                                             *)

\* The client of the stream has been replaced, or another call of the same
\* subscription has ended, before this one or since.
CutOff(s) ==
  /\ stream[s] = "open"
  /\ \/ on[s][1] < client
     \/ \E t \in Streams : call[t] = "ended" /\ on[t] = on[s]

(* An open stream gets its candles whenever the service is connected.      *)
(* Browsers that come, go and subscribe twice never take them from others, *)
(* although all streams of a channel share one subscription: what does is  *)
(* a call that was lost, and a client that was replaced.                   *)
StarvedOnlyByLostCallOrReplacement ==
  \A s \in Streams :
    stream[s] = "open" /\ link = "connected" => Fed(s) \/ CutOff(s)

(* A call is served and gets candles, over disconnections and restarts of  *)
(* the market service, unless it is lost or cut off.                       *)
SubscriberIsFed ==
  \A s \in Streams :
    call[s] = "live" ~> call[s] = "ended" \/ stream[s] = "closed"
                        \/ (stream[s] = "open" /\ (Fed(s) \/ CutOff(s)))
==========================================================================
