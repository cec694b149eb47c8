----------------------------- MODULE Sessions -----------------------------
(***************************************************************************)
(* What a login is good for: the token that checkOtp returns (AuthOtp) is  *)
(* presented with an HTTP request that a guard protects (auth.guard.ts of  *)
(* apps/gateway, which asks validateJwtToken of the user service), and with*)
(* a socket of the namespaces order and wallet (order.gateway.ts and       *)
(* wallet.gateway.ts of apps/FlowEx, which verify it themselves and put the*)
(* socket into the room of its user).                                      *)
(*                                                                         *)
(* A token is named by the call that returned it, and its user is the one  *)
(* of that call.  It is valid until it expires; nothing revokes it.        *)
(***************************************************************************)
EXTENDS AuthOtp

CONSTANTS Requests, \* requests to a guarded route
          Sockets,  \* connections to a namespace
          NoToken   \* no token, or one that no login has returned

ASSUME SessionAssumption == NoToken \notin Calls /\ Requests \cap Sockets = {}

VARIABLES
  token,    \* what each request and socket has presented
  at,       \* where it is: "in" is past the guard, or in the room
  online,   \* the sockets that are connected, and listened to
  withUser, \* the sockets whose client.data.user is set
  thrown,   \* the sockets whose handleDisconnect has thrown
  expired   \* tokens whose seven days are over

session == <<token, at, online, withUser, thrown, expired>>

Bearers == Requests \cup Sockets

SessionTypeOK ==
  /\ TypeOK
  /\ token \in [Bearers -> Calls \cup {NoToken}]
  /\ at \in [Bearers -> {"idle", "verify", "in", "out"}]
  /\ online \subseteq Sockets /\ withUser \subseteq Sockets /\ thrown \subseteq Sockets
  /\ expired \subseteq Calls

SessionInit ==
  /\ Init
  /\ token = [b \in Bearers |-> NoToken]
  /\ at = [b \in Bearers |-> "idle"]
  /\ online = {} /\ withUser = {} /\ thrown = {} /\ expired = {}

Move(b, from, to) == at[b] = from /\ at' = [at EXCEPT ![b] = to]

Valid(b) == token[b] \in Calls \ expired

(* The socket is gone, and handleDisconnect reads client.data.user.userId: *)
(* a TypeError if there is no user, which nothing catches.                 *)
Leave(k) ==
  /\ online' = online \ {k}
  /\ thrown' = thrown \cup (({k} \cap online) \ withUser)

----------------------------------------------------------------------------
(* Requests and sockets alike.                                             *)

\* A token in the header, which canActivate and authenticate await to verify.
Present(b) ==
  /\ Move(b, "idle", "verify")
  /\ \E c \in {d \in Calls : reply[d] = "login"} \cup {NoToken} :
       token' = [token EXCEPT ![b] = c]
  /\ online' = online \cup ({b} \cap Sockets)
  /\ UNCHANGED <<vars, withUser, thrown, expired>>

ExpireToken(c) ==
  /\ reply[c] = "login" /\ c \notin expired
  /\ expired' = expired \cup {c}
  /\ UNCHANGED <<vars, token, at, online, withUser, thrown>>

----------------------------------------------------------------------------
(* Requests.                                                               *)

\* validateJwtToken finds the user, and the request goes to its handler.
PassGuard(r) ==
  /\ Move(r, "verify", "in")
  /\ Valid(r) /\ Account(token[r]) # {}
  /\ UNCHANGED <<vars, token, online, withUser, thrown, expired>>

\* The token is not valid, or the user service does not answer.
RefuseRequest(r) ==
  /\ Move(r, "verify", "out")
  /\ UNCHANGED <<vars, token, online, withUser, thrown, expired>>

----------------------------------------------------------------------------
(* Sockets.                                                                *)

(* There is no token, or it has not the form of one: the socket is         *)
(* disconnected inside the call of handleConnection, before Nest binds     *)
(* handleDisconnect to it.                                                 *)
TurnAway(k) ==
  /\ Move(k, "idle", "out")
  /\ UNCHANGED <<vars, token, online, withUser, thrown, expired>>

\* verifyAsync rejects: the socket is disconnected, if it is still there.
RefuseSocket(k) ==
  /\ Move(k, "verify", "out")
  /\ ~Valid(k)
  /\ Leave(k)
  /\ UNCHANGED <<vars, token, withUser, expired>>

\* Mutant: authenticate joins the room and does not set client.data.user.
JoinRoomForgettingUser(k) ==
  /\ Move(k, "verify", IF k \in online THEN "in" ELSE "out")
  /\ Valid(k)
  /\ UNCHANGED <<vars, token, online, withUser, thrown, expired>>

\* verifyAsync resolves.  The join of a socket that is gone does nothing.
JoinRoom(k) ==
  /\ Move(k, "verify", IF k \in online THEN "in" ELSE "out")
  /\ Valid(k)
  /\ withUser' = withUser \cup {k}
  /\ UNCHANGED <<vars, token, online, thrown, expired>>

\* The client goes away.  A verification that is in progress goes on.
Disconnect(k) ==
  /\ k \in online
  /\ Leave(k)
  /\ at' = [at EXCEPT ![k] = IF @ = "verify" THEN @ ELSE "out"]
  /\ UNCHANGED <<vars, token, withUser, expired>>

(* The FlowEx process dies, of such an exception or otherwise: its sockets *)
(* are gone, and so is what it was verifying.                              *)
Crash ==
  /\ \E k \in Sockets : at[k] \in {"verify", "in"} \/ k \in thrown
  /\ at' = [b \in Bearers |-> IF b \in Sockets /\ at[b] # "idle" THEN "out" ELSE at[b]]
  /\ online' = {} /\ withUser' = {} /\ thrown' = {}
  /\ UNCHANGED <<vars, token, expired>>

SessionFinished == Finished /\ UNCHANGED session

SessionNext ==
  \/ (\E c \in Calls : Step(c) \/ FailCall(c)) /\ UNCHANGED session
  \/ (\E e \in Emails : Expire(e)) /\ UNCHANGED session
  \/ \E b \in Bearers : Present(b)
  \/ \E r \in Requests : PassGuard(r) \/ RefuseRequest(r)
  \/ \E k \in Sockets : TurnAway(k) \/ RefuseSocket(k) \/ JoinRoom(k) \/ Disconnect(k)
  \/ \E c \in Calls : ExpireToken(c)
  \/ Crash
  \/ SessionFinished

SessionSpec == SessionInit /\ [][SessionNext]_<<vars, session>>

----------------------------------------------------------------------------
(* Properties.                                                             *)

(* Who is past a guard, or in the room where a user's closed orders are    *)
(* announced, holds the token of a login by a code that was stored for the *)
(* address of a user, who is verified: however the logins of one address   *)
(* overlap, fail, or race with a new code.                                 *)
SessionIsOfVerifiedUser ==
  \A b \in Bearers : at[b] = "in" =>
    /\ \E u \in Account(token[b]) : u.verified
    /\ \E d \in Calls : /\ used[d] > 0 /\ fresh[d] = req[token[b]].otpCode
                        /\ req[d].email = req[token[b]].email

(* An exception of handleDisconnect, of which the process and every other  *)
(* session in it die, comes only of a socket whose token was being verified*)
(* or was refused, and that never gets into the room: who has been let in  *)
(* leaves quietly, whatever else the socket and the process have been      *)
(* through.                                                                *)
OnlyUnverifiedThrow ==
  [][\A k \in thrown' \ thrown : at[k] = "verify" /\ at'[k] # "in"]_session
=========================================================================
