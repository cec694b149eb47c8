----------------------------- MODULE Payments -----------------------------
(***************************************************************************)
(* Deposits through the payment gateway: Deposit in wallet.service.ts and  *)
(* create, getGatewayUrl and verifyPayment in transaction.service.ts of    *)
(* apps/wallet, with the ZarinPal client of zarinpale.service.ts.          *)
(*                                                                         *)
(* One element of Deposits is one call of Deposit; it also names the       *)
(* transaction row the call inserts and the authority the gateway issues   *)
(* for it.  One element of Callbacks is one request to /wallet/callback,   *)
(* that is one call of verifyPayment.  The route is open (wallet.controller*)
(* of apps/gateway): a request may carry any authority and any Status at   *)
(* any time, whatever the gateway has seen of that payment.  chargeWallet  *)
(* is a credit of the WalletLedger, which WalletService implements; each   *)
(* user has one USD row here (WalletService has the second row that a race *)
(* can open).                                                              *)
(***************************************************************************)
EXTENDS Funds, FiniteSets, Functions

CONSTANTS Users, Deposits, Callbacks,
          Amounts,            \* the amounts a user can deposit
          UnitsPerIRR,        \* units of USD for one of amountInIRR
          PoolSize,           \* the connections of the service to its database
          NoWallet            \* as in WalletLedger

ASSUME PaymentAssumption ==
  /\ Amounts \subseteq Nat \ {0}
  /\ UnitsPerIRR \in Nat \ {0}
  /\ PoolSize \in Nat \ {0}

VARIABLES wallets,   \* the ledger's rows
          ask,       \* what each Deposit is called with
          dep,       \* where each Deposit call is
          status,    \* status of each committed transaction row, or "none"
          session,   \* the gateway's state of each authority
          pc,        \* where each callback is
          arg,       \* the message whose row each callback works on
          told,      \* the page each callback redirects the user to
          credits,   \* how often each deposit has been credited
          raced,     \* the deposits two callbacks were verifying at once
          dropped    \* the deposits whose chargeWallet was lost

tables == <<wallets, status>>
handlers == <<pc, arg, told>>
history == <<credits, raced, dropped>>
vars == <<tables, ask, dep, session, handlers, history>>

\* The authority a callback asks for, and the Status it reports.
Message == Deposits \X {"OK", "NOK", "other"}

Ledger == INSTANCE WalletLedger WITH Currencies <- {USD}, WalletIds <- Users

RequestsTypeOK ==
  /\ ask \in [Deposits -> [userId : Users, amount : Amounts]]
  /\ dep \in [Deposits -> {"idle", "request", "commit", "done", "failed"}]
  /\ status \in [Deposits -> {"none", "PENDING", "COMPLETED", "CANCELED"}]
  /\ session \in [Deposits -> {"none", "open", "paid", "verified"}]
  /\ pc \in [Callbacks -> {"idle", "cancel", "verify", "save", "charge", "done"}]
  /\ arg \in [Callbacks -> Message \cup {<<>>}]
  /\ told \in [Callbacks ->
               {"none", "success", "canceled", "completed", "failed", "error"}]
  /\ credits \in [Deposits -> Nat]
  /\ raced \subseteq Deposits
  /\ dropped \subseteq Deposits

TypeOK == Ledger!TypeOK /\ RequestsTypeOK

NoRequests ==
  /\ ask \in [Deposits -> [userId : Users, amount : Amounts]]
  /\ dep = [d \in Deposits |-> "idle"]
  /\ status = [d \in Deposits |-> "none"]
  /\ session = [d \in Deposits |-> "none"]
  /\ pc = [h \in Callbacks |-> "idle"]
  /\ arg = [h \in Callbacks |-> <<>>]
  /\ told = [h \in Callbacks |-> "none"]
  /\ credits = [d \in Deposits |-> 0]
  /\ raced = {}
  /\ dropped = {}

Init == Ledger!Init /\ NoRequests

----------------------------------------------------------------------------
(* Deposit.  Its database transaction stays open around the HTTP request,  *)
(* for up to the five seconds of HttpModule's timeout (wallet.module.ts),  *)
(* and keeps one of the pool's connections.  Every other statement waits   *)
(* until one is free, and gives it back when it ends.                      *)

GotoDep(d, from, to) == dep[d] = from /\ dep' = [dep EXCEPT ![d] = to]

HasConnection(d) == dep[d] \in {"request", "commit"}

\* Mutant: a deposit that fails keeps its connection.
ConnectionIsFreeLeaking ==
  Cardinality({d \in Deposits : HasConnection(d) \/ dep[d] = "failed"}) < PoolSize

ConnectionIsFree == Cardinality({d \in Deposits : HasConnection(d)}) < PoolSize

\* create: the row is inserted and not yet committed.
CreateTransaction(d) ==
  /\ GotoDep(d, "idle", "request")
  /\ ConnectionIsFree
  /\ UNCHANGED <<tables, ask, session, handlers, history>>

\* sendRequest: the gateway opens a payment and answers with its authority.
SendRequest(d) ==
  /\ GotoDep(d, "request", "commit")
  /\ session' = [session EXCEPT ![d] = "open"]
  /\ UNCHANGED <<tables, ask, handlers, history>>

\* Mutant: the row is saved with no status of its own.
CommitDepositUntyped(d) ==
  /\ GotoDep(d, "commit", "done")
  /\ status' = [status EXCEPT ![d] = "OPEN"]
  /\ UNCHANGED <<wallets, ask, session, handlers, history>>

\* The authority is stored, the transaction commits and the user gets the URL.
CommitDeposit(d) ==
  /\ GotoDep(d, "commit", "done")
  /\ status' = [status EXCEPT ![d] = "PENDING"]
  /\ UNCHANGED <<wallets, ask, session, handlers, history>>

(* The gateway refuses, cannot be reached or does not answer in time, a    *)
(* statement fails or the service dies: no row stays.  The gateway may     *)
(* have opened a payment.                                                  *)
RollbackDeposit(d) ==
  /\ HasConnection(d)
  /\ dep' = [dep EXCEPT ![d] = "failed"]
  /\ UNCHANGED <<tables, ask, session, handlers, history>>

----------------------------------------------------------------------------
(* The user pays at the gateway's page, or never does.                     *)

UserPays(d) ==
  /\ dep[d] = "done" /\ session[d] = "open"
  /\ session' = [session EXCEPT ![d] = "paid"]
  /\ UNCHANGED <<tables, ask, dep, handlers, history>>

----------------------------------------------------------------------------
(* verifyPayment.  findOne takes no lock and there is no transaction: what *)
(* a callback has read may have changed at each of its later steps.        *)

Row(h) == arg[h][1]

Goto(h, from, to) == pc[h] = from /\ pc' = [pc EXCEPT ![h] = to]

Tell(h, page) == told' = [told EXCEPT ![h] = page]

Verifying(h, d) == pc[h] \in {"verify", "save", "charge"} /\ Row(h) = d

\* findOne for a message that is answered at once ...
Answer(h, page) ==
  /\ Goto(h, "idle", "done")
  /\ ConnectionIsFree
  /\ Tell(h, page)
  /\ UNCHANGED <<tables, ask, dep, session, arg, history>>

\* Any status but PENDING is answered with "success".
AnswerSettled(h) ==
  /\ \E m \in Message : status[m[1]] \in {"COMPLETED", "CANCELED"}
  /\ Answer(h, "success")

(* No row has the authority, or its row is PENDING and the Status is       *)
(* neither OK nor NOK.  A deposit that is not committed stands for every   *)
(* authority that was never issued.                                        *)
AnswerFailed(h) ==
  /\ \E m \in Message : \/ status[m[1]] = "none"
                        \/ status[m[1]] = "PENDING" /\ m[2] = "other"
  /\ Answer(h, "failed")

\* ... and for one whose row the callback goes on with.
Find(h, to, m) ==
  /\ Goto(h, "idle", to)
  /\ ConnectionIsFree
  /\ arg' = [arg EXCEPT ![h] = m]
  /\ UNCHANGED <<tables, ask, dep, session, told, credits, dropped>>

ReceiveNOK(h) ==
  \E m \in Message :
    /\ status[m[1]] = "PENDING" /\ m[2] = "NOK"
    /\ Find(h, "cancel", m)
    /\ UNCHANGED raced

NoteRace(d) ==
  raced' = IF \E g \in Callbacks : Verifying(g, d) THEN raced \cup {d} ELSE raced

\* Mutant: the test of the status is gone.
ReceiveOKAnyStatus(h) ==
  \E m \in Message :
    /\ status[m[1]] # "none" /\ m[2] = "OK"
    /\ Find(h, "verify", m)
    /\ NoteRace(m[1])

ReceiveOK(h) ==
  \E m \in Message :
    /\ status[m[1]] = "PENDING" /\ m[2] = "OK"
    /\ Find(h, "verify", m)
    /\ NoteRace(m[1])

SaveCanceled(h) ==
  /\ Goto(h, "cancel", "done")
  /\ ConnectionIsFree
  /\ status' = [status EXCEPT ![Row(h)] = "CANCELED"]
  /\ Tell(h, "canceled")
  /\ UNCHANGED <<wallets, ask, dep, session, arg, history>>

\* Mutant: any answer of the gateway counts as a success.
GatewayConfirmsAll(h) ==
  /\ Goto(h, "verify", "save")
  /\ UNCHANGED <<tables, ask, dep, session, arg, told, history>>

\* Code 100 (verified now) or 101 (verified before): both are a success.
GatewayConfirms(h) ==
  /\ Goto(h, "verify", "save")
  /\ session[Row(h)] \in {"paid", "verified"}
  /\ session' = [session EXCEPT ![Row(h)] = "verified"]
  /\ UNCHANGED <<tables, ask, dep, arg, told, history>>

(* Any other code (nobody has paid), an error or a timeout: the row stays  *)
(* PENDING.  The answer that is lost may be a confirmation.                *)
GatewayFails(h) ==
  /\ Goto(h, "verify", "done")
  /\ \/ UNCHANGED session
     \/ /\ session[Row(h)] = "paid"
        /\ session' = [session EXCEPT ![Row(h)] = "verified"]
  /\ Tell(h, "failed")
  /\ UNCHANGED <<tables, ask, dep, arg, history>>

\* Mutant: the callback ends with the save, and charges nothing.
SaveCompletedOnly(h) ==
  /\ Goto(h, "save", "done")
  /\ ConnectionIsFree
  /\ status' = [status EXCEPT ![Row(h)] = "COMPLETED"]
  /\ Tell(h, "completed")
  /\ UNCHANGED <<wallets, ask, dep, session, arg, history>>

SaveCompleted(h) ==
  /\ Goto(h, "save", "charge")
  /\ ConnectionIsFree
  /\ status' = [status EXCEPT ![Row(h)] = "COMPLETED"]
  /\ UNCHANGED <<wallets, ask, dep, session, arg, told, history>>

UsdAmount(amountInIRR) == amountInIRR * UnitsPerIRR

ChargeWallet(d) ==
  /\ LET u == ask[d].userId IN Ledger!Credit(u, u, USD, UsdAmount(ask[d].amount))
  /\ credits' = [credits EXCEPT ![d] = @ + 1]

Charge(h) ==
  /\ Goto(h, "charge", "done")
  /\ ConnectionIsFree
  /\ ChargeWallet(Row(h))
  /\ Tell(h, "completed")
  /\ UNCHANGED <<ask, dep, status, session, arg, raced, dropped>>

(* A statement of verifyPayment or of chargeWallet fails, or the service   *)
(* dies, before the step took effect ...                                   *)
FailCallback(h) ==
  /\ pc[h] \in {"cancel", "verify", "save", "charge"}
  /\ pc' = [pc EXCEPT ![h] = "done"]
  /\ Tell(h, "error")
  /\ dropped' = IF pc[h] = "charge" THEN dropped \cup {Row(h)} ELSE dropped
  /\ UNCHANGED <<tables, ask, dep, session, arg, credits, raced>>

\* ... or after the charge committed.
ChargeUnacknowledged(h) ==
  /\ Goto(h, "charge", "done")
  /\ ConnectionIsFree
  /\ ChargeWallet(Row(h))
  /\ Tell(h, "error")
  /\ UNCHANGED <<ask, dep, status, session, arg, raced, dropped>>

Callback(h) ==
  \/ AnswerSettled(h) \/ AnswerFailed(h) \/ ReceiveNOK(h) \/ ReceiveOK(h)
  \/ SaveCanceled(h) \/ GatewayConfirms(h) \/ GatewayFails(h)
  \/ SaveCompleted(h) \/ Charge(h)

Finished ==
  /\ \A d \in Deposits : dep[d] \in {"done", "failed"}
  /\ \A h \in Callbacks : pc[h] \in {"idle", "done"}
  /\ UNCHANGED vars

Next ==
  \/ \E d \in Deposits : \/ CreateTransaction(d) \/ SendRequest(d)
                         \/ CommitDeposit(d) \/ RollbackDeposit(d)
                         \/ UserPays(d)
  \/ \E h \in Callbacks : \/ Callback(h)
                          \/ FailCallback(h) \/ ChargeUnacknowledged(h)
  \/ Finished

Spec == Init /\ [][Next]_vars

(* Node runs the continuation of a deposit or a callback once its statement*)
(* or its request has ended, and every one of them ends.  Nobody owes the  *)
(* service a deposit, a payment or a callback.                             *)
FairSpec ==
  /\ Spec
  /\ \A d \in Deposits :
       WF_vars(SendRequest(d) \/ CommitDeposit(d) \/ RollbackDeposit(d))
  /\ \A h \in Callbacks : WF_vars(pc[h] # "idle" /\ Callback(h))

----------------------------------------------------------------------------
(* Properties.                                                             *)

(* A deposit is credited only if the gateway confirmed its payment, and    *)
(* its row is then never PENDING again: neither an OK that arrives for an  *)
(* unpaid deposit, nor a reload, a NOK that crosses the OK or a lost       *)
(* answer credits what nobody has paid.                                    *)
CreditedDepositIsPaid ==
  \A d \in Deposits : credits[d] > 0 =>
    session[d] = "verified" /\ status[d] \in {"COMPLETED", "CANCELED"}

(* verifyPayment reads PENDING without a lock, so two callbacks that       *)
(* overlap can both credit the deposit.  Only such an overlap can: a       *)
(* callback that starts after another one has finished credits nothing.    *)
DoubleCreditOnlyByRace == \A d \in Deposits : credits[d] > 1 => d \in raced

(* A completed deposit has been credited, is about to be, or its           *)
(* chargeWallet failed (or died) after COMPLETED was saved: nothing else   *)
(* can separate the two saves.                                             *)
CompletedIsCredited ==
  \A d \in Deposits : status[d] = "COMPLETED" =>
    \/ credits[d] > 0
    \/ \E h \in Callbacks : pc[h] = "charge" /\ Row(h) = d
    \/ d \in dropped

(* A payment the gateway has confirmed to a callback is credited, unless   *)
(* that callback fails: deposits that wait for the gateway can hold every  *)
(* connection, but none of them and no callback waits for a second one.    *)
ConfirmedPaymentIsCredited ==
  \A h \in Callbacks :
    pc[h] = "save" ~> \/ told[h] = "completed" /\ credits[Row(h)] > 0
                      \/ told[h] = "error"

(* The gateway is asked for ten times the amount "to Rial"                 *)
(* (zarinpale.service.ts:52); chargeWallet converts its amountInIRR "Rial  *)
(* to dollar" (wallet.service.ts:38-39).  If both comments are right, the  *)
(* wallet receives the dollars for the Rials that were paid.  It does not: *)
(* the amount that is charged was never multiplied.                        *)
GatewayRials(amount) == amount * 10

PaidRialsAreConverted ==
  LET Worth == [d \in Deposits |->
                 credits[d] * UsdAmount(GatewayRials(ask[d].amount))]
  IN \A u \in Users :
       Ledger!Before(u, u, USD).balance =
         SumFunctionOnSet(Worth, {d \in Deposits : ask[d].userId = u})
==========================================================================
