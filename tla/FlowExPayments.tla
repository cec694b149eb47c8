-------------------------- MODULE FlowExPayments --------------------------
(***************************************************************************)
(* Deposits of apps/FlowEx: deposit of modules/wallet/wallet.service.ts,   *)
(* create, getGatewayUrl and verifyPayment of                              *)
(* modules/transaction/transaction.service.ts, and modules/http/services/  *)
(* zarinPal.service.ts.  Statement for statement they do what the services *)
(* of apps/wallet do, so the steps are those of Payments, up to the call   *)
(* of chargeWallet.  That one is the transaction of FlowExWallet, without  *)
(* a row lock, and it runs beside the reservations of limit orders.  The   *)
(* pool of connections is a subject of Payments, not of this module.       *)
(***************************************************************************)
EXTENDS FlowExWallet

CONSTANTS Deposits, Amounts, UnitsPerIRR, PoolSize, \* as in Payments
          Callbacks  \* the calls that are verifyPayment

ASSUME FlowExPaymentsAssumption ==
  /\ Amounts \subseteq Nat \ {0} /\ Amounts # {} /\ UnitsPerIRR \in Nat \ {0}
  /\ PoolSize \in Nat \ {0}
  /\ {a * UnitsPerIRR : a \in Amounts} \subseteq Credits
  /\ Callbacks \subseteq Calls

VARIABLES ask, dep, status, session, \* as in Payments
          at,                        \* its pc: where each callback is
          arg, told, credits, raced, dropped

payment == <<ask, dep, status, session, at, arg, told, credits, raced, dropped>>
transaction == <<lock, pc, req, cur, todo, entity, moved, reply, diff, overlapped>>
allVars == <<vars, payment>>

Pay == INSTANCE Payments WITH pc <- at

\* What a callback charges is known when it has read its row.
Unread == CHOOSE q \in Service!ChargeRequest : TRUE

PaymentsInit ==
  /\ Init /\ Pay!NoRequests
  /\ \A c \in Calls : IF c \in Callbacks THEN req[c] = Unread ELSE ~IsCharge(c)

----------------------------------------------------------------------------
(* deposit.                                                                *)

CreateTransaction(d) == Pay!CreateTransaction(d) /\ UNCHANGED transaction

SendRequest(d) == Pay!SendRequest(d) /\ UNCHANGED transaction

CommitDeposit(d) == Pay!CommitDeposit(d) /\ UNCHANGED transaction

RollbackDeposit(d) == Pay!RollbackDeposit(d) /\ UNCHANGED transaction

UserPays(d) == Pay!UserPays(d) /\ UNCHANGED transaction

----------------------------------------------------------------------------
(* verifyPayment, up to chargeWallet.                                      *)

FindTransaction(h) ==
  /\ \/ Pay!AnswerSettled(h) \/ Pay!AnswerFailed(h)
     \/ Pay!ReceiveNOK(h) \/ Pay!ReceiveOK(h)
  /\ UNCHANGED transaction

SaveCanceled(h) == Pay!SaveCanceled(h) /\ UNCHANGED transaction

Verify(h) == (Pay!GatewayConfirms(h) \/ Pay!GatewayFails(h)) /\ UNCHANGED transaction

SaveCompleted(h) == Pay!SaveCompleted(h) /\ UNCHANGED transaction

\* A statement fails or the process dies, and chargeWallet has not begun.
FailCallback(h) == pc[h] = "idle" /\ Pay!FailCallback(h) /\ UNCHANGED transaction

----------------------------------------------------------------------------
(* chargeWallet.                                                           *)

BeginCharge(h) ==
  LET q == ask[Pay!Row(h)] IN
  /\ at[h] = "charge"
  /\ Service!Goto(h, "idle", "select")
  /\ req' = [req EXCEPT ![h] = [op |-> "charge", userId |-> q.userId,
                                amount |-> Pay!UsdAmount(q.amount)]]
  /\ UNCHANGED <<wallets, lock, cur, todo, entity, moved, reply, diff, overlapped, payment>>

ChargeWallet(h) ==
  /\ pc[h] # "idle"
  /\ OpenWallet(h) \/ ReadWallet(h) \/ AddToBalance(h) \/ CompareColumns(h)
  /\ UNCHANGED payment

\* The call ends, and verifyPayment with it.
EndCharge(h, page) ==
  /\ at' = [at EXCEPT ![h] = "done"]
  /\ Pay!Tell(h, page)
  /\ UNCHANGED <<ask, dep, status, session, arg, raced>>

Credited(h) ==
  /\ credits' = [credits EXCEPT ![Pay!Row(h)] = @ + 1]
  /\ UNCHANGED dropped

ChargeCommits(h) ==
  \/ CommitCharge(h) /\ EndCharge(h, "completed") /\ Credited(h)
  \/ CommitChargeUnacknowledged(h) /\ EndCharge(h, "error") /\ Credited(h)

ChargeFails(h) ==
  /\ Rollback(h)
  /\ EndCharge(h, "error")
  /\ dropped' = dropped \cup {Pay!Row(h)}
  /\ UNCHANGED credits

----------------------------------------------------------------------------
(* A limit order's reservation.                                            *)

Reservation(c) ==
  /\ \/ OpenWallet(c) \/ LockWallet(c) \/ ReserveShare(c)
     \/ RefuseReservation(c) \/ CommitReservation(c) \/ Rollback(c)
  /\ UNCHANGED payment

AllFinished ==
  /\ \A d \in Deposits : dep[d] \in {"done", "failed"}
  /\ \A c \in Calls : IF c \in Callbacks THEN at[c] \in {"idle", "done"} ELSE pc[c] = "done"
  /\ UNCHANGED allVars

PaymentsNext ==
  \/ \E d \in Deposits :
       \/ CreateTransaction(d) \/ SendRequest(d) \/ CommitDeposit(d)
       \/ RollbackDeposit(d) \/ UserPays(d)
  \/ \E h \in Callbacks :
       \/ FindTransaction(h) \/ SaveCanceled(h) \/ Verify(h) \/ SaveCompleted(h)
       \/ FailCallback(h) \/ BeginCharge(h) \/ ChargeWallet(h)
       \/ ChargeCommits(h) \/ ChargeFails(h)
  \/ \E c \in Calls \ Callbacks : Reservation(c)
  \/ AllFinished

PaymentsSpec == PaymentsInit /\ [][PaymentsNext]_allVars

----------------------------------------------------------------------------
(* Properties.                                                             *)

Worth == [d \in Deposits |-> credits[d] * Pay!UsdAmount(ask[d].amount)]

CreditedDeposits(u) == {d \in Deposits : credits[d] > 0 /\ ask[d].userId = u}

(* What the users hold is what their confirmed deposits are worth, and     *)
(* what is locked is what their orders have reserved: only a charge whose  *)
(* copy of the row grew stale (chargeWallet takes no lock) can lose either *)
(* of them.  A deposit is credited twice only by callbacks that overlap.   *)
CreditsLostOnlyByOverlap ==
  /\ LostOnlyByOverlap
  /\ \A u \in Users : Service!Rows(u, USD) \cap overlapped = {} =>
       LET held == SumFunctionOnSet(Service!Units("balance"), Service!Rows(u, USD))
           due == SumFunctionOnSet(Worth, CreditedDeposits(u))
           drift == Spacing * SumFunctionOnSet(credits, CreditedDeposits(u))
       IN  /\ held <= due + drift /\ due <= held + drift
           /\ (\A i \in Service!Rows(u, USD) : wallets[i].balance < Exact) => held = due
  /\ Pay!DoubleCreditOnlyByRace
==========================================================================
