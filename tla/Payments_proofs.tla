-------------------------- MODULE Payments_proofs --------------------------
(***************************************************************************)
(* Proofs about Payments, for any users, deposits, callbacks and amounts:  *)
(* what a callback that has read PENDING may still rely on at its later    *)
(* steps, although it holds no lock.                                       *)
(***************************************************************************)
EXTENDS Payments, Funds_proofs

Active(h) == pc[h] \in {"cancel", "verify", "save", "charge"}

\* A row exists once the deposit has committed.
RowsOfDoneDeposits ==
  /\ \A d \in Deposits : dep[d] = "done" <=> status[d] # "none"
  /\ \A d \in Deposits : credits[d] > 0 => dep[d] = "done"

\* A callback works on a row that exists.
CallbackHasRow ==
  \A h \in Callbacks : Active(h) =>
    arg[h] \in Message /\ status[Row(h)] # "none"

\* What the gateway has confirmed stays confirmed.
ConfirmedIsVerified ==
  \A h \in Callbacks : pc[h] \in {"save", "charge"} => session[Row(h)] = "verified"

\* A row that a callback is about to charge for is not PENDING any more.
ChargedIsSaved ==
  \A h \in Callbacks : pc[h] = "charge" => status[Row(h)] \in {"COMPLETED", "CANCELED"}

\* Without an overlap, who is verifying is alone and nothing is credited yet.
VerifiesAlone ==
  \A d \in Deposits \ raced :
    /\ credits[d] <= 1
    /\ \A h \in Callbacks : Verifying(h, d) =>
         credits[d] = 0 /\ \A g \in Callbacks : Verifying(g, d) => g = h

IInv ==
  /\ TypeOK
  /\ RowsOfDoneDeposits
  /\ CallbackHasRow
  /\ ConfirmedIsVerified
  /\ ChargedIsSaved
  /\ VerifiesAlone
  /\ CreditedDepositIsPaid
  /\ CompletedIsCredited

----------------------------------------------------------------------------
(* Facts about single components, used by every step.                      *)

LEMMA ActiveCallback ==
  ASSUME IInv, NEW h \in Callbacks, Active(h)
  PROVE  /\ Row(h) \in Deposits
         /\ status[Row(h)] # "none" /\ dep[Row(h)] = "done"
  BY DEF IInv, TypeOK, RequestsTypeOK, CallbackHasRow, RowsOfDoneDeposits, Row, Message

LEMMA CreditStep ==
  ASSUME IInv, NEW d \in Deposits, ChargeWallet(d)
  PROVE  /\ Ledger!TypeOK'
         /\ credits' = [credits EXCEPT ![d] = @ + 1]
<1>. DEFINE u == ask[d].userId
            n == UsdAmount(ask[d].amount)
            w == Ledger!Before(u, u, USD)
<1>1. u \in Users /\ n \in Nat
  <2>1. ask[d].userId \in Users /\ ask[d].amount \in Amounts
    BY DEF IInv, TypeOK, RequestsTypeOK
  <2>2. ask[d].amount \in Nat /\ UnitsPerIRR \in Nat
    BY <2>1, PaymentAssumption
  <2>. QED  BY <2>1, <2>2 DEF UsdAmount
<1>2. w \in Ledger!Wallet
  BY <1>1 DEF IInv, TypeOK, Ledger!TypeOK, Ledger!Before, Ledger!Exists,
              Ledger!Opened, Ledger!Wallet, Ledger!USD, USD
<1>3. wallets' = [wallets EXCEPT ![u] = [w EXCEPT !.balance = ToNumber((@ + n) * Whole)]]
  BY DEF ChargeWallet, Ledger!Credit, Ledger!ToNumber, Ledger!Grain, Ledger!Round,
         ToNumber, Grain, Round
<1>4. credits' = [credits EXCEPT ![d] = @ + 1]
  BY DEF ChargeWallet
<1>. HIDE DEF u, n, w
<1>5. ToNumber((w.balance + n) * Whole) \in Nat
  <2>1. w.balance \in Nat
    BY <1>2 DEF Ledger!Wallet
  <2>2. (w.balance + n) * Whole \in Nat
    BY <1>1, <2>1, FundsAssumption
  <2>. QED  BY <2>2, ToNumberNat, FundsAssumption
<1>6. [w EXCEPT !.balance = ToNumber((@ + n) * Whole)] \in Ledger!Wallet
  BY <1>2, <1>5 DEF Ledger!Wallet
<1>. QED  BY <1>1, <1>3, <1>4, <1>6 DEF IInv, TypeOK, Ledger!TypeOK

----------------------------------------------------------------------------
(* Deposit, and the user at the gateway: no callback moves.                *)

LEMMA DepositStep ==
  ASSUME IInv, NEW d \in Deposits,
         \/ CreateTransaction(d) \/ SendRequest(d) \/ CommitDeposit(d)
         \/ RollbackDeposit(d) \/ UserPays(d)
  PROVE  IInv'
<1>1. UNCHANGED <<wallets, ask, pc, arg, told, credits, raced, dropped>>
  BY DEF CreateTransaction, SendRequest, CommitDeposit, RollbackDeposit, UserPays,
         tables, handlers, history
<1>2. \/ /\ dep[d] # "done"
         /\ \/ /\ \E s \in {"request", "commit", "failed"} : dep' = [dep EXCEPT ![d] = s]
               /\ status' = status
               /\ session' = session \/ session' = [session EXCEPT ![d] = "open"]
            \/ /\ dep' = [dep EXCEPT ![d] = "done"]
               /\ status' = [status EXCEPT ![d] = "PENDING"]
               /\ session' = session
      \/ /\ dep[d] = "done" /\ session[d] = "open" /\ UNCHANGED <<dep, status>>
         /\ session' = [session EXCEPT ![d] = "paid"]
  BY DEF CreateTransaction, SendRequest, CommitDeposit, RollbackDeposit, UserPays,
         GotoDep, HasConnection, tables, handlers, history
<1>. USE DEF IInv
<1>3. TypeOK'
  <2>1. dep' \in [Deposits -> {"idle", "request", "commit", "done", "failed"}]
    BY <1>2 DEF TypeOK, RequestsTypeOK
  <2>2. status' \in [Deposits -> {"none", "PENDING", "COMPLETED", "CANCELED"}]
    BY <1>2 DEF TypeOK, RequestsTypeOK
  <2>3. session' \in [Deposits -> {"none", "open", "paid", "verified"}]
    <3>1. session \in [Deposits -> {"none", "open", "paid", "verified"}]
      BY DEF TypeOK, RequestsTypeOK
    <3>2. \/ session' = session
          \/ session' = [session EXCEPT ![d] = "open"]
          \/ session' = [session EXCEPT ![d] = "paid"]
      BY <1>2
    <3>. QED  BY <3>1, <3>2
  <2>. QED  BY <1>1, <2>1, <2>2, <2>3 DEF TypeOK, RequestsTypeOK, Ledger!TypeOK
<1>4. RowsOfDoneDeposits'
  BY <1>1, <1>2 DEF TypeOK, RequestsTypeOK, RowsOfDoneDeposits
<1>5. \A h \in Callbacks : Active(h) => Row(h) \in Deposits /\ dep[Row(h)] = "done"
  BY ActiveCallback
<1>6. CallbackHasRow'
  BY <1>1, <1>2, <1>5 DEF TypeOK, RequestsTypeOK, CallbackHasRow, Active, Row
<1>7. ConfirmedIsVerified' /\ ChargedIsSaved'
  <2>1. \A e \in Deposits : dep[e] = "done" =>
          status'[e] = status[e] /\ (session[e] = "verified" => session'[e] = "verified")
    BY <1>2 DEF TypeOK, RequestsTypeOK
  <2>2. \A h \in Callbacks : Row(h)' = Row(h) /\ pc'[h] = pc[h]
    BY <1>1 DEF Row
  <2>. QED  BY <1>5, <2>1, <2>2 DEF ConfirmedIsVerified, ChargedIsSaved, Active
<1>8. VerifiesAlone'
  BY <1>1 DEF VerifiesAlone, Verifying, Row
<1>9. CreditedDepositIsPaid'
  BY <1>1, <1>2 DEF TypeOK, RequestsTypeOK, CreditedDepositIsPaid, RowsOfDoneDeposits
<1>10. CompletedIsCredited'
  BY <1>1, <1>2 DEF TypeOK, RequestsTypeOK, CompletedIsCredited, Row
<1>. QED  BY <1>3, <1>4, <1>6, <1>7, <1>8, <1>9, <1>10

----------------------------------------------------------------------------
(* verifyPayment.                                                          *)

\* A request that is answered at once.
LEMMA AnswerStep ==
  ASSUME IInv, NEW h \in Callbacks, AnswerSettled(h) \/ AnswerFailed(h)
  PROVE  IInv'
<1>1. UNCHANGED <<wallets, ask, dep, status, session, arg, credits, raced, dropped>>
  BY DEF AnswerSettled, AnswerFailed, Answer, tables, history
<1>2. /\ pc' = [pc EXCEPT ![h] = "done"]
      /\ pc[h] = "idle"
      /\ \E s \in {"success", "failed"} : told' = [told EXCEPT ![h] = s]
  BY DEF AnswerSettled, AnswerFailed, Answer, Goto, Tell
<1>3. pc \in [Callbacks -> {"idle", "cancel", "verify", "save", "charge", "done"}]
  BY DEF IInv, TypeOK, RequestsTypeOK
<1>4. /\ \A g \in Callbacks : Row(g)' = Row(g)
      /\ \A g \in Callbacks : g # h => pc'[g] = pc[g]
      /\ pc'[h] = "done"
  BY <1>1, <1>2, <1>3 DEF Row
<1>. USE DEF IInv
<1>5. TypeOK'
  <2>1. pc' \in [Callbacks -> {"idle", "cancel", "verify", "save", "charge", "done"}]
    BY <1>2, <1>3
  <2>2. told' \in [Callbacks ->
                    {"none", "success", "canceled", "completed", "failed", "error"}]
    BY <1>2 DEF TypeOK, RequestsTypeOK
  <2>. QED  BY <1>1, <2>1, <2>2 DEF TypeOK, RequestsTypeOK, Ledger!TypeOK
<1>6. RowsOfDoneDeposits' /\ CreditedDepositIsPaid'
  BY <1>1 DEF RowsOfDoneDeposits, CreditedDepositIsPaid
<1>7. CallbackHasRow' /\ ConfirmedIsVerified' /\ ChargedIsSaved'
  BY <1>1, <1>4 DEF CallbackHasRow, ConfirmedIsVerified, ChargedIsSaved, Active
<1>8. CompletedIsCredited'
  BY <1>1, <1>2, <1>4 DEF CompletedIsCredited
<1>9. VerifiesAlone'
  <2>1. \A g \in Callbacks, e \in Deposits : Verifying(g, e)' => Verifying(g, e)
    BY <1>4 DEF Verifying
  <2>. QED  BY <1>1, <2>1 DEF VerifiesAlone
<1>. QED  BY <1>5, <1>6, <1>7, <1>8, <1>9

LEMMA FindStep ==
  ASSUME IInv, NEW h \in Callbacks, ReceiveNOK(h) \/ ReceiveOK(h)
  PROVE  IInv'
<1>1. UNCHANGED <<wallets, ask, dep, status, session, told, credits, dropped>>
  BY DEF ReceiveNOK, ReceiveOK, Find, tables
<1>2. pc[h] = "idle"
  BY DEF ReceiveNOK, ReceiveOK, Find, Goto
<1>3. PICK m \in Message :
        /\ arg' = [arg EXCEPT ![h] = m]
        /\ status[m[1]] = "PENDING"
        /\ \/ pc' = [pc EXCEPT ![h] = "cancel"] /\ UNCHANGED raced
           \/ pc' = [pc EXCEPT ![h] = "verify"] /\ NoteRace(m[1])
  BY DEF ReceiveNOK, ReceiveOK, Find, Goto
<1>. USE DEF IInv
<1>4. m \in Message /\ m[1] \in Deposits
  BY DEF Message
<1>5. TypeOK'
  <2>1. arg' \in [Callbacks -> Message \cup {<<>>}]
    BY <1>3, <1>4 DEF TypeOK, RequestsTypeOK
  <2>2. pc' \in [Callbacks -> {"idle", "cancel", "verify", "save", "charge", "done"}]
    <3>1. \/ pc' = [pc EXCEPT ![h] = "cancel"]
          \/ pc' = [pc EXCEPT ![h] = "verify"]
      BY <1>3
    <3>. QED  BY <3>1 DEF TypeOK, RequestsTypeOK
  <2>3. raced' \subseteq Deposits
    <3>1. raced' \in {raced, raced \cup {m[1]}}
      BY <1>3 DEF NoteRace
    <3>. QED  BY <1>4, <3>1 DEF TypeOK, RequestsTypeOK
  <2>. QED  BY <1>1, <2>1, <2>2, <2>3 DEF TypeOK, RequestsTypeOK, Ledger!TypeOK
<1>6. RowsOfDoneDeposits' /\ CreditedDepositIsPaid'
  BY <1>1 DEF RowsOfDoneDeposits, CreditedDepositIsPaid
<1>7. /\ Row(h)' = m[1] /\ \A g \in Callbacks : g # h => Row(g)' = Row(g) /\ pc'[g] = pc[g]
      /\ pc'[h] \in {"cancel", "verify"}
  BY <1>3, <1>4 DEF TypeOK, RequestsTypeOK, Row
<1>8. CallbackHasRow'
  BY <1>1, <1>3, <1>4, <1>7 DEF TypeOK, RequestsTypeOK, CallbackHasRow, Active
<1>9. ConfirmedIsVerified' /\ ChargedIsSaved'
  BY <1>1, <1>7 DEF ConfirmedIsVerified, ChargedIsSaved
<1>10. CompletedIsCredited'
  BY <1>1, <1>2, <1>7 DEF CompletedIsCredited
<1>11. VerifiesAlone'
  <2>. SUFFICES ASSUME NEW d \in Deposits \ raced'
                PROVE  /\ credits[d] <= 1
                       /\ \A k \in Callbacks : Verifying(k, d)' =>
                            credits[d] = 0 /\ \A g \in Callbacks : Verifying(g, d)' => g = k
    BY <1>1 DEF VerifiesAlone
  <2>1. d \notin raced
    BY <1>3 DEF NoteRace
  <2>2. \A g \in Callbacks : g # h => (Verifying(g, d)' <=> Verifying(g, d))
    BY <1>7 DEF Verifying
  <2>3. CASE Verifying(h, d)'
    <3>1. d = m[1] /\ status[d] = "PENDING" /\ pc' = [pc EXCEPT ![h] = "verify"]
      BY <1>3, <1>7, <2>3 DEF TypeOK, RequestsTypeOK, Verifying
    <3>2. ~ \E g \in Callbacks : Verifying(g, d)
      <4>1. /\ raced' = IF \E g \in Callbacks : Verifying(g, m[1])
                        THEN raced \cup {m[1]} ELSE raced
        BY <1>3, <3>1 DEF TypeOK, RequestsTypeOK, NoteRace
      <4>. QED  BY <3>1, <4>1
    <3>3. credits[d] = 0
      <4>1. credits[d] \in Nat /\ ~(credits[d] > 0)
        BY <1>4, <3>1 DEF TypeOK, RequestsTypeOK, CreditedDepositIsPaid
      <4>. QED  BY <4>1
    <3>. QED  BY <2>2, <3>2, <3>3
  <2>4. CASE ~Verifying(h, d)'
    BY <2>1, <2>2, <2>4 DEF VerifiesAlone
  <2>. QED  BY <2>3, <2>4
<1>. QED  BY <1>5, <1>6, <1>8, <1>9, <1>10, <1>11

(* A callback that ends, or goes on, without touching a wallet.            *)
LEMMA VerifyStep ==
  ASSUME IInv, NEW h \in Callbacks,
         \/ SaveCanceled(h) \/ GatewayConfirms(h) \/ GatewayFails(h)
         \/ SaveCompleted(h) \/ FailCallback(h)
  PROVE  IInv'
<1>. DEFINE d == Row(h)
<1>1. UNCHANGED <<wallets, ask, dep, arg, credits, raced>>
  BY DEF SaveCanceled, GatewayConfirms, GatewayFails, SaveCompleted, FailCallback,
         tables, history
<1>2. \/ told' = told
      \/ \E s \in {"canceled", "failed", "error"} : told' = [told EXCEPT ![h] = s]
  BY DEF SaveCanceled, GatewayConfirms, GatewayFails, SaveCompleted, FailCallback, Tell
<1>3. Active(h)
  BY DEF SaveCanceled, GatewayConfirms, GatewayFails, SaveCompleted, FailCallback,
     Goto, Active
<1>4. d \in Deposits /\ status[d] # "none" /\ dep[d] = "done"
  BY <1>3, ActiveCallback
<1>5. \/ /\ pc[h] = "cancel" /\ pc' = [pc EXCEPT ![h] = "done"]
         /\ status' = [status EXCEPT ![d] = "CANCELED"]
         /\ UNCHANGED <<session, dropped>>
      \/ /\ pc[h] = "verify" /\ pc' = [pc EXCEPT ![h] = "save"]
         /\ session' = [session EXCEPT ![d] = "verified"]
         /\ UNCHANGED <<status, dropped>>
      \/ /\ pc[h] = "verify" /\ pc' = [pc EXCEPT ![h] = "done"]
         /\ session' \in {session, [session EXCEPT ![d] = "verified"]}
         /\ UNCHANGED <<status, dropped>>
      \/ /\ pc[h] = "save" /\ pc' = [pc EXCEPT ![h] = "charge"]
         /\ status' = [status EXCEPT ![d] = "COMPLETED"]
         /\ UNCHANGED <<session, dropped>>
      \/ /\ pc' = [pc EXCEPT ![h] = "done"]
         /\ UNCHANGED <<status, session>>
         /\ dropped' = IF pc[h] = "charge" THEN dropped \cup {d} ELSE dropped
  BY DEF SaveCanceled, GatewayConfirms, GatewayFails, SaveCompleted, FailCallback, Goto,
         tables, history
<1>6. \A g \in Callbacks : Row(g)' = Row(g)
  BY <1>1 DEF Row
<1>. HIDE DEF d
<1>. USE DEF IInv
<1>7. TypeOK'
  <2>1. /\ pc' \in [Callbacks -> {"idle", "cancel", "verify", "save", "charge", "done"}]
        /\ status' \in [Deposits -> {"none", "PENDING", "COMPLETED", "CANCELED"}]
        /\ session' \in [Deposits -> {"none", "open", "paid", "verified"}]
        /\ dropped' \subseteq Deposits
    BY <1>4, <1>5 DEF TypeOK, RequestsTypeOK
  <2>2. told' \in [Callbacks ->
                    {"none", "success", "canceled", "completed", "failed", "error"}]
    BY <1>2 DEF TypeOK, RequestsTypeOK
  <2>. QED  BY <1>1, <2>1, <2>2 DEF TypeOK, RequestsTypeOK, Ledger!TypeOK
<1>8. RowsOfDoneDeposits'
  BY <1>1, <1>4, <1>5 DEF TypeOK, RequestsTypeOK, RowsOfDoneDeposits
<1>9. /\ \A g \in Callbacks : g # h => pc'[g] = pc[g]
      /\ \A e \in Deposits : /\ status[e] # "none" => status'[e] # "none"
                             /\ session[e] = "verified" => session'[e] = "verified"
                             /\ status[e] \in {"COMPLETED", "CANCELED"} =>
                                  status'[e] \in {"COMPLETED", "CANCELED"}
      /\ pc'[h] \in {"done", "save", "charge"}
      /\ pc'[h] = "save" => session'[d] = "verified"
      /\ pc'[h] = "charge" => pc[h] = "save" /\ status'[d] = "COMPLETED"
  BY <1>4, <1>5 DEF TypeOK, RequestsTypeOK
<1>10. \A g \in Callbacks : Active(g) => Row(g) \in Deposits
  BY ActiveCallback
<1>11. CallbackHasRow'
  <2>1. \A g \in Callbacks : Active(g)' => Active(g)
    BY <1>3, <1>9 DEF Active
  <2>. QED  BY <1>1, <1>6, <1>9, <1>10, <2>1 DEF CallbackHasRow
<1>12. ConfirmedIsVerified' /\ ChargedIsSaved'
  BY <1>4, <1>6, <1>9, <1>10 DEF ConfirmedIsVerified, ChargedIsSaved, Active, d
<1>13. VerifiesAlone'
  <2>1. \A g \in Callbacks, e \in Deposits : Verifying(g, e)' => Verifying(g, e)
    BY <1>5, <1>6, <1>9 DEF Verifying, TypeOK, RequestsTypeOK
  <2>. QED  BY <1>1, <2>1 DEF VerifiesAlone
<1>14. CreditedDepositIsPaid'
  BY <1>1, <1>9 DEF CreditedDepositIsPaid
<1>15. CompletedIsCredited'
  <2>. SUFFICES ASSUME NEW e \in Deposits, status'[e] = "COMPLETED", ~(credits[e] > 0),
                       e \notin dropped'
                PROVE  \E g \in Callbacks : pc'[g] = "charge" /\ Row(g)' = e
    BY <1>1 DEF CompletedIsCredited
  <2>1. CASE e = d /\ pc'[h] = "charge"
    BY <1>6, <2>1 DEF d
  <2>2. CASE ~(e = d /\ pc'[h] = "charge")
    <3>1. status[e] = "COMPLETED"
      BY <1>4, <1>5, <2>2 DEF TypeOK, RequestsTypeOK
    <3>2. e \notin dropped
      BY <1>5
    <3>3. PICK g \in Callbacks : pc[g] = "charge" /\ Row(g) = e
      BY <3>1, <3>2 DEF CompletedIsCredited
    <3>4. g # h
      BY <1>5, <3>3 DEF TypeOK, RequestsTypeOK, d
    <3>. QED  BY <1>6, <1>9, <3>3, <3>4
  <2>. QED  BY <2>1, <2>2
<1>. QED  BY <1>7, <1>8, <1>11, <1>12, <1>13, <1>14, <1>15

(* The charge, acknowledged or not.                                        *)
LEMMA ChargeStep ==
  ASSUME IInv, NEW h \in Callbacks, Charge(h) \/ ChargeUnacknowledged(h)
  PROVE  IInv'
<1>. DEFINE d == Row(h)
<1>1. /\ pc[h] = "charge" /\ pc' = [pc EXCEPT ![h] = "done"]
      /\ ChargeWallet(d)
      /\ told' \in {[told EXCEPT ![h] = s] : s \in {"completed", "error"}}
      /\ UNCHANGED <<ask, dep, status, session, arg, raced, dropped>>
  BY DEF Charge, ChargeUnacknowledged, Goto, Tell
<1>2. d \in Deposits /\ dep[d] = "done" /\ Active(h)
  BY <1>1, ActiveCallback DEF Active
<1>3. session[d] = "verified" /\ status[d] \in {"COMPLETED", "CANCELED"}
  BY <1>1 DEF IInv, ConfirmedIsVerified, ChargedIsSaved
<1>4. Ledger!TypeOK' /\ credits' = [credits EXCEPT ![d] = @ + 1]
  BY <1>1, <1>2, CreditStep
<1>5. Verifying(h, d)
  BY <1>1 DEF Verifying
<1>6. \A g \in Callbacks : Row(g)' = Row(g)
  BY <1>1 DEF Row
<1>. HIDE DEF d
<1>. USE DEF IInv
<1>7. TypeOK'
  <2>1. pc' \in [Callbacks -> {"idle", "cancel", "verify", "save", "charge", "done"}]
    BY <1>1 DEF TypeOK, RequestsTypeOK
  <2>2. told' \in [Callbacks ->
                    {"none", "success", "canceled", "completed", "failed", "error"}]
    BY <1>1 DEF TypeOK, RequestsTypeOK
  <2>3. credits' \in [Deposits -> Nat]
    BY <1>2, <1>4 DEF TypeOK, RequestsTypeOK
  <2>. QED  BY <1>1, <1>4, <2>1, <2>2, <2>3 DEF TypeOK, RequestsTypeOK
<1>8. RowsOfDoneDeposits' /\ CreditedDepositIsPaid'
  BY <1>1, <1>2, <1>3, <1>4
  DEF TypeOK, RequestsTypeOK, RowsOfDoneDeposits, CreditedDepositIsPaid
<1>9. \A g \in Callbacks : g # h => pc'[g] = pc[g]
  BY <1>1 DEF TypeOK, RequestsTypeOK
<1>10. pc'[h] = "done"
  BY <1>1 DEF TypeOK, RequestsTypeOK
<1>11. CallbackHasRow' /\ ConfirmedIsVerified' /\ ChargedIsSaved'
  BY <1>1, <1>6, <1>9, <1>10 DEF CallbackHasRow, ConfirmedIsVerified, ChargedIsSaved, Active
<1>12. VerifiesAlone'
  <2>. SUFFICES ASSUME NEW e \in Deposits \ raced
                PROVE  /\ credits'[e] <= 1
                       /\ \A k \in Callbacks : Verifying(k, e)' =>
                            credits'[e] = 0 /\ \A g \in Callbacks : Verifying(g, e)' => g = k
    BY <1>1 DEF VerifiesAlone
  <2>1. \A g \in Callbacks : Verifying(g, e)' => g # h /\ Verifying(g, e)
    BY <1>6, <1>9, <1>10 DEF Verifying
  <2>2. CASE e = d
    <3>1. credits[e] = 0 /\ \A g \in Callbacks : Verifying(g, e) => g = h
      BY <1>5, <2>2 DEF VerifiesAlone
    <3>. QED  BY <1>4, <2>1, <2>2, <3>1 DEF TypeOK, RequestsTypeOK
  <2>3. CASE e # d
    BY <1>2, <1>4, <2>1, <2>3 DEF TypeOK, RequestsTypeOK, VerifiesAlone
  <2>. QED  BY <2>2, <2>3
<1>13. CompletedIsCredited'
  <2>. SUFFICES ASSUME NEW e \in Deposits, status[e] = "COMPLETED", e \notin dropped, e # d
                PROVE  credits'[e] > 0 \/ \E g \in Callbacks : pc'[g] = "charge" /\ Row(g)' = e
    BY <1>1, <1>2, <1>4 DEF TypeOK, RequestsTypeOK, CompletedIsCredited
  <2>1. credits[e] > 0 \/ \E g \in Callbacks : pc[g] = "charge" /\ Row(g) = e
    BY DEF CompletedIsCredited
  <2>. QED  BY <1>2, <1>4, <1>6, <1>9, <2>1 DEF TypeOK, RequestsTypeOK, d
<1>. QED  BY <1>7, <1>8, <1>11, <1>12, <1>13

----------------------------------------------------------------------------
LEMMA InitIInv == Init => IInv
<1>. SUFFICES ASSUME Init PROVE IInv
  OBVIOUS
<1>1. TypeOK
  BY DEF Init, NoRequests, TypeOK, RequestsTypeOK, Ledger!Init, Ledger!TypeOK
<1>2. /\ RowsOfDoneDeposits /\ CallbackHasRow /\ ConfirmedIsVerified /\ ChargedIsSaved
      /\ CreditedDepositIsPaid /\ CompletedIsCredited
  BY DEF Init, NoRequests, RowsOfDoneDeposits, CallbackHasRow, ConfirmedIsVerified,
         ChargedIsSaved, CreditedDepositIsPaid, CompletedIsCredited, Active
<1>3. VerifiesAlone
  BY DEF Init, NoRequests, VerifiesAlone, Verifying
<1>. QED  BY <1>1, <1>2, <1>3 DEF IInv

LEMMA StutterStep == ASSUME IInv, UNCHANGED vars PROVE IInv'
  BY DEF IInv, vars, tables, handlers, history, TypeOK, RequestsTypeOK,
         Ledger!TypeOK, RowsOfDoneDeposits, CallbackHasRow, ConfirmedIsVerified,
         ChargedIsSaved, VerifiesAlone, CreditedDepositIsPaid, CompletedIsCredited,
         Active, Verifying, Row

LEMMA NextIInv == IInv /\ [Next]_vars => IInv'
<1>. SUFFICES ASSUME IInv, [Next]_vars PROVE IInv'
  OBVIOUS
<1>1. ASSUME NEW d \in Deposits,
             \/ CreateTransaction(d) \/ SendRequest(d) \/ CommitDeposit(d)
             \/ RollbackDeposit(d) \/ UserPays(d)
      PROVE  IInv'
  BY <1>1, DepositStep
<1>2. ASSUME NEW h \in Callbacks,
             Callback(h) \/ FailCallback(h) \/ ChargeUnacknowledged(h)
      PROVE  IInv'
  BY <1>2, AnswerStep, FindStep, VerifyStep, ChargeStep DEF Callback
<1>3. CASE Finished \/ UNCHANGED vars
  BY <1>3, StutterStep DEF Finished
<1>. QED  BY <1>1, <1>2, <1>3 DEF Next

(* The inductive invariant: what a callback may rely on without a lock.    *)
THEOREM Invariance == Spec => []IInv
  BY InitIInv, NextIInv, PTL DEF Spec

(* Every variable of the payments keeps its type.                          *)
THEOREM TypeCorrect == Spec => []TypeOK
<1>1. IInv => TypeOK
  BY DEF IInv
<1>. QED  BY <1>1, Invariance, PTL

(* Only a deposit whose payment ZarinPal confirmed is credited.            *)
THEOREM OnlyPaidIsCredited == Spec => []CreditedDepositIsPaid
<1>1. IInv => CreditedDepositIsPaid
  BY DEF IInv
<1>. QED  BY <1>1, Invariance, PTL

(* Only callbacks that overlap between findOne and save credit twice.      *)
THEOREM DoubleCreditNeedsRace == Spec => []DoubleCreditOnlyByRace
<1>1. IInv => DoubleCreditOnlyByRace
  BY DEF IInv, TypeOK, RequestsTypeOK, VerifiesAlone, DoubleCreditOnlyByRace
<1>. QED  BY <1>1, Invariance, PTL

(* Only a failure after the save parts COMPLETED from its charge.          *)
THEOREM CompletedGetsCredited == Spec => []CompletedIsCredited
<1>1. IInv => CompletedIsCredited
  BY DEF IInv
<1>. QED  BY <1>1, Invariance, PTL
==========================================================================
