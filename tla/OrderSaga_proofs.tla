------------------------- MODULE OrderSaga_proofs -------------------------
(***************************************************************************)
(* Proofs about OrderSaga, for any users, currencies, orders, percentages  *)
(* and initial funds: which of the two services and of Redis has done what *)
(* at each step of createOrder.                                            *)
(***************************************************************************)
EXTENDS OrderSaga, Funds_proofs

\* A request is sent once, and a reservation needs one.
RequestsAreServedOnce ==
  \A o \in Orders :
    /\ pc[o] = "idle" => rpc[o] = "none"
    /\ rpc[o] \in {"none", "sent"} => reserved[o] = 0

\* What lockFunds refused it has not reserved, unless its commit was lost.
RefusalIsTrue ==
  \A o \in Orders : rpc[o] = "refused" /\ reserved[o] > 0 => o \in faulty

\* A call that goes on after lockFunds was told that the funds are locked.
FundsAreLocked == \A o \in Orders : pc[o] \in {"save", "zadd", "commit"} => rpc[o] = "ok"

\* The book has an id only from the zadd on, and has it before the commit.
BookBeforeRow ==
  \A o \in Orders : /\ pc[o] = "commit" => o \in book
                    /\ pc[o] \in {"idle", "lock", "save", "zadd"} => o \notin book

\* A row appears with the end of its call, and the answer with it.
RowAtTheEnd ==
  \A o \in Orders : /\ pc[o] # "done" => orders[o] = "none" /\ result[o] = "none"
                    /\ orders[o] = "OPEN" => rpc[o] = "ok" /\ o \in book
                    /\ result[o] = "created" => orders[o] = "OPEN"
                    /\ result[o] = "rejected" => orders[o] = "none" /\ rpc[o] = "refused"

\* A call that ended without a failure has either an order or a refusal.
CleanEnd ==
  \A o \in Orders : pc[o] = "done" /\ o \notin faulty =>
    orders[o] = "OPEN" \/ (rpc[o] = "refused" /\ o \notin book)

\* No wallet has more reserved than it holds, and both columns have been
\* through toNumber().
Covered(w) == w.locked <= w.balance /\ Stored(w.balance) /\ Stored(w.locked)

WalletsCoverLocks ==
  \A i \in Users \X Currencies : Ledger!Exists(i) => Covered(wallets[i])

IInv ==
  /\ TypeOK
  /\ RequestsAreServedOnce
  /\ RefusalIsTrue
  /\ FundsAreLocked
  /\ BookBeforeRow
  /\ RowAtTheEnd
  /\ CleanEnd
  /\ WalletsCoverLocks

----------------------------------------------------------------------------
(* The wallet service's side.                                              *)

LEMMA LedgerRounds == ASSUME NEW k PROVE Ledger!ToNumber(k) = ToNumber(k)
  BY DEF ToNumber, Grain, Round, Ledger!ToNumber, Ledger!Grain, Ledger!Round

LEMMA OpenStep ==
  ASSUME TypeOK, WalletsCoverLocks,
         NEW i \in Users \X Currencies, NEW u \in Users, NEW k \in Currencies,
         Ledger!Open(i, u, k)
  PROVE  Ledger!TypeOK' /\ WalletsCoverLocks'
<1>1. Opened(u, k) \in Ledger!Wallet /\ Covered(Opened(u, k))
  BY FundsAssumption, ToNumberNat DEF Opened, Ledger!Opened, Ledger!Wallet, Covered
<1>2. wallets' = [wallets EXCEPT ![i] = Opened(u, k)]
  BY DEF Ledger!Open, Ledger!Opened, Opened
<1>. HIDE DEF Opened
<1>. QED  BY <1>1, <1>2 DEF TypeOK, Ledger!TypeOK, WalletsCoverLocks, Ledger!Exists

LEMMA BeforeIsCovered ==
  ASSUME TypeOK, WalletsCoverLocks,
         NEW i \in Users \X Currencies, NEW u \in Users, NEW k \in Currencies
  PROVE  Ledger!Before(i, u, k) \in Ledger!Wallet /\ Covered(Ledger!Before(i, u, k))
<1>1. CASE Ledger!Exists(i)
  BY <1>1 DEF TypeOK, Ledger!TypeOK, WalletsCoverLocks, Ledger!Before, Ledger!Exists
<1>2. CASE ~Ledger!Exists(i)
  <2>1. Ledger!Before(i, u, k) = [userId |-> u, currency |-> k, balance |-> 0, locked |-> 0]
    BY <1>2 DEF Ledger!Before, Ledger!Opened
  <2>. QED  BY <2>1, FundsAssumption, ToNumberNat DEF Ledger!Wallet, Covered
<1>. QED  BY <1>1, <1>2

LEMMA ReserveStep ==
  ASSUME TypeOK, WalletsCoverLocks,
         NEW i \in Users \X Currencies, NEW u \in Users, NEW k \in Currencies,
         NEW x \in Nat, Ledger!Reserve(i, u, k, x)
  PROVE  Ledger!TypeOK' /\ WalletsCoverLocks'
<1>. DEFINE w == Ledger!Before(i, u, k)
            n == ToNumber(w.locked * Whole + x)
            v == [w EXCEPT !.locked = n]
<1>1. w \in Ledger!Wallet /\ Covered(w)
  BY BeforeIsCovered
<1>2. x <= (w.balance - w.locked) * Whole
  BY DEF Ledger!Reserve, Ledger!Available
<1>3. wallets' = [wallets EXCEPT ![i] = v]
  BY LedgerRounds DEF Ledger!Reserve
<1>. HIDE DEF w
<1>4. n \in Nat /\ Stored(n) /\ n <= w.balance
  <2>1. w.balance \in Nat /\ w.locked \in Nat /\ Whole \in Nat
    BY <1>1, FundsAssumption DEF Ledger!Wallet, FundsAssumption
  <2>2. x \in 0 .. (w.balance - w.locked) * Whole
    BY <1>2, <2>1
  <2>. QED  BY <1>1, <2>1, <2>2, FundsAssumption, ReserveStaysWithin DEF Covered
<1>. HIDE DEF n
<1>5. v \in Ledger!Wallet /\ Covered(v)
  BY <1>1, <1>4 DEF Ledger!Wallet, Covered
<1>. HIDE DEF v
<1>. QED  BY <1>3, <1>5 DEF TypeOK, Ledger!TypeOK, WalletsCoverLocks, Ledger!Exists

LEMMA RequestIsTyped ==
  ASSUME TypeOK, NEW o \in Orders
  PROVE  /\ ask[o].userId \in Users
         /\ Pays(ask[o]) \in Currencies
         /\ Row(ask[o]) \in Users \X Currencies
         /\ ask[o].percent \in Percents
  BY SagaAssumption DEF TypeOK, Ask, Pays, Row

(* Reserving: the rows, and what the answer and the failure say of it.     *)
LEMMA LockFundsStep ==
  ASSUME IInv, NEW o \in Orders, WalletReserves(o) \/ WalletReservesUnacknowledged(o)
  PROVE  IInv'
<1>. DEFINE x == ShareOf(Available(Wallet(ask[o])), ask[o].percent)
            n == ToNumber(x)
<1>. USE DEF IInv
<1>1. /\ rpc[o] = "sent"
      /\ Ledger!Reserve(Row(ask[o]), ask[o].userId, Pays(ask[o]), x)
      /\ reserved' = [reserved EXCEPT ![o] = n]
      /\ UNCHANGED <<ask, pc, orders, book, result>>
      /\ \/ rpc' = [rpc EXCEPT ![o] = "ok"] /\ UNCHANGED faulty
         \/ rpc' = [rpc EXCEPT ![o] = "refused"] /\ faulty' = faulty \cup {o}
  BY DEF WalletReserves, WalletReservesUnacknowledged, LockFunds
<1>2. x \in Nat /\ n \in Nat
  <2>. DEFINE w == Wallet(ask[o])
  <2>1. w.balance \in Nat /\ w.locked \in Nat /\ w.locked <= w.balance
    BY RequestIsTyped
    DEF TypeOK, Ledger!TypeOK, WalletsCoverLocks, Wallet, Ledger!Before,
        Ledger!Exists, Ledger!Opened, Ledger!Wallet, Covered
  <2>2. ask[o].percent \in Int /\ ValidPercent(ask[o].percent)
    BY RequestIsTyped, SagaAssumption
  <2>. HIDE DEF w
  <2>3. Available(w) \in Nat
    BY <2>1 DEF Available
  <2>4. x \in 0 .. Available(w) * Whole
    BY <2>2, <2>3, FundsAssumption, ShareBounds DEF w
  <2>. HIDE DEF x
  <2>5. x \in Nat
    BY <2>4
  <2>. QED  BY <2>5, FundsAssumption, ToNumberNat
<1>. HIDE DEF x, n
<1>3. Ledger!TypeOK' /\ WalletsCoverLocks'
  BY <1>1, <1>2, RequestIsTyped, ReserveStep
<1>4. TypeOK'
  BY <1>1, <1>2, <1>3 DEF TypeOK
<1>5. RequestsAreServedOnce' /\ RefusalIsTrue' /\ FundsAreLocked'
  BY <1>1 DEF TypeOK, RequestsAreServedOnce, RefusalIsTrue, FundsAreLocked
<1>6. BookBeforeRow' /\ RowAtTheEnd' /\ CleanEnd'
  BY <1>1 DEF TypeOK, BookBeforeRow, RowAtTheEnd, CleanEnd
<1>. QED  BY <1>3, <1>4, <1>5, <1>6

(* Refusing, for lack of funds or because the transaction failed.          *)
LEMMA RefuseStep ==
  ASSUME IInv, NEW o \in Orders, WalletRefuses(o) \/ WalletFails(o)
  PROVE  IInv'
<1>. USE DEF IInv
<1>1. /\ rpc[o] = "sent" /\ rpc' = [rpc EXCEPT ![o] = "refused"]
      /\ UNCHANGED <<ask, reserved, pc, orders, book, result, faulty>>
      /\ \/ Ledger!Open(Row(ask[o]), ask[o].userId, Pays(ask[o]))
         \/ UNCHANGED wallets
  BY DEF WalletRefuses, WalletFails
<1>2. Ledger!TypeOK' /\ WalletsCoverLocks'
  <2>1. CASE UNCHANGED wallets
    BY <2>1 DEF TypeOK, Ledger!TypeOK, WalletsCoverLocks, Ledger!Exists
  <2>. QED  BY <1>1, <2>1, RequestIsTyped, OpenStep
<1>3. TypeOK'
  BY <1>1, <1>2 DEF TypeOK
<1>4. RequestsAreServedOnce' /\ RefusalIsTrue' /\ FundsAreLocked'
  BY <1>1 DEF TypeOK, RequestsAreServedOnce, RefusalIsTrue, FundsAreLocked
<1>5. BookBeforeRow' /\ RowAtTheEnd' /\ CleanEnd'
  BY <1>1 DEF TypeOK, BookBeforeRow, RowAtTheEnd, CleanEnd
<1>. QED  BY <1>2, <1>3, <1>4, <1>5

----------------------------------------------------------------------------
(* createOrder's side: no wallet changes.                                  *)

LEMMA OrderStep ==
  ASSUME IInv, NEW o \in Orders,
         Step(o) \/ CommitOrderUnacknowledged(o) \/ FailOrder(o)
  PROVE  IInv'
<1>. USE DEF IInv, TypeOK, Goto
<1>1. UNCHANGED <<wallets, ask, reserved>>
  BY DEF Step, CallLockFunds, FundsLocked, FundsRefused, SaveOrder, AddToBook,
         CommitOrder, CommitOrderUnacknowledged, CommitRow, FailOrder
<1>2. Ledger!TypeOK' /\ WalletsCoverLocks'
  BY <1>1 DEF Ledger!TypeOK, WalletsCoverLocks, Ledger!Exists
<1>. USE DEF RequestsAreServedOnce, RefusalIsTrue, FundsAreLocked, BookBeforeRow,
             RowAtTheEnd, CleanEnd
<1>3. CASE CallLockFunds(o)
  BY <1>1, <1>2, <1>3 DEF CallLockFunds
<1>4. CASE FundsLocked(o)
  BY <1>1, <1>2, <1>4 DEF FundsLocked
<1>5. CASE FundsRefused(o)
  BY <1>1, <1>2, <1>5 DEF FundsRefused
<1>6. CASE SaveOrder(o)
  BY <1>1, <1>2, <1>6 DEF SaveOrder
<1>7. CASE AddToBook(o)
  BY <1>1, <1>2, <1>7 DEF AddToBook
<1>8. CASE CommitOrder(o)
  BY <1>1, <1>2, <1>8 DEF CommitOrder, CommitRow
<1>9. CASE CommitOrderUnacknowledged(o)
  BY <1>1, <1>2, <1>9 DEF CommitOrderUnacknowledged, CommitRow
<1>10. CASE FailOrder(o)
  BY <1>1, <1>2, <1>10 DEF FailOrder
<1>. QED  BY <1>3, <1>4, <1>5, <1>6, <1>7, <1>8, <1>9, <1>10 DEF Step

----------------------------------------------------------------------------
LEMMA InitIInv == Init => IInv
<1>. SUFFICES ASSUME Init PROVE IInv
  OBVIOUS
<1>1. Ledger!TypeOK /\ WalletsCoverLocks
  <2>1. \A i \in Users \X Currencies :
          \/ wallets[i] = NoWallet
          \/ wallets[i] = [Opened(i[1], USD) EXCEPT !.balance = Funding] /\ i[2] = USD
    BY DEF Init
  <2>2. \A u \in Users : /\ [Opened(u, USD) EXCEPT !.balance = Funding] \in Ledger!Wallet
                         /\ Covered([Opened(u, USD) EXCEPT !.balance = Funding])
    BY SagaAssumption, FundsAssumption, ToNumberNat DEF Opened, Ledger!Wallet, Covered
  <2>3. /\ DOMAIN wallets = Users \X Currencies
        /\ wallets = [i \in Users \X Currencies |-> wallets[i]]
    BY DEF Init
  <2>4. ASSUME NEW i \in Users \X Currencies
        PROVE  \/ wallets[i] = NoWallet
               \/ wallets[i] \in Ledger!Wallet /\ Covered(wallets[i])
    <3>1. i[1] \in Users
      OBVIOUS
    <3>. QED  BY <2>1, <2>2, <3>1
  <2>. QED  BY <2>3, <2>4 DEF Ledger!TypeOK, WalletsCoverLocks, Ledger!Exists
<1>. QED
  BY <1>1 DEF Init, IInv, TypeOK, RequestsAreServedOnce, RefusalIsTrue, FundsAreLocked,
              BookBeforeRow, RowAtTheEnd, CleanEnd

LEMMA StutterStep == ASSUME IInv, UNCHANGED vars PROVE IInv'
  BY DEF IInv, vars, TypeOK, Ledger!TypeOK, RequestsAreServedOnce, RefusalIsTrue,
         FundsAreLocked, BookBeforeRow, RowAtTheEnd, CleanEnd, WalletsCoverLocks,
         Ledger!Exists

LEMMA NextIInv == IInv /\ [Next]_vars => IInv'
<1>. SUFFICES ASSUME IInv, [Next]_vars PROVE IInv'
  OBVIOUS
<1>1. ASSUME NEW o \in Orders, Step(o) \/ CommitOrderUnacknowledged(o) \/ FailOrder(o)
      PROVE  IInv'
  BY <1>1, OrderStep
<1>2. ASSUME NEW o \in Orders, Serve(o) \/ WalletReservesUnacknowledged(o) \/ WalletFails(o)
      PROVE  IInv'
  BY <1>2, LockFundsStep, RefuseStep DEF Serve
<1>3. CASE Finished \/ UNCHANGED vars
  BY <1>3, StutterStep DEF Finished
<1>. QED  BY <1>1, <1>2, <1>3 DEF Next

(* The inductive invariant: what the three stores hold at each step.       *)
THEOREM Invariance == Spec => []IInv
  BY InitIInv, NextIInv, PTL DEF Spec

(* Every variable of the saga keeps its type.                              *)
THEOREM TypeCorrect == Spec => []TypeOK
<1>1. IInv => TypeOK
  BY DEF IInv
<1>. QED  BY <1>1, Invariance, PTL

(* Wherever createOrder fails, an open order is in the book of Redis.      *)
THEOREM OpenInBook == Spec => []OpenOrderIsInBook
<1>1. IInv => OpenOrderIsInBook
  BY DEF IInv, RowAtTheEnd, OpenOrderIsInBook
<1>. QED  BY <1>1, Invariance, PTL

(* Reservations without an order, and ids in the book without one, are     *)
(* left only by calls during which something failed.                       *)
THEOREM OrphansNeedFaults == Spec => []OrphanOnlyByFault
<1>1. IInv => OrphanOnlyByFault
  BY DEF IInv, TypeOK, RefusalIsTrue, CleanEnd, OrphanOnlyByFault
<1>. QED  BY <1>1, Invariance, PTL

(* The caller of createOrder is told the truth, or "error".                *)
THEOREM TrueAnswers == Spec => []AnswerIsTrue
<1>1. IInv => AnswerIsTrue
  BY DEF IInv, TypeOK, RefusalIsTrue, RowAtTheEnd, AnswerIsTrue
<1>. QED  BY <1>1, Invariance, PTL

----------------------------------------------------------------------------
(* The two services' books.  What is locked in a row is what was reserved  *)
(* there for the calls whose lockFunds has been answered, whether their    *)
(* order exists or not, but for the rounding; an open order is one of them.*)

Reserved(i) == SumFunctionOnSet(reserved, Reservations(i))

Backs(locked, claims, answers) ==
  /\ claims <= locked + Spacing * answers
  /\ locked < Exact => claims <= locked

LockedForServed ==
  \A i \in Users \X Currencies :
    /\ IsFiniteSet(Reservations(i))
    /\ Backs(LockedOf(i), Reserved(i), Cardinality(Reservations(i)))

LEMMA InitLockedForServed == ASSUME Init PROVE LockedForServed
<1>. SUFFICES ASSUME NEW i \in Users \X Currencies
              PROVE  /\ IsFiniteSet(Reservations(i))
                     /\ Backs(LockedOf(i), Reserved(i), Cardinality(Reservations(i)))
  BY DEF LockedForServed
<1>1. Reservations(i) = {}
  BY DEF Init, Reservations
<1>2. LockedOf(i) = 0
  BY DEF Init, LockedOf, Ledger!Before, Ledger!Exists, Ledger!Opened, Opened
<1>3. Spacing * 0 = 0
  BY FundsAssumption DEF FundsAssumption
<1>. QED  BY <1>1, <1>2, <1>3, FS_EmptySet, SumEmpty DEF Reserved, Backs

(* One more answer that says n when the locked balance has grown by m.     *)
LEMMA BacksOneMore ==
  ASSUME NEW l \in Nat, NEW s \in Int, NEW a \in Nat, Backs(l, s, a),
         NEW m \in Nat, NEW n \in Nat, n <= m + Spacing, l + m < Exact => n <= m
  PROVE  Backs(l + m, s + n, a + 1)
<1>1. Spacing \in Nat /\ Exact \in Nat
  BY FundsAssumption DEF FundsAssumption
<1>2. Spacing * (a + 1) = Spacing * a + Spacing /\ Spacing * a \in Nat
  BY <1>1
<1>3. s + n <= l + m + Spacing * (a + 1)
  BY <1>1, <1>2 DEF Backs
<1>. QED  BY <1>1, <1>3 DEF Backs

(* An answer of lockFunds adds its call, and what it reserved, to one row. *)
LEMMA AnswerKeepsBooks ==
  ASSUME IInv, LockedForServed, NEW o \in Orders, rpc[o] = "sent",
         rpc'[o] \in {"ok", "refused"}, reserved'[o] \in Nat,
         \A x \in Orders \ {o} : rpc'[x] = rpc[x] /\ reserved'[x] = reserved[x],
         UNCHANGED ask, NEW r \in Users \X Currencies, r = Row(ask[o]),
         NEW m \in Nat, reserved'[o] <= m + Spacing,
         LockedOf(r)' = LockedOf(r) + m,
         LockedOf(r)' < Exact => reserved'[o] <= m,
         \A i \in Users \X Currencies :
           LockedOf(i) \in Nat /\ (i # r => LockedOf(i)' = LockedOf(i))
  PROVE  LockedForServed'
<1>. SUFFICES ASSUME NEW i \in Users \X Currencies
              PROVE  /\ IsFiniteSet(Reservations(i)')
                     /\ Backs(LockedOf(i), Reserved(i), Cardinality(Reservations(i)))'
  BY DEF LockedForServed
<1>. DEFINE S == Reservations(i)
            T == Reservations(i)'
            f == reserved
            g == reserved'
            l == LockedOf(i)
            n == reserved'[o]
<1>1. /\ T = S \cup (IF i = r THEN {o} ELSE {})
      /\ o \notin S
  BY DEF Reservations, Row, Pays
<1>2. IsFiniteSet(S) /\ Backs(l, SumFunctionOnSet(f, S), Cardinality(S))
  BY DEF LockedForServed, Reserved
<1>3. /\ \A x \in S : f[x] \in Int
      /\ \A x \in T : g[x] \in Int
      /\ \A x \in S \ {o} : g[x] = f[x]
      /\ g[o] = n /\ n \in Nat
  BY <1>1 DEF Reservations, IInv, TypeOK
<1>4. l \in Nat
  OBVIOUS
<1>5. SumFunctionOnSet(f, S) \in Int /\ Cardinality(S) \in Nat
  <2>. HIDE DEF S, f
  <2>. QED  BY <1>2, <1>3, SumType, FS_CardinalityType
<1>6. CASE i = r
  <2>1. l' = l + m /\ (l' < Exact => n <= m) /\ n <= m + Spacing
    BY <1>6
  <2>. HIDE DEF S, T, f, g, l, n
  <2>2. T = S \cup {o} /\ T \ {o} = S \ {o} /\ o \in T /\ o \notin S
    BY <1>1, <1>6
  <2>3. IsFiniteSet(T) /\ Cardinality(T) = Cardinality(S) + 1
    BY <1>1, <1>2, <2>2, FS_AddElement
  <2>9. /\ IsFiniteSet(S) /\ T \ {o} = S \ {o}
        /\ \A x \in S : f[x] \in Int
        /\ \A x \in T : g[x] \in Int
        /\ \A x \in S \ {o} : g[x] = f[x]
    BY <1>2, <1>3, <2>2
  <2>4. SumFunctionOnSet(g, T) = SumFunctionOnSet(f, S)
                                   - (IF o \in S THEN f[o] ELSE 0)
                                   + (IF o \in T THEN g[o] ELSE 0)
    BY <2>9, SumChanges
  <2>5. SumFunctionOnSet(g, T) = SumFunctionOnSet(f, S) + n
    BY <1>3, <1>5, <2>2, <2>4
  <2>6. Backs(l + m, SumFunctionOnSet(f, S) + n, Cardinality(S) + 1)
    BY <1>2, <1>3, <1>4, <1>5, <2>1, BacksOneMore
  <2>7. Backs(l', SumFunctionOnSet(g, T), Cardinality(T))
    BY <2>1, <2>3, <2>5, <2>6
  <2>. QED  BY <2>3, <2>7 DEF Backs, Reserved, S, T, g, l
<1>7. CASE i # r
  <2>1. l' = l
    BY <1>7
  <2>. HIDE DEF S, T, f, g, l, n
  <2>2. T = S /\ T \ {o} = S \ {o} /\ o \notin T
    BY <1>1, <1>7
  <2>3. SumFunctionOnSet(g, T) = SumFunctionOnSet(f, S)
                                   - (IF o \in S THEN f[o] ELSE 0)
                                   + (IF o \in T THEN g[o] ELSE 0)
    BY <1>2, <1>3, <2>2, SumChanges
  <2>4. SumFunctionOnSet(g, T) = SumFunctionOnSet(f, S)
    BY <1>1, <1>5, <2>2, <2>3
  <2>5. Backs(l', SumFunctionOnSet(g, T), Cardinality(T))
    BY <1>2, <2>1, <2>2, <2>4
  <2>. QED  BY <1>2, <2>2, <2>5 DEF Backs, Reserved, S, T, g, l
<1>. QED  BY <1>6, <1>7

(* Granting a reservation.                                                 *)
LEMMA GrantKeepsBooks ==
  ASSUME IInv, LockedForServed, NEW o \in Orders,
         WalletReserves(o) \/ WalletReservesUnacknowledged(o)
  PROVE  LockedForServed'
<1>0. PICK r \in Users \X Currencies : r = Row(ask[o])
  BY RequestIsTyped DEF IInv
<1>. DEFINE x == ShareOf(Available(Wallet(ask[o])), ask[o].percent)
            w == Ledger!Before(r, r[1], r[2])
            n == ToNumber(w.locked * Whole + x)
            v == [w EXCEPT !.locked = n]
<1>1. /\ r \in Users \X Currencies /\ ask[o].userId = r[1] /\ Pays(ask[o]) = r[2]
      /\ wallets \in [Users \X Currencies -> Ledger!Wallet \cup {NoWallet}]
      /\ rpc \in [Orders -> {"none", "sent", "ok", "refused"}]
      /\ reserved \in [Orders -> Nat]
  BY <1>0, RequestIsTyped DEF Row, Ledger!TypeOK, IInv, TypeOK
<1>2. /\ rpc[o] = "sent" /\ Ledger!Reserve(r, r[1], r[2], x) /\ x > 0
      /\ reserved' = [reserved EXCEPT ![o] = ToNumber(x)]
      /\ UNCHANGED ask
      /\ \/ rpc' = [rpc EXCEPT ![o] = "ok"]
         \/ rpc' = [rpc EXCEPT ![o] = "refused"]
  BY <1>0, <1>1 DEF WalletReserves, WalletReservesUnacknowledged, LockFunds
<1>3. /\ rpc'[o] \in {"ok", "refused"} /\ reserved'[o] = ToNumber(x)
      /\ \A y \in Orders \ {o} : rpc'[y] = rpc[y] /\ reserved'[y] = reserved[y]
  <2>. HIDE DEF x
  <2>. QED  BY <1>1, <1>2
<1>4. w \in Ledger!Wallet /\ Covered(w) /\ Wallet(ask[o]) = w
  BY <1>0, <1>1, BeforeIsCovered DEF Wallet, IInv
<1>5. x \in 0 .. (w.balance - w.locked) * Whole /\ x \in Nat
  <2>1. w.balance \in Nat /\ w.locked \in Nat /\ w.locked <= w.balance
    BY <1>4 DEF Ledger!Wallet, Covered
  <2>2. ask[o].percent \in Int /\ ValidPercent(ask[o].percent)
    BY RequestIsTyped, SagaAssumption DEF IInv
  <2>3. x = ShareOf(w.balance - w.locked, ask[o].percent)
    BY <1>4 DEF Available
  <2>4. w.balance - w.locked \in Nat
    BY <2>1
  <2>. HIDE DEF x, w
  <2>5. x \in 0 .. (w.balance - w.locked) * Whole
    BY <2>2, <2>3, <2>4, FundsAssumption, ShareBounds
  <2>6. (w.balance - w.locked) * Whole \in Int
    BY <2>4, FundsAssumption DEF FundsAssumption
  <2>. QED  BY <2>5, <2>6
<1>6. wallets' = [wallets EXCEPT ![r] = v]
  BY <1>2, LedgerRounds DEF Ledger!Reserve
<1>. HIDE DEF x
<1>7. w.balance \in Nat /\ w.locked \in Nat
  BY <1>4 DEF Ledger!Wallet
<1>8. n \in Nat /\ w.locked <= n
  <2>. HIDE DEF w
  <2>. QED  BY <1>4, <1>5, <1>7, FundsAssumption, ReserveStaysWithin DEF Covered
<1>9. v \in Ledger!Wallet /\ v # NoWallet /\ v.locked = n
  <2>. HIDE DEF w, n
  <2>1. v \in Ledger!Wallet /\ v.locked = n
    BY <1>4, <1>8 DEF Ledger!Wallet
  <2>. QED  BY <2>1, SagaAssumption
<1>10. wallets'[r] = v /\ \A i \in Users \X Currencies : i # r => wallets'[i] = wallets[i]
  <2>. HIDE DEF v
  <2>. QED  BY <1>1, <1>6
<1>11. LockedOf(r) = w.locked
  BY DEF LockedOf
<1>12. LockedOf(r)' = n
  <2>1. LockedOf(r)' = v.locked
    <3>1. wallets'[r] # NoWallet
      BY <1>9, <1>10
    <3>2. LockedOf(r)' = wallets'[r].locked
      <4>. HIDE DEF v
      <4>. QED  BY <3>1 DEF LockedOf, Ledger!Before, Ledger!Exists
    <3>. QED  BY <3>2, <1>10
  <2>. QED  BY <1>9, <2>1
<1>13. ASSUME NEW i \in Users \X Currencies
       PROVE  LockedOf(i) \in Nat /\ (i # r => LockedOf(i)' = LockedOf(i))
  BY <1>1, <1>10 DEF LockedOf, Ledger!Before, Ledger!Exists, Opened, Ledger!Opened,
                     Ledger!Wallet
<1>14. /\ n - w.locked <= ToNumber(x) + Spacing
       /\ ToNumber(x) <= n - w.locked + Spacing
       /\ n < Exact => n = w.locked + ToNumber(x)
       /\ ToNumber(x) \in Nat
  <2>. HIDE DEF w
  <2>. QED  BY <1>5, <1>7, FundsAssumption, GrowthIsAsked, ToNumberNat
<1>. DEFINE m == n - w.locked
<1>15. /\ m \in Nat /\ LockedOf(r)' = LockedOf(r) + m
       /\ reserved'[o] \in Nat /\ reserved'[o] <= m + Spacing
       /\ LockedOf(r)' < Exact => reserved'[o] <= m
  <2>. HIDE DEF n, w
  <2>. QED  BY <1>3, <1>7, <1>8, <1>11, <1>12, <1>14
<1>. HIDE DEF m, n, w, v
<1>. QED  BY <1>0, <1>2, <1>3, <1>13, <1>15, AnswerKeepsBooks

(* Refusing one, or failing.                                               *)
LEMMA RefusalKeepsBooks ==
  ASSUME IInv, LockedForServed, NEW o \in Orders, WalletRefuses(o) \/ WalletFails(o)
  PROVE  LockedForServed'
<1>0. PICK r \in Users \X Currencies : r = Row(ask[o])
  BY RequestIsTyped DEF IInv
<1>1. /\ r \in Users \X Currencies /\ ask[o].userId = r[1] /\ Pays(ask[o]) = r[2]
      /\ wallets \in [Users \X Currencies -> Ledger!Wallet \cup {NoWallet}]
      /\ rpc \in [Orders -> {"none", "sent", "ok", "refused"}]
      /\ reserved \in [Orders -> Nat]
  BY <1>0, RequestIsTyped DEF Row, Ledger!TypeOK, IInv, TypeOK
<1>2. /\ rpc[o] = "sent" /\ rpc' = [rpc EXCEPT ![o] = "refused"]
      /\ UNCHANGED <<ask, reserved>>
      /\ Ledger!Open(r, r[1], r[2]) \/ UNCHANGED wallets
  BY <1>0, <1>1 DEF WalletRefuses, WalletFails
<1>3. reserved'[o] = 0
  BY <1>2 DEF IInv, RequestsAreServedOnce
<1>4. \A i \in Users \X Currencies : LockedOf(i)' = LockedOf(i) /\ LockedOf(i) \in Nat
  BY <1>1, <1>2 DEF LockedOf, Ledger!Before, Ledger!Exists, Ledger!Open, Opened,
                    Ledger!Opened, Ledger!Wallet
<1>5. /\ rpc'[o] \in {"ok", "refused"}
      /\ \A x \in Orders \ {o} : rpc'[x] = rpc[x] /\ reserved'[x] = reserved[x]
  BY <1>1, <1>2
<1>6. 0 \in Nat /\ 0 <= 0 + Spacing
  BY FundsAssumption DEF FundsAssumption
<1>7. LockedOf(r)' = LockedOf(r) + 0
  <2>1. LockedOf(r)' = LockedOf(r) /\ LockedOf(r) \in Nat
    BY <1>1, <1>4
  <2>. QED  BY <2>1
<1>8. \A i \in Users \X Currencies :
        LockedOf(i) \in Nat /\ (i # r => LockedOf(i)' = LockedOf(i))
  BY <1>4
<1>9. PICK m \in Nat : /\ reserved'[o] <= m + Spacing
                       /\ LockedOf(r)' = LockedOf(r) + m
                       /\ LockedOf(r)' < Exact => reserved'[o] <= m
  <2>1. \A l : l < Exact => 0 <= 0
    OBVIOUS
  <2>. QED  BY <1>3, <1>6, <1>7
<1>10. reserved'[o] \in Nat
  BY <1>3
<1>. QED  BY <1>0, <1>2, <1>5, <1>8, <1>9, <1>10, AnswerKeepsBooks

(* createOrder itself touches neither the rows nor what was reserved.      *)
LEMMA OrderKeepsBooks ==
  ASSUME IInv, LockedForServed,
         \/ UNCHANGED vars
         \/ \E o \in Orders : Step(o) \/ CommitOrderUnacknowledged(o) \/ FailOrder(o)
  PROVE  LockedForServed'
<1>1. /\ UNCHANGED <<wallets, ask, reserved>>
      /\ \A o \in Orders : rpc'[o] \in {"none", "sent"} <=> rpc[o] \in {"none", "sent"}
  BY DEF vars, Step, CallLockFunds, FundsLocked, FundsRefused, SaveOrder, AddToBook,
         CommitOrder, CommitOrderUnacknowledged, CommitRow, FailOrder, Goto,
         IInv, TypeOK, RequestsAreServedOnce
<1>2. \A i : Reservations(i)' = Reservations(i) /\ LockedOf(i)' = LockedOf(i)
  <2>1. \A o \in Orders : rpc'[o] \in {"ok", "refused"} <=> rpc[o] \in {"ok", "refused"}
    BY <1>1, NextIInv DEF IInv, TypeOK, Next, Finished
  <2>. QED  BY <1>1, <2>1 DEF Reservations, Row, Pays, LockedOf, Ledger!Before, Ledger!Exists
<1>. QED  BY <1>1, <1>2 DEF LockedForServed, Backs, Reserved

LEMMA NextLockedForServed == IInv /\ LockedForServed /\ [Next]_vars => LockedForServed'
<1>. SUFFICES ASSUME IInv, LockedForServed, [Next]_vars PROVE LockedForServed'
  OBVIOUS
<1>1. ASSUME NEW o \in Orders, Serve(o) \/ WalletReservesUnacknowledged(o) \/ WalletFails(o)
      PROVE  LockedForServed'
  BY <1>1, GrantKeepsBooks, RefusalKeepsBooks DEF Serve
<1>. QED  BY <1>1, OrderKeepsBooks DEF Next, Finished

LEMMA BackedWhenServed == ASSUME IInv, LockedForServed PROVE OpenOrdersAreBacked
<1>. SUFFICES ASSUME NEW i \in Users \X Currencies
              PROVE  /\ SumFunctionOnSet(reserved, OpenOrders(i)) <=
                          LockedOf(i) + IF LockedOf(i) < Exact THEN 0
                                        ELSE Spacing * Cardinality(Reservations(i))
                     /\ LockedOf(i) <= Ledger!Before(i, i[1], i[2]).balance
  BY DEF OpenOrdersAreBacked
<1>1. /\ OpenOrders(i) \in SUBSET Reservations(i)
      /\ \A o \in Reservations(i) : reserved[o] \in Nat
  BY DEF IInv, TypeOK, RowAtTheEnd, OpenOrders, Reservations
<1>2. /\ IsFiniteSet(Reservations(i))
      /\ Backs(LockedOf(i), Reserved(i), Cardinality(Reservations(i)))
  BY DEF LockedForServed
<1>3. /\ SumFunctionOnSet(reserved, OpenOrders(i)) <= Reserved(i)
      /\ SumFunctionOnSet(reserved, OpenOrders(i)) \in Int /\ Reserved(i) \in Int
  <2>1. IsFiniteSet(OpenOrders(i))
    BY <1>1, <1>2, FS_Subset
  <2>. QED  BY <1>1, <1>2, <2>1, SumOfPart, SumType DEF Reserved
<1>4. LockedOf(i) <= Ledger!Before(i, i[1], i[2]).balance /\ LockedOf(i) \in Nat
  BY DEF IInv, TypeOK, Ledger!TypeOK, WalletsCoverLocks, Covered, LockedOf, Ledger!Before,
         Ledger!Exists, Opened, Ledger!Opened, Ledger!Wallet
<1>5. Spacing * Cardinality(Reservations(i)) \in Nat
  BY <1>2, FS_CardinalityType, FundsAssumption DEF FundsAssumption
<1>. QED  BY <1>2, <1>3, <1>4, <1>5 DEF Backs

(* The invariant of the books, on top of the one above.                    *)
THEOREM BooksInvariance == Spec => []LockedForServed
  BY Invariance, InitLockedForServed, NextLockedForServed, PTL DEF Spec

(* However calls fail and answers get lost between the two services, the   *)
(* open orders of a user never claim more than the wallet service has      *)
(* locked for them, nor is more locked than the wallet holds.              *)
THEOREM OrdersAreBacked == Spec => []OpenOrdersAreBacked
  BY Invariance, BooksInvariance, BackedWhenServed, PTL
===========================================================================
