----------------------- MODULE WalletService_proofs -----------------------
(***************************************************************************)
(* Proofs about WalletService, for any users, currencies, calls, charges   *)
(* and percentages: the inductive invariant IInv, the safety properties it *)
(* implies, and the refinement of WalletLedger.                            *)
(***************************************************************************)
EXTENDS WalletService, Funds_proofs

Working(c) == pc[c] \in {"update", "commit"}

\* The row of a call appears no sooner than the call's own commit.
RowIsOfADoneCall == \A c \in Calls : Exists(c) => pc[c] = "done"

\* A call that has loaded a row holds its lock until its transaction ends.
LockIsHeld == \A c \in Calls : Working(c) => lock[cur[c]] = c

\* The row a call works on has the call's key, or is its own new one.
RowHasKey ==
  \A c \in Calls : Working(c) =>
    IF Exists(cur[c]) THEN HasKey(wallets[cur[c]], req[c]) ELSE cur[c] = c

\* A row lock is held by a call in its transaction, and one that is still
\* locking rows holds rows of its key only.
LocksAreForTheKey ==
  \A c \in Calls, i \in Calls : lock[i] = c =>
    /\ pc[c] \in {"lock", "update", "commit"}
    /\ pc[c] = "lock" => i \in Matching(c)

\* It waits for a row of its key that it does not hold, and has others to go.
WaitsForOthers ==
  \A c \in Calls : pc[c] = "lock" =>
    /\ cur[c] \in Matching(c) /\ lock[cur[c]] # c
    /\ todo[c] \subseteq Matching(c) \ {cur[c]}
    /\ \A i \in todo[c] : lock[i] # c

\* What the columns hold has been through toNumber().
StoredRow(w) == Stored(w.balance) /\ Stored(w.locked)

RowsAreStored == \A i \in Calls : Exists(i) => StoredRow(wallets[i])

\* Nothing has moved before the save, and the save moves it in one column.
MovedOnSave ==
  \A c \in Calls : pc[c] \in {"idle", "select", "lock", "insert", "update"} =>
    moved[c] = 0

Charged(w, n) == [w EXCEPT !.balance = ToNumber((@ + n) * Whole)]

Reserved(w, x) == [w EXCEPT !.locked = ToNumber(@ * Whole + x)]

Changed(c) ==
  IF req[c].op = "charge"
  THEN entity[c] = Charged(Base(c), moved[c])
  ELSE \E x \in 0 .. Available(Base(c)) * Whole :
         entity[c] = Reserved(Base(c), x) /\ moved[c] = ToNumber(x)

SavedIsOneChange == \A c \in Calls : pc[c] = "commit" => Changed(c)

\* A percentage that is not valid never gets past the first test.
PercentIsValid ==
  \A c \in Calls : pc[c] \notin {"idle", "done"} => OpensTx(req[c])

IInv ==
  /\ TypeOK
  /\ RowIsOfADoneCall
  /\ LockIsHeld
  /\ LocksAreForTheKey
  /\ WaitsForOthers
  /\ RowHasKey
  /\ RowsAreStored
  /\ LoadedRowIsCurrent
  /\ MovedOnSave
  /\ SavedIsOneChange
  /\ PercentIsValid
  /\ LockedWithinBalance

----------------------------------------------------------------------------
(* The row a call starts from is a wallet with no more locked than held,   *)
(* and both are as toNumber() leaves them.                                 *)
LEMMA BaseIsWallet ==
  ASSUME IInv, NEW c \in Calls, Working(c)
  PROVE  /\ Base(c) \in Wallet
         /\ StoredRow(Base(c))
         /\ Base(c).locked <= Base(c).balance
         /\ HasKey(Base(c), req[c])
<1>1. CASE Exists(cur[c])
  BY <1>1 DEF IInv, TypeOK, RowHasKey, LockedWithinBalance, RowsAreStored, Base, Exists
<1>2. CASE ~Exists(cur[c])
  <2>1. req[c].userId \in Users /\ CurrencyToUse(req[c]) \in Currencies
    BY ConstantsAssumption
    DEF IInv, TypeOK, Request, ChargeRequest, LockRequest, CurrencyToUse
  <2>2. Stored(0)
    BY FundsAssumption, ToNumberNat
  <2>. QED  BY <1>2, <2>1, <2>2 DEF Base, Opened, Wallet, HasKey, StoredRow
<1>. QED  BY <1>1, <1>2

LEMMA InitIInv == Init => IInv
  BY ConstantsAssumption
  DEF Init, IInv, TypeOK, RowIsOfADoneCall, LockIsHeld, LocksAreForTheKey,
      WaitsForOthers, RowHasKey, RowsAreStored, MovedOnSave, LoadedRowIsCurrent,
      SavedIsOneChange, PercentIsValid, LockedWithinBalance, Exists, Working

\* What a step keeps when it changes no row and no request.
LEMMA RowsKept ==
  ASSUME UNCHANGED <<wallets, req>>
  PROVE  /\ \A i : Exists(i)' = Exists(i)
         /\ \A d : Matching(d)' = Matching(d)
         /\ LockedWithinBalance' = LockedWithinBalance
         /\ RowsAreStored' = RowsAreStored
  BY DEF Exists, Matching, HasKey, CurrencyToUse, LockedWithinBalance, RowsAreStored,
         StoredRow

\* What it keeps for a call whose row, entity and amount it leaves alone.
LEMMA BaseKept ==
  ASSUME UNCHANGED <<wallets, req>>, NEW d, cur'[d] = cur[d]
  PROVE  /\ Base(d)' = Base(d)
         /\ entity'[d] = entity[d] /\ moved'[d] = moved[d] => Changed(d)' = Changed(d)
  BY DEF Base, Exists, CurrencyToUse, Changed, Available, Charged, Reserved

(* The steps that only move a call on: no row, lock or entity changes.     *)
LEMMA QuietStep ==
  ASSUME IInv, NEW c \in Calls, RejectPercent(c) \/ Begin(c) \/ MissWallet(c)
  PROVE  IInv'
<1>. USE DEF IInv, TypeOK
<1>. UNCHANGED <<wallets, lock, req, cur, todo, entity, moved>>
  BY DEF RejectPercent, Begin, MissWallet
<1>1. /\ pc' \in [Calls -> {"idle", "select", "lock", "insert", "update", "commit", "done"}]
      /\ \A d \in Calls : d # c => pc'[d] = pc[d]
      /\ pc[c] \in {"idle", "select"}
      /\ pc'[c] \in {"select", "insert", "done"}
      /\ pc'[c] # "done" => OpensTx(req[c])
  BY DEF RejectPercent, Begin, MissWallet, Goto, PercentIsValid
<1>2. TypeOK'
  BY <1>1 DEF RejectPercent, Begin, MissWallet
<1>3. \A d \in Calls : /\ Working(d)' = Working(d)
                       /\ pc'[d] = "lock" <=> pc[d] = "lock"
                       /\ pc'[d] = "update" <=> pc[d] = "update"
                       /\ pc'[d] = "commit" <=> pc[d] = "commit"
  BY <1>1 DEF Working
<1>4. RowIsOfADoneCall'
  BY <1>1 DEF RowIsOfADoneCall, Exists
<1>5. LockIsHeld' /\ RowHasKey'
  BY <1>3 DEF LockIsHeld, RowHasKey, Exists, HasKey, CurrencyToUse
<1>6. LocksAreForTheKey' /\ WaitsForOthers'
  BY <1>1, <1>3, RowsKept DEF LocksAreForTheKey, WaitsForOthers
<1>7. LoadedRowIsCurrent' /\ SavedIsOneChange'
  BY <1>3, BaseKept DEF LoadedRowIsCurrent, SavedIsOneChange
<1>8. MovedOnSave' /\ PercentIsValid'
  BY <1>1 DEF MovedOnSave, PercentIsValid
<1>9. LockedWithinBalance' /\ RowsAreStored'
  BY RowsKept
<1>. QED  BY <1>2, <1>4, <1>5, <1>6, <1>7, <1>8, <1>9

(* A SELECT ... FOR UPDATE starts with no lock.                            *)
LEMMA ScanRowsStep ==
  ASSUME IInv, NEW c \in Calls, ScanRows(c)
  PROVE  IInv'
<1>. USE DEF IInv, TypeOK
<1>1. PICK i \in Matching(c) : /\ cur' = [cur EXCEPT ![c] = i]
                               /\ todo' = [todo EXCEPT ![c] = Matching(c) \ {i}]
  BY DEF ScanRows
<1>2. /\ pc[c] = "select" /\ pc' = [pc EXCEPT ![c] = "lock"]
      /\ UNCHANGED <<wallets, lock, req, entity, moved, reply>>
  BY DEF ScanRows, Goto
<1>3. i \in Calls /\ Matching(c) \subseteq Calls
  BY DEF Matching
<1>4. TypeOK'
  BY <1>1, <1>2, <1>3
<1>5. RowIsOfADoneCall' /\ MovedOnSave' /\ PercentIsValid'
  BY <1>2 DEF RowIsOfADoneCall, Exists, MovedOnSave, PercentIsValid
<1>6. LockIsHeld' /\ RowHasKey'
  BY <1>1, <1>2 DEF LockIsHeld, RowHasKey, Working, Exists, HasKey, CurrencyToUse
<1>7. LocksAreForTheKey'
  BY <1>2, RowsKept DEF LocksAreForTheKey
<1>8. WaitsForOthers'
  <2>1. \A j \in Calls : lock[j] # c
    BY <1>2 DEF LocksAreForTheKey
  <2>. QED  BY <1>1, <1>2, <1>3, <2>1, RowsKept DEF WaitsForOthers
<1>9. LoadedRowIsCurrent' /\ SavedIsOneChange'
  BY <1>1, <1>2, BaseKept DEF LoadedRowIsCurrent, SavedIsOneChange
<1>10. LockedWithinBalance' /\ RowsAreStored'
  BY <1>2, RowsKept
<1>. QED  BY <1>4, <1>5, <1>6, <1>7, <1>8, <1>9, <1>10

(* It takes a lock that nobody holds, and goes on to the next row ...      *)
LEMMA LockRowStep ==
  ASSUME IInv, NEW c \in Calls, LockRow(c)
  PROVE  IInv'
<1>. USE DEF IInv, TypeOK
<1>1. PICK i \in todo[c] : /\ cur' = [cur EXCEPT ![c] = i]
                           /\ todo' = [todo EXCEPT ![c] = @ \ {i}]
  BY DEF LockRow
<1>2. /\ pc[c] = "lock" /\ lock[cur[c]] = NoCall
      /\ lock' = [lock EXCEPT ![cur[c]] = c]
      /\ UNCHANGED <<wallets, pc, req, entity, moved, reply>>
  BY DEF LockRow, TakeLock
<1>3. i \in Calls
  OBVIOUS
<1>4. TypeOK'
  BY <1>1, <1>2, <1>3
<1>5. RowIsOfADoneCall' /\ MovedOnSave' /\ PercentIsValid'
  BY <1>2 DEF RowIsOfADoneCall, Exists, MovedOnSave, PercentIsValid
<1>6. LockIsHeld'
  BY <1>1, <1>2, ConstantsAssumption DEF LockIsHeld, Working
<1>7. RowHasKey'
  BY <1>1, <1>2 DEF RowHasKey, Working, Exists, HasKey, CurrencyToUse
<1>8. LocksAreForTheKey'
  BY <1>2, RowsKept DEF LocksAreForTheKey, WaitsForOthers
<1>9. WaitsForOthers'
  <2>. SUFFICES ASSUME NEW d \in Calls, pc[d] = "lock"
                PROVE  /\ cur'[d] \in Matching(d) /\ lock'[cur'[d]] # d
                       /\ todo'[d] \subseteq Matching(d) \ {cur'[d]}
                       /\ \A j \in todo'[d] : lock'[j] # d
    BY <1>2, RowsKept DEF WaitsForOthers
  <2>1. /\ cur[d] \in Matching(d) /\ lock[cur[d]] # d
        /\ todo[d] \subseteq Matching(d) \ {cur[d]}
        /\ \A j \in todo[d] : lock[j] # d
    BY DEF WaitsForOthers
  <2>2. CASE d = c
    BY <2>1, <2>2, <1>1, <1>2, <1>3
  <2>3. CASE d # c
    BY <2>1, <2>3, <1>1, <1>2
  <2>. QED  BY <2>2, <2>3
<1>10. LoadedRowIsCurrent' /\ SavedIsOneChange'
  BY <1>1, <1>2, BaseKept DEF LoadedRowIsCurrent, SavedIsOneChange
<1>11. LockedWithinBalance' /\ RowsAreStored'
  BY <1>2, RowsKept
<1>. QED  BY <1>4, <1>5, <1>6, <1>7, <1>8, <1>9, <1>10, <1>11

(* ... or returns the rows, each locked and of the call's key.             *)
LEMMA LockLastRowStep ==
  ASSUME IInv, NEW c \in Calls, LockLastRow(c)
  PROVE  IInv'
<1>. USE DEF IInv, TypeOK
<1>1. PICK i \in Calls : /\ lock'[i] = c
                         /\ cur' = [cur EXCEPT ![c] = i]
                         /\ entity' = [entity EXCEPT ![c] = wallets[i]]
  BY DEF LockLastRow
<1>2. /\ pc[c] = "lock" /\ pc' = [pc EXCEPT ![c] = "update"]
      /\ lock[cur[c]] = NoCall /\ lock' = [lock EXCEPT ![cur[c]] = c]
      /\ UNCHANGED <<wallets, req, todo, moved, reply>>
  BY DEF LockLastRow, TakeLock, Goto
<1>3. Exists(i) /\ HasKey(wallets[i], req[c])
  BY <1>1, <1>2 DEF Matching, LocksAreForTheKey, WaitsForOthers
<1>4. TypeOK'
  BY <1>1, <1>2, <1>3 DEF Exists
<1>5. RowIsOfADoneCall' /\ MovedOnSave' /\ PercentIsValid'
  BY <1>2 DEF RowIsOfADoneCall, Exists, MovedOnSave, PercentIsValid
<1>6. LockIsHeld'
  BY <1>1, <1>2, ConstantsAssumption DEF LockIsHeld, Working
<1>7. RowHasKey'
  BY <1>1, <1>2, <1>3 DEF RowHasKey, Working, Exists, HasKey, CurrencyToUse
<1>8. LocksAreForTheKey'
  BY <1>2, RowsKept DEF LocksAreForTheKey
<1>9. WaitsForOthers'
  BY <1>1, <1>2, RowsKept DEF WaitsForOthers
<1>10. LoadedRowIsCurrent'
  BY <1>1, <1>2, <1>3, BaseKept DEF LoadedRowIsCurrent, Base, Exists
<1>11. SavedIsOneChange'
  BY <1>1, <1>2, BaseKept DEF SavedIsOneChange
<1>12. LockedWithinBalance' /\ RowsAreStored'
  BY <1>2, RowsKept
<1>. QED  BY <1>4, <1>5, <1>6, <1>7, <1>8, <1>9, <1>10, <1>11, <1>12

LEMMA InsertWalletStep ==
  ASSUME IInv, NEW c \in Calls, InsertWallet(c)
  PROVE  IInv'
<1>. USE DEF IInv, TypeOK
<1>1. /\ pc[c] = "insert" /\ pc' = [pc EXCEPT ![c] = "update"]
      /\ UNCHANGED <<wallets, req, todo, moved, reply>>
      /\ cur' = [cur EXCEPT ![c] = c]
      /\ lock' = [lock EXCEPT ![c] = c]
      /\ entity' = [entity EXCEPT ![c] =
                      Opened(req[c].userId, CurrencyToUse(req[c]))]
  BY DEF InsertWallet, Goto
<1>2. ~Exists(c)
  BY <1>1 DEF RowIsOfADoneCall
<1>3. Opened(req[c].userId, CurrencyToUse(req[c])) \in Wallet
  BY ConstantsAssumption
  DEF Request, ChargeRequest, LockRequest, CurrencyToUse, Opened, Wallet
<1>4. TypeOK'
  BY <1>1, <1>3
<1>5. RowIsOfADoneCall' /\ MovedOnSave' /\ PercentIsValid'
  BY <1>1 DEF RowIsOfADoneCall, Exists, MovedOnSave, PercentIsValid
<1>6. \A d \in Calls : d # c /\ Working(d) => cur[d] # c
  BY <1>2 DEF RowHasKey
<1>7. LockIsHeld'
  BY <1>1, <1>6 DEF LockIsHeld, Working
<1>8. RowHasKey'
  BY <1>1, <1>2 DEF RowHasKey, Working, Exists, HasKey, CurrencyToUse
<1>9. LocksAreForTheKey'
  BY <1>1, RowsKept DEF LocksAreForTheKey
<1>10. WaitsForOthers'
  <2>1. \A d \in Calls : c \notin Matching(d)
    BY <1>2 DEF Matching
  <2>. QED  BY <1>1, <2>1, RowsKept DEF WaitsForOthers
<1>11. LoadedRowIsCurrent'
  BY <1>1, <1>2, BaseKept DEF LoadedRowIsCurrent, Base, Exists, CurrencyToUse
<1>12. SavedIsOneChange'
  BY <1>1, BaseKept DEF SavedIsOneChange
<1>13. LockedWithinBalance' /\ RowsAreStored'
  BY <1>1, RowsKept
<1>. QED  BY <1>4, <1>5, <1>7, <1>8, <1>9, <1>10, <1>11, <1>12, <1>13

(* The row with one change is a wallet like the row before it, with more   *)
(* in one column.                                                          *)
LEMMA OneCharge ==
  ASSUME NEW w \in Wallet, StoredRow(w), w.locked <= w.balance, NEW n \in Nat
  PROVE  /\ Charged(w, n) \in Wallet /\ StoredRow(Charged(w, n))
         /\ Charged(w, n).locked = w.locked /\ w.locked <= Charged(w, n).balance
         /\ \A q : HasKey(Charged(w, n), q) = HasKey(w, q)
         /\ Grows(w.balance, Charged(w, n).balance, n)
<1>. DEFINE b == w.balance
            m == ToNumber((b + n) * Whole)
<1>1. b \in Nat /\ Stored(b) /\ w.locked \in Nat
  BY DEF Wallet, StoredRow
<1>2. m \in Nat /\ Stored(m) /\ Grows(b, m, n)
  BY <1>1, FundsAssumption, ChargeGrows
<1>3. Charged(w, n) = [w EXCEPT !.balance = m]
  BY DEF Charged, Wallet
<1>. HIDE DEF m
<1>. QED  BY <1>1, <1>2, <1>3 DEF Wallet, StoredRow, HasKey, Grows

LEMMA OneReservation ==
  ASSUME NEW w \in Wallet, StoredRow(w), w.locked <= w.balance,
         NEW x \in 0 .. Available(w) * Whole
  PROVE  /\ Reserved(w, x) \in Wallet /\ StoredRow(Reserved(w, x))
         /\ Reserved(w, x).balance = w.balance /\ Reserved(w, x).locked <= w.balance
         /\ \A q : HasKey(Reserved(w, x), q) = HasKey(w, q)
         /\ ToNumber(x) \in Nat
         /\ Grows(w.locked, Reserved(w, x).locked, ToNumber(x))
<1>. DEFINE b == w.balance
            l == w.locked
            m == ToNumber(l * Whole + x)
<1>1. b \in Nat /\ Stored(b) /\ l \in Nat /\ Stored(l) /\ l <= b
  BY DEF Wallet, StoredRow
<1>2. x \in 0 .. (b - l) * Whole
  BY DEF Available
<1>3. /\ m \in Nat /\ Stored(m) /\ m <= b
      /\ ToNumber(x) \in Nat /\ Grows(l, m, ToNumber(x))
  BY <1>1, <1>2, FundsAssumption, ReserveGrows
<1>4. Reserved(w, x) = [w EXCEPT !.locked = m]
  BY DEF Reserved, Wallet
<1>. HIDE DEF m
<1>. QED  BY <1>1, <1>3, <1>4 DEF Wallet, StoredRow, HasKey

(* The save turns the loaded row into the row with one change.             *)
LEMMA SaveStep ==
  ASSUME IInv, NEW c \in Calls,
         AddToBalance(c) \/ ReserveShare(c) \/ RefuseShare(c)
  PROVE  IInv'
<1>. USE DEF IInv, TypeOK
<1>1. /\ pc[c] = "update" /\ pc' = [pc EXCEPT ![c] = "commit"]
      /\ UNCHANGED <<wallets, lock, req, cur, todo>>
  BY DEF AddToBalance, ReserveShare, RefuseShare, Goto
<1>. DEFINE w == entity[c]
<1>2. /\ w = Base(c) /\ moved[c] = 0 /\ Base(c)' = Base(c)
      /\ w \in Wallet /\ StoredRow(w) /\ w.locked <= w.balance
  BY <1>1, BaseIsWallet, BaseKept DEF LoadedRowIsCurrent, MovedOnSave, Working
<1>3. /\ \E v \in Wallet, n \in Nat : /\ entity' = [entity EXCEPT ![c] = v]
                                     /\ moved' = [moved EXCEPT ![c] = n]
      /\ Changed(c)'
  <2>1. CASE AddToBalance(c)
    <3>1. req[c].op = "charge" /\ req[c].amount \in Nat
      BY <2>1, ConstantsAssumption
      DEF AddToBalance, Request, ChargeRequest, LockRequest
    <3>. DEFINE n == req[c].amount
    <3>2. /\ entity' = [entity EXCEPT ![c] = Charged(w, n)]
          /\ moved' = [moved EXCEPT ![c] = n]
      BY <2>1 DEF AddToBalance, Charged
    <3>3. Charged(w, n) \in Wallet
      BY <1>2, <3>1, OneCharge
    <3>. QED  BY <3>1, <3>2, <3>3, <1>1, <1>2 DEF Changed
  <2>2. CASE ReserveShare(c)
    <3>. DEFINE x == ShareOf(Available(w), req[c].percent)
    <3>1. req[c].op = "lock" /\ req[c].percent \in Int /\ ValidPercent(req[c].percent)
      BY <2>2, <1>1, ConstantsAssumption
      DEF ReserveShare, Request, ChargeRequest, LockRequest, PercentIsValid, OpensTx
    <3>2. Available(w) \in Nat
      BY <1>2 DEF Available, Wallet
    <3>3. x \in 0 .. Available(w) * Whole
      BY <3>1, <3>2, FundsAssumption, ShareBounds
    <3>4. /\ entity' = [entity EXCEPT ![c] = Reserved(w, x)]
          /\ moved' = [moved EXCEPT ![c] = ToNumber(x)]
      BY <2>2 DEF ReserveShare, Reserved
    <3>. HIDE DEF x
    <3>5. Reserved(w, x) \in Wallet /\ ToNumber(x) \in Nat
      BY <1>2, <3>3, OneReservation
    <3>. QED  BY <3>1, <3>3, <3>4, <3>5, <1>1, <1>2 DEF Changed
  <2>3. CASE RefuseShare(c)
    <3>1. req[c].op = "lock" /\ entity' = entity /\ moved' = moved
      BY <2>3 DEF RefuseShare
    <3>2. Whole \in Nat \ {0} /\ w.locked \in Nat /\ Available(w) \in Nat
      BY <1>2, FundsAssumption DEF FundsAssumption, Wallet, Available
    <3>3. 0 \in 0 .. Available(w) * Whole /\ w.locked * Whole + 0 = w.locked * Whole
      BY <3>2
    <3>4. Reserved(w, 0) = w /\ ToNumber(0) = 0
      <4>1. ToNumber(0 * Whole) = 0 /\ 0 * Whole = 0
        BY <3>2, FundsAssumption, ToNumberNat DEF Stored
      <4>. QED  BY <3>3, <4>1, <1>2 DEF Reserved, StoredRow, Stored, Wallet
    <3>. QED  BY <3>1, <3>3, <3>4, <1>1, <1>2 DEF Changed
  <2>. QED  BY <2>1, <2>2, <2>3
<1>. HIDE DEF w
<1>4. TypeOK'
  BY <1>1, <1>3 DEF AddToBalance, ReserveShare, RefuseShare
<1>5. RowIsOfADoneCall' /\ MovedOnSave' /\ PercentIsValid'
  BY <1>1, <1>3 DEF RowIsOfADoneCall, Exists, MovedOnSave, PercentIsValid
<1>6. LockIsHeld' /\ RowHasKey'
  BY <1>1 DEF LockIsHeld, RowHasKey, Working, Exists, HasKey, CurrencyToUse
<1>7. LocksAreForTheKey' /\ WaitsForOthers'
  BY <1>1, RowsKept DEF LocksAreForTheKey, WaitsForOthers
<1>8. LoadedRowIsCurrent'
  BY <1>1, <1>3, BaseKept DEF LoadedRowIsCurrent
<1>9. SavedIsOneChange'
  BY <1>1, <1>3, BaseKept DEF SavedIsOneChange
<1>10. LockedWithinBalance' /\ RowsAreStored'
  BY <1>1, RowsKept
<1>. QED  BY <1>4, <1>5, <1>6, <1>7, <1>8, <1>9, <1>10

(* What a commit writes is the row as it was with one change applied.      *)
LEMMA CommittedRow ==
  ASSUME IInv, NEW c \in Calls, pc[c] = "commit"
  PROVE  /\ Changed(c)
         /\ entity[c] \in Wallet
         /\ StoredRow(entity[c])
         /\ entity[c].locked <= entity[c].balance
         /\ HasKey(entity[c], req[c])
         /\ \A op \in {"charge", "lock"} :
              IF req[c].op = op
              THEN Grows(Base(c)[Column(op)], entity[c][Column(op)], moved[c])
              ELSE entity[c][Column(op)] = Base(c)[Column(op)]
<1>. USE DEF IInv, TypeOK
<1>1. /\ Base(c) \in Wallet /\ Base(c).locked <= Base(c).balance
      /\ StoredRow(Base(c)) /\ HasKey(Base(c), req[c])
  BY BaseIsWallet DEF Working
<1>2. Changed(c) /\ moved[c] \in Nat /\ req[c].op \in {"charge", "lock"}
  BY DEF SavedIsOneChange, Request, ChargeRequest, LockRequest
<1>3. CASE req[c].op = "charge"
  <2>1. entity[c] = Charged(Base(c), moved[c])
    BY <1>2, <1>3 DEF Changed
  <2>. QED  BY <1>1, <1>2, <1>3, <2>1, OneCharge DEF Column
<1>4. CASE req[c].op # "charge"
  <2>1. PICK x \in 0 .. Available(Base(c)) * Whole :
          entity[c] = Reserved(Base(c), x) /\ moved[c] = ToNumber(x)
    BY <1>2, <1>4 DEF Changed
  <2>. QED  BY <1>1, <1>2, <1>4, <2>1, OneReservation DEF Column
<1>. QED  BY <1>3, <1>4

(* A commit leaves every row there is, and its key.                        *)
LEMMA CommitKeepsRows ==
  ASSUME IInv, NEW c \in Calls, CommitRow(c), NEW d \in Calls
  PROVE  Matching(d) \subseteq Matching(d)'
<1>. USE DEF IInv, TypeOK
<1>1. /\ pc[c] = "commit" /\ req' = req
      /\ wallets' = [wallets EXCEPT ![cur[c]] = entity[c]]
  BY DEF CommitRow, Goto
<1>2. entity[c] # NoWallet /\ HasKey(entity[c], req[c])
  BY <1>1, CommittedRow, ConstantsAssumption
<1>3. Exists(cur[c]) => HasKey(wallets[cur[c]], req[c])
  BY <1>1 DEF RowHasKey, Working
<1>. QED  BY <1>1, <1>2, <1>3 DEF Matching, HasKey, Exists, CurrencyToUse

LEMMA CommitStep ==
  ASSUME IInv, NEW c \in Calls, Commit(c) \/ CommitUnacknowledged(c)
  PROVE  IInv'
<1>. USE DEF IInv, TypeOK
<1>1. /\ pc[c] = "commit" /\ pc' = [pc EXCEPT ![c] = "done"]
      /\ wallets' = [wallets EXCEPT ![cur[c]] = entity[c]]
      /\ lock' = [i \in Calls |-> IF lock[i] = c THEN NoCall ELSE lock[i]]
      /\ UNCHANGED <<req, cur, todo, entity, moved>>
  BY DEF Commit, CommitUnacknowledged, CommitRow, Goto, Unlocked
<1>2. /\ entity[c] \in Wallet /\ StoredRow(entity[c])
      /\ entity[c].locked <= entity[c].balance
  BY <1>1, CommittedRow
<1>3. \A d \in Calls : d # c /\ Working(d) => cur[d] # cur[c]
  BY <1>1 DEF LockIsHeld, Working
<1>4. /\ wallets' \in [Calls -> Wallet \cup {NoWallet}]
      /\ Exists(cur[c])' /\ wallets'[cur[c]] = entity[c]
      /\ \A i \in Calls : i # cur[c] => wallets'[i] = wallets[i]
  BY <1>1, <1>2, ConstantsAssumption DEF Exists
<1>5. TypeOK'
  BY <1>1, <1>4 DEF Commit, CommitUnacknowledged
<1>6. RowIsOfADoneCall'
  BY <1>1, <1>4 DEF RowIsOfADoneCall, RowHasKey, Working, Exists
<1>7. LockIsHeld'
  BY <1>1 DEF LockIsHeld, Working
<1>8. LocksAreForTheKey' /\ WaitsForOthers'
  <2>1. \A d \in Calls : Matching(d) \subseteq Matching(d)'
    BY CommitKeepsRows DEF Commit, CommitUnacknowledged
  <2>. QED  BY <1>1, <2>1, ConstantsAssumption DEF LocksAreForTheKey, WaitsForOthers
<1>9. \A d \in Calls : Working(d)' =>
        /\ d # c /\ Working(d) /\ pc'[d] = pc[d]
        /\ Exists(cur[d])' = Exists(cur[d]) /\ wallets'[cur[d]] = wallets[cur[d]]
  BY <1>1, <1>3, <1>4 DEF Working, Exists
<1>10. \A d \in Calls : Working(d)' => Base(d)' = Base(d) /\ Changed(d)' = Changed(d)
  <2>. SUFFICES ASSUME NEW d \in Calls, Working(d)'
                PROVE  Base(d)' = Base(d) /\ Changed(d)' = Changed(d)
    OBVIOUS
  <2>1. Base(d)' = Base(d)
    BY <1>1, <1>9 DEF Base, CurrencyToUse
  <2>. QED  BY <2>1, <1>1 DEF Changed, Available, Charged, Reserved
<1>11. RowHasKey'
  BY <1>1, <1>9 DEF RowHasKey, HasKey, CurrencyToUse
<1>12. LoadedRowIsCurrent' /\ SavedIsOneChange'
  BY <1>1, <1>9, <1>10 DEF LoadedRowIsCurrent, SavedIsOneChange, Working
<1>13. MovedOnSave' /\ PercentIsValid'
  BY <1>1 DEF MovedOnSave, PercentIsValid
<1>14. LockedWithinBalance' /\ RowsAreStored'
  BY <1>2, <1>4 DEF LockedWithinBalance, RowsAreStored, StoredRow, Exists
<1>. QED  BY <1>5, <1>6, <1>7, <1>8, <1>11, <1>12, <1>13, <1>14

LEMMA RollbackStep ==
  ASSUME IInv, NEW c \in Calls, Rollback(c)
  PROVE  IInv'
<1>. USE DEF IInv, TypeOK
<1>1. /\ pc[c] # "done" /\ pc' = [pc EXCEPT ![c] = "done"]
      /\ lock' = [i \in Calls |-> IF lock[i] = c THEN NoCall ELSE lock[i]]
      /\ todo' = [todo EXCEPT ![c] = {}]
      /\ moved' = [moved EXCEPT ![c] = 0]
      /\ reply' = [reply EXCEPT ![c] = "error"]
      /\ UNCHANGED <<wallets, req, cur, entity>>
  BY DEF Rollback, Unlocked
<1>2. TypeOK'
  BY <1>1
<1>3. RowIsOfADoneCall' /\ MovedOnSave' /\ PercentIsValid'
  BY <1>1 DEF RowIsOfADoneCall, Exists, MovedOnSave, PercentIsValid
<1>4. LockIsHeld' /\ RowHasKey'
  BY <1>1 DEF LockIsHeld, RowHasKey, Working, Exists, HasKey, CurrencyToUse
<1>5. LocksAreForTheKey' /\ WaitsForOthers'
  BY <1>1, RowsKept, ConstantsAssumption DEF LocksAreForTheKey, WaitsForOthers
<1>6. LoadedRowIsCurrent'
  BY <1>1, BaseKept DEF LoadedRowIsCurrent
<1>7. SavedIsOneChange'
  BY <1>1, BaseKept DEF SavedIsOneChange
<1>8. LockedWithinBalance' /\ RowsAreStored'
  BY <1>1, RowsKept
<1>. QED  BY <1>2, <1>3, <1>4, <1>5, <1>6, <1>7, <1>8

LEMMA StutterStep ==
  ASSUME IInv, UNCHANGED vars
  PROVE  IInv'
<1>. USE DEF IInv, TypeOK, vars
<1>1. TypeOK' /\ RowIsOfADoneCall' /\ LockedWithinBalance' /\ RowsAreStored'
  BY RowsKept DEF RowIsOfADoneCall
<1>2. LockIsHeld' /\ RowHasKey' /\ MovedOnSave' /\ PercentIsValid'
  BY DEF LockIsHeld, RowHasKey, MovedOnSave, PercentIsValid, Working, Exists,
         HasKey, CurrencyToUse
<1>3. LocksAreForTheKey' /\ WaitsForOthers'
  BY RowsKept DEF LocksAreForTheKey, WaitsForOthers
<1>4. LoadedRowIsCurrent' /\ SavedIsOneChange'
  BY BaseKept DEF LoadedRowIsCurrent, SavedIsOneChange
<1>. QED  BY <1>1, <1>2, <1>3, <1>4

LEMMA NextIInv == IInv /\ [Next]_vars => IInv'
<1>. SUFFICES ASSUME IInv, [Next]_vars PROVE IInv'
  OBVIOUS
<1>1. CASE \E c \in Calls : Step(c) \/ CommitUnacknowledged(c) \/ Rollback(c)
  <2>. PICK c \in Calls : Step(c) \/ CommitUnacknowledged(c) \/ Rollback(c)
    BY <1>1
  <2>1. CASE RejectPercent(c) \/ Begin(c) \/ MissWallet(c)
    BY <2>1, QuietStep
  <2>2. CASE ScanRows(c) \/ LockRow(c) \/ LockLastRow(c)
    BY <2>2, ScanRowsStep, LockRowStep, LockLastRowStep
  <2>3. CASE InsertWallet(c)
    BY <2>3, InsertWalletStep
  <2>4. CASE AddToBalance(c) \/ ReserveShare(c) \/ RefuseShare(c)
    BY <2>4, SaveStep
  <2>5. CASE Commit(c) \/ CommitUnacknowledged(c)
    BY <2>5, CommitStep
  <2>6. CASE Rollback(c)
    BY <2>6, RollbackStep
  <2>. USE DEF DeadlockVictim
  <2>. QED  BY <2>1, <2>2, <2>3, <2>4, <2>5, <2>6 DEF Step
<1>2. CASE UNCHANGED vars
  BY <1>2, StutterStep
<1>. QED  BY <1>1, <1>2 DEF Next, Finished

(* The inductive invariant holds of every behaviour of the service.        *)
THEOREM Invariance == Spec => []IInv
  BY InitIInv, NextIInv, PTL DEF Spec

(* Every variable of the service keeps its type: balances and locked       *)
(* balances stay natural numbers.                                          *)
THEOREM TypeCorrect == Spec => []TypeOK
<1>1. IInv => TypeOK
  BY DEF IInv
<1>. QED  BY <1>1, Invariance, PTL

(* No interleaving of chargeWallet and lockFunds reserves more than a      *)
(* wallet holds.                                                           *)
THEOREM NeverOverlocked == Spec => []LockedWithinBalance
<1>1. IInv => LockedWithinBalance
  BY DEF IInv
<1>. QED  BY <1>1, Invariance, PTL

(* A transaction computes its change from the committed row: no update of  *)
(* a wallet is lost.                                                       *)
THEOREM NoStaleRow == Spec => []LoadedRowIsCurrent
<1>1. IInv => LoadedRowIsCurrent
  BY DEF IInv
<1>. QED  BY <1>1, Invariance, PTL

----------------------------------------------------------------------------
(* A commit is one change of the ledger: a credit for a charge, and for a  *)
(* lockFunds a reservation (of nothing, when it was refused).              *)
LEMMA CommitIsLedgerChange ==
  ASSUME IInv, NEW c \in Calls, CommitRow(c)
  PROVE  Ledger!Next
<1>. USE DEF IInv, TypeOK
<1>. DEFINE u == req[c].userId
            k == CurrencyToUse(req[c])
            i == cur[c]
<1>1. pc[c] = "commit" /\ wallets' = [wallets EXCEPT ![i] = entity[c]]
  BY DEF CommitRow, Goto
<1>2. i \in Calls /\ u \in Users /\ k \in Currencies
  BY ConstantsAssumption DEF Request, ChargeRequest, LockRequest, CurrencyToUse
<1>3. /\ Changed(c) /\ entity[c] \in Wallet
      /\ Base(c) \in Wallet
      /\ moved[c] \in Nat
      /\ req[c].op = "charge" =>
           Grows(Base(c).balance, entity[c].balance, moved[c])
  BY <1>1, CommittedRow, BaseIsWallet DEF Working, Column
<1>4. Ledger!Before(i, u, k) = Base(c)
  BY DEF Ledger!Before, Ledger!Exists, Ledger!Opened, Base, Exists, Opened
<1>5. Ledger!Usable(i, u, k)
  BY <1>1 DEF Ledger!Usable, Ledger!Exists, Ledger!BelongsTo, RowHasKey, Working,
              Exists, HasKey
<1>6. wallets'[i] = entity[c] /\ wallets'[i] # NoWallet
  BY <1>1, <1>2, <1>3, ConstantsAssumption
<1>7. \A n : Ledger!ToNumber(n) = ToNumber(n)
  BY DEF Ledger!ToNumber, Ledger!Grain, Ledger!Round, ToNumber, Grain, Round
<1>8. Ledger!Change(i, u, k)
  <2>1. CASE req[c].op = "charge"
    <3>1. entity[c] = Charged(Base(c), moved[c])
      BY <2>1, <1>3 DEF Changed
    <3>2. moved[c] \in 0 .. wallets'[i].balance + Spacing
      BY <2>1, <1>3, <1>6, FundsAssumption DEF Grows, Wallet, FundsAssumption
    <3>3. Ledger!Credit(i, u, k, moved[c])
      BY <3>1, <1>1, <1>4, <1>5, <1>7 DEF Ledger!Credit, Charged
    <3>. QED  BY <3>2, <3>3, <1>6 DEF Ledger!Change
  <2>2. CASE req[c].op # "charge"
    <3>1. PICK x \in 0 .. Available(Base(c)) * Whole :
            entity[c] = Reserved(Base(c), x)
      BY <2>2, <1>3 DEF Changed
    <3>2. Ledger!Available(Ledger!Before(i, u, k)) = Available(Base(c))
      BY <1>4 DEF Ledger!Available, Available
    <3>3. x <= Available(Base(c)) * Whole
      OBVIOUS
    <3>4. wallets' = [wallets EXCEPT ![i] =
             [Ledger!Before(i, u, k) EXCEPT !.locked = Ledger!ToNumber(@ * Whole + x)]]
      BY <3>1, <1>1, <1>4, <1>7 DEF Reserved
    <3>5. Ledger!Reserve(i, u, k, x)
      BY <3>2, <3>3, <3>4, <1>5 DEF Ledger!Reserve
    <3>. QED  BY <3>2, <3>5, <1>6 DEF Ledger!Change
  <2>. QED  BY <2>1, <2>2
<1>. QED  BY <1>2, <1>8 DEF Ledger!Next

LEMMA StepRefinesLedger == IInv /\ [Next]_vars => [Ledger!Next]_wallets
<1>. SUFFICES ASSUME IInv, [Next]_vars, wallets' # wallets PROVE Ledger!Next
  OBVIOUS
<1>1. PICK c \in Calls : CommitRow(c)
  BY DEF Next, Finished, vars, Step, RejectPercent, Begin, ScanRows, LockRow,
         LockLastRow, DeadlockVictim, MissWallet, InsertWallet, AddToBalance, ReserveShare, RefuseShare, Commit,
         CommitUnacknowledged, Rollback
<1>. QED  BY <1>1, CommitIsLedgerChange

(* The wallet service implements the ledger: what the other services see   *)
(* of its tables is a sequence of openings, credits and reservations, each *)
(* applied to the committed row.                                           *)
THEOREM RefinesLedger == Spec => ImplementsLedger
<1>1. Init => Ledger!Init
  BY DEF Init, Ledger!Init
<1>. QED  BY <1>1, Invariance, StepRefinesLedger, PTL
          DEF Spec, ImplementsLedger, Ledger!Spec

----------------------------------------------------------------------------
(* The books.  Every step of a call but its last leaves both sides of them *)
(* as they are; the last one adds to both, what the row has grown by and   *)
(* what the call says it has moved.                                        *)

\* Both sides are sums over finitely many rows and calls, whatever Calls is.
FiniteBooks ==
  \A u \in Users, k \in Currencies :
    /\ IsFiniteSet(Rows(u, k))
    /\ \A op \in {"charge", "lock"} : IsFiniteSet(Ended(u, k, op))

BookKeeping == FiniteBooks /\ BooksBalance

\* One column of the books.
Held(u, k, op) == SumFunctionOnSet(Units(Column(op)), Rows(u, k))

Due(u, k, op) == SumFunctionOnSet(moved, Ended(u, k, op))

AllExact(u, k, op) == \A i \in Rows(u, k) : Units(Column(op))[i] < Exact

BooksOf(u, k, op) ==
  /\ InDrift(Held(u, k, op), Due(u, k, op), Cardinality(Ended(u, k, op)))
  /\ AllExact(u, k, op) => Held(u, k, op) = Due(u, k, op)

LEMMA BooksByColumn ==
  BooksBalance <=> \A u \in Users, k \in Currencies, op \in {"charge", "lock"} :
                     BooksOf(u, k, op)
BY DEF BooksBalance, BooksOf, InDrift, Held, Due, AllExact

Adds(c, u, k, op) == req[c].op = op /\ req[c].userId = u /\ CurrencyToUse(req[c]) = k

LEMMA InitBooks == ASSUME Init PROVE BookKeeping
<1>1. \A u, k, op : Rows(u, k) = {} /\ Ended(u, k, op) = {}
  BY DEF Init, Rows, Ended, Exists
<1>2. Cardinality({}) = 0 /\ Spacing * 0 = 0
  BY FS_EmptySet, FundsAssumption DEF FundsAssumption
<1>3. \A u \in Users, k \in Currencies, op \in {"charge", "lock"} : BooksOf(u, k, op)
  BY <1>1, <1>2, SumEmpty DEF BooksOf, Held, Due, InDrift
<1>. QED  BY <1>1, <1>3, FS_EmptySet, BooksByColumn DEF BookKeeping, FiniteBooks

(* A step of a call that had not ended, and whether it ends it.            *)
StepOf(c) ==
  /\ pc[c] # "done"
  /\ moved'[c] \in Nat
  /\ \A d \in Calls \ {c} : pc'[d] = pc[d] /\ moved'[d] = moved[d]

EndsIn(c, u, k, op) == pc'[c] = "done" /\ Adds(c, u, k, op)

(* The calls that ended, after such a step.                                *)
LEMMA EndedAfterStep ==
  ASSUME IInv, BookKeeping, NEW c \in Calls, StepOf(c), UNCHANGED req,
         NEW u \in Users, NEW k \in Currencies, NEW op \in {"charge", "lock"}
  PROVE  /\ IsFiniteSet(Ended(u, k, op)')
         /\ Due(u, k, op)' = Due(u, k, op)
                              + IF EndsIn(c, u, k, op) THEN moved'[c] ELSE 0
         /\ Cardinality(Ended(u, k, op))' =
              Cardinality(Ended(u, k, op)) + IF EndsIn(c, u, k, op) THEN 1 ELSE 0
<1>. DEFINE S == Ended(u, k, op)
            T == Ended(u, k, op)'
            f == moved
            g == moved'
            n == moved'[c]
            adds == EndsIn(c, u, k, op)
<1>1. /\ T \ {c} = S \ {c} /\ c \notin S
      /\ c \in T <=> adds
  BY DEF Ended, Adds, EndsIn, StepOf, IInv, TypeOK
<1>2. /\ IsFiniteSet(S)
      /\ \A d \in S : f[d] \in Int
      /\ \A d \in T : g[d] \in Int
      /\ \A d \in S \ {c} : g[d] = f[d]
      /\ g[c] = n
  <2>1. IsFiniteSet(S)
    BY DEF BookKeeping, FiniteBooks
  <2>2. S \subseteq Calls /\ T \subseteq Calls
    BY DEF Ended
  <2>3. /\ \A d \in Calls : f[d] \in Int /\ g[d] \in Int
        /\ \A d \in Calls \ {c} : g[d] = f[d]
        /\ g[c] = n
    BY DEF StepOf, IInv, TypeOK
  <2>. HIDE DEF S, T, f, g
  <2>. QED  BY <2>1, <2>2, <2>3
<1>. HIDE DEF S, T, f, g, n, adds
<1>3. /\ IsFiniteSet(T)
      /\ SumFunctionOnSet(g, T) = SumFunctionOnSet(f, S)
                                   - (IF c \in S THEN f[c] ELSE 0)
                                   + (IF c \in T THEN g[c] ELSE 0)
  BY <1>1, <1>2, SumChanges
<1>4. SumFunctionOnSet(f, S) \in Int
  BY <1>2, SumType
<1>5. SumFunctionOnSet(g, T) = SumFunctionOnSet(f, S) + IF adds THEN n ELSE 0
  BY <1>1, <1>2, <1>3, <1>4
<1>6. /\ Cardinality(S) \in Nat
      /\ Cardinality(T) = Cardinality(S) + IF adds THEN 1 ELSE 0
  <2>1. Cardinality(S) \in Nat
    BY <1>2, FS_CardinalityType
  <2>2. CASE adds
    <3>1. T = S \cup {c}
      BY <1>1, <2>2
    <3>. QED  BY <1>1, <1>2, <2>1, <2>2, <3>1, FS_AddElement
  <2>3. CASE ~adds
    <3>1. T \ {c} = T /\ S \ {c} = S
      BY <1>1, <2>3
    <3>2. T = S
      BY <1>1, <3>1
    <3>3. Cardinality(T) = Cardinality(S)
      BY <3>2
    <3>. QED  BY <2>1, <2>3, <3>3
  <2>. QED  BY <2>2, <2>3
<1>. QED  BY <1>3, <1>5, <1>6 DEF S, T, f, g, n, adds, Due

LEMMA RowsUnchanged ==
  ASSUME UNCHANGED wallets
  PROVE  /\ \A u, k, col : Rows(u, k)' = Rows(u, k) /\ Units(col)' = Units(col)
         /\ \A u, k, op : /\ Held(u, k, op)' = Held(u, k, op)
                          /\ AllExact(u, k, op)' = AllExact(u, k, op)
  BY DEF Rows, Units, Exists, Held, AllExact, Column

LEMMA BooksAreSums ==
  ASSUME IInv, BookKeeping,
         NEW u \in Users, NEW k \in Currencies, NEW op \in {"charge", "lock"}
  PROVE  /\ Held(u, k, op) \in Int /\ Due(u, k, op) \in Int
         /\ Cardinality(Ended(u, k, op)) \in Nat
<1>. USE DEF IInv, TypeOK
<1>1. IsFiniteSet(Rows(u, k)) /\ IsFiniteSet(Ended(u, k, op))
  BY DEF BookKeeping, FiniteBooks
<1>2. \A i \in Rows(u, k) : Units(Column(op))[i] \in Int
  <2>. SUFFICES ASSUME NEW i \in Rows(u, k) PROVE Units(Column(op))[i] \in Int
    OBVIOUS
  <2>1. i \in Calls /\ Exists(i) /\ wallets[i] \in Wallet
    BY DEF Rows, Exists
  <2>2. Column(op) = "balance" \/ Column(op) = "locked"
    BY DEF Column
  <2>. QED  BY <2>1, <2>2 DEF Units, Wallet
<1>3. \A d \in Ended(u, k, op) : moved[d] \in Int
  BY DEF Ended
<1>. QED  BY <1>1, <1>2, <1>3, SumType, FS_CardinalityType DEF Held, Due

(* A step that commits no row ends a call only with nothing moved.         *)
LEMMA KeepsBooks ==
  ASSUME IInv, BookKeeping, NEW c \in Calls, UNCHANGED <<wallets, req>>,
         StepOf(c), pc'[c] = "done" => moved'[c] = 0
  PROVE  BookKeeping'
<1>1. ASSUME NEW u \in Users, NEW k \in Currencies, NEW op \in {"charge", "lock"}
      PROVE  /\ IsFiniteSet(Rows(u, k)') /\ IsFiniteSet(Ended(u, k, op)')
             /\ BooksOf(u, k, op)'
  <2>. DEFINE z == IF EndsIn(c, u, k, op) THEN 1 ELSE 0
              held == Held(u, k, op)
              due == Due(u, k, op)
              m == Cardinality(Ended(u, k, op))
  <2>. HIDE DEF z, held, due, m
  <2>1. /\ IsFiniteSet(Ended(u, k, op)')
        /\ Due(u, k, op)' = due + IF EndsIn(c, u, k, op) THEN moved'[c] ELSE 0
        /\ Cardinality(Ended(u, k, op))' = m + z
    BY EndedAfterStep DEF z, due, m
  <2>2. held \in Int /\ due \in Int /\ m \in Nat
    BY BooksAreSums DEF held, due, m
  <2>3. InDrift(held, due, m) /\ (AllExact(u, k, op) => held = due)
    BY BooksByColumn DEF BookKeeping, BooksOf, held, due, m
  <2>4. /\ IsFiniteSet(Rows(u, k)') /\ Held(u, k, op)' = held
        /\ AllExact(u, k, op)' = AllExact(u, k, op)
    BY RowsUnchanged DEF BookKeeping, FiniteBooks, held
  <2>5. Due(u, k, op)' = due
    BY <2>1, <2>2 DEF EndsIn
  <2>6. z \in {0, 1}
    BY DEF z
  <2>7. InDrift(held + 0, due + 0, m + z)
    <3>1. Spacing \in Nat \ {0}
      BY FundsAssumption DEF FundsAssumption
    <3>2. 0 <= 0 + Spacing /\ 0 \in Int
      BY <3>1
    <3>. QED  BY <2>2, <2>3, <2>6, <3>2, FundsAssumption, DriftGrows
  <2>8. InDrift(held, due, m + z)
    BY <2>2, <2>7
  <2>. QED  BY <2>1, <2>3, <2>4, <2>5, <2>8 DEF BooksOf, InDrift
<1>2. BooksBalance'
  BY <1>1 DEF BooksBalance, BooksOf, InDrift, Held, Due, AllExact
<1>. QED  BY <1>1, <1>2 DEF BookKeeping, FiniteBooks

(* A commit adds what it moved to the one row of its key that it writes,   *)
(* give or take a spacing of the doubles.                                  *)
LEMMA RowsAfterCommit ==
  ASSUME IInv, BookKeeping, NEW c \in Calls, CommitRow(c),
         NEW u \in Users, NEW k \in Currencies, NEW op \in {"charge", "lock"}
  PROVE  /\ IsFiniteSet(Rows(u, k)')
         /\ \E n \in Int :
              /\ Held(u, k, op)' = Held(u, k, op) + n
              /\ IF Adds(c, u, k, op)
                 THEN n <= moved[c] + Spacing /\ moved[c] <= n + Spacing
                 ELSE n = 0
              /\ AllExact(u, k, op)' =>
                   /\ AllExact(u, k, op)
                   /\ Adds(c, u, k, op) => n = moved[c]
<1>. USE DEF IInv, TypeOK
<1>. DEFINE i == cur[c]
            col == Column(op)
            S == Rows(u, k)
            T == Rows(u, k)'
            f == Units(col)
            g == Units(col)'
<1>1. /\ pc[c] = "commit" /\ wallets' = [wallets EXCEPT ![i] = entity[c]]
      /\ i \in Calls /\ UNCHANGED <<req, cur>>
  BY DEF CommitRow, Goto
<1>2. /\ entity[c] \in Wallet /\ HasKey(entity[c], req[c])
      /\ entity[c] # NoWallet
      /\ Base(c) \in Wallet /\ HasKey(Base(c), req[c]) /\ moved[c] \in Nat
      /\ IF req[c].op = op
         THEN Grows(Base(c)[col], entity[c][col], moved[c])
         ELSE entity[c][col] = Base(c)[col]
  BY <1>1, CommittedRow, BaseIsWallet, ConstantsAssumption DEF Working
<1>3. /\ wallets'[i] = entity[c] /\ wallets'[i] # NoWallet
      /\ \A j \in Calls : j # i => wallets'[j] = wallets[j]
  BY <1>1, <1>2 DEF Exists
<1>4. col \in {"balance", "locked"}
  BY DEF Column
<1>5. /\ T \ {i} = S \ {i}
      /\ i \in T <=> req[c].userId = u /\ CurrencyToUse(req[c]) = k
  BY <1>1, <1>2, <1>3 DEF Rows, Exists, HasKey
<1>6. i \in S => i \in T /\ Base(c) = wallets[i]
  BY <1>1, <1>5 DEF Rows, Base, HasKey, RowHasKey, Working
<1>7. i \notin S => f[i] = 0 \/ i \notin T
  BY <1>1, <1>5 DEF Rows, RowHasKey, Working, HasKey, Units
<1>8. /\ \A j \in Calls : f[j] = IF Exists(j) THEN wallets[j][col] ELSE 0
      /\ \A j \in Calls : g[j] = IF wallets'[j] # NoWallet THEN wallets'[j][col] ELSE 0
  BY DEF Units, Column, Exists
<1>9. /\ \A j \in Calls : f[j] \in Int /\ g[j] \in Int
      /\ \A j \in Calls : j # i => g[j] = f[j]
      /\ g[i] = entity[c][col]
      /\ Exists(i) => f[i] = wallets[i][col]
      /\ ~Exists(i) => f[i] = 0
  <2>1. \A w \in Wallet : w[col] \in Int
    BY <1>4 DEF Wallet
  <2>2. \A j \in Calls : /\ Exists(j) => wallets[j] \in Wallet
                         /\ wallets'[j] # NoWallet => wallets'[j] \in Wallet
    BY <1>1, <1>2 DEF Exists
  <2>. HIDE DEF f, g, col
  <2>. QED  BY <1>1, <1>3, <1>8, <2>1, <2>2 DEF Exists
<1>10. i \in T =>
         /\ f[i] <= g[i]
         /\ IF Adds(c, u, k, op)
            THEN Grows(f[i], g[i], moved[c])
            ELSE g[i] = f[i]
  <2>. SUFFICES ASSUME i \in T
                PROVE  /\ f[i] <= g[i]
                       /\ IF req[c].op = op
                          THEN Grows(f[i], g[i], moved[c])
                          ELSE g[i] = f[i]
    BY <1>5 DEF Adds
  <2>1. f[i] = Base(c)[col] /\ g[i] = entity[c][col]
    BY <1>2, <1>4, <1>9 DEF Base, Opened
  <2>2. f[i] \in Int /\ g[i] \in Int
    BY <1>1, <1>9
  <2>. HIDE DEF f, g, col, i
  <2>. QED  BY <1>2, <2>1, <2>2 DEF Grows
<1>. DEFINE n == IF i \in T THEN g[i] - f[i] ELSE 0
<1>11. /\ IsFiniteSet(S) /\ S \subseteq Calls /\ T \subseteq Calls
       /\ Adds(c, u, k, op) => i \in T
  BY <1>2, <1>5 DEF BookKeeping, FiniteBooks, Rows, Adds
<1>. HIDE DEF S, T, f, g, col, i
<1>12. /\ IsFiniteSet(T)
       /\ SumFunctionOnSet(g, T) = SumFunctionOnSet(f, S)
                                    - (IF i \in S THEN f[i] ELSE 0)
                                    + (IF i \in T THEN g[i] ELSE 0)
  <2>1. /\ \A j \in S : f[j] \in Int
        /\ \A j \in T : g[j] \in Int
        /\ \A j \in S \ {i} : g[j] = f[j]
    BY <1>9, <1>11
  <2>. QED  BY <1>5, <1>11, <2>1, SumChanges
<1>13. SumFunctionOnSet(f, S) \in Int
  BY <1>9, <1>11, SumType
<1>14. f[i] \in Int /\ g[i] \in Int
  BY <1>1, <1>9
<1>15. SumFunctionOnSet(g, T) = SumFunctionOnSet(f, S) + n
  <2>1. CASE i \in S
    <3>1. i \in T
      BY <2>1, <1>6
    <3>. QED  BY <2>1, <3>1, <1>12, <1>13, <1>14
  <2>2. CASE i \notin S /\ i \in T
    BY <2>2, <1>7, <1>12, <1>13, <1>14
  <2>3. CASE i \notin S /\ i \notin T
    BY <2>3, <1>12, <1>13
  <2>. QED  BY <2>1, <2>2, <2>3
<1>16. /\ n \in Int
       /\ IF Adds(c, u, k, op)
          THEN n <= moved[c] + Spacing /\ moved[c] <= n + Spacing
          ELSE n = 0
       /\ (i \in T /\ g[i] < Exact) => (Adds(c, u, k, op) => n = moved[c])
  <2>1. CASE i \in T
    BY <2>1, <1>2, <1>10, <1>14 DEF Grows
  <2>2. CASE i \notin T
    BY <2>2, <1>11
  <2>. QED  BY <2>1, <2>2
<1>17. (\A j \in T : g[j] < Exact) =>
         /\ \A j \in S : f[j] < Exact
         /\ Adds(c, u, k, op) => n = moved[c]
  <2>. SUFFICES ASSUME \A j \in T : g[j] < Exact
                PROVE  /\ \A j \in S : f[j] < Exact
                       /\ Adds(c, u, k, op) => n = moved[c]
    OBVIOUS
  <2>1. ASSUME NEW j \in S PROVE f[j] < Exact
    <3>1. CASE j = i
      <4>1. i \in T /\ f[i] <= g[i] /\ g[i] < Exact
        BY <2>1, <3>1, <1>6, <1>10
      <4>2. Exact \in Int
        BY FundsAssumption DEF FundsAssumption
      <4>. QED  BY <3>1, <4>1, <4>2, <1>14
    <3>2. CASE j # i
      BY <2>1, <3>2, <1>5, <1>9, <1>11
    <3>. QED  BY <3>1, <3>2
  <2>. QED  BY <2>1, <1>11, <1>16
<1>. HIDE DEF n
<1>. QED  BY <1>12, <1>15, <1>16, <1>17 DEF S, T, f, g, col, Held, AllExact

LEMMA CommitKeepsBooks ==
  ASSUME IInv, BookKeeping, NEW c \in Calls, CommitRow(c)
  PROVE  BookKeeping'
<1>1. ASSUME NEW u \in Users, NEW k \in Currencies, NEW op \in {"charge", "lock"}
      PROVE  /\ IsFiniteSet(Rows(u, k)') /\ IsFiniteSet(Ended(u, k, op)')
             /\ BooksOf(u, k, op)'
  <2>. DEFINE y == moved[c]
              adds == Adds(c, u, k, op)
              z == IF adds THEN 1 ELSE 0
              held == Held(u, k, op)
              due == Due(u, k, op)
              m == Cardinality(Ended(u, k, op))
  <2>1. /\ StepOf(c) /\ UNCHANGED req /\ y \in Nat /\ moved'[c] = y
        /\ adds <=> EndsIn(c, u, k, op)
    <3>1. pc[c] = "commit" /\ pc' = [pc EXCEPT ![c] = "done"] /\ UNCHANGED <<req, moved>>
      BY DEF CommitRow, Goto
    <3>2. y \in Nat /\ moved'[c] = y
      BY <3>1 DEF IInv, TypeOK
    <3>3. pc'[c] = "done" /\ \A d \in Calls \ {c} : pc'[d] = pc[d] /\ moved'[d] = moved[d]
      BY <3>1 DEF IInv, TypeOK
    <3>4. StepOf(c)
      BY <3>1, <3>2, <3>3 DEF StepOf
    <3>5. adds <=> EndsIn(c, u, k, op)
      BY <3>3 DEF EndsIn
    <3>. HIDE DEF y, adds
    <3>. QED  BY <3>1, <3>2, <3>4, <3>5
  <2>. HIDE DEF y, adds, z, due, m
  <2>2. /\ IsFiniteSet(Ended(u, k, op)')
        /\ Due(u, k, op)' = due + IF adds THEN y ELSE 0
        /\ Cardinality(Ended(u, k, op))' = m + z
    BY <2>1, EndedAfterStep DEF z, due, m
  <2>3. held \in Int /\ due \in Int /\ m \in Nat
    BY BooksAreSums DEF held, due, m
  <2>4. InDrift(held, due, m) /\ (AllExact(u, k, op) => held = due)
    BY BooksByColumn DEF BookKeeping, BooksOf, held, due, m
  <2>5. PICK n \in Int :
          /\ Held(u, k, op)' = held + n
          /\ IF adds THEN n <= y + Spacing /\ y <= n + Spacing ELSE n = 0
          /\ AllExact(u, k, op)' =>
               AllExact(u, k, op) /\ (adds => n = y)
    BY RowsAfterCommit DEF y, held, adds
  <2>6. IsFiniteSet(Rows(u, k)')
    BY RowsAfterCommit
  <2>. HIDE DEF held
  <2>. DEFINE d == IF adds THEN y ELSE 0
  <2>7. /\ d \in Int /\ z \in {0, 1}
        /\ IF z = 1 THEN n <= d + Spacing /\ d <= n + Spacing ELSE n = d
    BY <2>1, <2>5 DEF z
  <2>8. Due(u, k, op)' = due + d
    BY <2>2
  <2>9. AllExact(u, k, op)' => held + n = due + d
    BY <2>3, <2>4, <2>5, <2>1
  <2>. HIDE DEF d
  <2>10. InDrift(held + n, due + d, m + z)
    BY <2>3, <2>4, <2>7, FundsAssumption, DriftGrows
  <2>. QED  BY <2>2, <2>5, <2>6, <2>8, <2>9, <2>10 DEF BooksOf, InDrift
<1>2. BooksBalance'
  BY <1>1 DEF BooksBalance, BooksOf, InDrift, Held, Due, AllExact
<1>. QED  BY <1>1, <1>2 DEF BookKeeping, FiniteBooks

LEMMA NextBooks == IInv /\ BookKeeping /\ [Next]_vars => BookKeeping'
<1>. SUFFICES ASSUME IInv, BookKeeping, [Next]_vars PROVE BookKeeping'
  OBVIOUS
<1>1. ASSUME NEW c \in Calls, Step(c) \/ CommitUnacknowledged(c) \/ Rollback(c)
      PROVE  BookKeeping'
  <2>1. CASE CommitRow(c)
    BY <2>1, CommitKeepsBooks
  <2>2. CASE ~CommitRow(c)
    <3>1. TypeOK'
      BY <1>1, NextIInv DEF Next, IInv
    <3>2. moved[c] \in Nat /\ moved'[c] \in Nat
      BY <3>1 DEF IInv, TypeOK
    <3>. USE DEF StepOf, Goto, IInv, TypeOK
    <3>3. CASE AddToBalance(c) \/ ReserveShare(c)
      <4>1. UNCHANGED <<wallets, req>> /\ StepOf(c) /\ pc'[c] # "done"
        BY <3>2, <3>3 DEF AddToBalance, ReserveShare
      <4>. QED  BY <4>1, KeepsBooks
    <3>4. CASE Rollback(c)
      <4>1. UNCHANGED <<wallets, req>> /\ StepOf(c) /\ moved'[c] = 0
        BY <3>4 DEF Rollback
      <4>. QED  BY <4>1, KeepsBooks
    <3>5. CASE RejectPercent(c)
      <4>1. UNCHANGED <<wallets, req>> /\ StepOf(c) /\ moved'[c] = 0
        BY <3>2, <3>5 DEF RejectPercent, MovedOnSave
      <4>. QED  BY <4>1, KeepsBooks
    <3>6. CASE \/ Begin(c) \/ ScanRows(c) \/ LockRow(c) \/ LockLastRow(c)
              \/ MissWallet(c) \/ InsertWallet(c) \/ RefuseShare(c)
      <4>1. UNCHANGED <<wallets, req>> /\ StepOf(c) /\ pc'[c] # "done"
        BY <3>2, <3>6 DEF Begin, ScanRows, LockRow, LockLastRow, TakeLock,
                          MissWallet, InsertWallet, RefuseShare
      <4>. QED  BY <4>1, KeepsBooks
    <3>. QED  BY <1>1, <2>2, <3>3, <3>4, <3>5, <3>6
              DEF Step, Commit, CommitUnacknowledged, DeadlockVictim
  <2>. QED  BY <2>1, <2>2
<1>2. CASE UNCHANGED vars
  <2>1. \A u, k, op : Ended(u, k, op)' = Ended(u, k, op)
    BY <1>2 DEF vars, Ended, CurrencyToUse
  <2>2. moved' = moved
    BY <1>2 DEF vars
  <2>3. \A u \in Users, k \in Currencies, op \in {"charge", "lock"} :
          BooksOf(u, k, op)' = BooksOf(u, k, op)
    BY <1>2, <2>1, <2>2, RowsUnchanged DEF vars, BooksOf, InDrift, Due
  <2>4. BooksBalance'
    BY <2>3, BooksByColumn
    DEF BookKeeping, BooksBalance, BooksOf, InDrift, Held, Due, AllExact
  <2>. QED  BY <1>2, <2>1, <2>4, RowsUnchanged DEF vars, BookKeeping, FiniteBooks
<1>. QED  BY <1>1, <1>2 DEF Next, Finished

(* The invariant of the books, on top of the one above.                    *)
THEOREM BooksInvariance == Spec => []BookKeeping
  BY Invariance, InitBooks, NextBooks, PTL DEF Spec

(* For any number of overlapping, failing and unacknowledged calls, and    *)
(* whatever rows they open: what the users hold is what was charged, and   *)
(* what is locked is what the reservations said they reserved, exactly as  *)
(* long as a double can tell the amounts apart, and beyond that to within  *)
(* one spacing of the doubles for each call.                               *)
THEOREM BooksAlwaysBalance == Spec => []BooksBalance
<1>1. BookKeeping => BooksBalance
  BY DEF BookKeeping
<1>. QED  BY <1>1, BooksInvariance, PTL

----------------------------------------------------------------------------
(* Row locks.                                                              *)

(* A ring of calls that wait for each other needs a call that holds one    *)
(* row and waits for another: both have its key, and that of every call    *)
(* that waits for one of them.                                             *)
LEMMA RingNeedsTwoRows ==
  ASSUME IInv, BookKeeping, NEW c \in Calls, Deadlocked(c)
  PROVE  Cardinality(Rows(req[c].userId, CurrencyToUse(req[c]))) > 1
<1>. DEFINE u == req[c].userId
            k == CurrencyToUse(req[c])
<1>1. PICK D \in SUBSET Calls : /\ c \in D
                                /\ \A d \in D : pc[d] = "lock"
                                /\ {lock[cur[d]] : d \in D} = D
  BY DEF Deadlocked
<1>2. PICK d \in D : d = lock[cur[c]]
  BY <1>1
<1>. DEFINE i == cur[c]
            j == cur[d]
<1>3. i \in Calls /\ lock[i] = d /\ d \in Calls /\ pc[c] = "lock" /\ pc[d] = "lock"
  BY <1>1, <1>2 DEF IInv, TypeOK
<1>4. i \in Matching(c) /\ i \in Matching(d) /\ j \in Matching(d) /\ lock[j] # d
  BY <1>3 DEF IInv, LocksAreForTheKey, WaitsForOthers
<1>5. i # j
  BY <1>3, <1>4
<1>6. i \in Rows(u, k) /\ j \in Rows(u, k)
  BY <1>4 DEF Matching, HasKey, Rows
<1>7. IsFiniteSet(Rows(u, k))
  <2>1. u \in Users /\ k \in Currencies
    BY ConstantsAssumption
    DEF IInv, TypeOK, Request, ChargeRequest, LockRequest, CurrencyToUse
  <2>. QED  BY <2>1 DEF BookKeeping, FiniteBooks
<1>. HIDE DEF u, k, i, j
<1>8. Cardinality({i, j}) = 2 /\ {i, j} \subseteq Rows(u, k)
  <2>1. IsFiniteSet({j}) /\ Cardinality({j}) = 1
    BY FS_Singleton
  <2>2. i \notin {j} /\ {i, j} = {j} \cup {i}
    BY <1>5
  <2>3. Cardinality({j} \cup {i}) = 1 + 1
    BY <2>1, <2>2, FS_AddElement
  <2>. QED  BY <2>2, <2>3, <1>6
<1>9. Cardinality({i, j}) <= Cardinality(Rows(u, k))
  BY <1>7, <1>8, FS_Subset
<1>. QED  BY <1>7, <1>8, <1>9, FS_CardinalityType DEF u, k

(* Whatever rows the calls find and in whatever order they lock them, only *)
(* over a user's doubled wallets can they wait for each other in a ring.   *)
THEOREM RingsAreOverDoubledWallets == Spec => []OnlyDoubledWalletsDeadlock
<1>1. IInv /\ BookKeeping => OnlyDoubledWalletsDeadlock
  BY RingNeedsTwoRows DEF OnlyDoubledWalletsDeadlock
<1>. QED  BY <1>1, Invariance, BooksInvariance, PTL

----------------------------------------------------------------------------
(* One wallet for a user and a currency, once it is settled.               *)

OwnRow == \A c \in Calls : pc[c] \in {"idle", "select", "insert"} => cur[c] = c

LEMMA NextOwnRow == IInv /\ OwnRow /\ [Next]_vars => OwnRow'
<1>. USE DEF IInv, TypeOK, OwnRow, Goto
<1>. SUFFICES ASSUME IInv, OwnRow, [Next]_vars PROVE OwnRow'
  OBVIOUS
<1>. SUFFICES ASSUME NEW d \in Calls, pc'[d] \in {"idle", "select", "insert"}
              PROVE  cur'[d] = d
  OBVIOUS
<1>1. CASE UNCHANGED <<pc, cur>>
  BY <1>1
<1>2. ASSUME NEW c \in Calls, Begin(c) \/ MissWallet(c)
      PROVE  cur'[d] = d
  BY <1>2 DEF Begin, MissWallet
<1>3. ASSUME NEW c \in Calls,
             ScanRows(c) \/ LockRow(c) \/ LockLastRow(c) \/ InsertWallet(c)
      PROVE  cur'[d] = d
  BY <1>3 DEF ScanRows, LockRow, LockLastRow, TakeLock, InsertWallet
<1>4. ASSUME NEW c \in Calls,
             \/ RejectPercent(c) \/ AddToBalance(c) \/ ReserveShare(c) \/ RefuseShare(c)
             \/ Commit(c) \/ CommitUnacknowledged(c) \/ Rollback(c)
      PROVE  cur'[d] = d
  BY <1>4 DEF RejectPercent, AddToBalance, ReserveShare, RefuseShare, Commit,
     CommitUnacknowledged, CommitRow, Rollback
<1>. QED  BY <1>1, <1>2, <1>3, <1>4 DEF Next, Finished, vars, Step, DeadlockVictim

(* Until it has found or inserted a row, a call works on none but its own. *)
THEOREM OwnRowInvariance == Spec => []OwnRow
<1>1. Init => OwnRow
  BY DEF Init, OwnRow
<1>. QED  BY <1>1, Invariance, NextOwnRow, PTL DEF Spec

(* A call that is about to insert a wallet was so before the step, or it   *)
(* has just found no wallet of its key.                                    *)
LEMMA StartsToInsert ==
  ASSUME IInv, OwnRow, [Next]_vars, NEW d \in Calls, Inserting(d)'
  PROVE  Inserting(d) \/ Matching(d) = {}
<1>. USE DEF IInv, TypeOK, Goto
<1>. SUFFICES ASSUME ~Inserting(d) PROVE Matching(d) = {}
  OBVIOUS
<1>1. PICK c \in Calls : Step(c) \/ CommitUnacknowledged(c) \/ Rollback(c)
  BY DEF Next, Finished, vars, Inserting, Exists
<1>2. pc[d] = "insert" => ~Exists(cur[d])
  BY DEF OwnRow, RowIsOfADoneCall
<1>3. CASE CommitRow(c)
  <2>1. wallets'[cur[c]] = entity[c] /\ entity[c] # NoWallet
    BY <1>3, CommittedRow, ConstantsAssumption DEF CommitRow
  <2>. QED  BY <1>3, <2>1 DEF CommitRow, Inserting, Exists
<1>4. CASE ScanRows(c) \/ LockRow(c)
  BY <1>4 DEF ScanRows, LockRow, TakeLock, Inserting, Exists
<1>7. CASE LockLastRow(c)
  <2>1. PICK i \in Calls : lock'[i] = c /\ cur' = [cur EXCEPT ![c] = i]
    BY <1>7 DEF LockLastRow
  <2>2. Exists(i)
    BY <1>7, <2>1 DEF LockLastRow, TakeLock, LocksAreForTheKey, WaitsForOthers, Matching
  <2>. QED  BY <1>7, <2>1, <2>2 DEF LockLastRow, TakeLock, Inserting, Exists
<1>5. CASE MissWallet(c)
  BY <1>5 DEF MissWallet, Inserting, Exists
<1>6. CASE \/ RejectPercent(c) \/ Begin(c) \/ InsertWallet(c) \/ AddToBalance(c)
          \/ ReserveShare(c) \/ RefuseShare(c) \/ Rollback(c)
  BY <1>2, <1>6 DEF RejectPercent, Begin, InsertWallet, AddToBalance, ReserveShare,
     RefuseShare, Rollback, Inserting, Exists
<1>. QED  BY <1>1, <1>3, <1>4, <1>5, <1>6, <1>7
          DEF Step, Commit, CommitUnacknowledged, DeadlockVictim

(* A committed row is never deleted and never changes its key.             *)
LEMMA RowsStay ==
  ASSUME IInv, [Next]_vars, NEW c \in Calls
  PROVE  Matching(c) \subseteq Matching(c)' /\ req' = req
<1>1. CASE \E b \in Calls : CommitRow(b)
  BY <1>1, CommitKeepsRows DEF CommitRow
<1>2. CASE ~ \E b \in Calls : CommitRow(b)
  <2>1. UNCHANGED <<wallets, req>>
    BY <1>2 DEF Next, Finished, vars, Step, RejectPercent, Begin, ScanRows, LockRow,
       LockLastRow, DeadlockVictim, MissWallet, InsertWallet, AddToBalance,
       ReserveShare, RefuseShare, Commit, CommitUnacknowledged, Rollback
  <2>. QED  BY <2>1, RowsKept
<1>. QED  BY <1>1, <1>2

LEMMA SettledStays ==
  ASSUME IInv, OwnRow, [Next]_vars, NEW c \in Calls, Settled(c)
  PROVE  Settled(c)'
<1>1. Matching(c)' # {} /\ req' = req
  BY RowsStay DEF Settled
<1>2. ASSUME NEW d \in Calls, Inserting(d)'
      PROVE  ~HasKey(Opened(req[d].userId, CurrencyToUse(req[d])), req[c])
  <2>1. Matching(d) = {} \/ Inserting(d)
    BY <1>2, StartsToInsert
  <2>2. CASE Matching(d) = {}
    BY <2>2 DEF Settled, Matching, HasKey, Opened
  <2>. QED  BY <2>1, <2>2 DEF Settled
<1>. QED  BY <1>1, <1>2 DEF Settled, CurrencyToUse

(* Only first calls that overlap can open two wallets for a user in one    *)
(* currency: once there is one and no call is about to commit another, no  *)
(* step of any call ever starts to open a second.                          *)
THEOREM NeverDoubledOnceSettled == Spec => SettledWalletIsNeverDoubled
<1>1. IInv /\ OwnRow /\ [Next]_vars => [\A c \in Calls : Settled(c) => Settled(c)']_vars
  BY SettledStays
<1>. QED  BY <1>1, Invariance, OwnRowInvariance, PTL
          DEF Spec, SettledWalletIsNeverDoubled
==========================================================================
