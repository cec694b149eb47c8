----------------------- MODULE FlowExPayments_proofs -----------------------
(***************************************************************************)
(* Proofs about FlowExPayments and the FlowExWallet it extends, for any    *)
(* users, calls, deposits, amounts and percentages: what keeps the books   *)
(* of a wallet table that is written with a lock and without one.  No set  *)
(* of calls or deposits needs to be finite: at any time finitely many have *)
(* ended or been credited.                                                 *)
(***************************************************************************)
EXTENDS FlowExPayments, Funds_proofs

----------------------------------------------------------------------------
(* What holds of one call, as long as it has work to do.                   *)

Working(c) == pc[c] \in {"update", "commit"}

\* It works on a row that exists, or opens the one it is the first to have.
RowOfCall(c) == Service!Exists(cur[c]) \/ cur[c] = c

\* The row a call opens appears with its commit.
RowIsOfADoneCall(c) == Service!Exists(c) => pc[c] = "done" /\ cur[c] = c

\* Nothing has moved before the save, and a reservation compares no columns.
Unmoved(c) ==
  /\ pc[c] \notin {"commit", "done"} => moved[c] = 0 /\ diff[c] = {}
  /\ ~IsCharge(c) => diff[c] = {}

\* What the columns hold has been through toNumber().
StoredRow(w) == Stored(w.balance) /\ Stored(w.locked)

RowsAreStored == \A i \in Calls : Service!Exists(i) => StoredRow(wallets[i])

\* The row has the key of the request, whoever has changed its columns.
KeyOfCall(c) ==
  Working(c) => /\ entity[c] \in Service!Wallet /\ StoredRow(entity[c])
                /\ Service!HasKey(Service!Base(c), req[c])

\* A reservation holds the row's lock, a charge does not.
HoldsLock(c) == ~IsCharge(c) /\ Working(c) => lock[cur[c]] = c

\* A call that is still locking rows is a reservation, and its rows have its
\* key; before that and after the end a call has no lock.
LocksAreForTheKey(c) ==
  /\ \A i \in Calls : lock[i] = c => pc[c] \in {"lock", "update", "commit"}
  /\ pc[c] = "lock" =>
       /\ ~IsCharge(c) /\ cur[c] \in Service!Matching(c)
       /\ todo[c] \subseteq Service!Matching(c)
       /\ \A i \in Calls : lock[i] = c => i \in Service!Matching(c)

\* The row with what the call moves in its one column.
Charged(w, n) == [w EXCEPT !.balance = ToNumber((@ + n) * Whole)]

Reserved(w, x) == [w EXCEPT !.locked = ToNumber(@ * Whole + x)]

ShareOfCall(c) == ShareOf(Available(Service!Base(c)), req[c].percent)

Grown(c) ==
  IF pc[c] # "commit" THEN Service!Base(c)
  ELSE IF IsCharge(c) THEN Charged(Service!Base(c), moved[c])
  ELSE Reserved(Service!Base(c), ShareOfCall(c))

Dirty(c) == {k \in Columns : k = "balance" \/ entity[c][k] # Service!Base(c)[k]}

\* The copy of a charge is as good as the lock it does not take, unless
\* somebody writes the row meanwhile.
CopyIsFresh(c) ==
  Working(c) /\ (IsCharge(c) => cur[c] \notin overlapped) =>
    entity[c] = Grown(c) /\ (IsCharge(c) => diff[c] \subseteq {Dirty(c)})

SavedIsRequested(c) ==
  pc[c] = "commit" =>
    IF IsCharge(c) THEN moved[c] = req[c].amount
    ELSE ShareOfCall(c) > 0 /\ moved[c] = ToNumber(ShareOfCall(c))

CallInv(c) ==
  /\ RowOfCall(c) /\ RowIsOfADoneCall(c) /\ Unmoved(c) /\ KeyOfCall(c)
  /\ HoldsLock(c) /\ LocksAreForTheKey(c) /\ CopyIsFresh(c) /\ SavedIsRequested(c)

\* Who charges is a callback.
CallbacksCharge == \A c \in Calls : IsCharge(c) <=> c \in Callbacks

EndedCalls == {c \in Calls : pc[c] = "done"}

WalletInv ==
  /\ TypeOK /\ CallbacksCharge /\ RowsAreStored
  /\ \A c \in Calls : CallInv(c)
  /\ IsFiniteSet(EndedCalls)

\* The arithmetic of WalletService is that of this module.
LEMMA ServiceFunds ==
  /\ \A k : Service!ToNumber(k) = ToNumber(k)
  /\ \A w : Service!Available(w) = Available(w)
  /\ \A n, p : Service!ShareOf(n, p) = ShareOf(n, p)
  /\ \A u, k : Service!Opened(u, k) = Opened(u, k)
BY DEF Service!ToNumber, Service!Grain, Service!Round, ToNumber, Grain, Round,
   Service!Available, Available, Service!ShareOf, ShareOf, Service!Opened, Opened

----------------------------------------------------------------------------
(* What a step leaves alone.                                               *)

SameCall(c) ==
  /\ pc'[c] = pc[c] /\ req'[c] = req[c] /\ cur'[c] = cur[c] /\ todo'[c] = todo[c]
  /\ entity'[c] = entity[c] /\ moved'[c] = moved[c] /\ diff'[c] = diff[c]

SameLocks(c) ==
  /\ lock[cur[c]] = c => lock'[cur[c]] = c
  /\ \A i \in Calls : lock'[i] = c => lock[i] = c

\* A step that writes no row, and takes no lock another call holds, leaves
\* every other call what it had.
LEMMA OtherCallsKept ==
  ASSUME WalletInv, NEW c \in Calls, SameCall(c), UNCHANGED <<wallets, overlapped>>,
         SameLocks(c)
  PROVE  CallInv(c)'
<1>. USE DEF SameCall, SameLocks
<1>1. /\ CallInv(c) /\ (IsCharge(c)' <=> IsCharge(c)) /\ (Working(c)' <=> Working(c))
      /\ pc'[c] = pc[c]
  BY DEF WalletInv, IsCharge, Working
<1>2. /\ Service!Base(c)' = Service!Base(c) /\ Service!Matching(c)' = Service!Matching(c)
      /\ \A i \in Calls : Service!Exists(i)' <=> Service!Exists(i)
  BY DEF Service!Base, Service!Exists, Service!CurrencyToUse, Service!Matching,
     Service!HasKey
<1>3. cur[c] \in Calls
  BY DEF WalletInv, TypeOK, Service!TypeOK
<1>4. RowOfCall(c)' /\ RowIsOfADoneCall(c)' /\ Unmoved(c)' /\ HoldsLock(c)'
  BY <1>1, <1>2, <1>3 DEF CallInv, RowOfCall, RowIsOfADoneCall, Unmoved, HoldsLock
<1>5. LocksAreForTheKey(c)'
  BY <1>1, <1>2 DEF CallInv, LocksAreForTheKey
<1>6. KeyOfCall(c)'
  BY <1>1, <1>2 DEF CallInv, KeyOfCall, Service!HasKey, Service!CurrencyToUse,
     Service!Wallet, StoredRow
<1>7. Grown(c)' = Grown(c) /\ Dirty(c)' = Dirty(c) /\ ShareOfCall(c)' = ShareOfCall(c)
  <2>1. ShareOfCall(c)' = ShareOfCall(c)
    BY <1>2 DEF ShareOfCall, Available
  <2>2. Dirty(c)' = Dirty(c)
    BY <1>2 DEF Dirty
  <2>3. Grown(c)' = Grown(c)
    BY <1>1, <1>2, <2>1 DEF Grown, Charged, Reserved
  <2>. QED  BY <2>1, <2>2, <2>3
<1>8. CopyIsFresh(c)' /\ SavedIsRequested(c)'
  BY <1>1, <1>7 DEF CallInv, CopyIsFresh, SavedIsRequested
<1>. QED  BY <1>4, <1>5, <1>6, <1>8 DEF CallInv

\* The set of calls that have ended stays finite.
LEMMA EndedStaysFinite ==
  ASSUME IsFiniteSet(EndedCalls), NEW c \in Calls,
         \A d \in Calls \ {c} : pc'[d] = pc[d]
  PROVE  IsFiniteSet(EndedCalls')
<1>. DEFINE S == EndedCalls
            T == EndedCalls'
<1>1. T \subseteq S \cup {c}
  BY DEF EndedCalls
<1>2. IsFiniteSet(S)
  OBVIOUS
<1>. HIDE DEF S, T
<1>3. IsFiniteSet(S \cup {c})
  BY <1>2, FS_AddElement
<1>4. IsFiniteSet(T)
  BY <1>1, <1>3, FS_Subset
<1>. QED  BY <1>4 DEF T

LEMMA BaseIsWallet ==
  ASSUME WalletInv, NEW c \in Calls
  PROVE  Service!Base(c) \in Service!Wallet /\ StoredRow(Service!Base(c))
<1>1. req[c].userId \in Users /\ Service!CurrencyToUse(req[c]) \in Currencies
  BY FlowExAssumption
  DEF WalletInv, TypeOK, Service!TypeOK, Service!Request, Service!ChargeRequest,
      Service!LockRequest, Service!CurrencyToUse, Service!USD, USD
<1>2. Stored(0)
  BY FundsAssumption, ToNumberNat
<1>3. CASE Service!Exists(cur[c])
  <2>1. cur[c] \in Calls /\ Service!Base(c) = wallets[cur[c]]
    BY <1>3 DEF WalletInv, TypeOK, Service!TypeOK, Service!Base
  <2>. QED
    BY <1>3, <2>1 DEF WalletInv, TypeOK, Service!TypeOK, Service!Exists, RowsAreStored
<1>4. CASE ~Service!Exists(cur[c])
  <2>1. Service!Base(c) = Opened(req[c].userId, Service!CurrencyToUse(req[c]))
    BY <1>4, ServiceFunds DEF Service!Base
  <2>. QED  BY <1>1, <1>2, <2>1 DEF Opened, Service!Wallet, StoredRow
<1>. QED  BY <1>3, <1>4

\* A step of the call c that writes no row and ends it with nothing moved.
Quiet(c) ==
  /\ UNCHANGED <<wallets, overlapped>>
  /\ \A d \in Calls \ {c} : SameCall(d)
  /\ pc[c] # "done" /\ (pc'[c] = "done" => moved'[c] = 0)

\* What is left to show of such a step.
LEMMA OneCallMoves ==
  ASSUME WalletInv, TypeOK', UNCHANGED <<wallets, overlapped>>, NEW c \in Calls,
         IsCharge(c)' <=> IsCharge(c), CallInv(c)',
         \A d \in Calls \ {c} : SameCall(d) /\ SameLocks(d)
  PROVE  WalletInv'
<1>1. CallbacksCharge' /\ RowsAreStored'
  BY DEF WalletInv, CallbacksCharge, SameCall, IsCharge, RowsAreStored, StoredRow,
     Service!Exists
<1>2. \A d \in Calls : CallInv(d)'
  BY OtherCallsKept
<1>3. IsFiniteSet(EndedCalls)'
  BY EndedStaysFinite DEF WalletInv, SameCall
<1>. QED  BY <1>1, <1>2, <1>3 DEF WalletInv

----------------------------------------------------------------------------
(* The steps of a call that write no row.                                  *)

LEMMA QuietStep ==
  ASSUME WalletInv, NEW c \in Calls, Service!Begin(c) \/ Service!MissWallet(c),
         UNCHANGED <<diff, overlapped>>
  PROVE  WalletInv' /\ Quiet(c)
<1>. USE DEF WalletInv, TypeOK, Service!TypeOK
<1>1. /\ UNCHANGED <<wallets, lock, req, cur, todo, entity, moved, reply>>
      /\ pc[c] \in {"idle", "select"}
      /\ \E to \in {"select", "insert"} : pc' = [pc EXCEPT ![c] = to]
  BY DEF Service!Begin, Service!MissWallet, Service!Goto
<1>2. TypeOK'
  BY <1>1
<1>3. CallInv(c)'
  BY <1>1 DEF CallInv, RowOfCall, RowIsOfADoneCall, Unmoved, KeyOfCall, HoldsLock,
     LocksAreForTheKey, CopyIsFresh, SavedIsRequested, Working, Service!Exists
<1>4. \A d \in Calls \ {c} : SameCall(d) /\ SameLocks(d)
  BY <1>1 DEF SameCall, SameLocks
<1>. QED  BY <1>1, <1>2, <1>3, <1>4, OneCallMoves DEF IsCharge, Quiet

LEMMA InsertStep ==
  ASSUME WalletInv, NEW c \in Calls, Service!InsertWallet(c), UNCHANGED <<diff, overlapped>>
  PROVE  WalletInv' /\ Quiet(c)
<1>. DEFINE new == Opened(req[c].userId, Service!CurrencyToUse(req[c]))
<1>1. /\ pc[c] = "insert" /\ pc' = [pc EXCEPT ![c] = "update"]
      /\ cur' = [cur EXCEPT ![c] = c] /\ entity' = [entity EXCEPT ![c] = new]
      /\ lock' = [lock EXCEPT ![c] = c]
      /\ UNCHANGED <<wallets, req, todo, moved, reply>>
  BY DEF Service!InsertWallet, Service!Goto, Service!Opened, Opened
<1>2. ~Service!Exists(c) /\ moved[c] = 0 /\ diff[c] = {}
  BY <1>1 DEF WalletInv, CallInv, RowIsOfADoneCall, Unmoved
<1>3. req[c].userId \in Users /\ Service!CurrencyToUse(req[c]) \in Currencies
  BY FlowExAssumption
  DEF WalletInv, TypeOK, Service!TypeOK, Service!Request, Service!ChargeRequest,
      Service!LockRequest, Service!CurrencyToUse, Service!USD, USD
<1>. USE DEF WalletInv, TypeOK, Service!TypeOK
<1>4. new \in Service!Wallet /\ Service!HasKey(new, req[c]) /\ StoredRow(new)
  <2>1. Stored(0)
    BY FundsAssumption, ToNumberNat
  <2>. QED  BY <1>3, <2>1 DEF Opened, Service!Wallet, Service!HasKey, StoredRow
<1>5. Service!Base(c)' = new
  BY <1>1, <1>2 DEF Service!Base, Service!Exists, Service!Opened,
     Service!CurrencyToUse, Opened
<1>. HIDE DEF new
<1>6. TypeOK'
  BY <1>1, <1>4
<1>7. /\ pc'[c] = "update" /\ cur'[c] = c /\ entity'[c] = new /\ lock'[c] = c
      /\ moved'[c] = 0 /\ diff'[c] = {} /\ ~Service!Exists(c)'
  BY <1>1, <1>2 DEF Service!Exists
<1>8. Grown(c)' = new
  BY <1>5, <1>7 DEF Grown
<1>9. CallInv(c)'
  BY <1>1, <1>4, <1>5, <1>7, <1>8
  DEF CallInv, RowOfCall, RowIsOfADoneCall, Unmoved, KeyOfCall, HoldsLock,
      LocksAreForTheKey, CopyIsFresh, SavedIsRequested, Service!HasKey, Service!Wallet,
      Service!CurrencyToUse, StoredRow
<1>10. ASSUME NEW d \in Calls \ {c} PROVE SameCall(d) /\ SameLocks(d)
  <2>1. cur[d] # c
    BY <1>2 DEF CallInv, RowOfCall
  <2>. QED  BY <1>1, <2>1 DEF SameCall, SameLocks
<1>. QED  BY <1>1, <1>6, <1>9, <1>10, OneCallMoves DEF IsCharge, Quiet

\* A call comes to its row: it works on what the table has.
LEMMA LoadRow ==
  ASSUME WalletInv, NEW c \in Calls, pc[c] \in {"select", "lock"},
         NEW i \in Calls, Service!Exists(i), Service!HasKey(wallets[i], req[c]),
         ~IsCharge(c) => lock'[i] = c,
         lock' = lock \/ (lock[cur[c]] = NoCall /\ lock' = [lock EXCEPT ![cur[c]] = c]),
         pc' = [pc EXCEPT ![c] = "update"], cur' = [cur EXCEPT ![c] = i],
         entity' = [entity EXCEPT ![c] = wallets[i]],
         UNCHANGED <<wallets, req, todo, moved, reply, diff, overlapped>>
  PROVE  WalletInv' /\ Quiet(c)
<1>. USE DEF WalletInv, TypeOK, Service!TypeOK
<1>1. wallets[i] \in Service!Wallet /\ StoredRow(wallets[i])
  BY DEF Service!Exists, RowsAreStored
<1>2. /\ pc'[c] = "update" /\ cur'[c] = i /\ entity'[c] = wallets[i]
      /\ moved'[c] = 0 /\ diff'[c] = {} /\ Service!Base(c)' = wallets[i]
      /\ ~Service!Exists(c)
  BY DEF CallInv, Unmoved, RowIsOfADoneCall, Service!Base, Service!Exists
<1>3. Grown(c)' = wallets[i]
  BY <1>2 DEF Grown
<1>4. TypeOK'
  BY <1>1
<1>5. CallInv(c)'
  <2>1. RowOfCall(c)' /\ RowIsOfADoneCall(c)' /\ Unmoved(c)' /\ SavedIsRequested(c)'
    BY <1>2
    DEF RowOfCall, RowIsOfADoneCall, Unmoved, SavedIsRequested, Service!Exists
  <2>2. HoldsLock(c)' /\ LocksAreForTheKey(c)'
    BY <1>2 DEF HoldsLock, LocksAreForTheKey, IsCharge
  <2>3. KeyOfCall(c)'
    BY <1>1, <1>2 DEF KeyOfCall, Service!HasKey, Service!CurrencyToUse, StoredRow
  <2>4. CopyIsFresh(c)'
    BY <1>2, <1>3 DEF CopyIsFresh
  <2>. QED  BY <2>1, <2>2, <2>3, <2>4 DEF CallInv
<1>6. \A d \in Calls \ {c} : SameCall(d) /\ SameLocks(d)
  BY FlowExAssumption DEF SameCall, SameLocks
<1>. QED  BY <1>4, <1>5, <1>6, OneCallMoves DEF IsCharge, Quiet

\* A charge reads a row as it is.
LEMMA ReadStep ==
  ASSUME WalletInv, NEW c \in Calls, ReadWallet(c)
  PROVE  WalletInv' /\ Quiet(c)
<1>1. PICK i \in Service!Matching(c) : /\ cur' = [cur EXCEPT ![c] = i]
                                       /\ entity' = [entity EXCEPT ![c] = wallets[i]]
  BY DEF ReadWallet, Service!ScanRowsUnlocked
<1>2. /\ pc[c] = "select" /\ pc' = [pc EXCEPT ![c] = "update"] /\ IsCharge(c)
      /\ UNCHANGED <<wallets, lock, req, todo, moved, reply, diff, overlapped>>
  BY DEF ReadWallet, Service!ScanRowsUnlocked, Service!Goto
<1>3. i \in Calls /\ Service!Exists(i) /\ Service!HasKey(wallets[i], req[c])
  BY DEF Service!Matching
<1>. QED  BY <1>1, <1>2, <1>3, LoadRow

\* A reservation starts to lock rows, goes from one to the next ...
LEMMA LockStep ==
  ASSUME WalletInv, NEW c \in Calls, ~IsCharge(c), UNCHANGED <<diff, overlapped>>,
         Service!ScanRows(c) \/ Service!LockRow(c)
  PROVE  WalletInv' /\ Quiet(c)
<1>. USE DEF WalletInv, TypeOK, Service!TypeOK
<1>1. /\ UNCHANGED <<wallets, req, entity, moved, reply>>
      /\ pc[c] \in {"select", "lock"} /\ pc' = [pc EXCEPT ![c] = "lock"]
  BY DEF Service!ScanRows, Service!LockRow, Service!TakeLock, Service!Goto
<1>2. PICK i \in Service!Matching(c) :
        /\ cur' = [cur EXCEPT ![c] = i]
        /\ \E S \in SUBSET Service!Matching(c) : todo' = [todo EXCEPT ![c] = S]
  <2>1. CASE Service!ScanRows(c)
    BY <2>1 DEF Service!ScanRows
  <2>2. CASE Service!LockRow(c)
    <3>1. pc[c] = "lock" /\ todo[c] \subseteq Service!Matching(c)
      BY <2>2 DEF Service!LockRow, Service!TakeLock, CallInv, LocksAreForTheKey
    <3>. QED  BY <2>2, <3>1 DEF Service!LockRow
  <2>. QED  BY <2>1, <2>2
<1>3. /\ \A j \in Calls : lock'[j] = c => lock[j] = c \/ j \in Service!Matching(c)
      /\ lock' = lock \/ (lock[cur[c]] = NoCall /\ lock' = [lock EXCEPT ![cur[c]] = c])
  BY DEF Service!ScanRows, Service!LockRow, Service!TakeLock, CallInv, LocksAreForTheKey
<1>4. i \in Calls /\ Service!Exists(i) /\ Service!Matching(c) \subseteq Calls
  BY DEF Service!Matching
<1>5. TypeOK'
  BY <1>1, <1>2, <1>3, <1>4
<1>6. /\ pc'[c] = "lock" /\ cur'[c] = i /\ ~IsCharge(c)'
      /\ todo'[c] \subseteq Service!Matching(c)
      /\ Service!Matching(c)' = Service!Matching(c)
  BY <1>1, <1>2, <1>4
  DEF IsCharge, Service!Matching, Service!Exists, Service!HasKey, Service!CurrencyToUse
<1>7. CallInv(c)'
  <2>1. RowOfCall(c)' /\ RowIsOfADoneCall(c)' /\ Unmoved(c)' /\ SavedIsRequested(c)'
    BY <1>1, <1>4, <1>6 DEF CallInv, RowOfCall, RowIsOfADoneCall, Unmoved,
       SavedIsRequested, Service!Exists
  <2>2. KeyOfCall(c)' /\ HoldsLock(c)' /\ CopyIsFresh(c)'
    BY <1>6 DEF KeyOfCall, HoldsLock, CopyIsFresh, Working
  <2>3. LocksAreForTheKey(c)'
    BY <1>1, <1>3, <1>6 DEF CallInv, LocksAreForTheKey
  <2>. QED  BY <2>1, <2>2, <2>3 DEF CallInv
<1>8. \A d \in Calls \ {c} : SameCall(d) /\ SameLocks(d)
  BY <1>1, <1>2, <1>3, FlowExAssumption DEF SameCall, SameLocks
<1>. QED  BY <1>1, <1>5, <1>6, <1>7, <1>8, OneCallMoves DEF IsCharge, Quiet

\* ... and works on one of those it has locked.
LEMMA LockLastStep ==
  ASSUME WalletInv, NEW c \in Calls, ~IsCharge(c), UNCHANGED <<diff, overlapped>>,
         Service!LockLastRow(c)
  PROVE  WalletInv' /\ Quiet(c)
<1>1. PICK i \in Calls : /\ lock'[i] = c
                         /\ cur' = [cur EXCEPT ![c] = i]
                         /\ entity' = [entity EXCEPT ![c] = wallets[i]]
  BY DEF Service!LockLastRow
<1>2. /\ pc[c] = "lock" /\ pc' = [pc EXCEPT ![c] = "update"]
      /\ lock[cur[c]] = NoCall /\ lock' = [lock EXCEPT ![cur[c]] = c]
      /\ UNCHANGED <<wallets, req, todo, moved, reply>>
  BY DEF Service!LockLastRow, Service!TakeLock, Service!Goto
<1>3. Service!Exists(i) /\ Service!HasKey(wallets[i], req[c])
  BY <1>1, <1>2
  DEF WalletInv, TypeOK, Service!TypeOK, CallInv, LocksAreForTheKey, Service!Matching
<1>. QED  BY <1>1, <1>2, <1>3, LoadRow

\* A charged row keeps its key and what is locked, and its balance grows.
LEMMA ChargedRow ==
  ASSUME NEW w \in Service!Wallet, StoredRow(w), NEW n \in Nat, NEW v, v = Charged(w, n)
  PROVE  /\ v \in Service!Wallet /\ StoredRow(v)
         /\ v.userId = w.userId /\ v.currency = w.currency
         /\ v.locked = w.locked /\ Grows(w.balance, v.balance, n)
<1>. DEFINE b == w.balance
            m == ToNumber((b + n) * Whole)
<1>1. b \in Nat /\ Stored(b)
  BY DEF Service!Wallet, StoredRow
<1>2. v = [w EXCEPT !.balance = m]
  BY DEF Charged
<1>. HIDE DEF b, m
<1>3. m \in Nat /\ Stored(m) /\ Grows(b, m, n)
  BY <1>1, FundsAssumption, ChargeGrows DEF m
<1>4. v \in Service!Wallet /\ v.balance = m /\ v.locked = w.locked
      /\ v.userId = w.userId /\ v.currency = w.currency
  BY <1>2, <1>3 DEF Service!Wallet
<1>. QED  BY <1>3, <1>4 DEF StoredRow, b

\* So does one a share of which is reserved, up to its balance.
LEMMA ReservedRow ==
  ASSUME NEW w \in Service!Wallet, StoredRow(w), NEW p \in Percents,
         NEW x, x = ShareOf(Available(w), p), x > 0, NEW v, v = Reserved(w, x)
  PROVE  /\ v \in Service!Wallet /\ StoredRow(v) /\ ToNumber(x) \in Nat
         /\ v.userId = w.userId /\ v.currency = w.currency
         /\ v.balance = w.balance /\ v.locked <= v.balance
         /\ Grows(w.locked, v.locked, ToNumber(x))
<1>. DEFINE b == w.balance
            l == w.locked
            m == ToNumber(l * Whole + x)
<1>1. b \in Nat /\ Stored(b) /\ l \in Nat /\ Stored(l)
  BY DEF Service!Wallet, StoredRow
<1>2. v = [w EXCEPT !.locked = m]
  BY DEF Reserved
<1>3. p \in Int /\ ValidPercent(p) /\ p > 0
  BY FlowExAssumption DEF ValidPercent
<1>4. x = (b - l) * p
  BY DEF ShareOf, Available
<1>. HIDE DEF b, l, m
<1>5. l <= b
  <2>. DEFINE a == b - l
  <2>1. a \in Int /\ a * p > 0
    BY <1>1, <1>4
  <2>. HIDE DEF a
  <2>2. a > 0
    BY <1>3, <2>1
  <2>. QED  BY <1>1, <2>2 DEF a
<1>6. x \in 0 .. (b - l) * Whole
  <2>1. b - l \in Nat
    BY <1>1, <1>5
  <2>2. ShareOf(b - l, p) \in 0 .. (b - l) * Whole
    BY <1>3, <2>1, FundsAssumption, ShareBounds
  <2>. QED  BY <1>4, <2>2 DEF ShareOf
<1>7. /\ m \in Nat /\ Stored(m) /\ m <= b
      /\ ToNumber(x) \in Nat /\ Grows(l, m, ToNumber(x))
  BY <1>1, <1>5, <1>6, FundsAssumption, ReserveGrows DEF m
<1>8. v \in Service!Wallet /\ v.balance = b /\ v.locked = m
      /\ v.userId = w.userId /\ v.currency = w.currency
  BY <1>2, <1>7 DEF Service!Wallet, b
<1>. QED  BY <1>1, <1>7, <1>8 DEF StoredRow, b, l

LEMMA AddStep ==
  ASSUME WalletInv, NEW c \in Calls, AddToBalance(c)
  PROVE  WalletInv' /\ Quiet(c)
<1>. USE DEF WalletInv, TypeOK, Service!TypeOK
<1>. DEFINE new == Charged(entity[c], req[c].amount)
<1>1. /\ pc[c] = "update" /\ pc' = [pc EXCEPT ![c] = "commit"] /\ IsCharge(c)
      /\ entity' = [entity EXCEPT ![c] = new]
      /\ moved' = [moved EXCEPT ![c] = req[c].amount]
      /\ reply' = [reply EXCEPT ![c] = "ok"]
      /\ UNCHANGED <<wallets, lock, req, cur, todo, diff, overlapped>>
  BY ServiceFunds DEF AddToBalance, Service!AddToBalance, Service!Goto, IsCharge, Charged
<1>2. /\ req[c].amount \in Nat /\ moved[c] = 0 /\ diff[c] = {}
      /\ entity[c] \in Service!Wallet /\ StoredRow(entity[c])
  BY <1>1, FlowExAssumption
  DEF CallInv, KeyOfCall, Unmoved, Working, IsCharge, Service!Request,
      Service!ChargeRequest, Service!LockRequest
<1>3. new \in Service!Wallet /\ StoredRow(new)
  BY <1>2, ChargedRow
<1>4. cur[c] \notin overlapped => new = Charged(Service!Base(c), req[c].amount)
  BY <1>1 DEF CallInv, CopyIsFresh, Working, Grown
<1>. HIDE DEF new
<1>5. TypeOK'
  BY <1>1, <1>2, <1>3
<1>6. /\ pc'[c] = "commit" /\ cur'[c] = cur[c] /\ entity'[c] = new /\ req'[c] = req[c]
      /\ moved'[c] = req[c].amount /\ diff'[c] = {} /\ Service!Base(c)' = Service!Base(c)
      /\ IsCharge(c)' /\ (Service!Exists(cur[c])' <=> Service!Exists(cur[c]))
  BY <1>1, <1>2 DEF Service!Base, Service!Exists, Service!CurrencyToUse, IsCharge
<1>7. CallInv(c)'
  <2>1. RowOfCall(c) /\ KeyOfCall(c) /\ RowIsOfADoneCall(c) /\ LocksAreForTheKey(c)
    BY DEF CallInv
  <2>2. RowOfCall(c)' /\ Unmoved(c)' /\ HoldsLock(c)' /\ SavedIsRequested(c)'
    BY <1>6, <2>1 DEF RowOfCall, Unmoved, HoldsLock, SavedIsRequested, Working
  <2>3. RowIsOfADoneCall(c)' /\ LocksAreForTheKey(c)'
    BY <1>1, <1>6, <2>1 DEF RowIsOfADoneCall, Service!Exists, LocksAreForTheKey
  <2>4. KeyOfCall(c)'
    BY <1>1, <1>3, <1>6, <2>1
    DEF KeyOfCall, Working, Service!HasKey, Service!CurrencyToUse, Service!Wallet, StoredRow
  <2>5. CopyIsFresh(c)'
    <3>1. Grown(c)' = Charged(Service!Base(c), req[c].amount)
      BY <1>6 DEF Grown, Charged
    <3>. QED  BY <1>1, <1>4, <1>6, <3>1 DEF CopyIsFresh
  <2>. QED  BY <2>2, <2>3, <2>4, <2>5 DEF CallInv
<1>8. \A d \in Calls \ {c} : SameCall(d) /\ SameLocks(d)
  BY <1>1 DEF SameCall, SameLocks
<1>. QED  BY <1>1, <1>5, <1>6, <1>7, <1>8, OneCallMoves DEF Quiet

LEMMA ReserveStep ==
  ASSUME WalletInv, NEW c \in Calls, ReserveShare(c)
  PROVE  WalletInv' /\ Quiet(c)
<1>. USE DEF WalletInv, TypeOK, Service!TypeOK
<1>. DEFINE x == ShareOf(Available(entity[c]), req[c].percent)
            n == ToNumber(x)
            new == Reserved(entity[c], x)
<1>1. /\ pc[c] = "update" /\ pc' = [pc EXCEPT ![c] = "commit"] /\ ~IsCharge(c)
      /\ x > 0
      /\ entity' = [entity EXCEPT ![c] = new] /\ moved' = [moved EXCEPT ![c] = n]
      /\ reply' = [reply EXCEPT ![c] = "ok"]
      /\ UNCHANGED <<wallets, lock, req, cur, todo, diff, overlapped>>
  BY ServiceFunds
  DEF ReserveShare, Service!ReserveShare, Service!Goto, IsCharge, Reserved
<1>2. /\ req[c].percent \in Percents /\ moved[c] = 0 /\ diff[c] = {}
      /\ entity[c] \in Service!Wallet /\ StoredRow(entity[c])
  BY <1>1
  DEF CallInv, KeyOfCall, Unmoved, Working, IsCharge, Service!Request,
      Service!ChargeRequest, Service!LockRequest
<1>3. new \in Service!Wallet /\ StoredRow(new) /\ n \in Nat
  <2>. HIDE DEF x
  <2>. QED  BY <1>1, <1>2, ReservedRow DEF x
<1>4. x = ShareOfCall(c) /\ new = Reserved(Service!Base(c), x)
  BY <1>1 DEF CallInv, CopyIsFresh, Working, Grown, ShareOfCall
<1>. HIDE DEF x, n, new
<1>5. TypeOK'
  BY <1>1, <1>2, <1>3
<1>6. /\ pc'[c] = "commit" /\ cur'[c] = cur[c] /\ entity'[c] = new /\ req'[c] = req[c]
      /\ moved'[c] = n /\ diff'[c] = {} /\ Service!Base(c)' = Service!Base(c)
      /\ ~IsCharge(c)' /\ (Service!Exists(cur[c])' <=> Service!Exists(cur[c]))
  BY <1>1, <1>2 DEF Service!Base, Service!Exists, Service!CurrencyToUse, IsCharge
<1>7. ShareOfCall(c)' = x
  BY <1>4, <1>6 DEF ShareOfCall, Available
<1>8. CallInv(c)'
  <2>1. RowOfCall(c) /\ KeyOfCall(c) /\ RowIsOfADoneCall(c) /\ HoldsLock(c)
        /\ LocksAreForTheKey(c)
    BY DEF CallInv
  <2>2. RowOfCall(c)' /\ Unmoved(c)' /\ SavedIsRequested(c)'
    BY <1>1, <1>6, <1>7, <2>1 DEF RowOfCall, Unmoved, SavedIsRequested, Working, n
  <2>3. RowIsOfADoneCall(c)' /\ HoldsLock(c)' /\ LocksAreForTheKey(c)'
    BY <1>1, <1>6, <2>1
    DEF RowIsOfADoneCall, Service!Exists, HoldsLock, Working, LocksAreForTheKey
  <2>4. KeyOfCall(c)'
    BY <1>1, <1>3, <1>6, <2>1
    DEF KeyOfCall, Working, Service!HasKey, Service!CurrencyToUse, Service!Wallet, StoredRow
  <2>5. CopyIsFresh(c)'
    <3>1. Grown(c)' = Reserved(Service!Base(c), x)
      BY <1>6, <1>7 DEF Grown, Reserved
    <3>. QED  BY <1>4, <1>6, <3>1 DEF CopyIsFresh
  <2>. QED  BY <2>2, <2>3, <2>4, <2>5 DEF CallInv
<1>9. \A d \in Calls \ {c} : SameCall(d) /\ SameLocks(d)
  BY <1>1 DEF SameCall, SameLocks
<1>. QED  BY <1>1, <1>5, <1>6, <1>8, <1>9, OneCallMoves DEF Quiet

\* save, first part: the columns a fresh copy differs in.
LEMMA CompareStep ==
  ASSUME WalletInv, NEW c \in Calls, CompareColumns(c)
  PROVE  WalletInv' /\ Quiet(c)
<1>1. /\ pc[c] = "commit" /\ IsCharge(c) /\ diff' = [diff EXCEPT ![c] = {Dirty(c)}]
      /\ UNCHANGED <<wallets, lock, pc, req, cur, todo, entity, moved, reply, overlapped>>
  BY DEF CompareColumns, Dirty, service
<1>. USE DEF WalletInv, TypeOK, Service!TypeOK
<1>2. TypeOK'
  <2>1. Dirty(c) \in SUBSET Columns
    BY DEF Dirty
  <2>. QED  BY <1>1, <2>1
<1>3. Service!Base(c)' = Service!Base(c)
  BY <1>1 DEF Service!Base, Service!Exists, Service!CurrencyToUse
<1>4. Grown(c)' = Grown(c) /\ Dirty(c)' = Dirty(c)
  BY <1>1, <1>3 DEF Grown, Dirty, IsCharge, Charged
<1>5. CallInv(c)'
  <2>1. CopyIsFresh(c)'
    BY <1>1, <1>4 DEF CallInv, CopyIsFresh, Working, IsCharge
  <2>2. KeyOfCall(c)'
    BY <1>1, <1>3 DEF CallInv, KeyOfCall, Working, Service!HasKey, Service!CurrencyToUse,
       Service!Wallet, StoredRow
  <2>3. SavedIsRequested(c)'
    BY <1>1 DEF CallInv, SavedIsRequested, IsCharge
  <2>. QED
    BY <1>1, <2>1, <2>2, <2>3
    DEF CallInv, RowOfCall, RowIsOfADoneCall, Unmoved, HoldsLock, LocksAreForTheKey,
        Working, IsCharge, Service!Exists
<1>6. \A d \in Calls \ {c} : SameCall(d) /\ SameLocks(d)
  BY <1>1 DEF SameCall, SameLocks
<1>. QED  BY <1>1, <1>2, <1>5, <1>6, OneCallMoves DEF IsCharge, Quiet

\* A call that ends without a commit gives its locks back.
LEMMA EndStep ==
  ASSUME WalletInv, NEW c \in Calls, RefuseReservation(c) \/ Rollback(c)
  PROVE  WalletInv' /\ Quiet(c)
<1>. USE DEF WalletInv, TypeOK, Service!TypeOK
<1>1. /\ pc[c] \in {"select", "lock", "insert", "update", "commit"}
      /\ pc' = [pc EXCEPT ![c] = "done"]
      /\ lock' = [i \in Calls |-> IF lock[i] = c THEN NoCall ELSE lock[i]]
      /\ \E r \in {"error", "insufficient"} : reply' = [reply EXCEPT ![c] = r]
      /\ todo' = todo \/ todo' = [todo EXCEPT ![c] = {}]
      /\ \/ pc[c] = "update" /\ moved' = moved
         \/ moved' = [moved EXCEPT ![c] = 0]
      /\ UNCHANGED <<wallets, req, cur, entity, diff, overlapped>>
  BY DEF RefuseReservation, Rollback, Service!Rollback, Service!Goto, Service!Unlocked
<1>2. TypeOK'
  <2>1. todo' \in [Calls -> SUBSET Calls] /\ moved' \in [Calls -> Nat]
        /\ lock' \in [Calls -> Calls \cup {NoCall}]
    BY <1>1
  <2>2. /\ pc' \in [Calls -> {"idle", "select", "lock", "insert", "update", "commit",
                              "done"}]
        /\ reply' \in [Calls -> {"none", "ok", "invalid", "insufficient", "error"}]
    BY <1>1
  <2>. QED  BY <1>1, <2>1, <2>2
<1>3. pc'[c] = "done" /\ \A i \in Calls : lock'[i] # c
  BY <1>1, FlowExAssumption
<1>4. CallInv(c)'
  <2>1. HoldsLock(c)' /\ LocksAreForTheKey(c)'
    BY <1>3 DEF HoldsLock, LocksAreForTheKey, Working
  <2>. QED
    BY <1>1, <1>3, <2>1 DEF CallInv, RowOfCall, RowIsOfADoneCall, Unmoved, KeyOfCall,
       CopyIsFresh, SavedIsRequested, Working, IsCharge, Service!Exists
<1>5. \A d \in Calls \ {c} : SameCall(d) /\ SameLocks(d)
  BY <1>1, FlowExAssumption DEF SameCall, SameLocks
<1>6. moved'[c] = 0
  BY <1>1 DEF CallInv, Unmoved
<1>. QED  BY <1>1, <1>2, <1>4, <1>5, <1>6, OneCallMoves DEF IsCharge, Quiet

----------------------------------------------------------------------------
(* The commit of a call writes one row.                                    *)

Commits(c) == CommitReservation(c) \/ CommitCharge(c) \/ CommitChargeUnacknowledged(c)

\* The commit of c puts v into its row.
Writes(c, v) ==
  /\ pc[c] = "commit" /\ pc' = [pc EXCEPT ![c] = "done"]
  /\ wallets' = [wallets EXCEPT ![cur[c]] = v]
  /\ lock[cur[c]] \in {NoCall, c}
  /\ lock' = [i \in Calls |-> IF lock[i] = c THEN NoCall ELSE lock[i]]
  /\ reply' = reply \/ reply' = [reply EXCEPT ![c] = "error"]
  /\ Overlap(c)
  /\ UNCHANGED <<req, cur, todo, entity, moved, diff>>

\* What it adds to the column it is about.
Moves(c, v) ==
  LET now == Service!Base(c) IN
  IF IsCharge(c) THEN v.locked = now.locked /\ Grows(now.balance, v.balance, moved[c])
  ELSE /\ v.balance = now.balance /\ v.locked <= v.balance
       /\ Grows(now.locked, v.locked, moved[c])

\* A row keeps its key; what a fresh copy writes is the row with what moved.
LEMMA CommitWrites ==
  ASSUME WalletInv, NEW c \in Calls, Commits(c)
  PROVE  \E v \in Service!Wallet :
           /\ Writes(c, v) /\ StoredRow(v)
           /\ v.userId = Service!Base(c).userId /\ v.currency = Service!Base(c).currency
           /\ (IsCharge(c) => cur[c] \notin overlapped) => Moves(c, v)
<1>. DEFINE now == Service!Base(c)
<1>1. now \in Service!Wallet /\ StoredRow(now)
  BY BaseIsWallet
<1>2. pc[c] = "commit" /\ pc' = [pc EXCEPT ![c] = "done"] /\ Working(c)
  <2>1. CommitReservation(c) => Service!Goto(c, "commit", "done")
    BY DEF CommitReservation, Service!Commit, Service!CommitUnacknowledged,
       Service!CommitRow
  <2>2. WriteColumns(c) => Service!Goto(c, "commit", "done")
    BY Zenon DEF WriteColumns
  <2>. QED
    BY <2>1, <2>2
    DEF Commits, CommitCharge, CommitChargeUnacknowledged, Service!Goto, Working
<1>3. entity[c] \in Service!Wallet /\ StoredRow(entity[c])
  BY <1>2 DEF WalletInv, CallInv, KeyOfCall
<1>4. CASE CommitReservation(c)
  <2>1. ~IsCharge(c) /\ req[c].percent \in Percents
    BY <1>4
    DEF CommitReservation, WalletInv, TypeOK, Service!TypeOK, IsCharge, Service!Request,
        Service!ChargeRequest, Service!LockRequest
  <2>. DEFINE x == ShareOfCall(c)
  <2>2. /\ entity[c] = Reserved(now, x) /\ lock[cur[c]] = c
        /\ x > 0 /\ moved[c] = ToNumber(x) /\ x = ShareOf(Available(now), req[c].percent)
    BY <1>2, <2>1 DEF WalletInv, CallInv, CopyIsFresh, SavedIsRequested, HoldsLock, Grown,
       ShareOfCall
  <2>. HIDE DEF now, x
  <2>3. /\ entity[c].userId = now.userId /\ entity[c].currency = now.currency
        /\ entity[c].balance = now.balance /\ entity[c].locked <= entity[c].balance
        /\ Grows(now.locked, entity[c].locked, moved[c])
    BY <1>1, <2>1, <2>2, ReservedRow
  <2>4. Moves(c, entity[c])
    BY <2>1, <2>3 DEF Moves, now
  <2>5. Writes(c, entity[c])
    BY <1>2, <1>4, <2>2
    DEF Writes, CommitReservation, Service!Commit, Service!CommitUnacknowledged,
        Service!CommitRow, Service!Unlocked
  <2>. QED  BY <1>3, <2>3, <2>4, <2>5 DEF now
<1>5. CASE CommitCharge(c) \/ CommitChargeUnacknowledged(c)
  <2>1. WriteColumns(c) /\ (reply' = reply \/ reply' = [reply EXCEPT ![c] = "error"])
    BY <1>5 DEF CommitCharge, CommitChargeUnacknowledged
  <2>. DEFINE new(k, dirty) == IF k \in dirty THEN entity[c][k] ELSE now[k]
              row(dirty) == [now EXCEPT !.balance = new("balance", dirty),
                                        !.locked = new("locked", dirty)]
  <2>2. PICK dirty \in diff[c] : wallets' = [wallets EXCEPT ![cur[c]] = row(dirty)]
    BY <2>1, Zenon DEF WriteColumns
  <2>3. Writes(c, row(dirty))
    BY <1>2, <2>1, <2>2 DEF WriteColumns, Writes, Service!Unlocked
  <2>4. /\ row(dirty) \in Service!Wallet
        /\ row(dirty).userId = now.userId /\ row(dirty).currency = now.currency
        /\ row(dirty).balance = new("balance", dirty)
        /\ row(dirty).locked = new("locked", dirty)
    BY <1>1, <1>3 DEF Service!Wallet
  <2>5. StoredRow(row(dirty))
    BY <1>1, <1>3, <2>4 DEF StoredRow
  <2>6. IsCharge(c)
    <3>1. ~IsCharge(c) => diff[c] = {}
      BY DEF WalletInv, CallInv, Unmoved
    <3>. QED  BY <2>2, <3>1
  <2>7. cur[c] \notin overlapped => Moves(c, row(dirty))
    <3>. SUFFICES ASSUME cur[c] \notin overlapped PROVE Moves(c, row(dirty))
      OBVIOUS
    <3>1. entity[c] = Charged(now, moved[c]) /\ dirty = Dirty(c) /\ moved[c] \in Nat
      BY <1>2, <2>2, <2>6 DEF WalletInv, CallInv, CopyIsFresh, Grown, TypeOK, Service!TypeOK
    <3>2. entity[c].locked = now.locked /\ Grows(now.balance, entity[c].balance, moved[c])
      <4>. HIDE DEF now
      <4>. QED  BY <1>1, <3>1, ChargedRow
    <3>3. new("balance", dirty) = entity[c].balance /\ new("locked", dirty) = now.locked
      BY <3>1, <3>2 DEF Dirty, Columns
    <3>. QED  BY <2>4, <2>6, <3>2, <3>3 DEF Moves
  <2>. QED  BY <2>3, <2>4, <2>5, <2>6, <2>7
<1>. QED  BY <1>4, <1>5 DEF Commits

LEMMA WriteStep ==
  ASSUME WalletInv, NEW c \in Calls, Commits(c)
  PROVE  WalletInv'
<1>1. PICK v \in Service!Wallet :
        /\ Writes(c, v) /\ StoredRow(v)
        /\ v.userId = Service!Base(c).userId /\ v.currency = Service!Base(c).currency
  BY CommitWrites
<1>. DEFINE i == cur[c]
<1>2. /\ pc[c] = "commit" /\ pc' = [pc EXCEPT ![c] = "done"]
      /\ wallets' = [wallets EXCEPT ![i] = v]
      /\ lock[i] \in {NoCall, c}
      /\ lock' = [j \in Calls |-> IF lock[j] = c THEN NoCall ELSE lock[j]]
      /\ reply' = reply \/ reply' = [reply EXCEPT ![c] = "error"]
      /\ overlapped' = IF Holding(i) \ {c} = {} THEN overlapped ELSE overlapped \cup {i}
      /\ UNCHANGED <<req, cur, todo, entity, moved, diff>>
  BY <1>1 DEF Writes, Overlap
<1>. USE DEF WalletInv, TypeOK, Service!TypeOK
<1>3. i \in Calls /\ v # NoWallet /\ (Service!Exists(i) \/ i = c)
  BY FlowExAssumption DEF CallInv, RowOfCall
<1>. HIDE DEF i
<1>4. TypeOK'
  BY <1>1, <1>2, <1>3
<1>5. \A j \in Calls : /\ Service!Exists(j)' <=> Service!Exists(j) \/ j = i
                       /\ j # i => wallets'[j] = wallets[j]
  BY <1>2, <1>3 DEF Service!Exists
<1>6. wallets'[i] = v
  BY <1>2, <1>3
<1>7. \A d \in Calls : RowIsOfADoneCall(d)' /\ RowOfCall(d)'
  BY <1>2, <1>3, <1>5 DEF CallInv, RowIsOfADoneCall, RowOfCall, i
<1>8. CallInv(c)'
  <2>1. ~Working(c)' /\ pc'[c] = "done" /\ \A j \in Calls : lock'[j] # c
    BY <1>2, FlowExAssumption DEF Working
  <2>2. IsCharge(c)' <=> IsCharge(c)
    BY <1>2 DEF IsCharge
  <2>. QED
    BY <1>2, <1>7, <2>1, <2>2
    DEF CallInv, Unmoved, KeyOfCall, HoldsLock, LocksAreForTheKey, CopyIsFresh,
        SavedIsRequested
<1>9. ASSUME NEW d \in Calls \ {c} PROVE CallInv(d)'
  <2>1. /\ pc'[d] = pc[d] /\ (Working(d)' <=> Working(d)) /\ (IsCharge(d)' <=> IsCharge(d))
        /\ cur[d] \in Calls /\ CallInv(d)
        /\ \A j \in Calls : lock'[j] = d <=> lock[j] = d
    BY <1>2, FlowExAssumption DEF Working, IsCharge
  <2>2. Unmoved(d)' /\ HoldsLock(d)'
    BY <1>2, <2>1 DEF CallInv, Unmoved, HoldsLock
  <2>3. LocksAreForTheKey(d)'
    <3>1. Service!Exists(i) => wallets[i].userId = v.userId /\ wallets[i].currency = v.currency
      BY <1>1 DEF Service!Base, i
    <3>2. Service!Matching(d) \subseteq Service!Matching(d)'
      BY <1>2, <1>5, <1>6, <3>1 DEF Service!Matching, Service!HasKey, Service!CurrencyToUse
    <3>. QED  BY <1>2, <2>1, <3>2 DEF CallInv, LocksAreForTheKey
  <2>4. CASE cur[d] # i
    <3>1. Service!Base(d)' = Service!Base(d)
      BY <1>2, <1>5, <2>1, <2>4 DEF Service!Base, Service!CurrencyToUse
    <3>2. ShareOfCall(d)' = ShareOfCall(d)
      BY <1>2, <3>1 DEF ShareOfCall, Available
    <3>3. Grown(d)' = Grown(d) /\ Dirty(d)' = Dirty(d)
      BY <1>2, <2>1, <3>1, <3>2 DEF Grown, Dirty, Charged, Reserved
    <3>4. CopyIsFresh(d)' /\ SavedIsRequested(d)'
      BY <1>2, <2>1, <3>2, <3>3 DEF CallInv, CopyIsFresh, SavedIsRequested
    <3>5. KeyOfCall(d)'
      BY <1>2, <2>1, <3>1
      DEF CallInv, KeyOfCall, Service!HasKey, Service!CurrencyToUse, Service!Wallet, StoredRow
    <3>. QED  BY <1>7, <2>2, <2>3, <3>4, <3>5 DEF CallInv
  <2>5. CASE cur[d] = i
    <3>1. Working(d) => IsCharge(d)
      BY <1>2, <2>1, <2>5, FlowExAssumption DEF CallInv, HoldsLock
    <3>2. Working(d) => i \in overlapped'
      <4>1. Working(d) => d \in Holding(i) \ {c}
        BY <2>5, <3>1 DEF Holding, Working
      <4>. QED  BY <1>2, <4>1
    <3>3. CopyIsFresh(d)' /\ SavedIsRequested(d)'
      BY <1>2, <2>1, <2>5, <3>1, <3>2 DEF CallInv, CopyIsFresh, SavedIsRequested, Working
    <3>4. Service!Exists(i)
      BY <1>3, <2>1, <2>5 DEF CallInv, RowOfCall
    <3>5. Service!Base(c) = wallets[i] /\ Service!Base(d) = wallets[i]
      BY <2>5, <3>4 DEF Service!Base, i
    <3>6. Service!Base(d)' = v
      BY <1>2, <1>5, <1>6, <2>5, <3>4 DEF Service!Base
    <3>7. KeyOfCall(d)'
      BY <1>1, <1>2, <2>1, <3>5, <3>6
      DEF CallInv, KeyOfCall, Service!HasKey, Service!CurrencyToUse, Service!Wallet, StoredRow
    <3>. QED  BY <1>7, <2>2, <2>3, <3>3, <3>7 DEF CallInv
  <2>. QED  BY <2>4, <2>5
<1>10. CallbacksCharge' /\ IsFiniteSet(EndedCalls')
  BY <1>2, EndedStaysFinite DEF CallbacksCharge, IsCharge
<1>11. RowsAreStored'
  BY <1>1, <1>5, <1>6 DEF RowsAreStored, StoredRow
<1>. QED  BY <1>4, <1>8, <1>9, <1>10, <1>11

\* What keeps the transactions keeps the invariant.
LEMMA StutterStep == WalletInv /\ UNCHANGED vars => WalletInv'
<1>. SUFFICES ASSUME WalletInv, UNCHANGED vars PROVE WalletInv'
  OBVIOUS
<1>1. \A c \in Calls : SameCall(c) /\ SameLocks(c)
  BY DEF vars, service, SameCall, SameLocks
<1>2. \A c \in Calls : CallInv(c)'
  BY <1>1, OtherCallsKept DEF vars, service
<1>3. TypeOK' /\ CallbacksCharge' /\ IsFiniteSet(EndedCalls')
  BY DEF WalletInv, vars, service, TypeOK, Service!TypeOK, CallbacksCharge, IsCharge,
     EndedCalls
<1>4. RowsAreStored'
  BY DEF WalletInv, vars, service, RowsAreStored, StoredRow, Service!Exists
<1>. QED  BY <1>2, <1>3, <1>4 DEF WalletInv

----------------------------------------------------------------------------
(* The deposits and the callbacks: what Payments_proofs shows for a charge *)
(* of one step still holds for one of many, as the callback stays where it *)
(* is until its transaction has ended.                                     *)

Settled == {"COMPLETED", "CANCELED"}

\* A row exists once the deposit has committed.
RowsOfDoneDeposits == \A d \in Deposits : dep[d] = "done" <=> status[d] # "none"

CreditedIsSettled == \A d \in Deposits : credits[d] > 0 => status[d] \in Settled

\* A callback works on a row that exists, and charges for a settled one.
CallbackHasRow ==
  \A h \in Callbacks : at[h] \in {"cancel", "verify", "save", "charge"} =>
    /\ arg[h] \in Pay!Message /\ status[Pay!Row(h)] # "none"
    /\ at[h] = "charge" => status[Pay!Row(h)] \in Settled

\* Without an overlap, who is verifying is alone and nothing is credited yet.
VerifiesAlone ==
  \A d \in Deposits \ raced :
    /\ credits[d] <= 1
    /\ \A h \in Callbacks : Pay!Verifying(h, d) =>
         credits[d] = 0 /\ \A g \in Callbacks : Pay!Verifying(g, d) => g = h

PaymentInv ==
  /\ Pay!RequestsTypeOK /\ RowsOfDoneDeposits /\ CreditedIsSettled
  /\ CallbackHasRow /\ VerifiesAlone

\* The transaction of a callback is the charge its row asks for.
ChargeIsOfDeposit ==
  \A h \in Callbacks :
    /\ pc[h] = "done" => at[h] = "done"
    /\ pc[h] \notin {"idle", "done"} =>
         /\ at[h] = "charge" /\ req[h].userId = ask[Pay!Row(h)].userId
         /\ req[h].amount = Pay!UsdAmount(ask[Pay!Row(h)].amount)

LEMMA DepositStep ==
  ASSUME PaymentInv, NEW d \in Deposits,
         \/ CreateTransaction(d) \/ SendRequest(d) \/ CommitDeposit(d)
         \/ RollbackDeposit(d) \/ UserPays(d)
  PROVE  PaymentInv' /\ UNCHANGED <<ask, at, arg, told, credits, raced, dropped>>
<1>1. UNCHANGED <<ask, at, arg, told, credits, raced, dropped>>
  BY DEF CreateTransaction, SendRequest, CommitDeposit, RollbackDeposit, UserPays,
     Pay!CreateTransaction, Pay!SendRequest, Pay!CommitDeposit, Pay!RollbackDeposit,
     Pay!UserPays, Pay!tables, Pay!handlers, Pay!history
<1>2. \/ /\ dep[d] # "done"
         /\ \/ /\ \E s \in {"request", "commit", "failed"} : dep' = [dep EXCEPT ![d] = s]
               /\ status' = status
               /\ session' = session \/ session' = [session EXCEPT ![d] = "open"]
            \/ /\ dep' = [dep EXCEPT ![d] = "done"]
               /\ status' = [status EXCEPT ![d] = "PENDING"]
               /\ session' = session
      \/ /\ dep[d] = "done" /\ UNCHANGED <<dep, status>>
         /\ session' = [session EXCEPT ![d] = "paid"]
  BY DEF CreateTransaction, SendRequest, CommitDeposit, RollbackDeposit, UserPays,
     Pay!CreateTransaction, Pay!SendRequest, Pay!CommitDeposit, Pay!RollbackDeposit,
     Pay!UserPays, Pay!GotoDep, Pay!HasConnection, Pay!tables, Pay!handlers, Pay!history
<1>. USE DEF PaymentInv, Pay!RequestsTypeOK
<1>3. session' \in [Deposits -> {"none", "open", "paid", "verified"}]
  <2>1. \/ session' = session \/ session' = [session EXCEPT ![d] = "open"]
        \/ session' = [session EXCEPT ![d] = "paid"]
    BY <1>2
  <2>. QED  BY <2>1
<1>4. /\ dep' \in [Deposits -> {"idle", "request", "commit", "done", "failed"}]
      /\ status' \in [Deposits -> {"none", "PENDING", "COMPLETED", "CANCELED"}]
  <2>1. dep' \in [Deposits -> {"idle", "request", "commit", "done", "failed"}]
    <3>1. \/ dep' = dep
          \/ \E s \in {"request", "commit", "failed", "done"} : dep' = [dep EXCEPT ![d] = s]
      BY <1>2
    <3>. QED  BY <3>1
  <2>2. status' \in [Deposits -> {"none", "PENDING", "COMPLETED", "CANCELED"}]
    <3>1. status' = status \/ status' = [status EXCEPT ![d] = "PENDING"]
      BY <1>2
    <3>. QED  BY <3>1
  <2>. QED  BY <2>1, <2>2
<1>5. RowsOfDoneDeposits'
  BY <1>2 DEF RowsOfDoneDeposits
<1>6. \A e \in Deposits : status[e] # "none" => status'[e] = status[e]
  BY <1>2 DEF RowsOfDoneDeposits
<1>7. CreditedIsSettled'
  BY <1>1, <1>6 DEF CreditedIsSettled, Settled
<1>8. CallbackHasRow'
  BY <1>1, <1>6 DEF CallbackHasRow, Pay!Row, Pay!Message
<1>9. VerifiesAlone'
  BY <1>1 DEF VerifiesAlone, Pay!Verifying, Pay!Row
<1>. QED  BY <1>1, <1>3, <1>4, <1>5, <1>7, <1>8, <1>9

\* A request that is answered at once.
LEMMA AnswerStep ==
  ASSUME PaymentInv, NEW h \in Callbacks, Pay!AnswerSettled(h) \/ Pay!AnswerFailed(h)
  PROVE  /\ PaymentInv' /\ UNCHANGED <<ask, arg, credits>>
         /\ at[h] = "idle" /\ \A g \in Callbacks \ {h} : at'[g] = at[g]
<1>1. UNCHANGED <<ask, dep, status, session, arg, credits, raced, dropped>>
  BY DEF Pay!AnswerSettled, Pay!AnswerFailed, Pay!Answer, Pay!tables, Pay!history
<1>2. /\ at[h] = "idle" /\ at' = [at EXCEPT ![h] = "done"]
      /\ \E s \in {"success", "failed"} : told' = [told EXCEPT ![h] = s]
  BY DEF Pay!AnswerSettled, Pay!AnswerFailed, Pay!Answer, Pay!Goto, Pay!Tell
<1>. USE DEF PaymentInv
<1>3. /\ \A g \in Callbacks : Pay!Row(g)' = Pay!Row(g)
      /\ \A g \in Callbacks \ {h} : at'[g] = at[g]
      /\ at'[h] = "done"
  BY <1>1, <1>2 DEF Pay!RequestsTypeOK, Pay!Row
<1>4. Pay!RequestsTypeOK'
  <2>1. at' \in [Callbacks -> {"idle", "cancel", "verify", "save", "charge", "done"}]
    BY <1>2 DEF Pay!RequestsTypeOK
  <2>2. told' \in [Callbacks ->
                     {"none", "success", "canceled", "completed", "failed", "error"}]
    BY <1>2 DEF Pay!RequestsTypeOK
  <2>. QED  BY <1>1, <2>1, <2>2 DEF Pay!RequestsTypeOK
<1>5. RowsOfDoneDeposits' /\ CreditedIsSettled'
  BY <1>1 DEF RowsOfDoneDeposits, CreditedIsSettled
<1>6. CallbackHasRow'
  BY <1>1, <1>3 DEF CallbackHasRow
<1>7. VerifiesAlone'
  <2>1. \A g \in Callbacks, e \in Deposits : Pay!Verifying(g, e)' => Pay!Verifying(g, e)
    BY <1>3 DEF Pay!Verifying
  <2>. QED  BY <1>1, <2>1 DEF VerifiesAlone
<1>. QED  BY <1>1, <1>2, <1>3, <1>4, <1>5, <1>6, <1>7

\* One whose row the callback goes on with.
LEMMA ReceiveStep ==
  ASSUME PaymentInv, NEW h \in Callbacks, Pay!ReceiveNOK(h) \/ Pay!ReceiveOK(h)
  PROVE  /\ PaymentInv' /\ UNCHANGED <<ask, credits>>
         /\ at[h] = "idle" /\ \A g \in Callbacks \ {h} : at'[g] = at[g] /\ arg'[g] = arg[g]
<1>1. UNCHANGED <<ask, dep, status, session, told, credits, dropped>>
  BY DEF Pay!ReceiveNOK, Pay!ReceiveOK, Pay!Find, Pay!tables
<1>2. at[h] = "idle"
  BY DEF Pay!ReceiveNOK, Pay!ReceiveOK, Pay!Find, Pay!Goto
<1>3. PICK m \in Pay!Message :
        /\ arg' = [arg EXCEPT ![h] = m]
        /\ status[m[1]] = "PENDING"
        /\ \/ at' = [at EXCEPT ![h] = "cancel"] /\ UNCHANGED raced
           \/ at' = [at EXCEPT ![h] = "verify"] /\ Pay!NoteRace(m[1])
  BY DEF Pay!ReceiveNOK, Pay!ReceiveOK, Pay!Find, Pay!Goto
<1>. USE DEF PaymentInv
<1>4. m \in Pay!Message /\ m[1] \in Deposits
  BY DEF Pay!Message
<1>5. Pay!RequestsTypeOK'
  <2>1. arg' \in [Callbacks -> Pay!Message \cup {<<>>}]
    BY <1>3, <1>4 DEF Pay!RequestsTypeOK
  <2>2. at' \in [Callbacks -> {"idle", "cancel", "verify", "save", "charge", "done"}]
    <3>1. \/ at' = [at EXCEPT ![h] = "cancel"]
          \/ at' = [at EXCEPT ![h] = "verify"]
      BY <1>3
    <3>. QED  BY <3>1 DEF Pay!RequestsTypeOK
  <2>3. raced' \subseteq Deposits
    <3>1. raced' \in {raced, raced \cup {m[1]}}
      BY <1>3 DEF Pay!NoteRace
    <3>. QED  BY <1>4, <3>1 DEF Pay!RequestsTypeOK
  <2>. QED  BY <1>1, <2>1, <2>2, <2>3 DEF Pay!RequestsTypeOK
<1>6. RowsOfDoneDeposits' /\ CreditedIsSettled'
  BY <1>1 DEF RowsOfDoneDeposits, CreditedIsSettled
<1>7. /\ Pay!Row(h)' = m[1]
      /\ \A g \in Callbacks \ {h} : /\ Pay!Row(g)' = Pay!Row(g) /\ arg'[g] = arg[g]
                                    /\ at'[g] = at[g]
      /\ at'[h] \in {"cancel", "verify"}
  BY <1>3, <1>4 DEF Pay!RequestsTypeOK, Pay!Row
<1>8. CallbackHasRow'
  BY <1>1, <1>3, <1>4, <1>7 DEF Pay!RequestsTypeOK, CallbackHasRow
<1>9. VerifiesAlone'
  <2>. SUFFICES ASSUME NEW d \in Deposits \ raced'
                PROVE  /\ credits[d] <= 1
                       /\ \A k \in Callbacks : Pay!Verifying(k, d)' =>
                            credits[d] = 0 /\ \A g \in Callbacks : Pay!Verifying(g, d)' => g = k
    BY <1>1 DEF VerifiesAlone
  <2>1. d \notin raced
    BY <1>3 DEF Pay!NoteRace
  <2>2. \A g \in Callbacks : g # h => (Pay!Verifying(g, d)' <=> Pay!Verifying(g, d))
    BY <1>7 DEF Pay!Verifying
  <2>3. CASE Pay!Verifying(h, d)'
    <3>1. d = m[1] /\ status[d] = "PENDING" /\ at'[h] = "verify"
      BY <1>3, <1>7, <2>3 DEF Pay!RequestsTypeOK, Pay!Verifying
    <3>2. ~ \E g \in Callbacks : Pay!Verifying(g, d)
      <4>1. raced' = IF \E g \in Callbacks : Pay!Verifying(g, m[1])
                     THEN raced \cup {m[1]} ELSE raced
        BY <1>3, <3>1 DEF Pay!RequestsTypeOK, Pay!NoteRace
      <4>. QED  BY <3>1, <4>1
    <3>3. credits[d] = 0
      <4>1. credits[d] \in Nat /\ ~(credits[d] > 0)
        BY <3>1 DEF Pay!RequestsTypeOK, CreditedIsSettled, Settled
      <4>. QED  BY <4>1
    <3>. QED  BY <2>2, <3>2, <3>3
  <2>4. CASE ~Pay!Verifying(h, d)'
    BY <2>1, <2>2, <2>4 DEF VerifiesAlone
  <2>. QED  BY <2>3, <2>4
<1>. QED  BY <1>1, <1>2, <1>5, <1>6, <1>7, <1>8, <1>9

LEMMA FindTransactionStep ==
  ASSUME PaymentInv, NEW h \in Callbacks, FindTransaction(h)
  PROVE  /\ PaymentInv' /\ UNCHANGED <<ask, credits>>
         /\ at[h] = "idle" /\ \A g \in Callbacks \ {h} : at'[g] = at[g] /\ arg'[g] = arg[g]
BY AnswerStep, ReceiveStep DEF FindTransaction

\* A callback that ends, or goes on, before its transaction begins.
LEMMA VerifyStep ==
  ASSUME PaymentInv, NEW h \in Callbacks,
         SaveCanceled(h) \/ Verify(h) \/ SaveCompleted(h) \/ FailCallback(h)
  PROVE  /\ PaymentInv' /\ UNCHANGED <<ask, arg, credits>>
         /\ pc[h] = "idle" \/ at[h] \in {"cancel", "verify", "save"}
         /\ \A g \in Callbacks \ {h} : at'[g] = at[g]
<1>. DEFINE d == Pay!Row(h)
<1>1. UNCHANGED <<ask, dep, arg, credits, raced>>
  BY DEF SaveCanceled, Verify, SaveCompleted, FailCallback, Pay!SaveCanceled,
     Pay!GatewayConfirms, Pay!GatewayFails, Pay!SaveCompleted, Pay!FailCallback, Pay!tables,
     Pay!history
<1>2. \/ told' = told
      \/ \E s \in {"canceled", "failed", "error"} : told' = [told EXCEPT ![h] = s]
  BY DEF SaveCanceled, Verify, SaveCompleted, FailCallback, Pay!SaveCanceled,
     Pay!GatewayConfirms, Pay!GatewayFails, Pay!SaveCompleted, Pay!FailCallback, Pay!Tell
<1>3. at[h] \in {"cancel", "verify", "save", "charge"}
      /\ (pc[h] = "idle" \/ at[h] \in {"cancel", "verify", "save"})
  BY DEF SaveCanceled, Verify, SaveCompleted, FailCallback, Pay!SaveCanceled,
     Pay!GatewayConfirms, Pay!GatewayFails, Pay!SaveCompleted, Pay!FailCallback, Pay!Goto
<1>4. d \in Deposits /\ status[d] # "none"
  BY <1>3 DEF PaymentInv, CallbackHasRow, Pay!Row, Pay!Message
<1>5. \/ /\ at' = [at EXCEPT ![h] = "done"] /\ status' = [status EXCEPT ![d] = "CANCELED"]
         /\ UNCHANGED <<session, dropped>>
      \/ /\ at[h] = "verify" /\ at' = [at EXCEPT ![h] = "save"]
         /\ session' = [session EXCEPT ![d] = "verified"] /\ UNCHANGED <<status, dropped>>
      \/ /\ at' = [at EXCEPT ![h] = "done"] /\ UNCHANGED <<status, dropped>>
         /\ session' = session \/ session' = [session EXCEPT ![d] = "verified"]
      \/ /\ at[h] = "save" /\ at' = [at EXCEPT ![h] = "charge"]
         /\ status' = [status EXCEPT ![d] = "COMPLETED"] /\ UNCHANGED <<session, dropped>>
      \/ /\ at' = [at EXCEPT ![h] = "done"] /\ UNCHANGED <<status, session>>
         /\ dropped' = IF at[h] = "charge" THEN dropped \cup {d} ELSE dropped
  BY DEF SaveCanceled, Verify, SaveCompleted, FailCallback, Pay!SaveCanceled,
     Pay!GatewayConfirms, Pay!GatewayFails, Pay!SaveCompleted, Pay!FailCallback, Pay!Goto,
     Pay!tables, Pay!history
<1>6. \A g \in Callbacks : Pay!Row(g)' = Pay!Row(g)
  BY <1>1 DEF Pay!Row
<1>. HIDE DEF d
<1>. USE DEF PaymentInv
<1>7. /\ \A g \in Callbacks \ {h} : at'[g] = at[g]
      /\ at'[h] = "save" => at[h] = "verify"
      /\ at'[h] = "charge" => at[h] = "save" /\ status'[d] = "COMPLETED"
      /\ at'[h] \in {"done", "save", "charge"}
  BY <1>4, <1>5 DEF Pay!RequestsTypeOK
<1>8. \A e \in Deposits : /\ status[e] # "none" <=> status'[e] # "none"
                          /\ status[e] \in Settled => status'[e] \in Settled
  BY <1>4, <1>5 DEF Pay!RequestsTypeOK, Settled
<1>9. Pay!RequestsTypeOK'
  <2>1. at' \in [Callbacks -> {"idle", "cancel", "verify", "save", "charge", "done"}]
        /\ dropped' \subseteq Deposits
    BY <1>4, <1>5 DEF Pay!RequestsTypeOK
  <2>2. status' \in [Deposits -> {"none", "PENDING", "COMPLETED", "CANCELED"}]
    BY <1>5 DEF Pay!RequestsTypeOK
  <2>3. session' \in [Deposits -> {"none", "open", "paid", "verified"}]
    BY <1>5 DEF Pay!RequestsTypeOK
  <2>4. told' \in [Callbacks ->
                    {"none", "success", "canceled", "completed", "failed", "error"}]
    BY <1>2 DEF Pay!RequestsTypeOK
  <2>. QED  BY <1>1, <2>1, <2>2, <2>3, <2>4 DEF Pay!RequestsTypeOK
<1>10. RowsOfDoneDeposits' /\ CreditedIsSettled'
  BY <1>1, <1>8 DEF RowsOfDoneDeposits, CreditedIsSettled
<1>11. CallbackHasRow'
  <2>. SUFFICES ASSUME NEW g \in Callbacks, at'[g] \in {"cancel", "verify", "save", "charge"}
                PROVE  /\ arg[g] \in Pay!Message
                       /\ status'[Pay!Row(g)] # "none"
                       /\ at'[g] = "charge" => status'[Pay!Row(g)] \in Settled
    BY <1>1, <1>6 DEF CallbackHasRow
  <2>1. arg[g] \in Pay!Message /\ status[Pay!Row(g)] # "none"
        /\ Pay!Row(g) \in Deposits
    BY <1>3, <1>7 DEF CallbackHasRow, Pay!Row, Pay!Message
  <2>. QED  BY <1>7, <1>8, <2>1 DEF CallbackHasRow, Settled, d
<1>12. VerifiesAlone'
  <2>1. \A g \in Callbacks, e \in Deposits : Pay!Verifying(g, e)' => Pay!Verifying(g, e)
    BY <1>6, <1>7 DEF Pay!Verifying
  <2>. QED  BY <1>1, <2>1 DEF VerifiesAlone
<1>. QED  BY <1>1, <1>3, <1>7, <1>9, <1>10, <1>11, <1>12

\* The transaction of a callback ends: with its commit the deposit is credited.
LEMMA EndChargeStep ==
  ASSUME PaymentInv, NEW h \in Callbacks, at[h] = "charge",
         \E page \in {"completed", "error"} : EndCharge(h, page),
         \/ Credited(h)
         \/ dropped' = dropped \cup {Pay!Row(h)} /\ UNCHANGED credits
  PROVE  /\ PaymentInv' /\ UNCHANGED <<ask, arg>> /\ Pay!Row(h) \in Deposits
         /\ at'[h] = "done" /\ \A g \in Callbacks \ {h} : at'[g] = at[g]
<1>. DEFINE d == Pay!Row(h)
<1>1. /\ at' = [at EXCEPT ![h] = "done"]
      /\ \E page \in {"completed", "error"} : told' = [told EXCEPT ![h] = page]
      /\ UNCHANGED <<ask, dep, status, session, arg, raced>>
  BY DEF EndCharge, Pay!Tell
<1>2. d \in Deposits /\ status[d] \in Settled
  BY DEF PaymentInv, CallbackHasRow, Pay!Row, Pay!Message
<1>3. \/ credits' = [credits EXCEPT ![d] = @ + 1] /\ dropped' = dropped
      \/ dropped' = dropped \cup {d} /\ UNCHANGED credits
  BY DEF Credited
<1>4. \A g \in Callbacks : Pay!Row(g)' = Pay!Row(g)
  BY <1>1 DEF Pay!Row
<1>5. Pay!Verifying(h, d)
  BY DEF Pay!Verifying
<1>. HIDE DEF d
<1>. USE DEF PaymentInv
<1>6. at'[h] = "done" /\ \A g \in Callbacks \ {h} : at'[g] = at[g]
  BY <1>1 DEF Pay!RequestsTypeOK
<1>7. /\ credits' \in [Deposits -> Nat] /\ dropped' \subseteq Deposits
      /\ \A e \in Deposits \ {d} : credits'[e] = credits[e]
      /\ credits'[d] <= credits[d] + 1
  <2>1. credits \in [Deposits -> Nat] /\ dropped \subseteq Deposits
    BY DEF Pay!RequestsTypeOK
  <2>2. CASE credits' = [credits EXCEPT ![d] = @ + 1] /\ dropped' = dropped
    BY <1>2, <2>1, <2>2
  <2>3. CASE dropped' = dropped \cup {d} /\ UNCHANGED credits
    BY <1>2, <2>1, <2>3
  <2>. QED  BY <1>3, <2>2, <2>3
<1>8. Pay!RequestsTypeOK'
  BY <1>1, <1>7 DEF Pay!RequestsTypeOK
<1>9. RowsOfDoneDeposits' /\ CreditedIsSettled' /\ CallbackHasRow'
  <2>1. RowsOfDoneDeposits'
    BY <1>1 DEF RowsOfDoneDeposits
  <2>2. CreditedIsSettled'
    BY <1>1, <1>2, <1>7 DEF CreditedIsSettled
  <2>3. CallbackHasRow'
    BY <1>1, <1>4, <1>6 DEF CallbackHasRow
  <2>. QED  BY <2>1, <2>2, <2>3
<1>10. VerifiesAlone'
  <2>. SUFFICES ASSUME NEW e \in Deposits \ raced
                PROVE  /\ credits'[e] <= 1
                       /\ \A k \in Callbacks : Pay!Verifying(k, e)' =>
                            /\ credits'[e] = 0
                            /\ \A g \in Callbacks : Pay!Verifying(g, e)' => g = k
    BY <1>1 DEF VerifiesAlone
  <2>1. \A g \in Callbacks : Pay!Verifying(g, e)' => g # h /\ Pay!Verifying(g, e)
    BY <1>4, <1>6 DEF Pay!Verifying
  <2>2. CASE e = d
    <3>1. credits[e] = 0 /\ \A g \in Callbacks : Pay!Verifying(g, e) => g = h
      BY <1>5, <2>2 DEF VerifiesAlone
    <3>2. credits'[e] <= 1
      BY <1>2, <1>7, <2>2, <3>1
    <3>. QED  BY <2>1, <3>1, <3>2
  <2>3. CASE e # d
    BY <1>7, <2>1, <2>3 DEF VerifiesAlone
  <2>. QED  BY <2>2, <2>3
<1>. QED  BY <1>1, <1>2, <1>6, <1>8, <1>9, <1>10 DEF d

LEMMA PaymentStutter == PaymentInv /\ UNCHANGED payment => PaymentInv'
BY DEF PaymentInv, payment, Pay!RequestsTypeOK, RowsOfDoneDeposits, CreditedIsSettled,
   CallbackHasRow, VerifiesAlone, Pay!Verifying, Pay!Row

\* A callback that is not in its transaction may go where it likes.
LEMMA ChargesKept ==
  ASSUME ChargeIsOfDeposit, UNCHANGED <<pc, req, ask>>,
         \A h \in Callbacks : \/ at'[h] = at[h] /\ arg'[h] = arg[h]
                              \/ at[h] \notin {"charge", "done"} \/ pc[h] = "idle"
  PROVE  ChargeIsOfDeposit'
BY DEF ChargeIsOfDeposit, Pay!Row, Pay!UsdAmount

----------------------------------------------------------------------------
(* The books of a row: what the calls that ended with it have moved.       *)

\* A column keeps its tally: nothing is added to it, or a call ends that does.
LEMMA TallyMoves ==
  ASSUME NEW held \in Int, NEW due \in Int, NEW n \in Nat, Tallies(held, due, n),
         NEW new \in Int, NEW y \in Int, NEW z \in {0, 1},
         IF z = 1 THEN Grows(held, new, y) ELSE new = held /\ y = 0
  PROVE  Tallies(new, due + y, n + z)
<1>. DEFINE x == new - held
<1>1. x \in Int /\ held + x = new /\ Spacing \in Nat /\ Exact \in Nat
  BY FundsAssumption DEF FundsAssumption
<1>2. IF z = 1 THEN x <= y + Spacing /\ y <= x + Spacing ELSE x = y
  BY DEF Grows
<1>3. InDrift(held, due, n) /\ (held < Exact => held = due)
  BY DEF Tallies, InDrift
<1>. HIDE DEF x
<1>4. InDrift(held + x, due + y, n + z)
  BY <1>1, <1>2, <1>3, FundsAssumption, DriftGrows
<1>5. new < Exact => new = due + y
  BY <1>1, <1>3 DEF Grows
<1>. QED  BY <1>1, <1>4, <1>5 DEF InDrift, Tallies

LEMMA DoneSums ==
  ASSUME WalletInv, TypeOK', NEW c \in Calls, pc[c] # "done",
         \A d \in Calls \ {c} : SameCall(d),
         NEW i, NEW op
  PROVE  /\ SumFunctionOnSet(moved, Done(i, op)) \in Nat
         /\ SumFunctionOnSet(moved', Done(i, op)') =
              SumFunctionOnSet(moved, Done(i, op))
                + (IF c \in Done(i, op)' THEN moved'[c] ELSE 0)
         /\ Cardinality(Done(i, op)) \in Nat
         /\ Cardinality(Done(i, op)') =
              Cardinality(Done(i, op)) + (IF c \in Done(i, op)' THEN 1 ELSE 0)
<1>. DEFINE S == Done(i, op)
            T == Done(i, op)'
            f == moved
            g == moved'
<1>1. S \subseteq EndedCalls /\ IsFiniteSet(EndedCalls)
  BY DEF Done, EndedCalls, WalletInv
<1>2. T \ {c} = S \ {c} /\ c \notin S
  BY DEF Done, SameCall
<1>3. /\ \A x \in S : f[x] \in Nat /\ f[x] \in Int
      /\ \A x \in T : g[x] \in Int
      /\ \A x \in S \ {c} : g[x] = f[x]
  BY DEF WalletInv, TypeOK, Service!TypeOK, Done, SameCall
<1>4. IsFiniteSet(S)
  BY <1>1, FS_Subset
<1>. HIDE DEF S, T, f, g
<1>5. SumFunctionOnSet(f, S) \in Nat
  BY <1>3, <1>4, SumType
<1>6. SumFunctionOnSet(g, T) = SumFunctionOnSet(f, S) - (IF c \in S THEN f[c] ELSE 0)
                                + (IF c \in T THEN g[c] ELSE 0)
  BY <1>2, <1>3, <1>4, SumChanges
<1>7. SumFunctionOnSet(g, T) = SumFunctionOnSet(f, S) + (IF c \in T THEN g[c] ELSE 0)
  <2>. DEFINE new == IF c \in T THEN g[c] ELSE 0
  <2>1. new \in Int
    BY <1>3
  <2>2. SumFunctionOnSet(g, T) = SumFunctionOnSet(f, S) - 0 + new
    BY <1>2, <1>6
  <2>. HIDE DEF new
  <2>3. SumFunctionOnSet(g, T) = SumFunctionOnSet(f, S) + new
    BY <1>5, <2>1, <2>2
  <2>. QED  BY <2>3 DEF new
<1>8. /\ Cardinality(S) \in Nat
      /\ Cardinality(T) = Cardinality(S) + (IF c \in T THEN 1 ELSE 0)
  <2>1. Cardinality(S) \in Nat
    BY <1>4, FS_CardinalityType
  <2>2. CASE c \in T
    <3>1. T = S \cup {c}
      BY <1>2, <2>2
    <3>. QED  BY <1>2, <1>4, <2>1, <2>2, <3>1, FS_AddElement
  <2>3. CASE c \notin T
    <3>1. T = S
      BY <1>2, <2>3
    <3>2. Cardinality(T) = Cardinality(S)
      BY <3>1
    <3>. QED  BY <2>1, <2>3, <3>2
  <2>. QED  BY <2>2, <2>3
<1>. QED  BY <1>5, <1>7, <1>8 DEF S, T, f, g

\* What it means for the row w to have the books of row i.
RowBooks(w, i) ==
  /\ w.locked <= w.balance
  /\ \A op \in {"charge", "lock"} :
       Tallies(w[Service!Column(op)],
               SumFunctionOnSet(moved, Done(i, op)), Cardinality(Done(i, op)))

LEMMA ColumnsAreInts ==
  ASSUME NEW w \in Service!Wallet, NEW op
  PROVE  w[Service!Column(op)] \in Int
<1>1. Service!Column(op) = "balance" \/ Service!Column(op) = "locked"
  BY DEF Service!Column
<1>. QED  BY <1>1 DEF Service!Wallet

\* From w to v: the call that ends in the row adds what it has moved.
LEMMA BooksMove ==
  ASSUME WalletInv, TypeOK', NEW c \in Calls, pc[c] # "done",
         \A d \in Calls \ {c} : SameCall(d),
         NEW i, NEW w \in Service!Wallet, RowBooks(w, i),
         NEW v \in Service!Wallet, v.locked <= v.balance,
         \A op \in {"charge", "lock"} :
           IF c \in Done(i, op)'
           THEN Grows(w[Service!Column(op)], v[Service!Column(op)], moved'[c])
           ELSE v[Service!Column(op)] = w[Service!Column(op)]
  PROVE  RowBooks(v, i)'
<1>1. ASSUME NEW op \in {"charge", "lock"}
      PROVE  Tallies(v[Service!Column(op)],
                     SumFunctionOnSet(moved', Done(i, op)'), Cardinality(Done(i, op)'))
  <2>. DEFINE held == w[Service!Column(op)]
              new == v[Service!Column(op)]
              ends == c \in Done(i, op)'
              due == SumFunctionOnSet(moved, Done(i, op))
              n == Cardinality(Done(i, op))
              y == IF ends THEN moved'[c] ELSE 0
              z == IF ends THEN 1 ELSE 0
  <2>1. held \in Int /\ new \in Int
    BY ColumnsAreInts
  <2>2. moved'[c] \in Nat
    BY DEF TypeOK, Service!TypeOK
  <2>3. /\ due \in Nat /\ n \in Nat
        /\ SumFunctionOnSet(moved', Done(i, op)') = due + y
        /\ Cardinality(Done(i, op)') = n + z
    BY DoneSums
  <2>4. Tallies(held, due, n)
    BY DEF RowBooks
  <2>5. IF ends THEN Grows(held, new, moved'[c]) ELSE new = held
    OBVIOUS
  <2>. HIDE DEF held, new, ends, due, n
  <2>6. y \in Int /\ z \in {0, 1} /\ due \in Int
    BY <2>2, <2>3
  <2>7. IF z = 1 THEN Grows(held, new, y) ELSE new = held /\ y = 0
    BY <2>5
  <2>. HIDE DEF y, z
  <2>8. Tallies(new, due + y, n + z)
    BY <2>1, <2>3, <2>4, <2>6, <2>7, TallyMoves
  <2>. QED  BY <2>3, <2>8 DEF new
<1>2. Service!Column("charge")' = Service!Column("charge")
      /\ Service!Column("lock")' = Service!Column("lock")
  BY DEF Service!Column
<1>3. (\A op \in {"charge", "lock"} :
         Tallies(v[Service!Column(op)],
                 SumFunctionOnSet(moved, Done(i, op)), Cardinality(Done(i, op))))'
  BY <1>1, <1>2 DEF Service!Column
<1>. QED  BY <1>3 DEF RowBooks

\* A step that leaves the row alone.
LEMMA BooksStay ==
  ASSUME WalletInv, LostOnlyByOverlap, TypeOK', NEW c \in Calls, pc[c] # "done",
         \A d \in Calls \ {c} : SameCall(d),
         NEW i \in Calls, Service!Exists(i), i \notin overlapped, wallets'[i] = wallets[i],
         \A op : c \in Done(i, op)' => moved'[c] = 0
  PROVE  RowBooks(wallets[i], i)'
<1>1. PICK w \in Service!Wallet : w = wallets[i]
  BY DEF WalletInv, TypeOK, Service!TypeOK, Service!Exists
<1>2. RowBooks(w, i)
  BY <1>1 DEF LostOnlyByOverlap, RowBooks
<1>3. \A op \in {"charge", "lock"} :
        IF c \in Done(i, op)'
        THEN Grows(w[Service!Column(op)], w[Service!Column(op)], moved'[c])
        ELSE w[Service!Column(op)] = w[Service!Column(op)]
  <2>1. \A x \in Int : Grows(x, x, 0)
    BY FundsAssumption DEF FundsAssumption, Grows
  <2>. QED  BY <2>1, ColumnsAreInts
<1>4. w.locked <= w.balance
  BY <1>2 DEF RowBooks
<1>5. RowBooks(w, i)'
  BY <1>2, <1>3, <1>4, BooksMove
<1>6. wallets'[i] = w
  BY <1>1
<1>. QED  BY <1>5, <1>6 DEF RowBooks

LEMMA BooksByRow ==
  ASSUME \A i \in Calls : Service!Exists(i)' /\ i \notin overlapped' =>
                            RowBooks(wallets[i], i)'
  PROVE  LostOnlyByOverlap'
BY DEF LostOnlyByOverlap, RowBooks

LEMMA QuietBooks ==
  ASSUME WalletInv, LostOnlyByOverlap, TypeOK', NEW c \in Calls, Quiet(c)
  PROVE  LostOnlyByOverlap'
<1>1. ASSUME NEW i \in Calls, Service!Exists(i)', i \notin overlapped'
      PROVE  RowBooks(wallets[i], i)'
  <2>1. /\ Service!Exists(i) /\ i \notin overlapped /\ wallets'[i] = wallets[i]
        /\ pc[c] # "done" /\ \A d \in Calls \ {c} : SameCall(d)
    BY <1>1 DEF Quiet, Service!Exists
  <2>2. \A op : c \in Done(i, op)' => moved'[c] = 0
    BY DEF Quiet, Done
  <2>. QED  BY <2>1, <2>2, BooksStay
<1>. QED  BY <1>1, BooksByRow

\* The row a call starts from has its books, if it was spared or is new.
LEMMA BaseBooks ==
  ASSUME WalletInv, LostOnlyByOverlap, NEW c \in Calls, pc[c] # "done", NEW i, i = cur[c],
         i \notin overlapped \/ ~Service!Exists(i)
  PROVE  RowBooks(Service!Base(c), i)
<1>1. i \in Calls
  BY DEF WalletInv, TypeOK, Service!TypeOK
<1>2. CASE Service!Exists(i)
  BY <1>1, <1>2 DEF LostOnlyByOverlap, RowBooks, Service!Base
<1>3. CASE ~Service!Exists(i)
  <2>1. \A op : Done(i, op) = {}
    BY <1>3 DEF Done, WalletInv, CallInv, RowOfCall
  <2>2. Service!Base(c).balance = 0 /\ Service!Base(c).locked = 0
    BY <1>3 DEF Service!Base, Service!Opened
  <2>3. Tallies(0, 0, 0)
    BY FundsAssumption DEF FundsAssumption, Tallies
  <2>4. \A op \in {"charge", "lock"} : Service!Base(c)[Service!Column(op)] = 0
    BY <2>2 DEF Service!Column
  <2>5. \A op : SumFunctionOnSet(moved, Done(i, op)) = 0 /\ Cardinality(Done(i, op)) = 0
    BY <2>1, SumEmpty, FS_EmptySet
  <2>. QED  BY <2>2, <2>3, <2>4, <2>5 DEF RowBooks
<1>. QED  BY <1>2, <1>3

LEMMA WriteBooks ==
  ASSUME WalletInv, LostOnlyByOverlap, TypeOK', NEW c \in Calls, Commits(c)
  PROVE  LostOnlyByOverlap'
<1>1. PICK v \in Service!Wallet :
        /\ Writes(c, v)
        /\ (IsCharge(c) => cur[c] \notin overlapped) => Moves(c, v)
  BY CommitWrites
<1>2. /\ pc[c] = "commit" /\ pc'[c] = "done"
      /\ wallets' = [wallets EXCEPT ![cur[c]] = v] /\ cur[c] \in Calls
      /\ wallets'[cur[c]] = v
      /\ overlapped \subseteq overlapped'
      /\ UNCHANGED <<req, cur, todo, entity, moved, diff>>
      /\ \A d \in Calls \ {c} : SameCall(d)
      /\ moved[c] \in Nat /\ (req[c].op = "charge" \/ req[c].op = "lock")
  BY <1>1 DEF WalletInv, TypeOK, Service!TypeOK, Writes, Overlap, SameCall, Service!Request,
     Service!ChargeRequest, Service!LockRequest
<1>3. ASSUME NEW i \in Calls, Service!Exists(i)', i \notin overlapped'
      PROVE  RowBooks(wallets[i], i)'
  <2>1. \A op : c \in Done(i, op)' <=> i = cur[c] /\ op = req[c].op
    BY <1>2 DEF Done
  <2>2. CASE i # cur[c]
    <3>1. Service!Exists(i) /\ i \notin overlapped /\ wallets'[i] = wallets[i]
      BY <1>2, <1>3, <2>2 DEF Service!Exists
    <3>2. pc[c] # "done" /\ \A op : c \in Done(i, op)' => moved'[c] = 0
      BY <1>2, <2>1, <2>2
    <3>. QED  BY <1>2, <3>1, <3>2, BooksStay
  <2>3. CASE i = cur[c]
    <3>1. PICK w \in Service!Wallet : w = Service!Base(c)
      BY BaseIsWallet
    <3>2. RowBooks(w, i)
      BY <1>2, <1>3, <2>3, <3>1, BaseBooks
    <3>3. /\ w.locked <= w.balance /\ w.locked \in Nat /\ w.balance \in Nat
          /\ v.locked \in Nat /\ v.balance \in Nat
      BY <3>2 DEF RowBooks, Service!Wallet
    <3>4. IF IsCharge(c) THEN v.locked = w.locked /\ Grows(w.balance, v.balance, moved[c])
          ELSE /\ v.balance = w.balance /\ v.locked <= v.balance
               /\ Grows(w.locked, v.locked, moved[c])
      BY <1>1, <1>2, <1>3, <2>3, <3>1 DEF Moves
    <3>5. v.locked <= v.balance
      BY <3>3, <3>4 DEF Grows
    <3>6. \A op \in {"charge", "lock"} :
            IF c \in Done(i, op)'
            THEN Grows(w[Service!Column(op)], v[Service!Column(op)], moved'[c])
            ELSE v[Service!Column(op)] = w[Service!Column(op)]
      BY <1>2, <2>1, <2>3, <3>4 DEF Service!Column, IsCharge
    <3>7. pc[c] # "done"
      BY <1>2
    <3>8. RowBooks(v, i)'
      BY <1>2, <3>2, <3>5, <3>6, <3>7, BooksMove
    <3>9. wallets'[i] = v
      BY <1>2, <2>3
    <3>. QED  BY <3>8, <3>9 DEF RowBooks
  <2>. QED  BY <2>2, <2>3
<1>. QED  BY <1>3, BooksByRow

----------------------------------------------------------------------------
(* The books of a user: balances against the deposits credited to them.    *)

Held(u) == SumFunctionOnSet(Service!Units("balance"), Service!Rows(u, USD))

Owed(u) == SumFunctionOnSet(Worth, CreditedDeposits(u))

TimesCredited(u) == SumFunctionOnSet(credits, CreditedDeposits(u))

AllExact(u) == \A i \in Service!Rows(u, USD) : wallets[i].balance < Exact

UserBooks ==
  \A u \in Users : Service!Rows(u, USD) \cap overlapped = {} =>
    /\ InDrift(Held(u), Owed(u), TimesCredited(u))
    /\ AllExact(u) => Held(u) = Owed(u)

CreditsAreFinite == IsFiniteSet({d \in Deposits : credits[d] > 0})

LEMMA RowsAreFinite ==
  ASSUME WalletInv, NEW u
  PROVE  /\ Service!Rows(u, USD) \subseteq Calls /\ IsFiniteSet(Service!Rows(u, USD))
         /\ \A i \in Service!Rows(u, USD) :
              Service!Units("balance")[i] = wallets[i].balance /\ wallets[i].balance \in Nat
<1>1. Service!Rows(u, USD) \subseteq EndedCalls /\ Service!Rows(u, USD) \subseteq Calls
  BY DEF Service!Rows, EndedCalls, WalletInv, CallInv, RowIsOfADoneCall
<1>2. IsFiniteSet(Service!Rows(u, USD))
  BY <1>1, FS_Subset DEF WalletInv
<1>3. ASSUME NEW i \in Service!Rows(u, USD)
      PROVE  Service!Units("balance")[i] = wallets[i].balance /\ wallets[i].balance \in Nat
  BY DEF Service!Rows, Service!Units, Service!Exists, WalletInv, TypeOK, Service!TypeOK,
     Service!Wallet
<1>. QED  BY <1>1, <1>2, <1>3

\* The write of a row adds what it adds to the balances of the row's user.
LEMMA BalancesOfUser ==
  ASSUME WalletInv, WalletInv', NEW c \in Calls, pc[c] # "done", NEW i, i = cur[c],
         NEW v \in Service!Wallet, wallets' = [wallets EXCEPT ![i] = v],
         v.userId = Service!Base(c).userId, v.currency = Service!Base(c).currency,
         NEW u \in Users
  PROVE  /\ Service!Rows(u, USD) \subseteq Service!Rows(u, USD)'
         /\ i \in Service!Rows(u, USD)' <=> v.userId = u /\ v.currency = USD
         /\ Held(u) \in Nat
         /\ Held(u)' = Held(u) + (IF v.userId = u /\ v.currency = USD
                                  THEN v.balance - Service!Base(c).balance ELSE 0)
         /\ AllExact(u)' /\ v.userId = u /\ v.currency = USD => v.balance < Exact
         /\ AllExact(u)' /\ Service!Base(c).balance <= v.balance => AllExact(u)
<1>. DEFINE S == Service!Rows(u, USD)
            T == Service!Rows(u, USD)'
            f == Service!Units("balance")
            g == Service!Units("balance")'
            base == Service!Base(c)
<1>1. i \in Calls /\ wallets \in [Calls -> Service!Wallet \cup {NoWallet}]
      /\ v # NoWallet /\ v.balance \in Nat
  BY FlowExAssumption DEF WalletInv, TypeOK, Service!TypeOK, Service!Wallet
<1>2. /\ wallets'[i] = v /\ \A j \in Calls \ {i} : wallets'[j] = wallets[j]
      /\ T \ {i} = S \ {i} /\ (i \in T <=> v.userId = u /\ v.currency = USD)
  BY <1>1 DEF Service!Rows, Service!Exists
<1>3. base \in Service!Wallet /\ base.balance \in Int
  BY BaseIsWallet DEF Service!Wallet
<1>4. /\ i \in S => base = wallets[i] /\ i \in T
      /\ i \notin S /\ i \in T => base.balance = 0
  <2>1. CASE Service!Exists(i)
    BY <1>1, <1>2, <2>1 DEF Service!Base, Service!Rows, Service!Exists
  <2>2. CASE ~Service!Exists(i)
    BY <2>2 DEF Service!Base, Service!Rows, Service!Opened
  <2>. QED  BY <2>1, <2>2
<1>5. /\ IsFiniteSet(S) /\ \A x \in S : f[x] = wallets[x].balance /\ f[x] \in Nat
      /\ \A x \in T : g[x] = wallets'[x].balance /\ g[x] \in Nat
      /\ S \subseteq Calls
  <2>1. IsFiniteSet(S) /\ S \subseteq Calls
        /\ \A x \in S : f[x] = wallets[x].balance /\ f[x] \in Nat
    BY RowsAreFinite
  <2>2. \A x \in T : g[x] = wallets'[x].balance /\ g[x] \in Nat
    BY DEF Service!Rows, Service!Units, Service!Exists, WalletInv, TypeOK, Service!TypeOK,
       Service!Wallet
  <2>. QED  BY <2>1, <2>2
<1>6. \A x \in S \ {i} : g[x] = f[x]
  BY <1>2, <1>5
<1>11. /\ AllExact(u)' => \A x \in T : g[x] < Exact
       /\ (\A x \in S : f[x] < Exact) => AllExact(u)
       /\ i \in T => g[i] = v.balance
  BY <1>1, <1>2, <1>5 DEF AllExact
<1>. HIDE DEF S, T, f, g, base
<1>12. AllExact(u)' /\ base.balance <= v.balance => AllExact(u)
  <2>. SUFFICES ASSUME AllExact(u)', base.balance <= v.balance, NEW x \in S
                PROVE  f[x] < Exact
    BY <1>11
  <2>1. CASE x = i
    <3>1. v.balance < Exact /\ f[i] = base.balance
      BY <1>4, <1>5, <1>11, <2>1
    <3>2. Exact \in Int /\ v.balance \in Int /\ base.balance \in Int
      BY <1>1, <1>3, FundsAssumption DEF FundsAssumption
    <3>. QED  BY <2>1, <3>1, <3>2
  <2>2. CASE x # i
    BY <1>2, <1>6, <1>11, <2>2
  <2>. QED  BY <2>1, <2>2
<1>13. AllExact(u)' /\ v.userId = u /\ v.currency = USD => v.balance < Exact
  BY <1>2, <1>11
<1>7. S \subseteq T
  BY <1>2, <1>4
<1>8. SumFunctionOnSet(f, S) \in Nat
  BY <1>5, SumType
<1>9. SumFunctionOnSet(g, T) = SumFunctionOnSet(f, S) - (IF i \in S THEN f[i] ELSE 0)
                                + (IF i \in T THEN g[i] ELSE 0)
  <2>1. T \ {i} = S \ {i} /\ IsFiniteSet(S)
        /\ (\A x \in S : f[x] \in Int) /\ (\A x \in T : g[x] \in Int)
    BY <1>2, <1>5
  <2>. QED  BY <1>6, <2>1, SumChanges
<1>10. SumFunctionOnSet(g, T) = SumFunctionOnSet(f, S)
                                 + (IF i \in T THEN v.balance - base.balance ELSE 0)
  <2>1. CASE i \in S
    BY <1>1, <1>2, <1>3, <1>4, <1>5, <1>8, <1>9, <2>1
  <2>2. CASE i \notin S
    BY <1>1, <1>2, <1>3, <1>4, <1>5, <1>8, <1>9, <2>2
  <2>. QED  BY <2>1, <2>2
<1>. QED  BY <1>2, <1>7, <1>8, <1>10, <1>12, <1>13 DEF S, T, f, g, base, Held

\* One more credit of a deposit adds its worth to what its user is owed.
LEMMA WorthOfUser ==
  ASSUME PaymentInv, CreditsAreFinite, NEW d \in Deposits,
         credits' = [credits EXCEPT ![d] = @ + 1], UNCHANGED ask, NEW u \in Users
  PROVE  /\ Owed(u) \in Nat /\ TimesCredited(u) \in Nat
         /\ Owed(u)' =
              Owed(u) + (IF ask[d].userId = u THEN Pay!UsdAmount(ask[d].amount) ELSE 0)
         /\ TimesCredited(u)' = TimesCredited(u) + (IF ask[d].userId = u THEN 1 ELSE 0)
<1>. DEFINE S == CreditedDeposits(u)
            T == CreditedDeposits(u)'
            f == Worth
            g == Worth'
            n == Pay!UsdAmount(ask[d].amount)
<1>1. /\ \A e \in Deposits : Pay!UsdAmount(ask[e].amount) \in Nat /\ credits[e] \in Nat
      /\ credits'[d] = credits[d] + 1 /\ \A e \in Deposits \ {d} : credits'[e] = credits[e]
  <2>1. \A e \in Deposits : ask[e].amount \in Amounts /\ credits[e] \in Nat
    BY DEF PaymentInv, Pay!RequestsTypeOK
  <2>2. \A a \in Amounts : a \in Nat /\ UnitsPerIRR \in Nat /\ a * UnitsPerIRR \in Nat
    BY FlowExPaymentsAssumption
  <2>3. \A e \in Deposits : Pay!UsdAmount(ask[e].amount) \in Nat
    BY <2>1, <2>2 DEF Pay!UsdAmount
  <2>. QED  BY <2>1, <2>3 DEF PaymentInv, Pay!RequestsTypeOK
<1>2. \A e \in Deposits : f[e] = credits[e] * Pay!UsdAmount(ask[e].amount) /\ f[e] \in Nat
  BY <1>1 DEF Worth
<1>3. \A e \in Deposits : g[e] = credits'[e] * Pay!UsdAmount(ask[e].amount)
  BY DEF Worth, Pay!UsdAmount
<1>4. \A e \in Deposits \ {d} : g[e] = f[e]
  BY <1>1, <1>2, <1>3
<1>5. /\ T \ {d} = S \ {d} /\ (d \in T <=> ask[d].userId = u) /\ S \subseteq Deposits
      /\ (d \notin S /\ d \in T => credits[d] = 0) /\ (d \in S => d \in T)
      /\ T \subseteq Deposits
  BY <1>1 DEF CreditedDeposits
<1>6. IsFiniteSet(S)
  <2>1. S \subseteq {e \in Deposits : credits[e] > 0}
    BY DEF CreditedDeposits
  <2>. QED  BY <2>1, FS_Subset DEF CreditsAreFinite
<1>7. f[d] \in Nat /\ n \in Nat /\ g[d] = f[d] + n /\ (credits[d] = 0 => f[d] = 0)
  <2>. DEFINE k == credits[d]
  <2>1. k \in Nat /\ n \in Nat /\ f[d] = k * n /\ g[d] = (k + 1) * n
    BY <1>1, <1>2, <1>3
  <2>. HIDE DEF k, n, f, g
  <2>2. g[d] = f[d] + n /\ f[d] \in Nat
    BY <2>1
  <2>3. k = 0 => f[d] = 0
    BY <2>1
  <2>. QED  BY <2>1, <2>2, <2>3 DEF k
<1>8. /\ \A e \in S : f[e] \in Nat /\ f[e] \in Int
      /\ \A e \in T : g[e] \in Int
      /\ \A e \in S \ {d} : g[e] = f[e]
  BY <1>2, <1>4, <1>5, <1>7
<1>. DEFINE a == credits
            b == credits'
<1>12. /\ \A e \in S : a[e] \in Nat /\ a[e] \in Int
       /\ \A e \in T : b[e] \in Int
       /\ \A e \in S \ {d} : b[e] = a[e]
       /\ a[d] \in Nat /\ b[d] = a[d] + 1
       /\ d \notin S /\ d \in T => a[d] = 0
  BY <1>1, <1>5
<1>. HIDE DEF S, T, f, g, n, a, b
<1>13. SumFunctionOnSet(a, S) \in Nat
  BY <1>6, <1>12, SumType
<1>14. SumFunctionOnSet(b, T) = SumFunctionOnSet(a, S) - (IF d \in S THEN a[d] ELSE 0)
                                 + (IF d \in T THEN b[d] ELSE 0)
  BY <1>5, <1>6, <1>12, SumChanges
<1>15. SumFunctionOnSet(b, T) = SumFunctionOnSet(a, S) + (IF d \in T THEN 1 ELSE 0)
  BY <1>5, <1>12, <1>13, <1>14
<1>9. SumFunctionOnSet(f, S) \in Nat
  BY <1>6, <1>8, SumType
<1>10. SumFunctionOnSet(g, T) = SumFunctionOnSet(f, S) - (IF d \in S THEN f[d] ELSE 0)
                                 + (IF d \in T THEN g[d] ELSE 0)
  BY <1>5, <1>6, <1>8, SumChanges
<1>11. SumFunctionOnSet(g, T) = SumFunctionOnSet(f, S) + (IF d \in T THEN n ELSE 0)
  BY <1>5, <1>7, <1>9, <1>10
<1>. QED  BY <1>5, <1>9, <1>11, <1>13, <1>15 DEF S, T, f, g, n, a, b, Owed, TimesCredited

----------------------------------------------------------------------------
(* The steps of FlowExPayments.                                            *)

Inv ==
  /\ WalletInv /\ LostOnlyByOverlap
  /\ PaymentInv /\ ChargeIsOfDeposit
  /\ CreditsAreFinite /\ UserBooks

\* What a callback charges is what the deposit it has read is worth.
LEMMA BeginChargeStep ==
  ASSUME WalletInv, PaymentInv, NEW h \in Callbacks, BeginCharge(h)
  PROVE  WalletInv' /\ Quiet(h)
<1>. DEFINE q == ask[Pay!Row(h)]
            r == [op |-> "charge", userId |-> q.userId, amount |-> Pay!UsdAmount(q.amount)]
<1>1. /\ at[h] = "charge" /\ pc[h] = "idle" /\ pc' = [pc EXCEPT ![h] = "select"]
      /\ req' = [req EXCEPT ![h] = r]
      /\ UNCHANGED <<wallets, lock, cur, todo, entity, moved, reply, diff, overlapped, payment>>
  BY DEF BeginCharge, Service!Goto
<1>2. h \in Calls
  BY FlowExPaymentsAssumption
<1>3. r \in Service!Request
  <2>1. q.userId \in Users /\ q.amount \in Amounts
    BY <1>1 DEF PaymentInv, CallbackHasRow, Pay!RequestsTypeOK, Pay!Row, Pay!Message
  <2>2. Pay!UsdAmount(q.amount) \in Credits
    BY <2>1, FlowExPaymentsAssumption DEF Pay!UsdAmount
  <2>. QED  BY <2>1, <2>2 DEF Service!Request, Service!ChargeRequest
<1>4. IsCharge(h) /\ IsCharge(h)'
  <2>1. IsCharge(h)
    BY <1>2 DEF WalletInv, CallbacksCharge
  <2>2. req'[h] = r
    BY <1>1, <1>2 DEF WalletInv, TypeOK, Service!TypeOK
  <2>. QED  BY <2>1, <2>2 DEF IsCharge
<1>. HIDE DEF r
<1>. USE DEF WalletInv, TypeOK, Service!TypeOK
<1>5. TypeOK'
  BY <1>1, <1>3
<1>6. CallInv(h)'
  BY <1>1, <1>2, <1>4 DEF CallInv, RowOfCall, RowIsOfADoneCall, Unmoved, KeyOfCall,
     HoldsLock, LocksAreForTheKey, CopyIsFresh, SavedIsRequested, Working, Service!Exists
<1>7. \A d \in Calls \ {h} : SameCall(d) /\ SameLocks(d)
  BY <1>1 DEF SameCall, SameLocks
<1>. QED  BY <1>1, <1>2, <1>4, <1>5, <1>6, <1>7, OneCallMoves DEF Quiet

\* No user's books change with a step that writes no row and credits nothing.
LEMMA UserBooksKept ==
  ASSUME UserBooks, CreditsAreFinite, UNCHANGED <<wallets, overlapped, ask, credits>>
  PROVE  UserBooks' /\ CreditsAreFinite'
<1>1. /\ \A u \in Users : /\ Service!Rows(u, USD)' = Service!Rows(u, USD)
                          /\ CreditedDeposits(u)' = CreditedDeposits(u)
      /\ Service!Units("balance")' = Service!Units("balance") /\ Worth' = Worth
  BY DEF Service!Rows, Service!Units, Service!Exists, CreditedDeposits, Worth, Pay!UsdAmount
<1>2. ASSUME NEW u \in Users
      PROVE  /\ Held(u)' = Held(u) /\ Owed(u)' = Owed(u)
             /\ TimesCredited(u)' = TimesCredited(u)
             /\ AllExact(u)' <=> AllExact(u)
  <2>1. Held(u)' = Held(u)
    BY <1>1 DEF Held
  <2>2. Owed(u)' = Owed(u)
    BY <1>1 DEF Owed
  <2>3. TimesCredited(u)' = TimesCredited(u)
    BY <1>1 DEF TimesCredited
  <2>4. AllExact(u)' <=> AllExact(u)
    BY <1>1 DEF AllExact
  <2>. QED  BY <2>1, <2>2, <2>3, <2>4
<1>. QED  BY <1>1, <1>2 DEF UserBooks, CreditsAreFinite, InDrift

\* The steps of Payments before the charge, which leave the transactions alone.
LEMMA PaymentStep ==
  ASSUME Inv,
         \/ \E d \in Deposits :
              \/ CreateTransaction(d) \/ SendRequest(d) \/ CommitDeposit(d)
              \/ RollbackDeposit(d) \/ UserPays(d)
         \/ \E h \in Callbacks :
              \/ FindTransaction(h) \/ SaveCanceled(h) \/ Verify(h) \/ SaveCompleted(h)
              \/ FailCallback(h)
  PROVE  Inv'
<1>1. UNCHANGED vars
  BY DEF CreateTransaction, SendRequest, CommitDeposit, RollbackDeposit, UserPays,
     FindTransaction, SaveCanceled, Verify, SaveCompleted, FailCallback,
     Pay!CreateTransaction, Pay!SendRequest, Pay!CommitDeposit, Pay!RollbackDeposit,
     Pay!UserPays, Pay!AnswerSettled, Pay!AnswerFailed, Pay!Answer, Pay!ReceiveNOK,
     Pay!ReceiveOK, Pay!Find,
     Pay!SaveCanceled, Pay!GatewayConfirms, Pay!GatewayFails, Pay!SaveCompleted,
     Pay!FailCallback, Pay!tables, vars, service, transaction
<1>2. WalletInv'
  BY <1>1, StutterStep DEF Inv
<1>3. LostOnlyByOverlap'
  BY <1>1 DEF Inv, LostOnlyByOverlap, vars, service, Done, Service!Exists
<1>4. /\ PaymentInv' /\ UNCHANGED <<ask, credits>>
      /\ \A h \in Callbacks : \/ at'[h] = at[h] /\ arg'[h] = arg[h]
                              \/ at[h] \notin {"charge", "done"} \/ pc[h] = "idle"
  <2>1. ASSUME NEW d \in Deposits,
               \/ CreateTransaction(d) \/ SendRequest(d) \/ CommitDeposit(d)
               \/ RollbackDeposit(d) \/ UserPays(d)
        PROVE  PaymentInv' /\ UNCHANGED <<ask, at, arg, credits>>
    BY <2>1, DepositStep DEF Inv
  <2>2. ASSUME NEW h \in Callbacks, FindTransaction(h)
        PROVE  /\ PaymentInv' /\ UNCHANGED <<ask, credits>>
               /\ at[h] = "idle"
               /\ \A g \in Callbacks \ {h} : at'[g] = at[g] /\ arg'[g] = arg[g]
    BY <2>2, FindTransactionStep DEF Inv
  <2>3. ASSUME NEW h \in Callbacks,
               SaveCanceled(h) \/ Verify(h) \/ SaveCompleted(h) \/ FailCallback(h)
        PROVE  /\ PaymentInv' /\ UNCHANGED <<ask, arg, credits>>
               /\ pc[h] = "idle" \/ at[h] \in {"cancel", "verify", "save"}
               /\ \A g \in Callbacks \ {h} : at'[g] = at[g]
    BY <2>3, VerifyStep DEF Inv
  <2>. QED  BY <2>1, <2>2, <2>3
<1>5. ChargeIsOfDeposit'
  BY <1>1, <1>4, ChargesKept DEF Inv, vars, service
<1>6. UserBooks' /\ CreditsAreFinite'
  BY <1>1, <1>4, UserBooksKept DEF Inv, vars, service
<1>. QED  BY <1>2, <1>3, <1>4, <1>5, <1>6 DEF Inv

\* A step of a transaction before its end.
LEMMA TransactionStep ==
  ASSUME Inv, NEW c \in Calls, UNCHANGED payment,
         \/ OpenWallet(c) \/ LockWallet(c) \/ ReadWallet(c) \/ AddToBalance(c)
         \/ ReserveShare(c) \/ CompareColumns(c)
         \/ RefuseReservation(c) \/ Rollback(c),
         c \in Callbacks => pc[c] # "idle" /\ pc'[c] # "done"
  PROVE  Inv'
<1>1. WalletInv' /\ Quiet(c) /\ UNCHANGED req
  <2>1. CASE OpenWallet(c)
    BY <2>1, QuietStep, InsertStep
    DEF OpenWallet, Inv, Service!Begin, Service!MissWallet, Service!InsertWallet
  <2>2. CASE LockWallet(c) \/ ReadWallet(c)
    BY <2>2, LockStep, LockLastStep, ReadStep DEF Inv, LockWallet, ReadWallet,
       Service!ScanRows, Service!LockRow, Service!LockLastRow, Service!ScanRowsUnlocked
  <2>3. CASE AddToBalance(c)
    BY <2>3, AddStep DEF Inv, AddToBalance, Service!AddToBalance
  <2>4. CASE ReserveShare(c)
    BY <2>4, ReserveStep DEF Inv, ReserveShare, Service!ReserveShare
  <2>5. CASE CompareColumns(c)
    BY <2>5, CompareStep DEF Inv, CompareColumns, service
  <2>6. CASE RefuseReservation(c) \/ Rollback(c)
    BY <2>6, EndStep DEF Inv, RefuseReservation, Rollback, Service!Rollback
  <2>. QED  BY <2>1, <2>2, <2>3, <2>4, <2>5, <2>6
<1>2. LostOnlyByOverlap'
  BY <1>1, QuietBooks DEF Inv, WalletInv
<1>3. PaymentInv' /\ UNCHANGED <<ask, at, arg, credits>>
  BY PaymentStutter DEF Inv, payment
<1>4. ChargeIsOfDeposit'
  BY <1>1, <1>3, FlowExPaymentsAssumption
  DEF Inv, ChargeIsOfDeposit, Quiet, SameCall, Pay!Row, Pay!UsdAmount
<1>5. UserBooks' /\ CreditsAreFinite'
  BY <1>1, <1>3, UserBooksKept DEF Inv, Quiet
<1>. QED  BY <1>1, <1>2, <1>3, <1>4, <1>5 DEF Inv

LEMMA CallbackBegins ==
  ASSUME Inv, NEW h \in Callbacks, BeginCharge(h)
  PROVE  Inv'
<1>1. WalletInv' /\ Quiet(h) /\ h \in Calls
  BY BeginChargeStep, FlowExPaymentsAssumption DEF Inv
<1>2. LostOnlyByOverlap'
  BY <1>1, QuietBooks DEF Inv, WalletInv
<1>3. PaymentInv' /\ UNCHANGED <<ask, at, arg, credits>>
  BY PaymentStutter DEF Inv, BeginCharge, payment
<1>4. ChargeIsOfDeposit'
  <2>1. /\ at[h] = "charge" /\ pc'[h] = "select"
        /\ req'[h].userId = ask[Pay!Row(h)].userId
        /\ req'[h].amount = Pay!UsdAmount(ask[Pay!Row(h)].amount)
    BY <1>1 DEF BeginCharge, Service!Goto, Inv, WalletInv, TypeOK, Service!TypeOK
  <2>. QED  BY <1>1, <1>3, <2>1, FlowExPaymentsAssumption
       DEF Inv, ChargeIsOfDeposit, Quiet, SameCall, Pay!Row, Pay!UsdAmount
<1>5. UserBooks' /\ CreditsAreFinite'
  BY <1>1, <1>3, UserBooksKept DEF Inv, Quiet
<1>. QED  BY <1>1, <1>2, <1>3, <1>4, <1>5 DEF Inv

LEMMA CallbackFails ==
  ASSUME Inv, NEW h \in Callbacks, ChargeFails(h)
  PROVE  Inv'
<1>1. WalletInv' /\ Quiet(h) /\ UNCHANGED req /\ pc[h] \notin {"idle", "done"} /\ h \in Calls
      /\ pc'[h] = "done"
  BY EndStep, FlowExPaymentsAssumption
  DEF Inv, ChargeFails, Rollback, Service!Rollback, WalletInv, TypeOK, Service!TypeOK
<1>2. LostOnlyByOverlap'
  BY <1>1, QuietBooks DEF Inv, WalletInv
<1>3. at[h] = "charge"
  BY <1>1 DEF Inv, ChargeIsOfDeposit
<1>4. /\ PaymentInv' /\ UNCHANGED <<ask, arg, credits>>
      /\ at'[h] = "done" /\ \A g \in Callbacks \ {h} : at'[g] = at[g]
  BY <1>3, EndChargeStep DEF Inv, ChargeFails
<1>5. ChargeIsOfDeposit'
  BY <1>1, <1>4, FlowExPaymentsAssumption
  DEF Inv, ChargeIsOfDeposit, Quiet, SameCall, Pay!Row, Pay!UsdAmount
<1>6. UserBooks' /\ CreditsAreFinite'
  BY <1>1, <1>4, UserBooksKept DEF Inv, Quiet
<1>. QED  BY <1>1, <1>2, <1>4, <1>5, <1>6 DEF Inv

LEMMA ReservationCommits ==
  ASSUME Inv, NEW c \in Calls \ Callbacks, CommitReservation(c), UNCHANGED payment
  PROVE  Inv'
<1>1. WalletInv' /\ LostOnlyByOverlap'
  BY WriteStep, WriteBooks DEF Inv, Commits, WalletInv
<1>2. PICK v \in Service!Wallet :
        /\ Writes(c, v)
        /\ v.userId = Service!Base(c).userId /\ v.currency = Service!Base(c).currency
        /\ (IsCharge(c) => cur[c] \notin overlapped) => Moves(c, v)
  BY CommitWrites DEF Inv, Commits
<1>3. v.balance = Service!Base(c).balance /\ v.balance \in Nat
  BY <1>2 DEF CommitReservation, Moves, Service!Wallet
<1>4. PaymentInv' /\ UNCHANGED <<ask, at, arg, credits>>
  BY PaymentStutter DEF Inv, payment
<1>5. ChargeIsOfDeposit'
  BY <1>2, <1>4, FlowExPaymentsAssumption
  DEF Inv, ChargeIsOfDeposit, Writes, Pay!Row, Pay!UsdAmount
<1>6. UserBooks'
  <2>. SUFFICES ASSUME NEW u \in Users, (Service!Rows(u, USD) \cap overlapped)' = {}
                PROVE  /\ InDrift(Held(u)', Owed(u)', TimesCredited(u)')
                       /\ AllExact(u)' => Held(u)' = Owed(u)'
    BY DEF UserBooks, InDrift
  <2>1. Owed(u)' = Owed(u) /\ TimesCredited(u)' = TimesCredited(u)
    BY <1>4 DEF Owed, TimesCredited, Worth, CreditedDeposits, Pay!UsdAmount
  <2>2. overlapped \subseteq overlapped' /\ pc[c] # "done"
        /\ wallets' = [wallets EXCEPT ![cur[c]] = v]
    BY <1>2 DEF Writes, Overlap
  <2>3. /\ Service!Rows(u, USD) \subseteq Service!Rows(u, USD)'
        /\ Held(u) \in Nat
        /\ Held(u)' = Held(u) + (IF v.userId = u /\ v.currency = USD
                                 THEN v.balance - Service!Base(c).balance ELSE 0)
        /\ AllExact(u)' /\ Service!Base(c).balance <= v.balance => AllExact(u)
    BY <1>1, <1>2, <2>2, BalancesOfUser DEF Inv
  <2>4. Held(u)' = Held(u) /\ (AllExact(u)' => AllExact(u))
    BY <1>3, <2>3
  <2>5. /\ InDrift(Held(u), Owed(u), TimesCredited(u))
        /\ AllExact(u) => Held(u) = Owed(u)
    BY <2>2, <2>3 DEF Inv, UserBooks
  <2>. QED  BY <2>1, <2>4, <2>5
<1>7. CreditsAreFinite'
  BY <1>4 DEF Inv, CreditsAreFinite
<1>. QED  BY <1>1, <1>4, <1>5, <1>6, <1>7 DEF Inv

LEMMA CallbackCommits ==
  ASSUME Inv, NEW h \in Callbacks, ChargeCommits(h)
  PROVE  Inv'
<1>. DEFINE d == Pay!Row(h)
            n == Pay!UsdAmount(ask[d].amount)
<1>1. Commits(h) /\ Credited(h) /\ \E page \in {"completed", "error"} : EndCharge(h, page)
  BY DEF ChargeCommits, Commits
<1>2. WalletInv' /\ LostOnlyByOverlap' /\ h \in Calls
  BY <1>1, WriteStep, WriteBooks, FlowExPaymentsAssumption DEF Inv, WalletInv
<1>3. PICK v \in Service!Wallet :
        /\ Writes(h, v)
        /\ v.userId = Service!Base(h).userId /\ v.currency = Service!Base(h).currency
        /\ (IsCharge(h) => cur[h] \notin overlapped) => Moves(h, v)
  BY <1>1, <1>2, CommitWrites DEF Inv
<1>4. /\ pc[h] = "commit" /\ IsCharge(h) /\ at[h] = "charge"
      /\ req[h].userId = ask[d].userId /\ req[h].amount = n
      /\ wallets' = [wallets EXCEPT ![cur[h]] = v]
      /\ overlapped \subseteq overlapped'
      /\ UNCHANGED req /\ pc' = [pc EXCEPT ![h] = "done"]
  BY <1>2, <1>3 DEF Writes, Overlap, Inv, WalletInv, CallbacksCharge, ChargeIsOfDeposit
<1>5. /\ PaymentInv' /\ UNCHANGED <<ask, arg>> /\ d \in Deposits
      /\ at'[h] = "done" /\ \A g \in Callbacks \ {h} : at'[g] = at[g]
  BY <1>1, <1>4, EndChargeStep DEF Inv
<1>6. credits' = [credits EXCEPT ![d] = @ + 1]
  BY <1>1 DEF Credited
<1>7. v.userId = ask[d].userId /\ v.currency = USD
  BY <1>2, <1>3, <1>4
  DEF Inv, WalletInv, CallInv, KeyOfCall, Working, Service!HasKey, Service!CurrencyToUse,
      IsCharge, Service!USD, USD
<1>8. /\ v.balance \in Int /\ Service!Base(h).balance \in Int /\ n \in Nat
      /\ cur[h] \notin overlapped => Grows(Service!Base(h).balance, v.balance, n)
  <2>1. moved[h] = n
    BY <1>2, <1>4 DEF Inv, WalletInv, CallInv, SavedIsRequested
  <2>2. Service!Base(h) \in Service!Wallet /\ moved[h] \in Nat
    BY <1>2, BaseIsWallet DEF Inv, WalletInv, TypeOK, Service!TypeOK
  <2>. HIDE DEF n
  <2>. QED  BY <1>3, <1>4, <2>1, <2>2 DEF Moves, Service!Wallet
<1>9. ChargeIsOfDeposit'
  BY <1>2, <1>4, <1>5, FlowExPaymentsAssumption
  DEF Inv, WalletInv, TypeOK, Service!TypeOK, ChargeIsOfDeposit, Pay!Row, Pay!UsdAmount
<1>10. CreditsAreFinite'
  <2>. DEFINE S == {e \in Deposits : credits[e] > 0}
              T == {e \in Deposits : credits'[e] > 0}
  <2>1. T \subseteq S \cup {d}
    BY <1>6 DEF Inv, PaymentInv, Pay!RequestsTypeOK
  <2>2. IsFiniteSet(S)
    BY DEF Inv, CreditsAreFinite
  <2>. HIDE DEF S, T, d
  <2>3. IsFiniteSet(T)
    BY <2>1, <2>2, FS_AddElement, FS_Subset
  <2>. QED  BY <2>3 DEF CreditsAreFinite, T
<1>11. UserBooks'
  <2>. SUFFICES ASSUME NEW u \in Users, (Service!Rows(u, USD) \cap overlapped)' = {}
                PROVE  /\ InDrift(Held(u)', Owed(u)', TimesCredited(u)')
                       /\ AllExact(u)' => Held(u)' = Owed(u)'
    BY DEF UserBooks, InDrift
  <2>. DEFINE mine == ask[d].userId = u
              x == IF mine THEN v.balance - Service!Base(h).balance ELSE 0
              y == IF mine THEN n ELSE 0
              z == IF mine THEN 1 ELSE 0
  <2>1. /\ Service!Rows(u, USD) \subseteq Service!Rows(u, USD)'
        /\ cur[h] \in Service!Rows(u, USD)' <=> mine
        /\ Held(u) \in Nat /\ Held(u)' = Held(u) + x
        /\ AllExact(u)' /\ mine => v.balance < Exact
        /\ AllExact(u)' /\ Service!Base(h).balance <= v.balance => AllExact(u)
        /\ AllExact(u)' /\ ~mine => AllExact(u)
    <3>1. WalletInv /\ WalletInv' /\ h \in Calls /\ pc[h] # "done"
      BY <1>2, <1>4 DEF Inv
    <3>2. /\ wallets' = [wallets EXCEPT ![cur[h]] = v]
          /\ v.userId = Service!Base(h).userId /\ v.currency = Service!Base(h).currency
      BY <1>3, <1>4
    <3>3. /\ Service!Rows(u, USD) \subseteq Service!Rows(u, USD)'
          /\ cur[h] \in Service!Rows(u, USD)' <=> v.userId = u /\ v.currency = USD
          /\ Held(u) \in Nat
          /\ Held(u)' = Held(u) + (IF v.userId = u /\ v.currency = USD
                                   THEN v.balance - Service!Base(h).balance ELSE 0)
          /\ AllExact(u)' /\ v.userId = u /\ v.currency = USD => v.balance < Exact
          /\ AllExact(u)' /\ Service!Base(h).balance <= v.balance => AllExact(u)
      BY <3>1, <3>2, BalancesOfUser
    <3>4. AllExact(u)' /\ ~mine => AllExact(u)
      <4>1. ~mine => cur[h] \notin Service!Rows(u, USD)
        BY <1>7, <3>3
      <4>2. \A i \in Calls : i # cur[h] => wallets'[i] = wallets[i]
        BY <3>1, <3>2 DEF WalletInv, TypeOK, Service!TypeOK
      <4>3. Service!Rows(u, USD) \subseteq Calls
        BY DEF Service!Rows
      <4>. QED  BY <3>3, <4>1, <4>2, <4>3 DEF AllExact
    <3>. QED  BY <1>7, <3>3, <3>4
  <2>2. /\ Owed(u) \in Nat /\ TimesCredited(u) \in Nat
        /\ Owed(u)' = Owed(u) + y /\ TimesCredited(u)' = TimesCredited(u) + z
    BY <1>5, <1>6, WorthOfUser DEF Inv
  <2>3. /\ InDrift(Held(u), Owed(u), TimesCredited(u))
        /\ AllExact(u) => Held(u) = Owed(u)
    BY <1>4, <2>1 DEF Inv, UserBooks
  <2>4. mine => cur[h] \notin overlapped
    BY <1>4, <2>1
  <2>. HIDE DEF n, d, mine
  <2>5. /\ x \in Int /\ y \in Int /\ z \in {0, 1}
        /\ IF z = 1 THEN x <= y + Spacing /\ y <= x + Spacing ELSE x = y
    BY <1>8, <2>4 DEF Grows
  <2>6. AllExact(u)' => AllExact(u) /\ x = y
    BY <1>8, <2>1, <2>4 DEF Grows
  <2>. HIDE DEF x, y, z
  <2>7. InDrift(Held(u) + x, Owed(u) + y, TimesCredited(u) + z)
    <3>1. Held(u) \in Int /\ Owed(u) \in Int /\ TimesCredited(u) \in Nat
      BY <2>1, <2>2
    <3>. QED  BY <2>3, <2>5, <3>1, FundsAssumption, DriftGrows
  <2>. QED  BY <2>1, <2>2, <2>3, <2>6, <2>7
<1>. QED  BY <1>2, <1>5, <1>9, <1>10, <1>11 DEF Inv

----------------------------------------------------------------------------
LEMMA InitInv == PaymentsInit => Inv
<1>. SUFFICES ASSUME PaymentsInit PROVE Inv
  OBVIOUS
<1>. USE DEF PaymentsInit, Init, Service!Init, Pay!NoRequests
<1>1. CallbacksCharge
  <2>1. PICK a \in Amounts : TRUE
    BY FlowExPaymentsAssumption
  <2>2. ASSUME NEW c \in Calls PROVE IsCharge(c) <=> c \in Callbacks
    <3>1. CASE c \in Callbacks
      <4>1. a * UnitsPerIRR \in Credits /\ req[c].userId \in Users
        BY FlowExPaymentsAssumption
        DEF Service!Request, Service!ChargeRequest, Service!LockRequest
      <4>2. [op |-> "charge", userId |-> req[c].userId, amount |-> a * UnitsPerIRR]
              \in Service!ChargeRequest
        BY <4>1 DEF Service!ChargeRequest
      <4>3. Unread \in Service!ChargeRequest
        BY <4>2 DEF Unread
      <4>. QED  BY <3>1, <4>3 DEF IsCharge, Service!ChargeRequest
    <3>2. CASE c \notin Callbacks
      BY <3>2
    <3>. QED  BY <3>1, <3>2
  <2>. QED  BY <2>2 DEF CallbacksCharge
<1>2. TypeOK
  <2>1. Service!TypeOK
    BY DEF Service!TypeOK
  <2>2. diff \in [Calls -> SUBSET SUBSET Columns] /\ overlapped \subseteq Calls
        /\ \A c \in Calls : diff[c] = {}
    OBVIOUS
  <2>. QED  BY <2>1, <2>2 DEF TypeOK
<1>3. \A c \in Calls : CallInv(c)
  BY FlowExAssumption
  DEF CallInv, RowOfCall, RowIsOfADoneCall, Unmoved, KeyOfCall, HoldsLock,
      LocksAreForTheKey, CopyIsFresh, SavedIsRequested, Working, Service!Exists
<1>4. IsFiniteSet(EndedCalls)
  <2>1. EndedCalls = {}
    BY DEF EndedCalls
  <2>. QED  BY <2>1, FS_EmptySet
<1>5. LostOnlyByOverlap
  BY DEF LostOnlyByOverlap, Service!Exists
<1>6. PaymentInv
  BY DEF PaymentInv, Pay!RequestsTypeOK, RowsOfDoneDeposits, CreditedIsSettled,
     CallbackHasRow, VerifiesAlone, Pay!Verifying
<1>7. ChargeIsOfDeposit
  BY FlowExPaymentsAssumption DEF ChargeIsOfDeposit
<1>8. CreditsAreFinite
  <2>1. {d \in Deposits : credits[d] > 0} = {}
    OBVIOUS
  <2>. QED  BY <2>1, FS_EmptySet DEF CreditsAreFinite
<1>9. UserBooks
  <2>1. \A u \in Users : Service!Rows(u, USD) = {} /\ CreditedDeposits(u) = {}
    BY DEF Service!Rows, Service!Exists, CreditedDeposits
  <2>2. InDrift(0, 0, 0)
    BY FundsAssumption DEF FundsAssumption, InDrift
  <2>3. \A u \in Users : Held(u) = 0 /\ Owed(u) = 0 /\ TimesCredited(u) = 0
    BY <2>1, SumEmpty DEF Held, Owed, TimesCredited
  <2>. QED  BY <2>2, <2>3 DEF UserBooks
<1>10. RowsAreStored
  BY DEF RowsAreStored, Service!Exists
<1>. QED
  BY <1>1, <1>2, <1>3, <1>4, <1>5, <1>6, <1>7, <1>8, <1>9, <1>10 DEF Inv, WalletInv

LEMMA NextInv == Inv /\ [PaymentsNext]_allVars => Inv'
<1>. SUFFICES ASSUME Inv, [PaymentsNext]_allVars PROVE Inv'
  OBVIOUS
<1>1. ASSUME NEW h \in Callbacks, ChargeWallet(h) PROVE Inv'
  <2>1. /\ h \in Calls /\ UNCHANGED payment
        /\ OpenWallet(h) \/ ReadWallet(h) \/ AddToBalance(h) \/ CompareColumns(h)
    BY <1>1, FlowExPaymentsAssumption DEF ChargeWallet
  <2>2. pc[h] # "idle" /\ pc'[h] # "done"
    BY <1>1, <2>1
    DEF ChargeWallet, OpenWallet, ReadWallet, AddToBalance, CompareColumns, Service!Begin,
        Service!MissWallet, Service!InsertWallet, Service!ScanRowsUnlocked,
        Service!AddToBalance, Service!Goto, service, Inv, WalletInv, TypeOK, Service!TypeOK
  <2>. QED  BY <2>1, <2>2, TransactionStep
<1>2. ASSUME NEW c \in Calls \ Callbacks, Reservation(c) PROVE Inv'
  BY <1>2, TransactionStep, ReservationCommits DEF Reservation
<1>3. ASSUME NEW h \in Callbacks,
             \/ FindTransaction(h) \/ SaveCanceled(h) \/ Verify(h) \/ SaveCompleted(h)
             \/ FailCallback(h) \/ BeginCharge(h) \/ ChargeCommits(h) \/ ChargeFails(h)
      PROVE  Inv'
  BY <1>3, PaymentStep, CallbackBegins, CallbackCommits, CallbackFails
<1>4. CASE UNCHANGED allVars
  <2>1. UNCHANGED vars /\ UNCHANGED payment /\ UNCHANGED <<pc, req, ask, at, arg>>
        /\ UNCHANGED <<wallets, overlapped, ask, credits>>
    BY <1>4 DEF allVars, vars, service, payment
  <2>2. LostOnlyByOverlap'
    BY <2>1 DEF Inv, LostOnlyByOverlap, vars, service, Done, Service!Exists
  <2>. QED  BY <2>1, <2>2, StutterStep, PaymentStutter, ChargesKept, UserBooksKept DEF Inv
<1>. QED  BY <1>1, <1>2, <1>3, <1>4, PaymentStep DEF PaymentsNext, AllFinished

(* The inductive invariant: what a transaction without a lock may rely on  *)
(* as long as no other writes its row, and what its callback and its       *)
(* deposit know of it.                                                     *)
THEOREM Invariance == PaymentsSpec => []Inv
  BY InitInv, NextInv, PTL DEF PaymentsSpec

(* Every variable of the wallet table and its transactions keeps its type. *)
THEOREM TypeCorrect == PaymentsSpec => []TypeOK
<1>1. Inv => TypeOK
  BY DEF Inv, WalletInv
<1>. QED  BY <1>1, Invariance, PTL

(* What a reservation computes from is the row as it is, to its commit:    *)
(* the charges, which take no lock, still wait for the reservation's.      *)
THEOREM ReservationsAreCurrent == PaymentsSpec => []ReservationIsCurrent
<1>1. Inv => ReservationIsCurrent
  <2>1. ASSUME Inv, NEW c \in Calls, ~IsCharge(c)
        PROVE  LET now == Service!Base(c)
                   share == ShareOf(Available(now), req[c].percent)
               IN  /\ pc[c] = "update" => entity[c] = now
                   /\ pc[c] = "commit" =>
                        entity[c] = [now EXCEPT !.locked = ToNumber(@ * Whole + share)]
    <3>1. /\ pc[c] = "update" => entity[c] = Service!Base(c)
          /\ pc[c] = "commit" => entity[c] = Reserved(Service!Base(c), ShareOfCall(c))
      BY <2>1 DEF Inv, WalletInv, CallInv, CopyIsFresh, Working, Grown
    <3>. QED  BY <3>1 DEF Reserved, ShareOfCall
  <2>. QED  BY <2>1 DEF ReservationIsCurrent
<1>. QED  BY <1>1, Invariance, PTL

(* A wallet whose row no call changed under a charge has kept its books,   *)
(* and a user with only such wallets holds what the confirmed deposits are *)
(* worth, to within the rounding of amounts beyond Exact; only callbacks that overlap credit a deposit twice.              *)
THEOREM OnlyOverlapsLoseCredits == PaymentsSpec => []CreditsLostOnlyByOverlap
<1>1. Inv => CreditsLostOnlyByOverlap
  <2>1. PaymentInv => Pay!DoubleCreditOnlyByRace
    BY DEF PaymentInv, Pay!RequestsTypeOK, VerifiesAlone, Pay!DoubleCreditOnlyByRace
  <2>2. UserBooks <=>
          \A u \in Users : Service!Rows(u, USD) \cap overlapped = {} =>
            LET held == SumFunctionOnSet(Service!Units("balance"), Service!Rows(u, USD))
                due == SumFunctionOnSet(Worth, CreditedDeposits(u))
                drift == Spacing * SumFunctionOnSet(credits, CreditedDeposits(u))
            IN  /\ held <= due + drift /\ due <= held + drift
                /\ (\A i \in Service!Rows(u, USD) : wallets[i].balance < Exact) => held = due
    BY DEF UserBooks, InDrift, Held, Owed, TimesCredited, AllExact
  <2>. QED  BY <2>1, <2>2 DEF Inv, CreditsLostOnlyByOverlap
<1>. QED  BY <1>1, Invariance, PTL
=============================================================================
