-------------------------- MODULE Sessions_proofs --------------------------
(***************************************************************************)
(* Proofs about AuthOtp and Sessions, for any requests, users, codes and   *)
(* sockets.  First the calls of the user service: what a call still knows  *)
(* at its later steps, although the rows and the Redis key it has looked   *)
(* at may have changed since.  Then the sessions: what a call of the user  *)
(* service does is a step of AuthOtp, so the invariant of AuthOtp holds    *)
(* throughout; the rest is what a token stands for.                        *)
(***************************************************************************)
EXTENDS Sessions, TLAPS

----------------------------------------------------------------------------
(* The calls of the user service (AuthOtp).                                *)

\* Only a sign-up inserts a row.
SignUpInserts ==
  \A c \in Calls : pc[c] \in {"username", "insert"} => req[c].op = "signUp"

\* A call past its lookup has a user to work for: no row is ever deleted.
HasAccount ==
  \A c \in Calls : pc[c] \in {"get", "setex", "mail", "verify", "update"} =>
    \E u \in users : u.email = req[c].email

\* A call has a code from its SETEX on, and not before.
FreshIsStored ==
  \A c \in Calls :
    /\ pc[c] \in {"idle", "username", "insert", "get", "setex"} => fresh[c] = NoCode
    /\ pc[c] = "mail" \/ reply[c] = "sent" => fresh[c] # NoCode
    /\ used[c] > 0 => fresh[c] # NoCode

\* The code in Redis is the one its call has made, for the call's address.
StoredByCall ==
  \A e \in Emails : \A x \in otp[e] : req[x.by].email = e /\ fresh[x.by] = x.code

\* Without an overlap, who is about to store finds the key free and is alone.
StoresAlone ==
  \A c \in Calls : pc[c] = "setex" /\ c \notin raced =>
    /\ otp[req[c].email] = {}
    /\ \A d \in Calls : pc[d] = "setex" /\ req[d].email = req[c].email => d = c

\* Without an overlap, what was stored stays until it expires.
StoredStays ==
  \A c \in Calls : fresh[c] # NoCode /\ c \notin raced \cup lapsed =>
    /\ otp[req[c].email] = {[code |-> fresh[c], by |-> c]}
    /\ \A d \in Calls : req[d].email = req[c].email => pc[d] # "setex"

\* checkOtp has read a verified user, who stays verified.
KnownIsVerified ==
  \A c \in Calls : pc[c] = "verify" /\ known[c] =>
    \E u \in users : u.email = req[c].email /\ u.verified

CodeUsed(c) == \E d \in Calls : /\ used[d] > 0 /\ fresh[d] = req[c].otpCode
                                /\ req[d].email = req[c].email

\* The update of isEmailVerifyed follows the use of a code.
UpdatesByCode == \A c \in Calls : pc[c] = "update" => CodeUsed(c)

\* The two halves of LoginIsByStoredCode.
LoginsByCode ==
  \A c \in Calls : reply[c] = "login" =>
    CodeUsed(c) /\ \E u \in users : u.email = req[c].email /\ u.verified

VerifiedByCode ==
  \A u \in users : u.verified =>
    \E d \in Calls : used[d] > 0 /\ req[d].email = u.email

\* The invariants about the table, and those about the codes.
TableInv == UsersAreUnique /\ SignUpInserts /\ HasAccount /\ KnownIsVerified
CodeInv == CodesAreForUsers /\ FreshIsStored /\ StoredByCall /\ StoresAlone /\ StoredStays
LoginInv == UpdatesByCode /\ LoginsByCode /\ VerifiedByCode

IInv == TypeOK /\ TableInv /\ CodeInv /\ LoginInv

----------------------------------------------------------------------------
(* The table: a call adds its user or marks its user as verified.          *)

TableMoves(c) ==
  \/ users' = users
  \/ pc[c] = "insert" /\ Insertable(c) /\ users' = users \cup {NewUser(c)}
  \/ pc[c] = "update" /\ users' = Verified(c)

\* A user keeps its address, its name and its being verified; who is verified
\* and was not before has the address of a call that was updating it.
LEMMA TableStep ==
  ASSUME TypeOK, UsersAreUnique, SignUpInserts, NEW c \in Calls, TableMoves(c)
  PROVE  /\ users' \subseteq User
         /\ Unique(users')
         /\ \A u \in users : \E v \in users' : v.email = u.email /\ (u.verified => v.verified)
         /\ pc[c] = "insert" /\ users' # users =>
              \E v \in users' : v.email = req[c].email
         /\ \A v \in users' : v.verified =>
              \/ \E u \in users : u.email = v.email /\ u.verified
              \/ pc[c] = "update" /\ v.email = req[c].email
<1>1. users \subseteq User /\ Unique(users)
  BY DEF TypeOK, UsersAreUnique
<1>2. CASE users' = users
  BY <1>1, <1>2
<1>3. CASE pc[c] = "insert" /\ Insertable(c) /\ users' = users \cup {NewUser(c)}
  <2>1. NewUser(c) \in User /\ NewUser(c).email = req[c].email /\ ~NewUser(c).verified
    BY <1>3 DEF TypeOK, SignUpInserts, NewUser, User, Request, SignUpDto, SignInDto,
       CheckOtpDto
  <2>. QED  BY <1>1, <1>3, <2>1 DEF Insertable
<1>4. CASE pc[c] = "update" /\ users' = Verified(c)
  <2>. DEFINE Mark(u) == [u EXCEPT !.verified = TRUE]
  <2>1. \A u \in users : /\ Mark(u) \in User /\ Mark(u).verified
                         /\ Mark(u).email = u.email /\ Mark(u).username = u.username
    BY <1>1 DEF User
  <2>. HIDE DEF Mark
  <2>2. users' = {u \in users : u.email # req[c].email}
                   \cup {Mark(u) : u \in {u \in users : u.email = req[c].email}}
    BY <1>4 DEF Verified, Account, Mark
  <2>3. \A v \in users' : \E u \in users :
          \/ v = u /\ u.email # req[c].email
          \/ v = Mark(u) /\ u.email = req[c].email
    BY <2>2
  <2>4. users' \subseteq User
    BY <1>1, <2>1, <2>3
  <2>5. Unique(users')
    BY <1>1, <2>1, <2>3 DEF Unique
  <2>6. \A u \in users : \E v \in users' : v.email = u.email /\ (u.verified => v.verified)
    BY <2>1, <2>2
  <2>7. \A v \in users' : v.verified =>
          \/ \E u \in users : u.email = v.email /\ u.verified
          \/ v.email = req[c].email
    BY <2>1, <2>3
  <2>. QED  BY <1>4, <2>4, <2>5, <2>6, <2>7
<1>. QED  BY <1>2, <1>3, <1>4 DEF TableMoves

----------------------------------------------------------------------------
(* What a step of one call may do: all that the rest needs of the actions. *)

LookupMoves(c) ==
  /\ pc'[c] = "username" => req[c].op = "signUp"
  /\ pc'[c] = "insert" => pc[c] = "username"
  /\ pc'[c] = "get" => \/ \E u \in users : u.email = req[c].email
                       \/ \E u \in users' : u.email = req[c].email
  /\ pc'[c] \in {"setex", "mail"} => pc[c] \in {"get", "setex"}
  /\ pc'[c] = "verify" => \E u \in users : u.email = req[c].email /\ (known'[c] => u.verified)
  /\ pc'[c] = "update" => pc[c] = "verify" /\ Verify(c) /\ Use(c)

\* Only saveOtp touches codes: it finds none, or stores its own.
Stores(c) ==
  /\ pc[c] = "setex" /\ pc'[c] \in {"mail", "done"}
  /\ \E k \in Codes : Setex(c, k)
  /\ UNCHANGED <<raced, used>> /\ (reply'[c] = "sent" => reply[c] = "sent")

Keeps(c) ==
  /\ UNCHANGED <<otp, fresh, raced>>
  /\ pc'[c] \in {"username", "insert", "get"} =>
       pc[c] \in {"idle", "username", "insert"}
  /\ pc'[c] \notin {"idle", "setex", "mail"}
  /\ reply'[c] = "sent" => pc[c] = "mail" \/ reply[c] = "sent"
  /\ used' = used \/ (Verify(c) /\ Use(c))

CodeMoves(c) == FindNoOtp(c) \/ Stores(c) \/ Keeps(c)

LoginMoves(c) ==
  reply'[c] = "login" =>
    \/ pc[c] = "update" /\ users' = Verified(c)
    \/ pc[c] = "verify" /\ Verify(c) /\ known[c] /\ Use(c)
    \/ reply[c] = "login"

Moves(c) ==
  /\ UNCHANGED <<req, lapsed>>
  /\ \A d \in Calls \ {c} : pc'[d] = pc[d] /\ reply'[d] = reply[d] /\ known'[d] = known[d]
  /\ TableMoves(c) /\ LookupMoves(c) /\ CodeMoves(c) /\ LoginMoves(c)

\* TypeOK but for the table.
CallsTypeOK ==
  /\ otp \in [Emails -> SUBSET Stored]
  /\ \A e \in Emails : \A x, y \in otp[e] : x = y
  /\ pc \in [Calls -> {"idle", "username", "insert", "get", "setex", "mail",
                       "verify", "update", "done"}]
  /\ req \in [Calls -> Request]
  /\ fresh \in [Calls -> Codes \cup {NoCode}]
  /\ known \in [Calls -> BOOLEAN]
  /\ reply \in [Calls -> {"none", "sent", "taken", "invalid", "wait", "login", "error"}]
  /\ raced \subseteq Calls /\ lapsed \subseteq Calls
  /\ used \in [Calls -> Nat]

LEMMA SplitType == TypeOK <=> users \subseteq User /\ CallsTypeOK
BY DEF TypeOK, CallsTypeOK

LEMMA AddressType == ASSUME CallsTypeOK, NEW c \in Calls PROVE req[c].email \in Emails
BY DEF CallsTypeOK, Request, SignUpDto, SignInDto, CheckOtpDto

LEMMA SetexType ==
  ASSUME CallsTypeOK, NEW c \in Calls, NEW k \in Codes, Setex(c, k)
  PROVE  /\ otp' \in [Emails -> SUBSET Stored]
         /\ \A e \in Emails : \A x, y \in otp'[e] : x = y
         /\ fresh' \in [Calls -> Codes \cup {NoCode}]
<1>1. otp' = [otp EXCEPT ![req[c].email] = {[code |-> k, by |-> c]}]
  BY DEF Setex
<1>2. {[code |-> k, by |-> c]} \in SUBSET Stored
  BY DEF Stored
<1>3. fresh' \in [Calls -> Codes \cup {NoCode}]
  BY DEF Setex, CallsTypeOK
<1>. QED  BY <1>1, <1>2, <1>3, AddressType DEF CallsTypeOK

LEMMA UseType ==
  ASSUME CallsTypeOK, NEW c \in Calls, Use(c)
  PROVE  used' \in [Calls -> Nat]
<1>1. PICK x \in otp[req[c].email] : used' = [used EXCEPT ![x.by] = @ + 1]
  BY DEF Use
<1>2. x \in Stored
  BY <1>1, AddressType DEF CallsTypeOK
<1>. QED  BY <1>1, <1>2 DEF CallsTypeOK, Stored

LEMMA CallMoves ==
  ASSUME users \subseteq User, CallsTypeOK, NEW c \in Calls, Step(c) \/ FailCall(c)
  PROVE  Moves(c) /\ CallsTypeOK'
<1>. USE DEF CallsTypeOK, Moves, TableMoves, LookupMoves, CodeMoves, Keeps, LoginMoves,
             Goto, Tell, history
<1>1. CASE EmailIsFree(c)
  BY <1>1 DEF EmailIsFree
<1>2. CASE UsernameIsFree(c)
  BY <1>2 DEF UsernameIsFree
<1>3. CASE RejectTaken(c)
  BY <1>3 DEF RejectTaken
<1>4. CASE InsertUser(c)
  <2>1. \E u \in users' : u.email = req[c].email
    <3>1. NewUser(c) \in users'
      BY <1>4 DEF InsertUser
    <3>2. NewUser(c).email = req[c].email
      BY DEF NewUser
    <3>. QED  BY <3>1, <3>2
  <2>. QED  BY <1>4, <2>1 DEF InsertUser
<1>5. CASE ViolateUnique(c)
  BY <1>5 DEF ViolateUnique
<1>6. CASE AcceptPassword(c)
  BY <1>6 DEF AcceptPassword, Account
<1>7. CASE RejectPassword(c)
  BY <1>7 DEF RejectPassword
<1>8. CASE FindNoOtp(c)
  BY <1>8 DEF FindNoOtp, Storing
<1>9. CASE OtpNotExpired(c)
  BY <1>9 DEF OtpNotExpired
<1>10. CASE StoreOtp(c)
  <2>1. Stores(c)
    BY <1>10 DEF StoreOtp, Stores
  <2>. QED  BY <1>10, <2>1, SetexType DEF StoreOtp
<1>11. CASE SendOtpForEmail(c)
  BY <1>11 DEF SendOtpForEmail
<1>12. CASE FindAccount(c)
  <2>1. PICK u \in users : u.email = req[c].email /\ known' = [known EXCEPT ![c] = u.verified]
    BY <1>12 DEF FindAccount, Account
  <2>2. u.verified \in BOOLEAN
    BY DEF User
  <2>. QED  BY <1>12, <2>1, <2>2 DEF FindAccount
<1>13. CASE FindNoAccount(c)
  BY <1>13 DEF FindNoAccount
<1>14. CASE LoginVerified(c)
  BY <1>14, UseType DEF LoginVerified
<1>15. CASE VerifyOtp(c)
  BY <1>15, UseType DEF VerifyOtp
<1>16. CASE RejectOtp(c)
  BY <1>16 DEF RejectOtp
<1>17. CASE UpdateVerified(c)
  BY <1>17 DEF UpdateVerified
<1>18. CASE FailCall(c)
  <2>1. TableMoves(c)
    BY <1>18 DEF FailCall
  <2>2. CASE UNCHANGED <<otp, fresh>>
    BY <1>18, <2>1, <2>2 DEF FailCall
  <2>3. CASE pc[c] = "setex" /\ \E k \in Codes : Setex(c, k)
    <3>1. Stores(c)
      BY <1>18, <2>3 DEF FailCall, Stores
    <3>. QED  BY <1>18, <2>1, <2>3, <3>1, SetexType DEF FailCall
  <2>. QED  BY <1>18, <2>2, <2>3 DEF FailCall
<1>. QED
  BY <1>1, <1>2, <1>3, <1>4, <1>5, <1>6, <1>7, <1>8, <1>9, <1>10, <1>11, <1>12,
     <1>13, <1>14, <1>15, <1>16, <1>17, <1>18 DEF Step

----------------------------------------------------------------------------
(* A step of a call preserves each part of the invariant.                  *)

LEMMA TableKept ==
  ASSUME TypeOK, TableInv, NEW c \in Calls, Moves(c)
  PROVE  users' \subseteq User /\ TableInv'
<1>. USE DEF TableInv
<1>1. /\ users' \subseteq User
      /\ Unique(users')
      /\ \A u \in users : \E v \in users' : v.email = u.email /\ (u.verified => v.verified)
  BY TableStep DEF Moves
<1>2. /\ req' = req
      /\ \A d \in Calls \ {c} : pc'[d] = pc[d] /\ known'[d] = known[d]
      /\ LookupMoves(c) /\ CodeMoves(c)
  BY DEF Moves
<1>3. UsersAreUnique'
  BY <1>1 DEF UsersAreUnique, Unique
<1>4. SignUpInserts'
  BY <1>2 DEF SignUpInserts, LookupMoves
<1>5. HasAccount'
  <2>. SUFFICES ASSUME NEW d \in Calls,
                       pc'[d] \in {"get", "setex", "mail", "verify", "update"}
                PROVE  \E u \in users' : u.email = req[d].email
    BY <1>2 DEF HasAccount
  <2>1. (\E u \in users : u.email = req[d].email) \/ (\E u \in users' : u.email = req[d].email)
    BY <1>2 DEF HasAccount, LookupMoves
  <2>. QED  BY <1>1, <2>1
<1>6. KnownIsVerified'
  <2>. SUFFICES ASSUME NEW d \in Calls, pc'[d] = "verify", known'[d]
                PROVE  \E u \in users' : u.email = req[d].email /\ u.verified
    BY <1>2 DEF KnownIsVerified
  <2>1. \E u \in users : u.email = req[d].email /\ u.verified
    BY <1>2 DEF KnownIsVerified, LookupMoves
  <2>. QED  BY <1>1, <2>1
<1>. QED  BY <1>1, <1>3, <1>4, <1>5, <1>6

\* What verify finds is the code of the call that stored it.
LEMMA UseStep ==
  ASSUME TypeOK, StoredByCall, NEW c \in Calls, Verify(c), Use(c)
  PROVE  \E d \in Calls : /\ used' = [used EXCEPT ![d] = @ + 1]
                          /\ fresh[d] = req[c].otpCode /\ fresh[d] \in Codes
                          /\ req[d].email = req[c].email
<1>1. CallsTypeOK /\ req[c].email \in Emails
  BY SplitType, AddressType
<1>2. PICK x \in otp[req[c].email] : used' = [used EXCEPT ![x.by] = @ + 1]
  BY DEF Use
<1>3. x.code = req[c].otpCode
  BY <1>1, <1>2 DEF Verify, CallsTypeOK
<1>4. x.by \in Calls /\ x.code \in Codes
  BY <1>1, <1>2 DEF CallsTypeOK, Stored
<1>. QED  BY <1>1, <1>2, <1>3, <1>4 DEF StoredByCall

\* A code that has been used stays used, and stays the code of its call.
LEMMA UsesGrow ==
  ASSUME TypeOK, CodeInv, NEW c \in Calls, Moves(c)
  PROVE  /\ \A d \in Calls : used[d] > 0 => used'[d] > 0 /\ fresh'[d] = fresh[d]
         /\ Verify(c) /\ Use(c) /\ UNCHANGED fresh => CodeUsed(c)'
<1>1. CallsTypeOK /\ UNCHANGED req
  BY SplitType DEF Moves
<1>2. Verify(c) /\ Use(c) /\ UNCHANGED fresh => CodeUsed(c)'
  BY <1>1, UseStep DEF CodeInv, CodeUsed, CallsTypeOK
<1>3. CASE FindNoOtp(c)
  BY <1>2, <1>3 DEF FindNoOtp
<1>4. CASE Stores(c)
  <2>1. UNCHANGED used /\ \A d \in Calls \ {c} : fresh'[d] = fresh[d]
    BY <1>1, <1>4 DEF Stores, Setex, CallsTypeOK
  <2>2. ~(used[c] > 0)
    BY <1>4 DEF CodeInv, FreshIsStored, Stores
  <2>. QED  BY <1>2, <2>1, <2>2
<1>5. CASE Keeps(c)
  <2>1. UNCHANGED fresh
    BY <1>5 DEF Keeps
  <2>2. used' = used \/ \E d \in Calls : used' = [used EXCEPT ![d] = @ + 1]
    BY <1>5, UseStep DEF Keeps, CodeInv
  <2>. QED  BY <1>1, <1>2, <2>1, <2>2 DEF CallsTypeOK
<1>. QED  BY <1>3, <1>4, <1>5 DEF Moves, CodeMoves

LEMMA CodesKept ==
  ASSUME TypeOK, TypeOK', TableInv, CodeInv, NEW c \in Calls, Moves(c)
  PROVE  CodeInv'
<1>. USE DEF CodeInv
<1>1. /\ UNCHANGED <<req, lapsed>> /\ CodeMoves(c)
      /\ \A d \in Calls \ {c} : pc'[d] = pc[d] /\ reply'[d] = reply[d]
      /\ \A d \in Calls : req[d].email \in Emails
      /\ CallsTypeOK /\ CallsTypeOK'
  <2>1. CallsTypeOK /\ CallsTypeOK'
    BY SplitType DEF TypeOK, CallsTypeOK
  <2>2. \A d \in Calls : req[d].email \in Emails
    BY <2>1, AddressType
  <2>. QED  BY <2>1, <2>2 DEF Moves
<1>2. \A u \in users : \E v \in users' : v.email = u.email
  BY TableStep DEF Moves, TableInv
<1>3. CASE FindNoOtp(c)
  <2>1. /\ UNCHANGED <<users, otp, fresh, reply, used>>
        /\ pc[c] = "get" /\ pc'[c] = "setex" /\ otp[req[c].email] = {}
        /\ raced \subseteq raced'
        /\ \A d \in Calls : pc[d] = "setex" /\ req[d].email = req[c].email =>
             c \in raced' /\ d \in raced'
    BY <1>1, <1>3 DEF FindNoOtp, Goto, Storing, CallsTypeOK
  <2>2. CodesAreForUsers'
    BY <2>1 DEF CodesAreForUsers
  <2>3. FreshIsStored'
    BY <1>1, <2>1 DEF FreshIsStored
  <2>4. StoredByCall'
    BY <1>1, <2>1 DEF StoredByCall
  <2>5. StoresAlone'
    BY <1>1, <2>1 DEF StoresAlone
  <2>6. StoredStays'
    BY <1>1, <2>1 DEF StoredStays
  <2>. QED  BY <2>2, <2>3, <2>4, <2>5, <2>6
<1>4. CASE Stores(c)
  <2>1. PICK k \in Codes : Setex(c, k)
    BY <1>4 DEF Stores
  <2>. DEFINE x == [code |-> k, by |-> c]
  <2>2. /\ UNCHANGED <<raced, used>> /\ pc[c] = "setex" /\ pc'[c] \in {"mail", "done"}
        /\ (reply'[c] = "sent" => reply[c] = "sent") /\ k # NoCode
        /\ x.code = k /\ x.by = c
    BY <1>4, AuthAssumption DEF Stores
  <2>3. /\ fresh[c] = NoCode /\ fresh'[c] = k
        /\ \A d \in Calls \ {c} : fresh'[d] = fresh[d]
        /\ otp'[req[c].email] = {x}
        /\ \A e \in Emails \ {req[c].email} : otp'[e] = otp[e]
    BY <1>1, <2>1, <2>2 DEF Setex, FreshIsStored, CallsTypeOK
  <2>. HIDE DEF x
  <2>4. CodesAreForUsers'
    BY <1>1, <1>2, <2>2, <2>3 DEF CodesAreForUsers, TableInv, HasAccount
  <2>5. FreshIsStored'
    BY <1>1, <2>2, <2>3 DEF FreshIsStored
  <2>6. StoredByCall'
    <3>. SUFFICES ASSUME NEW e \in Emails, NEW y \in otp'[e]
                  PROVE  req[y.by].email = e /\ fresh'[y.by] = y.code
      BY <1>1 DEF StoredByCall
    <3>1. CASE e = req[c].email
      BY <2>2, <2>3, <3>1
    <3>2. CASE e # req[c].email
      <4>1. y \in otp[e] /\ y.by \in Calls
        BY <1>1, <2>3, <3>2 DEF CallsTypeOK, Stored
      <4>2. req[y.by].email = e /\ fresh[y.by] = y.code /\ y.by # c
        BY <4>1, <3>2 DEF StoredByCall
      <4>. QED  BY <2>3, <4>1, <4>2
    <3>. QED  BY <3>1, <3>2
  <2>7. StoresAlone'
    BY <1>1, <2>2, <2>3 DEF StoresAlone
  <2>8. StoredStays'
    BY <1>1, <2>2, <2>3 DEF StoredStays, StoresAlone, x
  <2>. QED  BY <2>4, <2>5, <2>6, <2>7, <2>8
<1>5. CASE Keeps(c)
  <2>1. /\ UNCHANGED <<otp, fresh, raced>>
        /\ pc'[c] \in {"username", "insert", "get"} =>
             pc[c] \in {"idle", "username", "insert"}
        /\ pc'[c] \notin {"idle", "setex", "mail"}
        /\ reply'[c] = "sent" => pc[c] = "mail" \/ reply[c] = "sent"
    BY <1>5 DEF Keeps
  <2>2. CodesAreForUsers'
    BY <1>2, <2>1 DEF CodesAreForUsers
  <2>3. FreshIsStored'
    <3>1. used' = used \/ \E d \in Calls : /\ used' = [used EXCEPT ![d] = @ + 1]
                                         /\ fresh[d] # NoCode
      BY <1>5, UseStep, AuthAssumption DEF Keeps
    <3>2. \A d \in Calls : used'[d] > 0 => used[d] > 0 \/ fresh[d] # NoCode
      BY <1>1, <3>1 DEF CallsTypeOK
    <3>. QED  BY <1>1, <2>1, <3>2 DEF FreshIsStored
  <2>4. StoredByCall'
    BY <1>1, <2>1 DEF StoredByCall
  <2>5. StoresAlone'
    BY <1>1, <2>1 DEF StoresAlone
  <2>6. StoredStays'
    BY <1>1, <2>1 DEF StoredStays
  <2>. QED  BY <2>2, <2>3, <2>4, <2>5, <2>6
<1>. QED  BY <1>1, <1>3, <1>4, <1>5 DEF CodeMoves

LEMMA LoginsKept ==
  ASSUME IInv, NEW c \in Calls, Moves(c)
  PROVE  LoginInv'
<1>. USE DEF IInv, LoginInv
<1>1. /\ UNCHANGED req /\ LookupMoves(c) /\ LoginMoves(c)
      /\ \A d \in Calls \ {c} : pc'[d] = pc[d] /\ reply'[d] = reply[d]
  BY DEF Moves
<1>2. /\ \A u \in users : \E v \in users' : v.email = u.email /\ (u.verified => v.verified)
      /\ \A v \in users' : v.verified =>
           \/ \E u \in users : u.email = v.email /\ u.verified
           \/ pc[c] = "update" /\ v.email = req[c].email
  BY TableStep DEF Moves, TableInv
<1>3. /\ \A d \in Calls : used[d] > 0 => used'[d] > 0 /\ fresh'[d] = fresh[d]
      /\ Verify(c) /\ Use(c) /\ UNCHANGED fresh => CodeUsed(c)'
  BY UsesGrow
<1>4. \A d \in Calls : CodeUsed(d) => CodeUsed(d)'
  BY <1>1, <1>3 DEF CodeUsed
<1>5. pc[c] = "verify" => UNCHANGED fresh
  BY DEF Moves, CodeMoves, Stores, Keeps, FindNoOtp
<1>6. UpdatesByCode'
  <2>. SUFFICES ASSUME NEW d \in Calls, pc'[d] = "update" PROVE CodeUsed(d)'
    BY DEF UpdatesByCode
  <2>1. CASE d = c /\ pc[c] = "verify" /\ Verify(c) /\ Use(c)
    BY <1>3, <1>5, <2>1
  <2>2. CASE pc[d] = "update"
    BY <1>4, <2>2 DEF UpdatesByCode
  <2>. QED  BY <1>1, <2>1, <2>2 DEF LookupMoves
<1>7. LoginsByCode'
  <2>. SUFFICES ASSUME NEW d \in Calls, reply'[d] = "login"
                PROVE  CodeUsed(d)' /\ \E u \in users' : u.email = req[d].email /\ u.verified
    BY <1>1 DEF LoginsByCode
  <2>1. CASE reply[d] = "login"
    <3>1. CodeUsed(d) /\ \E u \in users : u.email = req[d].email /\ u.verified
      BY <2>1 DEF LoginsByCode
    <3>2. \E u \in users' : u.email = req[d].email /\ u.verified
      BY <1>2, <3>1
    <3>. QED  BY <1>4, <3>1, <3>2
  <2>2. CASE d = c /\ pc[c] = "update" /\ users' = Verified(c)
    <3>1. PICK u \in users : u.email = req[c].email
      BY <2>2 DEF IInv, TableInv, HasAccount
    <3>2. [u EXCEPT !.verified = TRUE] \in users'
      BY <2>2, <3>1 DEF Verified, Account
    <3>3. /\ [u EXCEPT !.verified = TRUE].email = req[c].email
          /\ [u EXCEPT !.verified = TRUE].verified
      BY <3>1 DEF IInv, TypeOK, User
    <3>. QED  BY <1>4, <2>2, <3>2, <3>3 DEF UpdatesByCode
  <2>3. CASE d = c /\ pc[c] = "verify" /\ Verify(c) /\ known[c] /\ Use(c)
    <3>1. \E u \in users : u.email = req[c].email /\ u.verified
      BY <2>3 DEF IInv, TableInv, KnownIsVerified
    <3>2. \E u \in users' : u.email = req[d].email /\ u.verified
      BY <1>2, <2>3, <3>1
    <3>. QED  BY <1>3, <1>5, <2>3, <3>2
  <2>. QED  BY <1>1, <2>1, <2>2, <2>3 DEF LoginMoves
<1>8. VerifiedByCode'
  <2>. SUFFICES ASSUME NEW v \in users', v.verified
                PROVE  \E d \in Calls : used'[d] > 0 /\ req[d].email = v.email
    BY <1>1 DEF VerifiedByCode
  <2>1. \E d \in Calls : used[d] > 0 /\ req[d].email = v.email
    <3>1. CASE \E u \in users : u.email = v.email /\ u.verified
      BY <3>1 DEF VerifiedByCode
    <3>2. CASE pc[c] = "update" /\ v.email = req[c].email
      BY <3>2 DEF UpdatesByCode, CodeUsed
    <3>. QED  BY <1>2, <3>1, <3>2
  <2>. QED  BY <1>3, <2>1
<1>. QED  BY <1>6, <1>7, <1>8

----------------------------------------------------------------------------
(* Redis.                                                                  *)

LEMMA ExpireStep ==
  ASSUME IInv, NEW e \in Emails, Expire(e)
  PROVE  IInv'
<1>. USE DEF IInv
<1>1. /\ UNCHANGED <<users, pc, req, fresh, known, reply, raced, used>>
      /\ otp' = [otp EXCEPT ![e] = {}]
      /\ lapsed' = lapsed \cup {c \in Calls : req[c].email = e /\ fresh[c] # NoCode}
  BY DEF Expire
<1>2. CallsTypeOK /\ \A c \in Calls : req[c].email \in Emails
  BY SplitType, AddressType
<1>3. TypeOK'
  BY <1>1 DEF TypeOK
<1>4. TableInv'
  BY <1>1 DEF TableInv, UsersAreUnique, SignUpInserts, HasAccount, KnownIsVerified
<1>5. LoginInv'
  BY <1>1 DEF LoginInv, UpdatesByCode, LoginsByCode, VerifiedByCode, CodeUsed
<1>6. otp'[e] = {} /\ \A f \in Emails \ {e} : otp'[f] = otp[f]
  BY <1>1, <1>2 DEF CallsTypeOK
<1>7. CodesAreForUsers' /\ FreshIsStored' /\ StoredByCall'
  BY <1>1, <1>6 DEF CodeInv, CodesAreForUsers, FreshIsStored, StoredByCall
<1>8. StoresAlone'
  BY <1>1, <1>2, <1>6 DEF CodeInv, StoresAlone
<1>9. StoredStays'
  BY <1>1, <1>2, <1>6 DEF CodeInv, StoredStays
<1>. QED  BY <1>3, <1>4, <1>5, <1>7, <1>8, <1>9 DEF CodeInv

LEMMA InitIInv == Init => IInv
<1>. SUFFICES ASSUME Init PROVE IInv
  OBVIOUS
<1>1. users \subseteq User /\ Unique(users) /\ \A u \in users : ~u.verified
  BY AuthAssumption DEF Init
<1>2. TypeOK
  BY <1>1 DEF Init, TypeOK
<1>3. TableInv
  BY <1>1 DEF Init, TableInv, UsersAreUnique, SignUpInserts, HasAccount, KnownIsVerified
<1>4. CodeInv
  BY AddressType, SplitType, <1>2 DEF Init, CodeInv, CodesAreForUsers, FreshIsStored,
     StoredByCall, StoresAlone, StoredStays
<1>5. LoginInv
  BY <1>1 DEF Init, LoginInv, UpdatesByCode, LoginsByCode, VerifiedByCode
<1>. QED  BY <1>2, <1>3, <1>4, <1>5 DEF IInv

LEMMA NextIInv == IInv /\ [Next]_vars => IInv'
<1>. SUFFICES ASSUME IInv, [Next]_vars PROVE IInv'
  OBVIOUS
<1>1. CASE \E c \in Calls : Step(c) \/ FailCall(c)
  <2>1. PICK c \in Calls : Step(c) \/ FailCall(c)
    BY <1>1
  <2>2. Moves(c) /\ CallsTypeOK'
    BY <2>1, SplitType, CallMoves DEF IInv
  <2>3. users' \subseteq User /\ TableInv'
    BY <2>2, TableKept DEF IInv
  <2>4. TypeOK'
    BY <2>2, <2>3 DEF TypeOK, CallsTypeOK
  <2>5. CodeInv' /\ LoginInv'
    BY <2>2, <2>4, CodesKept, LoginsKept DEF IInv
  <2>. QED  BY <2>3, <2>4, <2>5 DEF IInv
<1>2. CASE \E e \in Emails : Expire(e)
  BY <1>2, ExpireStep
<1>3. CASE UNCHANGED vars
  BY <1>3 DEF vars, IInv, TypeOK, TableInv, UsersAreUnique, SignUpInserts, HasAccount,
     KnownIsVerified, CodeInv, CodesAreForUsers, FreshIsStored, StoredByCall, StoresAlone,
     StoredStays, LoginInv, UpdatesByCode, LoginsByCode, VerifiedByCode, CodeUsed
<1>. QED  BY <1>1, <1>2, <1>3 DEF Next, Finished

----------------------------------------------------------------------------
(* The inductive invariant: which user and which code each call can still  *)
(* count on after every interleaving of statements, commands and expiries. *)
THEOREM Invariance == Spec => []IInv
  BY InitIInv, NextIInv, PTL DEF Spec

(* Every variable of the sign-up and sign-in service keeps its type.       *)
THEOREM TypeCorrect == Spec => []TypeOK
<1>1. IInv => TypeOK
  BY DEF IInv
<1>. QED  BY <1>1, Invariance, PTL

(* However sign-ups and verifications interleave, no two users share an    *)
(* email or a username.                                                    *)
THEOREM UniqueUsers == Spec => []UsersAreUnique
<1>1. IInv => UsersAreUnique
  BY DEF IInv, TableInv
<1>. QED  BY <1>1, Invariance, PTL

(* A code is stored only for the address of a user whose row is saved.     *)
THEOREM CodesForUsers == Spec => []CodesAreForUsers
<1>1. IInv => CodesAreForUsers
  BY DEF IInv, CodeInv
<1>. QED  BY <1>1, Invariance, PTL

(* A code the caller was told of works until it expires, unless two calls  *)
(* for the address had both found the key free.                            *)
THEOREM SentCodesWork == Spec => []SentCodeWorks
<1>1. IInv => SentCodeWorks
  <2>. SUFFICES ASSUME IInv, NEW c \in Calls, reply[c] = "sent", c \notin raced \cup lapsed
                PROVE  \E x \in otp[req[c].email] : x.code = fresh[c]
    BY DEF SentCodeWorks
  <2>1. otp[req[c].email] = {[code |-> fresh[c], by |-> c]}
    BY DEF IInv, CodeInv, FreshIsStored, StoredStays
  <2>. QED  BY <2>1
<1>. QED  BY <1>1, Invariance, PTL

(* A login, and the verification of an address, took a code that saveOtp   *)
(* had stored for this very address.                                       *)
THEOREM LoginsNeedCodes == Spec => []LoginIsByStoredCode
<1>1. IInv => LoginIsByStoredCode
  BY DEF IInv, LoginInv, LoginsByCode, VerifiedByCode, CodeUsed, LoginIsByStoredCode,
     Account
<1>. QED  BY <1>1, Invariance, PTL

----------------------------------------------------------------------------
(* The sessions.                                                           *)

SessionVarsOK ==
  /\ token \in [Bearers -> Calls \cup {NoToken}]
  /\ at \in [Bearers -> {"idle", "verify", "in", "out"}]
  /\ online \subseteq Sockets /\ withUser \subseteq Sockets /\ thrown \subseteq Sockets
  /\ expired \subseteq Calls

\* A call that has logged in has ended: its answer stays.
LoginIsDone == \A c \in Calls : reply[c] = "login" => pc[c] = "done"

\* A token is the answer of a login, and who is past the guard has one.
TokenIsOfLogin ==
  \A b \in Bearers : /\ token[b] # NoToken => reply[token[b]] = "login"
                     /\ at[b] = "in" => token[b] # NoToken

\* A connected socket is being verified, or is in its room and has a user.
OnlineHasUser ==
  \A k \in online : at[k] = "verify" \/ (at[k] = "in" /\ k \in withUser)

SessionInv ==
  IInv /\ SessionVarsOK /\ LoginIsDone /\ TokenIsOfLogin /\ OnlineHasUser

----------------------------------------------------------------------------
(* The calls of the user service keep what the logins stand for.           *)

LEMMA CallGoesOn ==
  ASSUME CallsTypeOK, NEW c \in Calls, Step(c) \/ FailCall(c)
  PROVE  pc[c] # "done" /\ (reply'[c] = "login" => pc'[c] = "done" \/ reply[c] = "login")
<1>. USE DEF CallsTypeOK, Goto, Tell
<1>1. CASE EmailIsFree(c) \/ UsernameIsFree(c) \/ RejectTaken(c) \/ InsertUser(c)
             \/ ViolateUnique(c) \/ AcceptPassword(c) \/ RejectPassword(c)
  BY <1>1 DEF EmailIsFree, UsernameIsFree, RejectTaken, InsertUser, ViolateUnique,
     AcceptPassword, RejectPassword
<1>2. CASE FindNoOtp(c) \/ OtpNotExpired(c) \/ StoreOtp(c) \/ SendOtpForEmail(c)
  BY <1>2 DEF FindNoOtp, OtpNotExpired, StoreOtp, SendOtpForEmail
<1>3. CASE FindAccount(c) \/ FindNoAccount(c) \/ LoginVerified(c) \/ VerifyOtp(c)
             \/ RejectOtp(c) \/ UpdateVerified(c)
  BY <1>3 DEF FindAccount, FindNoAccount, LoginVerified, VerifyOtp, RejectOtp,
     UpdateVerified
<1>4. CASE FailCall(c)
  BY <1>4 DEF FailCall
<1>. QED  BY <1>1, <1>2, <1>3, <1>4 DEF Step

\* What the user service does leaves every login a login.
LEMMA LoginsStay ==
  ASSUME IInv, LoginIsDone, [Next]_vars
  PROVE  LoginIsDone' /\ \A c \in Calls : reply[c] = "login" => reply'[c] = "login"
<1>1. CASE \E c \in Calls : Step(c) \/ FailCall(c)
  <2>1. PICK c \in Calls : Step(c) \/ FailCall(c)
    BY <1>1
  <2>2. users \subseteq User /\ CallsTypeOK
    BY SplitType DEF IInv
  <2>3. \A d \in Calls \ {c} : pc'[d] = pc[d] /\ reply'[d] = reply[d]
    BY <2>1, <2>2, CallMoves DEF Moves
  <2>4. /\ pc[c] # "done"
        /\ reply'[c] = "login" => pc'[c] = "done" \/ reply[c] = "login"
    BY <2>1, <2>2, CallGoesOn
  <2>. QED  BY <2>3, <2>4 DEF LoginIsDone
<1>2. CASE \E e \in Emails : Expire(e)
  BY <1>2 DEF Expire, LoginIsDone
<1>3. CASE UNCHANGED vars
  BY <1>3 DEF vars, LoginIsDone
<1>. QED  BY <1>1, <1>2, <1>3 DEF Next, Finished

LEMMA ServiceStep ==
  ASSUME SessionInv, [Next]_vars, UNCHANGED session
  PROVE  SessionInv'
<1>1. IInv'
  BY NextIInv DEF SessionInv
<1>2. LoginIsDone' /\ \A c \in Calls : reply[c] = "login" => reply'[c] = "login"
  BY LoginsStay DEF SessionInv
<1>3. SessionVarsOK' /\ OnlineHasUser'
  BY DEF SessionInv, session, SessionVarsOK, OnlineHasUser
<1>4. TokenIsOfLogin'
  BY <1>2 DEF SessionInv, session, SessionVarsOK, TokenIsOfLogin
<1>. QED  BY <1>1, <1>2, <1>3, <1>4 DEF SessionInv

----------------------------------------------------------------------------
(* Requests and sockets.  None of their steps touches the user service.    *)

LEMMA ServiceKept ==
  ASSUME SessionInv, UNCHANGED vars
  PROVE  IInv' /\ LoginIsDone'
<1>1. IInv'
  BY NextIInv DEF SessionInv
<1>2. LoginIsDone'
  BY DEF SessionInv, LoginIsDone, vars
<1>. QED  BY <1>1, <1>2

LEMMA PresentStep ==
  ASSUME SessionInv, NEW b \in Bearers, Present(b)
  PROVE  SessionInv'
<1>1. UNCHANGED vars /\ UNCHANGED reply
  BY DEF Present, vars
<1>2. PICK c \in {d \in Calls : reply[d] = "login"} \cup {NoToken} :
        token' = [token EXCEPT ![b] = c]
  BY DEF Present
<1>3. at[b] = "idle" /\ at' = [at EXCEPT ![b] = "verify"]
      /\ online' = online \cup ({b} \cap Sockets) /\ UNCHANGED <<withUser, thrown, expired>>
  BY DEF Present, Move
<1>4. SessionVarsOK'
  BY <1>2, <1>3 DEF SessionInv, SessionVarsOK
<1>5. TokenIsOfLogin'
  BY <1>1, <1>2, <1>3 DEF SessionInv, SessionVarsOK, TokenIsOfLogin
<1>6. OnlineHasUser'
  <2>. SUFFICES ASSUME NEW k \in online'
                PROVE  at'[k] = "verify" \/ (at'[k] = "in" /\ k \in withUser)
    BY <1>3 DEF OnlineHasUser
  <2>1. CASE k = b
    BY <1>3, <2>1 DEF SessionInv, SessionVarsOK
  <2>2. CASE k # b
    <3>1. k \in online
      BY <1>3, <2>2
    <3>2. at'[k] = at[k]
      BY <1>3, <2>2
    <3>. QED  BY <3>1, <3>2 DEF SessionInv, OnlineHasUser
  <2>. QED  BY <2>1, <2>2
<1>. QED  BY <1>1, <1>4, <1>5, <1>6, ServiceKept DEF SessionInv

\* Every other step of a request or a socket, and the end of a token, keeps
\* the tokens that were presented.
LEMMA BearerStep ==
  ASSUME SessionInv,
         \/ \E r \in Requests : PassGuard(r) \/ RefuseRequest(r)
         \/ \E k \in Sockets : TurnAway(k) \/ RefuseSocket(k) \/ JoinRoom(k) \/ Disconnect(k)
         \/ \E c \in Calls : ExpireToken(c)
         \/ Crash
  PROVE  SessionInv'
<1>. USE DEF Move, SessionInv, SessionVarsOK, Bearers
<1>1. UNCHANGED vars /\ UNCHANGED token /\ UNCHANGED reply
  BY DEF PassGuard, RefuseRequest, TurnAway, RefuseSocket, JoinRoom, Disconnect, ExpireToken,
     Crash, vars
<1>2. SessionVarsOK' /\ OnlineHasUser'
      /\ \A b \in Bearers : at'[b] = "in" => at[b] = "in" \/ Valid(b)
  <2>1. CASE \E r \in Requests : PassGuard(r) \/ RefuseRequest(r)
    BY <2>1, SessionAssumption DEF PassGuard, RefuseRequest, OnlineHasUser
  <2>2. CASE \E k \in Sockets : TurnAway(k)
    BY <2>2 DEF TurnAway, OnlineHasUser
  <2>3. CASE \E k \in Sockets : RefuseSocket(k)
    BY <2>3 DEF RefuseSocket, Leave, OnlineHasUser
  <2>4. CASE \E k \in Sockets : JoinRoom(k)
    BY <2>4 DEF JoinRoom, OnlineHasUser
  <2>5. CASE \E k \in Sockets : Disconnect(k)
    BY <2>5 DEF Disconnect, Leave, OnlineHasUser
  <2>6. CASE \E c \in Calls : ExpireToken(c)
    BY <2>6 DEF ExpireToken, OnlineHasUser
  <2>7. CASE Crash
    BY <2>7 DEF Crash, OnlineHasUser
  <2>. QED  BY <2>1, <2>2, <2>3, <2>4, <2>5, <2>6, <2>7
<1>3. TokenIsOfLogin'
  BY <1>1, <1>2, SessionAssumption DEF TokenIsOfLogin, Valid
<1>. QED  BY <1>1, <1>2, <1>3, ServiceKept

----------------------------------------------------------------------------
LEMMA InitSessionInv == SessionInit => SessionInv
<1>. SUFFICES ASSUME SessionInit PROVE SessionInv
  OBVIOUS
<1>1. IInv
  BY InitIInv DEF SessionInit
<1>2. SessionVarsOK /\ TokenIsOfLogin /\ OnlineHasUser
  BY DEF SessionInit, SessionVarsOK, TokenIsOfLogin, OnlineHasUser, Bearers
<1>3. LoginIsDone
  BY DEF SessionInit, Init, LoginIsDone
<1>. QED  BY <1>1, <1>2, <1>3 DEF SessionInv

\* A step of Sessions is a step of AuthOtp or leaves it alone.
LEMMA StepOfService == [SessionNext]_<<vars, session>> => [Next]_vars
BY DEF SessionNext, SessionFinished, Next, Present, PassGuard, RefuseRequest, TurnAway,
   RefuseSocket, JoinRoom, Disconnect, ExpireToken, Crash

LEMMA NextSessionInv == SessionInv /\ [SessionNext]_<<vars, session>> => SessionInv'
<1>. SUFFICES ASSUME SessionInv, [SessionNext]_<<vars, session>> PROVE SessionInv'
  OBVIOUS
<1>1. CASE UNCHANGED session
  BY <1>1, StepOfService, ServiceStep
<1>2. CASE \E b \in Bearers : Present(b)
  BY <1>2, PresentStep
<1>3. CASE \/ \E r \in Requests : PassGuard(r) \/ RefuseRequest(r)
           \/ \E k \in Sockets : TurnAway(k) \/ RefuseSocket(k) \/ JoinRoom(k) \/ Disconnect(k)
           \/ \E c \in Calls : ExpireToken(c)
           \/ Crash
  BY <1>3, BearerStep
<1>. QED  BY <1>1, <1>2, <1>3 DEF SessionNext, SessionFinished

(* The inductive invariant: what AuthOtp guarantees of a login still holds *)
(* whenever its token is presented, and tokens are of logins.              *)
THEOREM SessionInvariance == SessionSpec => []SessionInv
  BY InitSessionInv, NextSessionInv, PTL DEF SessionSpec

(* Sessions implement the sign-up and sign-in service: what holds of its   *)
(* calls holds of them here.                                               *)
THEOREM SessionsImplementService == SessionSpec => Spec
<1>1. SessionInit => Init
  BY DEF SessionInit
<1>. QED  BY <1>1, StepOfService, PTL DEF SessionSpec, Spec

(* Every variable of the service and of its sessions keeps its type.       *)
THEOREM SessionTypeCorrect == SessionSpec => []SessionTypeOK
<1>1. SessionInv => SessionTypeOK
  BY DEF SessionInv, IInv, SessionVarsOK, SessionTypeOK
<1>. QED  BY <1>1, SessionInvariance, PTL

(* Past a guard and in the rooms are only verified users who have logged   *)
(* in by a code that was stored for their address.                         *)
THEOREM OnlyVerifiedUsersEnter == SessionSpec => []SessionIsOfVerifiedUser
<1>1. SessionInv => SessionIsOfVerifiedUser
  <2>. SUFFICES ASSUME SessionInv, NEW b \in Bearers, at[b] = "in"
                PROVE  /\ \E u \in Account(token[b]) : u.verified
                       /\ \E d \in Calls : /\ used[d] > 0
                                           /\ fresh[d] = req[token[b]].otpCode
                                           /\ req[d].email = req[token[b]].email
    BY DEF SessionIsOfVerifiedUser
  <2>1. token[b] \in Calls /\ reply[token[b]] = "login"
    BY DEF SessionInv, SessionVarsOK, TokenIsOfLogin
  <2>. QED
    BY <2>1 DEF SessionInv, IInv, LoginInv, LoginsByCode, CodeUsed, Account
<1>. QED  BY <1>1, SessionInvariance, PTL

(* A step that makes handleDisconnect throw.                               *)
LEMMA ThrowStep ==
  ASSUME SessionInv, [SessionNext]_<<vars, session>>, NEW k \in thrown' \ thrown
  PROVE  at[k] = "verify" /\ at'[k] # "in"
<1>. USE DEF Move
<1>1. CASE UNCHANGED thrown
  BY <1>1
<1>2. CASE \E j \in Sockets : RefuseSocket(j)
  BY <1>2 DEF RefuseSocket, Leave, SessionInv, SessionVarsOK, Bearers
<1>3. CASE \E j \in Sockets : Disconnect(j)
  BY <1>3 DEF Disconnect, Leave, SessionInv, SessionVarsOK, Bearers, OnlineHasUser
<1>4. CASE Crash
  BY <1>4 DEF Crash
<1>. QED
  BY <1>1, <1>2, <1>3, <1>4 DEF SessionNext, SessionFinished, session, Present, PassGuard,
     RefuseRequest, TurnAway, JoinRoom, ExpireToken

(* Whoever has been let into a room leaves without an exception: those that*)
(* end the process come of sockets that were being verified, or were       *)
(* refused.                                                                *)
THEOREM MembersLeaveQuietly == SessionSpec => OnlyUnverifiedThrow
<1>1. SessionInv /\ [SessionNext]_<<vars, session>> =>
        [\A k \in thrown' \ thrown : at[k] = "verify" /\ at'[k] # "in"]_session
  BY ThrowStep
<1>. QED  BY <1>1, SessionInvariance, PTL DEF SessionSpec, OnlyUnverifiedThrow
=============================================================================
