------------------------------ MODULE AuthOtp ------------------------------
(***************************************************************************)
(* Signing up and signing in with a one-time code: auth.service.ts,        *)
(* otp.service.ts and mailer.service.ts of apps/user/src/modules/auth.     *)
(*                                                                         *)
(* One element of Calls is one request to the service.  Users are rows of  *)
(* a database with unique email and username; the code of an address is a  *)
(* Redis key that expires.  Every statement, Redis command and mail is     *)
(* awaited, and other calls run in between.                                *)
(***************************************************************************)
EXTENDS Naturals

CONSTANTS Calls, Emails, Names, Passwords,
          Codes,   \* what generateOtp can return; it may return a code twice
          NoCode,  \* no code
          Accounts \* the users there may be to begin with

VARIABLES users,  \* the committed rows of the table "user"
          otp,    \* the key otp:{email}: the set of at most one stored code
          pc,     \* where each call is
          req,    \* the request each call carries
          fresh,  \* the code saveOtp has made for the call, or NoCode
          known,  \* isEmailVerifyed as checkOtp has read it
          reply,  \* what the caller is told
          raced,  \* calls that looked for a code while another was storing one
          lapsed, \* calls whose code has expired
          used    \* how often the code a call has stored has logged in

vars == <<users, otp, pc, req, fresh, known, reply, raced, lapsed, used>>
history == <<raced, lapsed, used>>

User == [username : Names, email : Emails, password : Passwords,
         verified : BOOLEAN]

SignUpDto == [op : {"signUp"}, username : Names, email : Emails,
              password : Passwords]

SignInDto == [op : {"signIn"}, email : Emails, password : Passwords]

CheckOtpDto == [op : {"checkOtp"}, email : Emails, otpCode : Codes]

Request == SignUpDto \cup SignInDto \cup CheckOtpDto

\* The unique columns of UserEntity.
Unique(table) ==
  \A u, v \in table : u.email = v.email \/ u.username = v.username => u = v

ASSUME AuthAssumption ==
  /\ NoCode \notin Codes
  /\ \A table \in Accounts : /\ table \subseteq User /\ Unique(table)
                            /\ \A u \in table : ~u.verified

\* What Redis holds, with the call that stored it.
Stored == [code : Codes, by : Calls]

TypeOK ==
  /\ users \subseteq User
  /\ otp \in [Emails -> SUBSET Stored]
  /\ \A e \in Emails : \A x, y \in otp[e] : x = y
  /\ pc \in [Calls -> {"idle", "username", "insert", "get", "setex", "mail",
                       "verify", "update", "done"}]
  /\ req \in [Calls -> Request]
  /\ fresh \in [Calls -> Codes \cup {NoCode}]
  /\ known \in [Calls -> BOOLEAN]
  /\ reply \in [Calls -> {"none", "sent", "taken", "invalid", "wait", "login", "error"}]
  /\ raced \subseteq Calls /\ lapsed \subseteq Calls
  /\ used \in [Calls -> Nat]

Init ==
  /\ users \in Accounts
  /\ otp = [e \in Emails |-> {}]
  /\ pc = [c \in Calls |-> "idle"]
  /\ req \in [Calls -> Request]
  /\ fresh = [c \in Calls |-> NoCode]
  /\ known = [c \in Calls |-> FALSE]
  /\ reply = [c \in Calls |-> "none"]
  /\ raced = {} /\ lapsed = {}
  /\ used = [c \in Calls |-> 0]

Goto(c, from, to) == pc[c] = from /\ pc' = [pc EXCEPT ![c] = to]

Tell(c, answer) == reply' = [reply EXCEPT ![c] = answer]

Account(c) == {u \in users : u.email = req[c].email}

----------------------------------------------------------------------------
(* signUp.                                                                 *)

EmailIsFree(c) ==
  /\ Goto(c, "idle", "username")
  /\ req[c].op = "signUp" /\ Account(c) = {}
  /\ UNCHANGED <<users, otp, req, fresh, known, reply, history>>

UsernameIsFree(c) ==
  /\ Goto(c, "username", "insert")
  /\ \A u \in users : u.username # req[c].username
  /\ UNCHANGED <<users, otp, req, fresh, known, reply, history>>

RejectTaken(c) ==
  /\ \/ /\ Goto(c, "idle", "done")
        /\ req[c].op = "signUp" /\ Account(c) # {}
     \/ /\ Goto(c, "username", "done")
        /\ \E u \in users : u.username = req[c].username
  /\ Tell(c, "taken")
  /\ UNCHANGED <<users, otp, req, fresh, known, history>>

NewUser(c) == [username |-> req[c].username, email |-> req[c].email,
               password |-> req[c].password, verified |-> FALSE]

\* The unique constraints accept the row.
Insertable(c) == Account(c) = {} /\ Unique(users \cup {NewUser(c)})

\* Mutant: the save is not awaited, and its failure goes unnoticed.
InsertUserNotAwaited(c) ==
  /\ Goto(c, "insert", "get")
  /\ \/ UNCHANGED users
     \/ Insertable(c) /\ users' = users \cup {NewUser(c)}
  /\ UNCHANGED <<otp, req, fresh, known, reply, history>>

InsertUser(c) ==
  /\ Goto(c, "insert", "get")
  /\ Insertable(c)
  /\ users' = users \cup {NewUser(c)}
  /\ UNCHANGED <<otp, req, fresh, known, reply, history>>

\* Another sign-up was faster: the unique constraint refuses the row.
ViolateUnique(c) ==
  /\ Goto(c, "insert", "done")
  /\ ~Insertable(c)
  /\ Tell(c, "error")
  /\ UNCHANGED <<users, otp, req, fresh, known, history>>

----------------------------------------------------------------------------
(* signIn.                                                                 *)

AcceptPassword(c) ==
  /\ Goto(c, "idle", "get")
  /\ req[c].op = "signIn"
  /\ \E u \in Account(c) : u.password = req[c].password
  /\ UNCHANGED <<users, otp, req, fresh, known, reply, history>>

RejectPassword(c) ==
  /\ Goto(c, "idle", "done")
  /\ req[c].op = "signIn"
  /\ \A u \in Account(c) : u.password # req[c].password
  /\ Tell(c, "invalid")
  /\ UNCHANGED <<users, otp, req, fresh, known, history>>

----------------------------------------------------------------------------
(* saveOtp, called by both, and the mail.                                  *)

Storing(e) == {d \in Calls : pc[d] = "setex" /\ req[d].email = e}

\* Mutant: a code that is still valid does not stop saveOtp.
FindAnyOtp(c) ==
  /\ Goto(c, "get", "setex")
  /\ raced' = IF Storing(req[c].email) = {} THEN raced
              ELSE raced \cup {c} \cup Storing(req[c].email)
  /\ UNCHANGED <<users, otp, req, fresh, known, reply, lapsed, used>>

FindNoOtp(c) ==
  /\ Goto(c, "get", "setex")
  /\ otp[req[c].email] = {}
  /\ raced' = IF Storing(req[c].email) = {} THEN raced
              ELSE raced \cup {c} \cup Storing(req[c].email)
  /\ UNCHANGED <<users, otp, req, fresh, known, reply, lapsed, used>>

OtpNotExpired(c) ==
  /\ Goto(c, "get", "done")
  /\ otp[req[c].email] # {}
  /\ Tell(c, "wait")
  /\ UNCHANGED <<users, otp, req, fresh, known, history>>

\* Mutant: the code is pushed on a list.
SetexAppends(c, k) ==
  /\ fresh' = [fresh EXCEPT ![c] = k]
  /\ otp' = [otp EXCEPT ![req[c].email] = @ \cup {[code |-> k, by |-> c]}]

\* SETEX with the code that was generated; it replaces what is there.
Setex(c, k) ==
  /\ fresh' = [fresh EXCEPT ![c] = k]
  /\ otp' = [otp EXCEPT ![req[c].email] = {[code |-> k, by |-> c]}]

StoreOtp(c) ==
  /\ Goto(c, "setex", "mail")
  /\ \E k \in Codes : Setex(c, k)
  /\ UNCHANGED <<users, req, known, reply, history>>

SendOtpForEmail(c) ==
  /\ Goto(c, "mail", "done")
  /\ Tell(c, "sent")
  /\ UNCHANGED <<users, otp, req, fresh, known, history>>

\* Redis removes the key when its time is over.
Expire(e) ==
  /\ otp[e] # {}
  /\ otp' = [otp EXCEPT ![e] = {}]
  /\ lapsed' = lapsed \cup {c \in Calls : req[c].email = e /\ fresh[c] # NoCode}
  /\ UNCHANGED <<users, pc, req, fresh, known, reply, raced, used>>

----------------------------------------------------------------------------
(* checkOtp.                                                               *)

FindAccount(c) ==
  /\ Goto(c, "idle", "verify")
  /\ req[c].op = "checkOtp"
  /\ \E u \in Account(c) : known' = [known EXCEPT ![c] = u.verified]
  /\ UNCHANGED <<users, otp, req, fresh, reply, history>>

FindNoAccount(c) ==
  /\ Goto(c, "idle", "done")
  /\ req[c].op = "checkOtp" /\ Account(c) = {}
  /\ Tell(c, "invalid")
  /\ UNCHANGED <<users, otp, req, fresh, known, history>>

Verify(c) == \E x \in otp[req[c].email] : x.code = req[c].otpCode

Use(c) == \E x \in otp[req[c].email] : used' = [used EXCEPT ![x.by] = @ + 1]

\* The code is right and the address known to be verified: the user is in.
LoginVerified(c) ==
  /\ Goto(c, "verify", "done")
  /\ Verify(c) /\ known[c]
  /\ Use(c)
  /\ Tell(c, "login")
  /\ UNCHANGED <<users, otp, req, fresh, known, raced, lapsed>>

\* Mutant: a code that has expired is not compared with anything.
VerifyOtpOrExpired(c) ==
  /\ Goto(c, "verify", "update")
  /\ otp[req[c].email] = {}
  /\ ~known[c]
  /\ UNCHANGED <<users, otp, req, fresh, known, reply, history>>

VerifyOtp(c) ==
  /\ Goto(c, "verify", "update")
  /\ Verify(c) /\ ~known[c]
  /\ Use(c)
  /\ UNCHANGED <<users, otp, req, fresh, known, reply, raced, lapsed>>

RejectOtp(c) ==
  /\ Goto(c, "verify", "done")
  /\ ~Verify(c)
  /\ Tell(c, "invalid")
  /\ UNCHANGED <<users, otp, req, fresh, known, history>>

Verified(c) ==
  (users \ Account(c)) \cup {[u EXCEPT !.verified = TRUE] : u \in Account(c)}

UpdateVerified(c) ==
  /\ Goto(c, "update", "done")
  /\ users' = Verified(c)
  /\ Tell(c, "login")
  /\ UNCHANGED <<otp, req, fresh, known, history>>

----------------------------------------------------------------------------
(* A statement, a command or the mail fails, or the process dies, and the  *)
(* caller is told of an error.  What the call was doing may have been done.*)
FailCall(c) ==
  /\ pc[c] \notin {"idle", "done"}
  /\ pc' = [pc EXCEPT ![c] = "done"]
  /\ Tell(c, "error")
  /\ users' \in {users}
       \cup (IF pc[c] = "insert" /\ Insertable(c)
             THEN {users \cup {NewUser(c)}} ELSE {})
       \cup (IF pc[c] = "update" THEN {Verified(c)} ELSE {})
  /\ \/ UNCHANGED <<otp, fresh>>
     \/ pc[c] = "setex" /\ \E k \in Codes : Setex(c, k)
  /\ UNCHANGED <<req, known, history>>

Step(c) ==
  \/ EmailIsFree(c) \/ UsernameIsFree(c) \/ RejectTaken(c)
  \/ InsertUser(c) \/ ViolateUnique(c)
  \/ AcceptPassword(c) \/ RejectPassword(c)
  \/ FindNoOtp(c) \/ OtpNotExpired(c) \/ StoreOtp(c) \/ SendOtpForEmail(c)
  \/ FindAccount(c) \/ FindNoAccount(c)
  \/ LoginVerified(c) \/ VerifyOtp(c) \/ RejectOtp(c) \/ UpdateVerified(c)

Finished == (\A c \in Calls : pc[c] = "done") /\ UNCHANGED vars

Next ==
  \/ \E c \in Calls : Step(c) \/ FailCall(c)
  \/ \E e \in Emails : Expire(e)
  \/ Finished

Spec == Init /\ [][Next]_vars

----------------------------------------------------------------------------
(* Properties.                                                             *)

(* No two users share an email or a username, although two sign-ups can    *)
(* both find them free before either saves.                                *)
UsersAreUnique == Unique(users)

(* There is a code only for the address of a user: a sign-up that loses    *)
(* the race for an address, or fails before its row is saved, makes none.  *)
CodesAreForUsers ==
  \A e \in Emails : otp[e] # {} => \E u \in users : u.email = e

(* Who is told that a code was sent can log in with it until it expires,   *)
(* whatever other calls ask for codes meanwhile.  The one exception: two   *)
(* calls that both look for a code before either stores one (the GET and   *)
(* the SETEX of saveOtp are two commands), and the later one wins.         *)
SentCodeWorks ==
  \A c \in Calls : reply[c] = "sent" /\ c \notin raced \cup lapsed =>
    \E x \in otp[req[c].email] : x.code = fresh[c]

(* A login, and the verification of an address, are by a code that saveOtp *)
(* stored for this very address, and a login always finds it verified.     *)
LoginIsByStoredCode ==
  /\ \A c \in Calls : reply[c] = "login" =>
       /\ \E u \in Account(c) : u.verified
       /\ \E d \in Calls : /\ used[d] > 0 /\ fresh[d] = req[c].otpCode
                           /\ req[d].email = req[c].email
  /\ \A u \in users : u.verified =>
       \E d \in Calls : used[d] > 0 /\ req[d].email = u.email

(* mailer.service.ts:44 tells the user that the code "can only be used     *)
(* once".  verify compares it and leaves it in Redis.                      *)
CodeIsUsedOnce == \A c \in Calls : used[c] <= 1
==========================================================================
