SPECIFICATION SessionSpec
CONSTANTS
  Calls = {c1, c2, c3}
  e1 = e1
  n1 = n1
  p1 = p1
  Emails = {e1, e2}
  Names = {n1, n2}
  Passwords = {p1}
  Codes = {k1, k2}
  NoCode = NoCode
  Accounts <- MCAccounts
  Requests = {r1}
  Sockets = {s1, s2}
  NoToken = NoToken
SYMMETRY MCSymmetry
INVARIANTS
  SessionTypeOK
  CodesAreForUsers
  SentCodeWorks
  SessionIsOfVerifiedUser
PROPERTIES
  OnlyUnverifiedThrow
