SPECIFICATION Spec
CONSTANTS
  Calls = {c1, c2, c3}
  e1 = e1
  n1 = n1
  p1 = p1
  Emails = {e1, e2}
  Names = {n1, n2}
  Passwords = {p1}
  Codes = {k1, k2}
  NoCode = NoCode
  Accounts <- MCAccounts
INVARIANT CodeIsUsedOnce
