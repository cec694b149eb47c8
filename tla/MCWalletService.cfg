SPECIFICATION MCSpec
CONSTANTS
  u1 = u1
  c1 = c1
  c2 = c2
  c3 = c3
  c4 = c4
  Users = {u1}
  Currencies <- MCCurrencies
  Calls = {c1, c2, c3, c4}
  Credits <- MCCredits
  Percents <- MCPercents
  Whole = 2
  Exact = 4
  Spacing = 2
  NoWallet = NoWallet
  NoCall = NoCall
INVARIANTS
  TypeOK
  LockedWithinBalance
  LoadedRowIsCurrent
  BooksBalance
  OnlyDoubledWalletsDeadlock
PROPERTIES
  SettledWalletIsNeverDoubled
  ImplementsLedger
  EveryCallIsAnswered
