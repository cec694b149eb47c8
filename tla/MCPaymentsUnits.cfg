SPECIFICATION FairSpec
CONSTANTS
  Users = {u1, u2}
  Deposits = {d1, d2}
  Callbacks = {h1, h2, h3}
  Amounts <- MCAmounts
  UnitsPerIRR = 2
  PoolSize = 1
  Whole = 1
  Exact = 1000
  Spacing = 2
  NoWallet = NoWallet
INVARIANT PaidRialsAreConverted
