SPECIFICATION PaymentsSpec
CONSTANTS
  Users = {u1}
  Currencies <- MCCurrencies
  Calls = {h1, h2, o1}
  Callbacks = {h1, h2}
  Deposits = {d1, d2}
  Amounts <- MCAmounts
  UnitsPerIRR = 5
  Whole = 2
  Exact = 8
  Spacing = 4
  PoolSize = 3
  Credits <- MCCredits
  Percents <- MCPercents
  NoWallet = NoWallet
  NoCall = NoCall
SYMMETRY MCSymmetry
INVARIANTS
  CreditsLostOnlyByOverlap
  ReservationIsCurrent
