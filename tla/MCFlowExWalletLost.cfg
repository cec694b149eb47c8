SPECIFICATION Spec
CONSTANTS
  Users = {u1}
  Currencies <- MCCurrencies
  Calls = {c1, c2, c3, c4}
  Credits <- MCCredits
  Percents <- MCPercents
  Whole = 2
  Exact = 1000
  Spacing = 2
  NoWallet = NoWallet
  NoCall = NoCall
SYMMETRY MCSymmetry
INVARIANT LockedIsForPendingOrders
