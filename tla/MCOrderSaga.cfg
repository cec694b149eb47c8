SPECIFICATION FairSpec
CONSTANTS
  Users = {u1}
  Currencies <- MCCurrencies
  Orders = {o1, o2, o3}
  NoWallet = NoWallet
  Percents <- MCPercents
  Funding = 20
  Whole = 2
  Exact = 16
  Spacing = 4
INVARIANTS
  TypeOK
  OpenOrdersAreBacked
  OpenOrderIsInBook
  OrphanOnlyByFault
  AnswerIsTrue
PROPERTIES
  EveryOrderIsAnswered
