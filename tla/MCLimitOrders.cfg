SPECIFICATION FairSpec
CONSTANTS
  u1 = u1
  o1 = o1
  o2 = o2
  w1 = w1
  w2 = w2
  Users = {u1}
  Orders = {o1, o2}
  Workers = {w1, w2}
  Coin = "BTCUSDT"
  Prices <- MCPrices
  Percents <- MCPercents
  Funding <- MCFunding
  Requests <- MCRequests
  Credit <- MCCharge
  Whole = 4
  Exact = 4
  Spacing = 4
  MaxTicks = 2
  MaxEvents = 1
INVARIANTS
  TypeOK
  
  SettledTwiceOnlyByOverlap
  SettledAtTarget
  StrandedOnlyByRaceOrFailure
  AnnouncedIsClosed
PROPERTIES
  QueuedOrderIsClosed
