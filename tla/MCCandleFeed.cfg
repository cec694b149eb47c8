SPECIFICATION FairSpec
CONSTANTS
  MaxCandles = 2
  MaxFlowExClients = 2
  MaxForeign = 1
  MaxFaults = 2
INVARIANTS
  TypeOK
  
PROPERTIES
  EveryCandleIsChecked
