SPECIFICATION FairSpec
CONSTANTS
  btc = btc
  h1 = h1
  h2 = h2
  MaxDistancePct = 50
  Symbols = {btc}
  Handlers = {h1}
  Requests <- OneLot
  Ticks <- Falls
  MaxTasks = 1
  MaxCancels = 0
  MaxReplaces = 0
  MaxOrders = 1
  MaxExpiries = 0
  MaxNeeds = 0
  MaxDrops = 0
  MaxCrashes = 1
CHECK_DEADLOCK FALSE
PROPERTY RestartFindsOrders
