SPECIFICATION Spec
CONSTANTS
  btc = btc
  h1 = h1
  h2 = h2
  MaxDistancePct = 50
  Symbols = {btc}
  Handlers = {h1}
  Requests <- TwoLots
  Ticks <- Up
  MaxTasks = 1
  MaxCancels = 1
  MaxReplaces = 1
  MaxOrders = 2
  MaxExpiries = 1
  MaxNeeds = 1
  MaxDrops = 0
  MaxCrashes = 0
CHECK_DEADLOCK FALSE
INVARIANTS FilledIsReal FilledMeansTraded
PROPERTY SettledStays
