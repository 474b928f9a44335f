SPECIFICATION TradeSpec
CONSTANTS
  btc = btc
  h1 = h1
  h2 = h2
  MaxDistancePct = 50
  Symbols = {btc}
  Handlers = {h1}
  Requests <- OneLot
  Ticks <- Crosses
  MaxTasks = 2
  MaxCancels = 0
  MaxReplaces = 1
  MaxOrders = 3
  MaxExpiries = 0
  MaxNeeds = 0
  MaxDrops = 0
  MaxCrashes = 0
CHECK_DEADLOCK FALSE
PROPERTIES ExitIsSentOrFails TriggerFires
