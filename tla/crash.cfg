SPECIFICATION Spec
CONSTANTS
  btc = btc
  h1 = h1
  h2 = h2
  MaxDistancePct = 50
  Symbols = {btc}
  Handlers = {h1}
  Requests <- OneLot
  Ticks <- Falls
  MaxTasks = 2
  MaxCancels = 0
  MaxReplaces = 0
  MaxOrders = 2
  MaxExpiries = 0
  MaxNeeds = 0
  MaxDrops = 1
  MaxCrashes = 1
CHECK_DEADLOCK FALSE
INVARIANTS TypeOK Attribution PlanTracksEntry FilledIsReal ExitsAreBacked
