SPECIFICATION FeedSpec
CONSTANTS
  btc = btc
  h1 = h1
  MaxDistancePct = 50
  Symbols = {btc}
  Handlers = {h1}
  Requests <- TwoLots
  Ticks <- Falls
  MaxTasks = 1
  MaxCancels = 1
  MaxReplaces = 0
  MaxOrders = 1
  MaxExpiries = 0
  MaxNeeds = 1
  MaxDrops = 2
  MaxCrashes = 0
CHECK_DEADLOCK FALSE
INVARIANT ArmedPlansHaveLines
PROPERTIES ImplementsChase HearsAgain UncoveredIsReported RequestsReturn
