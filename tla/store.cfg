SPECIFICATION FairSpec
CONSTANTS
  ticker = ticker
  Savers = {ticker}
  WindowDuration = 1
  WindowMaxTicks = 2
  MaxTime = 2
  MaxHeard = 3
  MaxPlans = 2
  MaxErrors = 1
  MaxCrashes = 1
CHECK_DEADLOCK FALSE
INVARIANTS StoreOK WindowEndsWithRecent
PROPERTIES ImplementsRegister PlansReachDisk
