SPECIFICATION FairSpec
CONSTANTS
  c1 = c1
  c2 = c2
  Callers = {c1, c2}
  Limits <- TwoLimits
  Num = 1
  Den = 5
  Unit = 10
  DefaultCapacity = 2
  DefaultRate = 10
  SlowRate = 5
  LowestRate = 2
  MaxIdle = 2
  Span = 4
CHECK_DEADLOCK FALSE
INVARIANTS BudgetOK BucketBound StaysSlow
PROPERTY OrdersGoOn
