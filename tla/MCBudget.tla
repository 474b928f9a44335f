------------------------------ MODULE MCBudget ------------------------------
(***************************************************************************)
(* The instance of OrderBudget for TLC.  A fifth of 30 orders in 10 s and  *)
(* of 120 in a minute: 6 orders at once from the first limit, 0.4 per      *)
(* second from the second one.                                             *)
(***************************************************************************)
EXTENDS OrderBudget

CONSTANTS c1, c2

OrdersLimit(interval, num, limit) ==
  [type |-> "ORDERS", interval |-> interval, num |-> num, limit |-> limit]
TwoLimits == <<OrdersLimit("SECOND", 10, 30), OrdersLimit("MINUTE", 1, 120)>>
=============================================================================
