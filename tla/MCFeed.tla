------------------------------- MODULE MCFeed -------------------------------
(***************************************************************************)
(* The instance of UserFeed for TLC: the requests and ticks of MCChase.    *)
(***************************************************************************)
EXTENDS UserFeed, TLC

CONSTANTS btc, h1

Lots(qty) == {[symbol |-> btc, side |-> "BUY", positionSide |-> "LONG",
               quantity |-> qty, takeProfit |-> 12, stopLoss |-> 8]}
OneLot  == Lots(1)
TwoLots == Lots(2)
Mark(m) == [symbol |-> btc, bid |-> 0, ask |-> 0, mark |-> m]
Falls   == {Mark(10), Mark(8)}
=============================================================================
