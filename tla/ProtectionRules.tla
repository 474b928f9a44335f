-------------------------- MODULE ProtectionRules --------------------------
(***************************************************************************)
(* The pure rules of the service: which requests are admitted, which       *)
(* statuses count as active, at which price an order is queued, and when a *)
(* protection plan triggers.  A price is a natural number of ticks; 0 is   *)
(* the Go zero value, "not known yet" or "not set".                        *)
(***************************************************************************)
EXTENDS Integers

CONSTANT MaxDistancePct   \* CHASER_PROTECTION_MAX_DISTANCE_PCT, in percent;
                          \* 0 turns the distance check off

ASSUME MaxDistanceAssumption == MaxDistancePct \in Nat

PositionSides  == {"LONG", "SHORT"}
Sides          == {"BUY", "SELL"}
TaskKinds      == {"ENTRY", "EXIT"}
ActiveStatuses == {"PENDING", "PLACED", "CHASING", "PARTIALLY_FILLED"}
TaskStatuses   == ActiveStatuses \cup {"FILLED", "CANCELED", "FAILED"}
PlanStatuses   == {"ARMED", "TRIGGERED", "CLOSED", "NEEDS_PROTECTION"}

\* The side that closes a position; the side of an entry is the opposite one.
CloseSide(pos) == IF pos = "LONG" THEN "SELL" ELSE "BUY"
EntrySide(pos) == IF pos = "LONG" THEN "BUY" ELSE "SELL"

IsActive(status) == status \in ActiveStatuses

\* An order is queued at its own side of the book.
TargetPrice(mkt, side) == IF side = "BUY" THEN mkt.bid ELSE mkt.ask

\* nearlyEqual: equal prices, except that 0 equals nothing.
NearlyEqual(a, b) == a # 0 /\ b # 0 /\ a = b

Distance(a, b) == IF a >= b THEN a - b ELSE b - a

WithinDistance(price, ref) ==
  MaxDistancePct = 0 \/ Distance(price, ref) * 100 <= MaxDistancePct * ref

\* validateProtectionPricesLocked against the mark price ref.
ValidProtection(req, ref) ==
  /\ ref > 0
  /\ WithinDistance(req.takeProfit, ref)
  /\ WithinDistance(req.stopLoss, ref)
  /\ req.positionSide = "LONG"  => req.stopLoss < ref /\ ref < req.takeProfit
  /\ req.positionSide = "SHORT" => req.takeProfit < ref /\ ref < req.stopLoss

\* The checks of SubmitEntry that do not depend on the other tasks.
ValidRequest(req, ref) ==
  /\ req.positionSide \in PositionSides
  /\ req.side = EntrySide(req.positionSide)
  /\ req.quantity > 0 /\ req.takeProfit > 0 /\ req.stopLoss > 0
  /\ ValidProtection(req, ref)

HitsTakeProfit(plan, price) ==
  /\ plan.takeProfit > 0
  /\ \/ plan.positionSide = "LONG"  /\ price >= plan.takeProfit
     \/ plan.positionSide = "SHORT" /\ price <= plan.takeProfit

PassesStopLoss(plan, price) ==   \* mutant: beyond the line, not at it
  /\ plan.stopLoss > 0
  /\ \/ plan.positionSide = "LONG"  /\ price < plan.stopLoss
     \/ plan.positionSide = "SHORT" /\ price > plan.stopLoss
HitsStopLoss(plan, price) ==
  /\ plan.stopLoss > 0
  /\ \/ plan.positionSide = "LONG"  /\ price <= plan.stopLoss
     \/ plan.positionSide = "SHORT" /\ price >= plan.stopLoss

\* triggerType: the take-profit line is looked at before the stop-loss line.
TriggerType(plan, price) ==
  IF price <= 0 THEN "NONE"
  ELSE IF HitsTakeProfit(plan, price) THEN "TAKE_PROFIT"
  ELSE IF HitsStopLoss(plan, price) THEN "STOP_LOSS"
  ELSE "NONE"

ShouldTrigger(plan, price) == TriggerType(plan, price) # "NONE"
=============================================================================
