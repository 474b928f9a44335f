---------------------------- MODULE OrderBudget ----------------------------
(***************************************************************************)
(* The budget of orders: the TokenBucket every placement waits for, the    *)
(* limits of the exchange it is set from when the daemon starts, and the   *)
(* usage in the replies that lowers it.                                    *)
(*                                                                         *)
(* Time is relative: the bucket knows how long ago it was looked at, and   *)
(* an order how old it is, up to Span.  Tokens come in parts of Unit.      *)
(***************************************************************************)
EXTENDS Integers, Sequences, FiniteSetsExt

CONSTANTS
  Callers,           \* goroutines that place orders
  Limits,            \* exchangeInfo: the rate limits, in their order
  Num, Den,          \* cfg.OrderBudgetRatio = Num / Den
  Unit,              \* parts of a token
  DefaultCapacity, DefaultRate,   \* the bucket of New; rates in parts per second
  SlowRate, LowestRate,           \* near a limit, and after a 429 or 418
  MaxIdle,           \* bound on the seconds nobody looks at the bucket
  Span               \* bound on the age up to which orders are remembered

RateLimit == [type : {"ORDERS", "REQUEST_WEIGHT"},
              interval : {"SECOND", "MINUTE", "HOUR", "DAY"}, num : Nat,
              limit : Nat]

ASSUME LimitsAssumption == Limits \in Seq(RateLimit)
ASSUME RatioAssumption == Num \in Nat \ {0} /\ Den \in Nat \ {0} /\ Num <= Den
ASSUME RateAssumption ==
  /\ Unit \in Nat \ {0} /\ DefaultCapacity \in Nat \ {0}
  /\ DefaultRate \in Nat \ {0} /\ SlowRate \in Nat \ {0}
  /\ LowestRate \in Nat \ {0} /\ LowestRate <= SlowRate
  /\ MaxIdle \in Nat /\ Span \in Nat

Larger(a, b)  == IF a > b THEN a ELSE b
Smaller(a, b) == IF a < b THEN a ELSE b

\* intervalSeconds, and what one limit allows at once and per second.
Seconds(l) ==
  Larger(l.num, 1) * (CASE l.interval = "SECOND" -> 1
                        [] l.interval = "MINUTE" -> 60
                        [] l.interval = "HOUR" -> 3600
                        [] l.interval = "DAY" -> 86400)

Share(l)  == Larger(1, (l.limit * Num) \div Den)
Refill(l) == (Unit * l.limit * Num) \div (Den * Seconds(l))

\* A unit is fine enough for the refill of every limit (a float in the code).
ASSUME UnitAssumption ==
  \A k \in DOMAIN Limits : Limits[k].limit > 0 => Refill(Limits[k]) > 0

VARIABLES
  capacity, rate, tokens, idle,   \* TokenBucket; idle: seconds since last
  usage,     \* Client.rateUsage, the one of whichever reply came last
  limit10s, limit1m,              \* Service, 0 when not known
  best,      \* configureRateLimits: the least capacity and refill so far
  todo,      \* configureRateLimits: the entries not looked at yet
  run,       \* the goroutine of Run: "info", "limits", "update" or "done"
  caller,    \* goroutine -> "idle", "wait", "send" or "adapt"
  orders,    \* history: orders let through, [age, capacity, peak, low]
  peak       \* history: the highest rate since the last of them

bucket     == <<capacity, rate, tokens, idle>>
limits     == <<limit10s, limit1m>>
config     == <<best, todo, run>>
history    == <<orders, peak>>
budgetVars == <<bucket, usage, limits, config, caller, history>>

\* A reply: its status and the counts it carries, as shares of the limits that
\* adaptOrderBudget tells apart.  Calls other than orders carry no counts.
\* captureRateUsage keeps it, be it an error or not; an error other than 418
\* and 429 tells adaptOrderBudget what a 200 does.
Usage   == [status : {0, 200, 418, 429}, near10s : BOOLEAN, near1m : BOOLEAN]
Reply(s, ten, one) == [status |-> s, near10s |-> ten, near1m |-> one]
NoUsage == Reply(0, FALSE, FALSE)
Replies == {Reply(200, FALSE, FALSE), Reply(200, TRUE, FALSE),
            Reply(200, FALSE, TRUE), Reply(429, FALSE, FALSE)}
Uncounted == {Reply(200, FALSE, FALSE), Reply(429, FALSE, FALSE)}

NoBest == [capacity |-> 0, refill |-> 0]

Init ==
  /\ capacity = DefaultCapacity /\ rate = DefaultRate
  /\ tokens = DefaultCapacity * Unit /\ idle = 0
  /\ usage = NoUsage /\ limit10s = 0 /\ limit1m = 0
  /\ best = NoBest /\ todo = Limits /\ run = "info"
  /\ caller = [p \in Callers |-> "idle"]
  /\ orders = <<>> /\ peak = DefaultRate

-----------------------------------------------------------------------------
(* TokenBucket                                                             *)

UpdateKeepsTokens(c, r) ==   \* mutant: the tokens are not cut
  IF c > 0 /\ r > 0
  THEN capacity' = c /\ rate' = r /\ peak' = Larger(peak, r)
       /\ UNCHANGED <<tokens, idle>>
  ELSE UNCHANGED <<bucket, peak>>

\* Update; the time before it is credited at the new rate by the next take.
Update(c, r) ==
  IF c > 0 /\ r > 0
  THEN /\ capacity' = c /\ rate' = r
       /\ tokens' = Smaller(tokens, c * Unit)
       /\ peak' = Larger(peak, r)
       /\ UNCHANGED idle
  ELSE UNCHANGED <<bucket, peak>>

Refilled == Smaller(tokens + idle * rate, capacity * Unit)

\* The budget is as low as a reply may make it, and the start of the daemon
\* does not set it any more.
Lowered == run = "done" /\ capacity = 1 /\ rate <= SlowRate
OrderNow == [age |-> 0, capacity |-> capacity, peak |-> peak, low |-> Lowered]

\* take, called by Wait every tenth of a second until it returns true.
TakeUnclocked(p) ==   \* mutant: last is set only when a token was taken
  /\ caller[p] = "wait" /\ Refilled < Unit
  /\ tokens' = Refilled
  /\ UNCHANGED <<capacity, rate, idle, usage, limits, config, caller, history>>
TakeFails(p) ==
  /\ caller[p] = "wait" /\ Refilled < Unit
  /\ tokens' = Refilled /\ idle' = 0
  /\ UNCHANGED <<capacity, rate, usage, limits, config, caller, history>>

TakeMore(p) ==   \* mutant: more than one token has to be there
  /\ caller[p] = "wait" /\ Refilled > Unit
  /\ tokens' = Refilled - Unit /\ idle' = 0
  /\ caller' = [caller EXCEPT ![p] = "send"]
  /\ orders' = Append(orders, OrderNow)
  /\ peak' = rate
  /\ UNCHANGED <<capacity, rate, usage, limits, config>>
Take(p) ==
  /\ caller[p] = "wait" /\ Refilled >= Unit
  /\ tokens' = Refilled - Unit /\ idle' = 0
  /\ caller' = [caller EXCEPT ![p] = "send"]
  /\ orders' = Append(orders, OrderNow)
  /\ peak' = rate
  /\ UNCHANGED <<capacity, rate, usage, limits, config>>

-----------------------------------------------------------------------------
(* placeTask and the other calls                                           *)

Place(p) ==
  /\ caller[p] = "idle" /\ caller' = [caller EXCEPT ![p] = "wait"]
  /\ UNCHANGED <<bucket, usage, limits, config, history>>

\* PlaceQueueLimit, with a reply.
Send(p) ==
  /\ caller[p] = "send" /\ caller' = [caller EXCEPT ![p] = "adapt"]
  /\ usage' \in Replies
  /\ UNCHANGED <<bucket, limits, config, history>>

\* No reply: the usage stays the one of an earlier call.
SendFails(p) ==
  /\ caller[p] = "send" /\ caller' = [caller EXCEPT ![p] = "adapt"]
  /\ UNCHANGED <<bucket, usage, limits, config, history>>

\* A cancel needs no token, and its reply carries no counts.
Cancel(p) ==
  /\ caller[p] = "idle" /\ caller' = [caller EXCEPT ![p] = "adapt"]
  /\ usage' \in {usage} \cup Uncounted
  /\ UNCHANGED <<bucket, limits, config, history>>

\* Any other call of the client, on any goroutine.
OtherReply ==
  /\ usage' \in Uncounted
  /\ UNCHANGED <<bucket, limits, config, caller, history>>

NearLimit == \/ limit10s > 0 /\ usage.near10s
             \/ limit1m > 0 /\ usage.near1m

\* adaptOrderBudget, with the usage of the last reply of all.
AdaptRestores(p) ==   \* mutant: a good reply gives the bucket of New back
  /\ caller[p] = "adapt" /\ caller' = [caller EXCEPT ![p] = "idle"]
  /\ IF usage.status \in {418, 429} THEN Update(1, LowestRate)
     ELSE IF usage.status # 0 /\ NearLimit THEN Update(1, SlowRate)
     ELSE Update(DefaultCapacity, DefaultRate)
  /\ UNCHANGED <<usage, limits, config, orders>>
Adapt(p) ==
  /\ caller[p] = "adapt" /\ caller' = [caller EXCEPT ![p] = "idle"]
  /\ IF usage.status \in {418, 429} THEN Update(1, LowestRate)
     ELSE IF usage.status # 0 /\ NearLimit THEN Update(1, SlowRate)
     ELSE UNCHANGED <<bucket, peak>>
  /\ UNCHANGED <<usage, limits, config, orders>>

-----------------------------------------------------------------------------
(* configureRateLimits, once, while control connections are served          *)

\* exchangeInfo fails, with a reply or without one: the budget of New stays.
InfoFails ==
  /\ run = "info" /\ run' = "done"
  /\ usage' \in {usage} \cup Uncounted
  /\ UNCHANGED <<bucket, limits, best, todo, caller, history>>

InfoOk ==
  /\ run = "info" /\ run' = "limits"
  /\ usage' = Reply(200, FALSE, FALSE)
  /\ UNCHANGED <<bucket, limits, best, todo, caller, history>>

Least(a, b) == IF a = 0 THEN b ELSE Smaller(a, b)

NextLimit ==
  LET l == Head(todo)
      counts == l.type = "ORDERS" /\ l.limit > 0
  IN /\ run = "limits" /\ todo # <<>>
     /\ todo' = Tail(todo)
     /\ best' = IF counts THEN [capacity |-> Least(best.capacity, Share(l)),
                                refill   |-> Least(best.refill, Refill(l))]
                ELSE best
     /\ limit10s' = IF counts /\ l.interval = "SECOND" /\ l.num = 10
                    THEN l.limit ELSE limit10s
     /\ limit1m' = IF counts /\ l.interval = "MINUTE" /\ l.num = 1
                   THEN l.limit ELSE limit1m
     /\ UNCHANGED <<bucket, usage, run, caller, history>>

\* The budget is set; what a placement has lowered it to meanwhile is gone.
Configure ==
  /\ run = "limits" /\ todo = <<>> /\ run' = "done"
  /\ Update(best.capacity, best.refill)
  /\ UNCHANGED <<usage, limits, best, todo, caller, orders>>

-----------------------------------------------------------------------------
(* The whole                                                               *)

\* The oldest comes first, and is forgotten first.
Older(os) ==
  LET young == Min({k \in DOMAIN os : os[k].age < Span} \cup {Len(os) + 1})
  IN SubSeq([k \in DOMAIN os |-> [os[k] EXCEPT !.age = @ + 1]], young, Len(os))

Second ==
  /\ idle < MaxIdle /\ idle' = idle + 1
  /\ orders' = Older(orders)
  /\ UNCHANGED <<capacity, rate, tokens, usage, limits, config, caller, peak>>

Placement(p) == Take(p) \/ TakeFails(p) \/ Send(p) \/ SendFails(p) \/ Adapt(p)

StartUp == InfoFails \/ InfoOk \/ NextLimit \/ Configure

Next ==
  \/ \E p \in Callers : Place(p) \/ Placement(p) \/ Cancel(p)
  \/ OtherReply
  \/ StartUp
  \/ Second

Spec == Init /\ [][Next]_budgetVars

\* Time passes and every goroutine runs; nobody has to place an order.
Fairness ==
  /\ \A p \in Callers : WF_budgetVars(Placement(p))
  /\ WF_budgetVars(StartUp) /\ WF_budgetVars(Second)

FairSpec == Spec /\ Fairness

-----------------------------------------------------------------------------
(* Properties *)

\* Type invariant: the bucket is never overfull, never in debt and never shut,
\* whichever of the two that set it came last.
BudgetOK ==
  /\ capacity \in Nat \ {0} /\ rate \in Nat \ {0}
  /\ tokens \in 0..(capacity * Unit) /\ idle \in 0..MaxIdle
  /\ usage \in Usage /\ limit10s \in Nat /\ limit1m \in Nat
  /\ best \in [capacity : Nat, refill : Nat] /\ todo \in Seq(RateLimit)
  /\ run \in {"info", "limits", "done"}
  /\ caller \in [Callers -> {"idle", "wait", "send", "adapt"}]
  /\ orders \in Seq([age : 0..Span, capacity : Nat \ {0}, peak : Nat,
                     low : BOOLEAN])
  /\ peak \in Nat

\* What a token bucket promises, with any number of waiters, changes of the
\* budget and idle times: the orders from the i-th to the j-th are no more
\* than the bucket could hold at the first of them and what has flowed in
\* since, at the highest rate there was (take, Update).
Highest(k, S) == \A l \in S : orders[l].peak <= orders[k].peak
BucketBound ==
  \A i, j \in DOMAIN orders : \A k \in (i + 1)..j : Highest(k, (i + 1)..j) =>
    Unit * (j - i + 1) <= Unit * orders[i].capacity
                          + orders[k].peak * (orders[i].age - orders[j].age)

\* Once an order went out from a lowered budget, the ones after it go out one
\* by one at SlowRate, for as long as the daemon runs: no good reply, no late
\* reply of the other goroutine, no change of the budget and no idle time lets
\* two of them out together or any out sooner (adaptOrderBudget, Update, take).
\* What a 429 sets is not kept: a reply near a limit raises LowestRate to
\* SlowRate.
StaysSlow ==
  \A i, j \in DOMAIN orders : i < j /\ orders[i].low =>
    Unit * (j - i) <= SlowRate * (orders[i].age - orders[j].age)

\* The lowest budget still lets orders through: while somebody waits, one
\* order after the other goes out (Wait, take).
OrdersGoOn ==
  LET waiting == \E p \in Callers : caller[p] = "wait"
      sent    == \E k \in DOMAIN orders : orders[k].age = 0
  IN []<>(waiting => sent)
=============================================================================
