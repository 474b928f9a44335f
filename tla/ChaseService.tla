---------------------------- MODULE ChaseService ----------------------------
(***************************************************************************)
(* The core of the trading daemon: chase tasks and protection plans, the   *)
(* goroutines that work on them, the exchange they call and the snapshot   *)
(* on disk they restart from.                                              *)
(*                                                                         *)
(* Every critical section of Service.mu is one action, and so is every     *)
(* REST call; between two of them any other goroutine may run.  The        *)
(* goroutines are the control connections (Handlers), the market stream,   *)
(* the user stream, the reconcile ticker and the cancels that triggerPlan  *)
(* spawns (asyncCancels).                                                  *)
(***************************************************************************)
EXTENDS ProtectionRules, Sequences, FiniteSets, FiniteSetsExt, Functions

CONSTANTS
  Symbols,      \* the configured symbols
  Requests,     \* entry requests a control client may send
  Ticks,        \* messages of the market stream
  Handlers,     \* control connections
  MaxTasks,     \* bound on the tasks ever created
  MaxCancels,   \* bound on the cancels the control clients send
  MaxReplaces,  \* bound on the replacements of orders
  MaxOrders,    \* bound on the orders ever accepted by the exchange
  MaxExpiries,  \* bound on the orders the exchange ends by itself
  MaxNeeds,     \* bound on the plans reconcile adds
  MaxDrops,     \* bound on the losses of the user stream
  MaxCrashes    \* bound on the crashes of the daemon

Market    == "market"
User      == "user"
Reconcile == "reconcile"
Procs     == Handlers \cup {Market, User, Reconcile}
Keys      == Symbols \X PositionSides

Request == [symbol : Symbols, side : Sides, positionSide : PositionSides,
            quantity : Nat, takeProfit : Nat, stopLoss : Nat]

\* A bookTicker message has no mark price, a markPriceUpdate no book: 0.
Tick == [symbol : Symbols, bid : Nat, ask : Nat, mark : Nat]

ASSUME InputAssumption ==
  Requests \subseteq Request /\ Ticks \subseteq Tick
ASSUME HandlerAssumption ==
  Handlers \cap {Market, User, Reconcile} = {}
ASSUME BoundAssumption ==
  /\ MaxTasks \in Nat /\ MaxCancels \in Nat /\ MaxReplaces \in Nat
  /\ MaxOrders \in Nat
  /\ MaxExpiries \in Nat /\ MaxNeeds \in Nat /\ MaxDrops \in Nat /\ MaxCrashes \in Nat

VARIABLES
  market,        \* Service.markets: symbol -> [bid, ask, mark]
  tasks,         \* Service.tasks: task id -> task
  plans,         \* Service.plans: plan id -> plan
  clientIndex,   \* client order id -> task id
  orderIndex,    \* exchange order id -> task id
  cooling,       \* keys whose next replacement the ReplaceLimiter refuses
  nTasks, nPlans, nCids,   \* ids handed out so far (newID, newClientOrderID)
  proc,          \* goroutine -> what it does next
  held,          \* goroutine -> the snapshot it cloned and will write
  checks,        \* task ids OnMarket still has to pass to maybeReplace
  triggers,      \* plan ids OnMarket still has to pass to triggerPlan
  asyncCancels,  \* order ids with a cancel spawned by triggerPlan
  audit,         \* reconcile: symbols left and the amounts read for one
  disk,          \* snapshot.json
  orders,        \* exchange: order id -> order
  position,      \* exchange: key -> open quantity
  stream,        \* user stream: order events not yet read
  connected,     \* is the user stream up
  cancels, expiries, drops, crashes   \* how often these happened

memory   == <<market, tasks, plans>>
index    == <<clientIndex, orderIndex>>
ids      == <<nTasks, nPlans, nCids>>
work     == <<checks, triggers, asyncCancels, cooling>>
exchange == <<orders, position, stream, connected>>
counts   == <<cancels, expiries, drops, crashes>>
vars     == <<memory, index, ids, proc, held, work, audit, disk, exchange,
              counts>>

-----------------------------------------------------------------------------
(* State *)

Quote == [bid : Nat, ask : Nat, mark : Nat]

Task == [kind : TaskKinds, symbol : Symbols, positionSide : PositionSides,
         side : Sides, quantity : Nat, filled : Nat, status : TaskStatuses,
         plan : Nat, cid : Nat, orderID : Nat, target : Nat,
         takeProfit : Nat, stopLoss : Nat]

Plan == [symbol : Symbols, positionSide : PositionSides, entryTask : Nat,
         exitTask : Nat, protectedQty : Nat, takeProfit : Nat,
         stopLoss : Nat, status : PlanStatuses]

\* task and era are history: which task asked for the order, and in which
\* run of the daemon.
Order == [symbol : Symbols, positionSide : PositionSides, side : Sides,
          cid : Nat, qty : Nat, filled : Nat, live : BOOLEAN,
          task : Nat, era : Nat]

EventStatuses == {"NEW", "PARTIALLY_FILLED", "FILLED", "CANCELED"}
Event == [order : Nat, cid : Nat, status : EventStatuses, filled : Nat]

Labels == {"idle", "place", "wait", "ack", "nack", "clone", "save",
           "cancel", "rcancel", "rename", "read", "mark"}

Empty == [x \in {} |-> x]
Put(f, k, v) == [x \in DOMAIN f \cup {k} |-> IF x = k THEN v ELSE f[x]]

NoQuotes   == [s \in Symbols |-> [bid |-> 0, ask |-> 0, mark |-> 0]]
NoSnapshot == [market |-> NoQuotes, tasks |-> Empty, plans |-> Empty]
Memory     == [market |-> market, tasks |-> tasks, plans |-> plans]

\* What a goroutine does next (at), what it does once its save has returned
\* (then), and the task and the order it works on.
Idle == [at |-> "idle", then |-> "idle", task |-> 0, order |-> 0]
At(p, label) == proc[p].at = label
Goto(p, label, then, t, o) ==
  proc' = [proc EXCEPT ![p] = [at |-> label, then |-> then, task |-> t,
                               order |-> o]]
Done(p) == proc' = [proc EXCEPT ![p] = Idle]

Resume(p, label, t, o) ==
  IF label = "idle" THEN Done(p) ELSE Goto(p, label, "idle", t, o)

\* Save, then go on with the label then.  Once an instance cannot crash any
\* more nothing reads the disk, and saves are left out to keep the states few.
MayCrash == crashes < MaxCrashes
Persist(p, then, t, o) ==
  IF MayCrash THEN Goto(p, "clone", then, t, o) ELSE Resume(p, then, t, o)

Remaining(task) == IF task.filled < task.quantity
                   THEN task.quantity - task.filled ELSE 0
KeyOf(x) == <<x.symbol, x.positionSide>>

Init ==
  /\ market = NoQuotes /\ tasks = Empty /\ plans = Empty
  /\ clientIndex = Empty /\ orderIndex = Empty
  /\ nTasks = 0 /\ nPlans = 0 /\ nCids = 0
  /\ proc = [p \in Procs |-> Idle]
  /\ held = [p \in Procs |-> NoSnapshot]
  /\ checks = {} /\ triggers = {} /\ asyncCancels = {} /\ cooling = {}
  /\ audit = [left |-> {}, seen |-> Empty]
  /\ disk = NoSnapshot
  /\ orders = <<>> /\ position = [k \in Keys |-> 0]
  /\ stream = <<>> /\ connected = TRUE
  /\ cancels = 0 /\ expiries = 0 /\ drops = 0 /\ crashes = 0

-----------------------------------------------------------------------------
(* The exchange, as the code uses it: an order lives until it is filled,   *)
(* cancelled or expired, and every change of it is one event of the user   *)
(* stream, read in order, or lost when the stream is down.                 *)

EventOf(o, ord, status) ==
  [order |-> o, cid |-> ord.cid, status |-> status, filled |-> ord.filled]

Emit(e) == stream' = IF connected THEN Append(stream, e) ELSE stream

\* The exchange takes the order of task t as the task reads now.
Accept(t) ==
  LET task == tasks[t]
      ord  == [symbol |-> task.symbol, positionSide |-> task.positionSide,
               side |-> task.side, cid |-> task.cid, qty |-> Remaining(task),
               filled |-> 0, live |-> TRUE, task |-> t, era |-> crashes]
  IN /\ Len(orders) < MaxOrders
     /\ ord.qty > 0
     /\ \A o \in DOMAIN orders : orders[o].live => orders[o].cid # ord.cid
     /\ orders' = Append(orders, ord)
     /\ Emit(EventOf(Len(orders) + 1, ord, "NEW"))
     /\ UNCHANGED <<position, connected>>

\* A live order ends unfilled, by a cancel request or by the exchange.
EndOrder(o) ==
  /\ o \in DOMAIN orders /\ orders[o].live
  /\ orders' = [orders EXCEPT ![o].live = FALSE]
  /\ Emit(EventOf(o, orders[o], "CANCELED"))
  /\ UNCHANGED <<position, connected>>

\* Some or all of what is left of a live order trades.  An exit reduces the
\* position and never turns it around (hedge mode).
Fill(o, n) ==
  LET ord    == orders[o]
      filled == ord.filled + n
      closes == ord.side = CloseSide(ord.positionSide)
      after  == [ord EXCEPT !.filled = filled, !.live = filled < ord.qty]
  IN /\ ord.live /\ n <= ord.qty - ord.filled
     /\ closes => n <= position[KeyOf(ord)]
     /\ orders' = [orders EXCEPT ![o] = after]
     /\ position' = [position EXCEPT ![KeyOf(ord)] =
                       IF closes THEN @ - n ELSE @ + n]
     /\ Emit(EventOf(o, after, IF after.live THEN "PARTIALLY_FILLED"
                               ELSE "FILLED"))
     /\ UNCHANGED <<connected, memory, index, ids, proc, held, work, audit,
                    disk, counts>>

\* EXPIRED, or cancelled by hand at the exchange.
Expire(o) ==
  /\ EndOrder(o)
  /\ expiries < MaxExpiries /\ expiries' = expiries + 1
  /\ UNCHANGED <<memory, index, ids, proc, held, work, audit, disk, cancels,
                 drops, crashes>>

\* The user stream breaks: some of what was sent still arrives, the rest is
\* lost, and so is what happens until runUser has a new connection, which it
\* asks for when it has read all that arrived of the old one.
Disconnect ==
  /\ connected /\ drops < MaxDrops
  /\ connected' = FALSE /\ drops' = drops + 1
  /\ \E n \in 0..Len(stream) : stream' = SubSeq(stream, 1, n)
  /\ UNCHANGED <<orders, position, cancels, expiries, crashes, memory, index, ids,
                 proc, held, work, audit, disk>>

Reconnect ==
  /\ ~connected /\ stream = <<>> /\ connected' = TRUE
  /\ UNCHANGED <<orders, position, stream, memory, index, ids, proc, held,
                 work, audit, disk, counts>>

-----------------------------------------------------------------------------
(* persist: the state is cloned under the lock and written after it, so    *)
(* that another goroutine may write a newer or an older clone in between.  *)
(* Either the event log or the snapshot may fail to be written: the        *)
(* callers log it or return it, and go on the same way.                    *)

CloneWithoutPlans(p) ==   \* mutant: the plans written last are written again
  /\ At(p, "clone")
  /\ held' = [held EXCEPT ![p] = [Memory EXCEPT !.plans = disk.plans]]
  /\ proc' = [proc EXCEPT ![p].at = "save"]
  /\ UNCHANGED <<memory, index, ids, work, audit, disk, exchange, counts>>

Clone(p) ==
  /\ At(p, "clone")
  /\ held' = [held EXCEPT ![p] = Memory]
  /\ proc' = [proc EXCEPT ![p].at = "save"]
  /\ UNCHANGED <<memory, index, ids, work, audit, disk, exchange, counts>>

Save(p) ==
  /\ At(p, "save")
  /\ disk' \in {disk, held[p]}
  /\ held' = [held EXCEPT ![p] = NoSnapshot]
  /\ Resume(p, proc[p].then, proc[p].task, proc[p].order)
  /\ UNCHANGED <<memory, index, ids, work, audit, exchange, counts>>

-----------------------------------------------------------------------------
(* placeTask, on the goroutine of its caller                               *)

\* First section: the target price is taken and the task is PLACED, whatever
\* its status was.
PlaceStart(p) ==
  LET t == proc[p].task IN
  /\ At(p, "place")
  /\ tasks' = [tasks EXCEPT
       ![t].status = "PLACED",
       ![t].target = TargetPrice(market[tasks[t].symbol], tasks[t].side)]
  /\ proc' = [proc EXCEPT ![p].at = "wait"]
  /\ UNCHANGED <<market, plans, index, ids, held, work, audit, disk,
                 exchange, counts>>

\* The budget let the call through and the exchange took the order.  The
\* request is built from the task without the lock.  The reply may be lost.
PlaceAccepted(p) ==
  /\ At(p, "wait")
  /\ Accept(proc[p].task)
  /\ \E reply \in {"ack", "nack"} :
       Goto(p, reply, "idle", proc[p].task, Len(orders) + 1)
  /\ UNCHANGED <<memory, index, ids, held, work, audit, disk, counts>>

\* The request is refused, or never arrives.
PlaceRejected(p) ==
  /\ At(p, "wait")
  /\ Goto(p, "nack", "idle", proc[p].task, 0)
  /\ UNCHANGED <<memory, index, ids, held, work, audit, disk, exchange,
                 counts>>

\* Second section, with the reply.
PlaceDone(p) ==
  LET t == proc[p].task
      o == proc[p].order
  IN /\ At(p, "ack")
     /\ tasks' = [tasks EXCEPT ![t].orderID = o, ![t].cid = orders[o].cid,
                               ![t].status = "CHASING"]
     /\ clientIndex' = Put(clientIndex, orders[o].cid, t)
     /\ orderIndex' = Put(orderIndex, o, t)
     /\ Persist(p, "idle", t, o)
     /\ UNCHANGED <<market, plans, ids, held, work, audit, disk, exchange,
                    counts>>

PlaceFailedQuietly(p) ==   \* mutant: the task is not marked as failed
  At(p, "nack") /\ Done(p)
  /\ UNCHANGED <<memory, index, ids, held, work, audit, disk, exchange, counts>>

\* markTaskFailed; nothing is saved.
PlaceFailed(p) ==
  /\ At(p, "nack")
  /\ tasks' = [tasks EXCEPT ![proc[p].task].status = "FAILED"]
  /\ Done(p)
  /\ UNCHANGED <<market, plans, index, ids, held, work, audit, disk,
                 exchange, counts>>

-----------------------------------------------------------------------------
(* SubmitEntry and CancelTask, on a control connection                     *)

HasActiveEntry(symbol, pos) ==
  \E t \in DOMAIN tasks :
    /\ tasks[t].kind = "ENTRY" /\ KeyOf(tasks[t]) = <<symbol, pos>>
    /\ IsActive(tasks[t].status)

NewTask(kind, symbol, pos, side, qty) ==
  [kind |-> kind, symbol |-> symbol, positionSide |-> pos, side |-> side,
   quantity |-> qty, filled |-> 0, status |-> "PENDING", plan |-> 0,
   cid |-> 0, orderID |-> 0, target |-> 0, takeProfit |-> 0,
   stopLoss |-> 0]

\* A new task gets a fresh id and a fresh client order id; ts are the tasks
\* it joins.
AddTaskSameCid(ts, task) ==   \* mutant: an exit takes the last client order id
  LET cid == IF task.kind = "EXIT" THEN nCids ELSE nCids + 1
  IN /\ nTasks < MaxTasks
     /\ nTasks' = nTasks + 1 /\ nCids' = cid
     /\ tasks' = Put(ts, nTasks + 1, [task EXCEPT !.cid = cid])
     /\ clientIndex' = Put(clientIndex, cid, nTasks + 1)
AddTask(ts, task) ==
  /\ nTasks < MaxTasks
  /\ nTasks' = nTasks + 1 /\ nCids' = nCids + 1
  /\ tasks' = Put(ts, nTasks + 1, [task EXCEPT !.cid = nCids + 1])
  /\ clientIndex' = Put(clientIndex, nCids + 1, nTasks + 1)

Submit(h, req) ==
  /\ At(h, "idle")
  /\ ValidRequest(req, market[req.symbol].mark)
  /\ ~HasActiveEntry(req.symbol, req.positionSide)
  /\ AddTask(tasks, [NewTask("ENTRY", req.symbol, req.positionSide, req.side,
                             req.quantity)
                     EXCEPT !.takeProfit = req.takeProfit,
                            !.stopLoss = req.stopLoss])
  /\ Persist(h, "place", nTasks + 1, 0)
  /\ UNCHANGED <<market, plans, orderIndex, nPlans, held, work, audit, disk,
                 exchange, counts>>

\* Any task may be cancelled, a finished one too.
CancelTask(h, t) ==
  LET o == tasks[t].orderID IN
  /\ At(h, "idle")
  /\ cancels < MaxCancels /\ cancels' = cancels + 1
  /\ tasks' = [tasks EXCEPT ![t].status = "CANCELED"]
  /\ IF o # 0 THEN Goto(h, "cancel", "idle", t, o)
     ELSE Persist(h, "idle", t, 0)
  /\ UNCHANGED <<market, plans, index, ids, held, work, audit, disk,
                 exchange, expiries, drops, crashes>>

\* CancelOrder succeeds: persist.
CancelOk(h) ==
  /\ At(h, "cancel")
  /\ EndOrder(proc[h].order)
  /\ Persist(h, "idle", proc[h].task, 0)
  /\ UNCHANGED <<memory, index, ids, held, work, audit, disk, counts>>

CancelRetries(h) ==   \* mutant: the request is repeated until it succeeds
  At(h, "cancel") /\ UNCHANGED vars

\* CancelOrder fails, with the order cancelled (the reply is lost) or not
\* (it is not live, or the request is lost): return the error.
CancelError(h) ==
  /\ At(h, "cancel")
  /\ EndOrder(proc[h].order) \/ UNCHANGED exchange
  /\ Done(h)
  /\ UNCHANGED <<memory, index, ids, held, work, audit, disk, counts>>

-----------------------------------------------------------------------------
(* OnMarket, maybeReplace and triggerPlan, on the market goroutine         *)

Newer(old, new) == IF new > 0 THEN new ELSE old

\* First section of OnMarket: the quote is merged, the active tasks of the
\* symbol and the armed plans the mark price triggers are collected.
OnMarket(k) ==
  LET s == k.symbol
      q == [bid |-> Newer(market[s].bid, k.bid),
            ask |-> Newer(market[s].ask, k.ask),
            mark |-> Newer(market[s].mark, k.mark)]
  IN /\ At(Market, "idle") /\ checks = {} /\ triggers = {}
     /\ market' = [market EXCEPT ![s] = q]
     /\ checks' = {t \in DOMAIN tasks :
                     tasks[t].symbol = s /\ IsActive(tasks[t].status)}
     /\ triggers' = {n \in DOMAIN plans :
                       /\ plans[n].symbol = s /\ plans[n].status = "ARMED"
                       /\ ShouldTrigger(plans[n], q.mark)}
     /\ UNCHANGED <<tasks, plans, index, ids, proc, held, asyncCancels,
                    cooling, audit, disk, exchange, counts>>

\* The first section of maybeReplace, up to the limiter.  The limiter stands
\* for its own refusals and for the bound MaxReplaces.
WantsReplace(t) ==
  LET target == TargetPrice(market[tasks[t].symbol], tasks[t].side) IN
  /\ IsActive(tasks[t].status) /\ Remaining(tasks[t]) > 0
  /\ target > 0 /\ ~NearlyEqual(target, tasks[t].target)

Replaces == nCids - nTasks
Allowed(t) == KeyOf(tasks[t]) \notin cooling /\ Replaces < MaxReplaces

SkipReplace(t) ==
  /\ At(Market, "idle") /\ t \in checks
  /\ ~(WantsReplace(t) /\ Allowed(t))
  /\ checks' = checks \ {t}
  /\ UNCHANGED <<memory, index, ids, proc, held, triggers, asyncCancels,
                 cooling, audit, disk, exchange, counts>>

StartReplace(t) ==
  LET o == tasks[t].orderID IN
  /\ At(Market, "idle") /\ t \in checks
  /\ WantsReplace(t) /\ Allowed(t)
  /\ checks' = checks \ {t}
  /\ cooling' = cooling \cup {KeyOf(tasks[t])}
  /\ Goto(Market, IF o # 0 THEN "rcancel" ELSE "rename", "idle", t, o)
  /\ UNCHANGED <<memory, index, ids, held, triggers, asyncCancels, audit,
                 disk, exchange, counts>>

\* The old order is cancelled first; on an error the task is left alone.
ReplaceCancelOk ==
  /\ At(Market, "rcancel")
  /\ EndOrder(proc[Market].order)
  /\ proc' = [proc EXCEPT ![Market].at = "rename"]
  /\ UNCHANGED <<memory, index, ids, held, work, audit, disk, counts>>

ReplaceCancelIgnored ==   \* mutant: an error of the cancel is only logged
  /\ At(Market, "rcancel")
  /\ EndOrder(proc[Market].order) \/ UNCHANGED exchange
  /\ proc' = [proc EXCEPT ![Market].at = "rename"]
  /\ UNCHANGED <<memory, index, ids, held, work, audit, disk, counts>>

ReplaceCancelError ==
  /\ At(Market, "rcancel")
  /\ EndOrder(proc[Market].order) \/ UNCHANGED exchange
  /\ Done(Market)
  /\ UNCHANGED <<memory, index, ids, held, work, audit, disk, counts>>

\* A new client order id; placeTask follows.  The status is not read again.
Rename ==
  LET t == proc[Market].task IN
  /\ At(Market, "rename")
  /\ nCids' = nCids + 1
  /\ tasks' = [tasks EXCEPT ![t].cid = nCids + 1]
  /\ clientIndex' = Put(clientIndex, nCids + 1, t)
  /\ proc' = [proc EXCEPT ![Market].at = "place"]
  /\ UNCHANGED <<market, plans, orderIndex, nTasks, nPlans, held, work,
                 audit, disk, exchange, counts>>

\* The interval of ReplaceLimiter has passed.
CooldownEnds(key) ==
  /\ key \in cooling /\ cooling' = cooling \ {key}
  /\ UNCHANGED <<memory, index, ids, proc, held, checks, triggers,
                 asyncCancels, audit, disk, exchange, counts>>

Triggers(n) ==
  /\ plans[n].status = "ARMED"
  /\ ShouldTrigger(plans[n], market[plans[n].symbol].mark)

SkipTrigger(n) ==
  /\ At(Market, "idle") /\ checks = {} /\ n \in triggers
  /\ ~Triggers(n)
  /\ triggers' = triggers \ {n}
  /\ UNCHANGED <<memory, index, ids, proc, held, checks, asyncCancels,
                 cooling, audit, disk, exchange, counts>>

\* The section of triggerPlan: the plan, its entry, the cancel of the entry's
\* order and the exit task change together; the exit is placed after a save.
Trigger(n) ==
  LET plan == plans[n]
      e    == plan.entryTask
      stop == /\ e \in DOMAIN tasks /\ IsActive(tasks[e].status)
              /\ tasks[e].orderID # 0
      exit == [NewTask("EXIT", plan.symbol, plan.positionSide,
                       CloseSide(plan.positionSide), plan.protectedQty)
               EXCEPT !.plan = n]
      rest == IF stop THEN [tasks EXCEPT ![e].status = "CANCELED"] ELSE tasks
  IN /\ At(Market, "idle") /\ checks = {} /\ n \in triggers
     /\ Triggers(n)
     /\ triggers' = triggers \ {n}
     /\ plans' = [plans EXCEPT ![n].status = "TRIGGERED",
                               ![n].exitTask = nTasks + 1]
     /\ AddTask(rest, exit)
     /\ asyncCancels' = IF stop THEN asyncCancels \cup {tasks[e].orderID}
                        ELSE asyncCancels
     /\ Persist(Market, "place", nTasks + 1, 0)
     /\ UNCHANGED <<market, orderIndex, nPlans, held, checks, cooling, audit,
                    disk, exchange, counts>>

\* The goroutine triggerPlan spawned: one call, whose error is only logged.
AsyncCancel(o) ==
  /\ o \in asyncCancels
  /\ asyncCancels' = asyncCancels \ {o}
  /\ EndOrder(o) \/ UNCHANGED exchange
  /\ UNCHANGED <<memory, index, ids, proc, held, checks, triggers, cooling,
                 audit, disk, counts>>

-----------------------------------------------------------------------------
(* OnOrderUpdate, on the user stream goroutine                             *)

TaskOf(e) ==
  IF e.cid \in DOMAIN clientIndex THEN clientIndex[e.cid]
  ELSE IF e.order \in DOMAIN orderIndex THEN orderIndex[e.order]
  ELSE 0

\* Events carry the quantity the order has filled so far.
FilledSum(filled, e) == filled + e.filled   \* mutant: added up
FilledAfter(filled, e) == IF e.filled > filled THEN e.filled ELSE filled

StatusAfterGone(status, event) ==   \* mutant: an order that is gone is done
  IF event = "CANCELED" THEN "FILLED" ELSE event

StatusAfterNew(status, event) ==   \* mutant: an accepted order is chased
  IF event = "NEW" THEN "CHASING" ELSE event

\* The default branch of the status switch is the event NEW.
StatusAfter(status, event) ==
  IF event # "NEW" THEN event
  ELSE IF status \in {"PLACED", "PENDING"} THEN "CHASING"
  ELSE status

PlansArmedOf(t) ==   \* mutant: only an armed plan is found again
  {n \in DOMAIN plans : plans[n].entryTask = t /\ plans[n].status = "ARMED"}
PlansOfKey(t) ==   \* mutant: a plan is found by symbol and position side
  {n \in DOMAIN plans : KeyOf(plans[n]) = KeyOf(tasks[t])}
PlansOf(t) == {n \in DOMAIN plans : plans[n].entryTask = t}

\* ensurePlanLocked: the plan of the entry is created, or raised to the
\* filled quantity and armed, whatever its status was.
EnsurePlan(t, task) ==
  LET new  == [symbol |-> task.symbol, positionSide |-> task.positionSide,
               entryTask |-> t, exitTask |-> 0, protectedQty |-> task.filled,
               takeProfit |-> task.takeProfit, stopLoss |-> task.stopLoss,
               status |-> "ARMED"]
  IN \/ /\ PlansOf(t) = {}
        /\ plans' = Put(plans, nPlans + 1, new) /\ nPlans' = nPlans + 1
     \/ \E n \in PlansOf(t) :
          /\ plans' = [plans EXCEPT
               ![n].protectedQty = IF task.filled > @ THEN task.filled ELSE @,
               ![n].status = "ARMED"]
          /\ UNCHANGED nPlans

ClosePlan(n) ==
  plans' = [plans EXCEPT ![n].status = "CLOSED", ![n].protectedQty = 0]

\* An event that no index leads to a task is dropped.
IgnoreUpdate ==
  /\ At(User, "idle") /\ stream # <<>>
  /\ TaskOf(Head(stream)) \notin DOMAIN tasks
  /\ stream' = Tail(stream)
  /\ UNCHANGED <<memory, index, ids, proc, held, work, audit, disk, orders,
                 position, connected, counts>>

\* The task takes over the order of the event, be it the current one or not.
\* One save follows, and a second one when a plan was touched.
OnOrderUpdate ==
  LET e    == Head(stream)
      t    == TaskOf(e)
      old  == tasks[t]
      task == [old EXCEPT
                 !.orderID = e.order, !.cid = e.cid,
                 !.filled = FilledAfter(@, e),
                 !.status = StatusAfter(@, e.status)]
      arms   == task.kind = "ENTRY" /\ task.filled > 0
      closes == /\ task.kind = "EXIT" /\ task.status = "FILLED"
                /\ task.plan \in DOMAIN plans
  IN /\ At(User, "idle") /\ stream # <<>>
     /\ t \in DOMAIN tasks
     /\ stream' = Tail(stream)
     /\ tasks' = [tasks EXCEPT ![t] = task]
     /\ clientIndex' = Put(clientIndex, e.cid, t)
     /\ orderIndex' = Put(orderIndex, e.order, t)
     /\ \/ arms /\ EnsurePlan(t, task)
        \/ closes /\ ClosePlan(task.plan) /\ UNCHANGED nPlans
        \/ ~arms /\ ~closes /\ UNCHANGED <<plans, nPlans>>
     /\ Persist(User, IF MayCrash /\ (arms \/ closes) THEN "clone" ELSE "idle",
                0, 0)
     /\ UNCHANGED <<market, nTasks, nCids, held, work, audit, disk, orders,
                    position, connected, counts>>

-----------------------------------------------------------------------------
(* reconcile, on the ticker of Run                                         *)

Needing == {n \in DOMAIN plans : plans[n].status = "NEEDS_PROTECTION"}

StartRound ==
  /\ At(Reconcile, "idle") /\ Cardinality(Needing) < MaxNeeds
  /\ audit' = [audit EXCEPT !.left = Symbols]
  /\ Goto(Reconcile, "read", "idle", 0, 0)
  /\ UNCHANGED <<memory, index, ids, held, work, disk, exchange, counts>>

\* Positions answers with the amounts of one symbol.
ReadPositions(s) ==
  /\ At(Reconcile, "read") /\ s \in audit.left
  /\ audit' = [left |-> audit.left \ {s},
               seen |-> [k \in {s} \X PositionSides |-> position[k]]]
  /\ proc' = [proc EXCEPT ![Reconcile].at = "mark"]
  /\ UNCHANGED <<memory, index, ids, held, work, disk, exchange, counts>>

\* Positions fails: on to the next symbol.
ReadFails(s) ==
  /\ At(Reconcile, "read") /\ s \in audit.left
  /\ audit' = [audit EXCEPT !.left = @ \ {s}]
  /\ UNCHANGED <<memory, index, ids, proc, held, work, disk, exchange, counts>>

Protected(k) ==
  LET armed == {n \in DOMAIN plans :
                  KeyOf(plans[n]) = k /\ plans[n].status = "ARMED"}
  IN MapThenSumSet(LAMBDA n : plans[n].protectedQty, armed)

MissingAll(k) ==   \* mutant: reported only when nothing is protected
  {q \in 1..audit.seen[k] : Protected(k) = 0 /\ q = audit.seen[k]}

\* What is missing at a key, as read before: one amount, or none.
Missing(k) == {q \in 1..audit.seen[k] : Protected(k) + q = audit.seen[k]}

\* markNeedsProtection: every key with an amount missing gets one more plan,
\* which asks for protection and has no lines to trigger at.
MarkNeeds ==
  LET gaps == {k \in DOMAIN audit.seen : Missing(k) # {}}
      fresh == (nPlans + 1)..(nPlans + Cardinality(gaps))
      Needs(k) == [symbol |-> k[1], positionSide |-> k[2], entryTask |-> 0,
                   exitTask |-> 0,
                   protectedQty |-> CHOOSE q \in Missing(k) : TRUE,
                   takeProfit |-> 0, stopLoss |-> 0,
                   status |-> "NEEDS_PROTECTION"]
  IN /\ At(Reconcile, "mark")
     /\ \E keyOf \in Bijection(fresh, gaps) :
          plans' = [n \in DOMAIN plans \cup fresh |->
                      IF n \in fresh THEN Needs(keyOf[n]) ELSE plans[n]]
     /\ nPlans' = nPlans + Cardinality(gaps)
     /\ audit' = [audit EXCEPT !.seen = Empty]
     /\ proc' = [proc EXCEPT ![Reconcile].at = "read"]
     /\ UNCHANGED <<market, tasks, index, nTasks, nCids, held, work, disk,
                    exchange, counts>>

EndRound ==
  /\ At(Reconcile, "read") /\ audit.left = {}
  /\ Persist(Reconcile, "idle", 0, 0)
  /\ UNCHANGED <<memory, index, ids, held, work, audit, disk, exchange,
                 counts>>

-----------------------------------------------------------------------------
(* A crash and the next New: what is left is the snapshot, the exchange    *)
(* and the indexes rebuilt from the ids each task carries.                 *)

LastTask(ts, field, id) ==   \* mutant: every id leads to the last task
  CHOOSE t \in DOMAIN ts : \A u \in DOMAIN ts : u <= t
TaskWith(ts, field, id) == CHOOSE t \in DOMAIN ts : ts[t][field] = id
IdsWithZero(ts, field) == {ts[t][field] : t \in DOMAIN ts}   \* mutant: no check
IdsIn(ts, field) == {ts[t][field] : t \in DOMAIN ts} \ {0}
RebuildIndex(ts, field) == [id \in IdsIn(ts, field) |-> TaskWith(ts, field, id)]

Crash ==
  /\ crashes < MaxCrashes /\ crashes' = crashes + 1
  /\ market' = disk.market /\ tasks' = disk.tasks /\ plans' = disk.plans
  /\ clientIndex' = RebuildIndex(disk.tasks, "cid")
  /\ orderIndex' = RebuildIndex(disk.tasks, "orderID")
  /\ proc' = [p \in Procs |-> Idle]
  /\ held' = [p \in Procs |-> NoSnapshot]
  /\ checks' = {} /\ triggers' = {} /\ asyncCancels' = {} /\ cooling' = {}
  /\ audit' = [left |-> {}, seen |-> Empty]
  /\ stream' = <<>> /\ connected' = FALSE
  /\ UNCHANGED <<ids, disk, orders, position, cancels, expiries, drops>>

-----------------------------------------------------------------------------
(* The whole                                                               *)

Storage == \E p \in Procs : Clone(p) \/ Save(p)

PlaceTask ==
  \E p \in Procs : \/ PlaceStart(p)
                   \/ PlaceAccepted(p)
                   \/ PlaceRejected(p)
                   \/ PlaceDone(p)
                   \/ PlaceFailed(p)

Control ==
  \E h \in Handlers :
    \/ \E req \in Requests : Submit(h, req)
    \/ \E t \in DOMAIN tasks : CancelTask(h, t)
    \/ CancelOk(h)
    \/ CancelError(h)

MarketStream ==
  \/ \E k \in Ticks : OnMarket(k)
  \/ \E t \in DOMAIN tasks : SkipReplace(t) \/ StartReplace(t)
  \/ ReplaceCancelOk
  \/ ReplaceCancelError
  \/ Rename
  \/ \E n \in DOMAIN plans : SkipTrigger(n) \/ Trigger(n)
  \/ \E o \in asyncCancels : AsyncCancel(o)
  \/ \E k \in cooling : CooldownEnds(k)

UserStream == IgnoreUpdate \/ OnOrderUpdate

Reconciler ==
  \/ StartRound
  \/ \E s \in Symbols : ReadPositions(s) \/ ReadFails(s)
  \/ MarkNeeds
  \/ EndRound

Trading ==
  \E o \in DOMAIN orders : Expire(o) \/ \E n \in 1..orders[o].qty : Fill(o, n)

\* All but the connection of the user stream and crashes.
Work ==
  \/ Storage
  \/ PlaceTask
  \/ Control
  \/ MarketStream
  \/ UserStream
  \/ Reconciler
  \/ Trading

Next ==
  \/ Work
  \/ Disconnect
  \/ Reconnect
  \/ Crash

Spec == Init /\ [][Next]_vars

\* What a goroutine is in the middle of, it goes on with.
Running(p) ==
  \/ Clone(p) \/ Save(p)
  \/ PlaceStart(p) \/ PlaceAccepted(p) \/ PlaceRejected(p)
  \/ PlaceDone(p) \/ PlaceFailed(p)

MarketWork ==
  \/ Running(Market)
  \/ \E t \in checks : SkipReplace(t) \/ StartReplace(t)
  \/ ReplaceCancelOk \/ ReplaceCancelError \/ Rename
  \/ \E n \in triggers : SkipTrigger(n) \/ Trigger(n)

ReconcileWork == Running(Reconcile) \/ StartRound \/ MarkNeeds \/ EndRound

\* The Go scheduler runs every goroutine, the REST client has a timeout, the
\* token bucket refills and the market stream keeps sending for every symbol.
\* Clients, fills, expiries, losses and crashes are not fair.
TradeFairness ==
  /\ \A h \in Handlers : WF_vars(Running(h) \/ CancelOk(h) \/ CancelError(h))
  /\ WF_vars(MarketWork)
  /\ WF_vars(Running(User) \/ UserStream)
  /\ \A s \in Symbols : SF_vars(\E k \in Ticks : k.symbol = s /\ OnMarket(k))

\* The reconcile ticker ticks, and one of its calls of Positions gets through
\* in the end.
WorkFairness ==
  /\ TradeFairness
  /\ WF_vars(ReconcileWork)
  /\ \A s \in Symbols : SF_vars(ReadPositions(s))

\* runUser reconnects for ever.
Fairness == WorkFairness /\ WF_vars(Reconnect)

FairSpec == Spec /\ Fairness

\* Neither reconcile nor a new connection comes to anybody's help.
TradeSpec == Spec /\ TradeFairness

-----------------------------------------------------------------------------
(* Types *)

\* A snapshot only speaks of ids that were given out: nt tasks, np plans, nc
\* client order ids and no orders.
SnapshotOf(s, nt, np, nc, no) ==
  /\ s = [market |-> s.market, tasks |-> s.tasks, plans |-> s.plans]
  /\ s.market \in [Symbols -> Quote]
  /\ s.tasks \in [DOMAIN s.tasks -> Task] /\ DOMAIN s.tasks \subseteq 1..nt
  /\ s.plans \in [DOMAIN s.plans -> Plan] /\ DOMAIN s.plans \subseteq 1..np
  /\ \A t \in DOMAIN s.tasks : /\ s.tasks[t].cid \in 1..nc
                              /\ s.tasks[t].orderID \in 0..no

Snapshot(s) == SnapshotOf(s, nTasks, nPlans, nCids, Len(orders))

ImagesOK ==
  /\ nTasks \in Nat /\ nPlans \in Nat /\ nCids \in Nat
  /\ Snapshot(Memory) /\ Snapshot(disk)
  /\ held = [p \in Procs |-> held[p]] /\ \A p \in Procs : Snapshot(held[p])

IndexOK ==
  /\ clientIndex \in [DOMAIN clientIndex -> DOMAIN tasks]
  /\ DOMAIN clientIndex \subseteq 1..nCids
  /\ orderIndex \in [DOMAIN orderIndex -> DOMAIN tasks]
  /\ DOMAIN orderIndex \subseteq 1..Len(orders)

\* Goroutine p in state r: on the way to or in placeTask it has a task, and
\* with a reply or a cancel an order; user stream and reconcile have neither.
StateOK(p, r, taskIds, orderIds) ==
  /\ r \in [at : Labels, then : {"idle", "place", "clone"}, task : Nat,
           order : Nat]
  /\ p \notin {User, Reconcile} /\ r.at \notin {"idle", "read", "mark"} =>
       r.task \in taskIds
  /\ p \in {User, Reconcile} =>
       r.at \in {"idle", "clone", "save", "read", "mark"} /\ r.then # "place"
  /\ r.at \in {"ack", "cancel", "rcancel"} => r.order \in orderIds

ProcOK ==
  /\ proc = [p \in Procs |-> proc[p]]
  /\ \A p \in Procs : StateOK(p, proc[p], DOMAIN tasks, 1..Len(orders))

WorkOK ==
  /\ checks \subseteq DOMAIN tasks /\ triggers \subseteq DOMAIN plans
  /\ asyncCancels \subseteq 1..Len(orders) /\ cooling \subseteq Keys
  /\ audit = [left |-> audit.left, seen |-> audit.seen]
  /\ audit.left \subseteq Symbols
  /\ audit.seen \in [DOMAIN audit.seen -> Nat]
  /\ DOMAIN audit.seen \subseteq Keys /\ IsFiniteSet(DOMAIN audit.seen)

ExchangeOK ==
  /\ orders \in Seq(Order) /\ position \in [Keys -> Nat]
  /\ \A o \in 1..Len(orders) : orders[o].cid \in 1..nCids
  /\ stream \in Seq(Event)
  /\ \A k \in 1..Len(stream) : /\ stream[k].cid \in 1..nCids
                             /\ stream[k].order \in 1..Len(orders)
  /\ connected \in BOOLEAN

CountsOK ==
  /\ cancels \in Nat /\ expiries \in Nat /\ drops \in Nat /\ crashes \in Nat

\* Type invariant: every id that is handed around, in memory, on disk, by the
\* goroutines and by the exchange, is one that was given out.
TypeOK == ImagesOK /\ IndexOK /\ ProcOK /\ WorkOK /\ ExchangeOK /\ CountsOK
=============================================================================
