--------------------------- MODULE ChaseProperties ---------------------------
(***************************************************************************)
(* What the daemon promises while goroutines, replies and events overlap,  *)
(* and what its documents say it promises and the code does not keep.      *)
(***************************************************************************)
EXTENDS ChaseService

-----------------------------------------------------------------------------
(* Vocabulary *)

OrdersOf(t) == {o \in DOMAIN orders : orders[o].task = t}
LiveOrdersOf(t) == {o \in OrdersOf(t) : orders[o].live}
TradedBy(t) == MapThenSumSet(LAMBDA o : orders[o].filled, OrdersOf(t))
ExitsOf(n) == {t \in DOMAIN tasks : tasks[t].kind = "EXIT" /\ tasks[t].plan = n}

\* The memory and the snapshots it may be replaced by: the one on disk and
\* those being written (NoSnapshot where a goroutine writes none).
Images == {Memory, disk} \cup {held[p] : p \in Procs}

-----------------------------------------------------------------------------
(* Safety *)

\* Every event finds its way home: an order of this run of the daemon is
\* indexed under the task that asked for it, through renames, lost replies
\* and events of orders long replaced; no index, cancel or order id of a task
\* ever points at the order of another task, after a restart either.
Attribution ==
  /\ \A o \in DOMAIN orders : orders[o].era = crashes =>
       /\ orders[o].cid \in DOMAIN clientIndex
       /\ clientIndex[orders[o].cid] = orders[o].task
  /\ \A o \in DOMAIN orderIndex : orders[o].task = orderIndex[o]
  /\ \A o \in DOMAIN orders : orders[o].cid \in DOMAIN clientIndex =>
       clientIndex[orders[o].cid] = orders[o].task
  /\ \A t \in DOMAIN tasks : tasks[t].orderID # 0 =>
       orders[tasks[t].orderID].task = t
  /\ \A p \in Procs : proc[p].at \in {"cancel", "rcancel"} =>
       orders[proc[p].order].task = proc[p].task

\* In memory and in every snapshot a restart may load, an entry has one plan
\* from its first reported fill on; an armed or triggered plan protects
\* exactly what its entry reports as filled, and a triggered plan has an exit
\* task of that quantity; a closed plan protects nothing, and one that asks
\* for protection has no entry (OnOrderUpdate, ensurePlanLocked, triggerPlan,
\* markNeedsProtection and the snapshots of persist).
Covered(ts, ps) ==
  \A t \in DOMAIN ts : ts[t].kind = "ENTRY" /\ ts[t].filled > 0 =>
    \E n \in DOMAIN ps : ps[n].entryTask = t

OnePlanEach(ps) ==
  \A m, n \in DOMAIN ps :
    ps[m].entryTask = ps[n].entryTask /\ ps[n].entryTask # 0 => m = n

PlanFits(ts, n, plan) ==
  /\ plan.status = "CLOSED" => plan.protectedQty = 0
  /\ plan.status = "NEEDS_PROTECTION" => plan.entryTask = 0
  /\ plan.status \in {"ARMED", "TRIGGERED"} =>
       /\ plan.entryTask \in DOMAIN ts
       /\ ts[plan.entryTask].kind = "ENTRY"
       /\ plan.protectedQty = ts[plan.entryTask].filled
  /\ plan.status = "TRIGGERED" =>
       /\ plan.exitTask \in DOMAIN ts
       /\ ts[plan.exitTask].kind = "EXIT" /\ ts[plan.exitTask].plan = n
       /\ ts[plan.exitTask].quantity = plan.protectedQty

PlansMatch(ts, ps) ==
  /\ Covered(ts, ps) /\ OnePlanEach(ps)
  /\ \A n \in DOMAIN ps : PlanFits(ts, n, ps[n])

PlanTracksEntry == \A i \in Images : PlansMatch(i.tasks, i.plans)

\* In memory and in every snapshot, an armed plan has the lines its entry was
\* admitted with, one on each side, for the symbol and position side of the
\* entry: neither the plan of an uncovered position, which has no lines, nor
\* the plan of another entry is armed by a late fill (SubmitEntry,
\* ensurePlanLocked, markNeedsProtection, persist and New).
LinesApart(x) ==
  /\ x.takeProfit > 0 /\ x.stopLoss > 0
  /\ x.positionSide = "LONG" => x.stopLoss < x.takeProfit
  /\ x.positionSide = "SHORT" => x.takeProfit < x.stopLoss

SameLines(a, b) ==
  /\ KeyOf(a) = KeyOf(b)
  /\ a.takeProfit = b.takeProfit /\ a.stopLoss = b.stopLoss

ArmedPlansHaveLines ==
  \A i \in Images : \A n \in DOMAIN i.plans : i.plans[n].status = "ARMED" =>
    /\ i.plans[n].entryTask \in DOMAIN i.tasks
    /\ SameLines(i.plans[n], i.tasks[i.plans[n].entryTask])
    /\ LinesApart(i.plans[n])

\* Nothing is protected or exited that was not bought: what a task reports
\* as filled, one order of it has traded.
FilledIsReal ==
  \A i \in Images : \A t \in DOMAIN i.tasks : i.tasks[t].filled > 0 =>
    \E o \in OrdersOf(t) : orders[o].filled >= i.tasks[t].filled

\* No exit is for more than was bought: what an exit task asks for, one order
\* of the entry of its plan has traded at that symbol and position side, in
\* memory and in every snapshot, although fills go on after the trigger and
\* the plan is armed again (triggerPlan, ensurePlanLocked, persist and New).
ExitsAreBacked ==
  \A i \in Images : \A t \in DOMAIN i.tasks : i.tasks[t].kind = "EXIT" =>
    /\ i.tasks[t].plan \in DOMAIN i.plans
    /\ LET e == i.plans[i.tasks[t].plan].entryTask
       IN /\ e \in DOMAIN i.tasks /\ KeyOf(i.tasks[e]) = KeyOf(i.tasks[t])
          /\ \E o \in OrdersOf(e) : orders[o].filled >= i.tasks[t].quantity

\* A task is FILLED only when its orders have traded all it asks for between
\* them, although each replacement asks for what remained by the events read
\* when it was sent, and events of the replaced order come after it (Rename,
\* PlaceAccepted, OnOrderUpdate).
FilledMeansTraded ==
  \A t \in DOMAIN tasks : tasks[t].status = "FILLED" =>
    TradedBy(t) >= tasks[t].quantity

\* A plan is CLOSED only when the orders of one exit of it have traded all that
\* exit asks for: neither the end of an order that was cancelled or replaced,
\* nor an event of the entry that comes after the trigger closes it
\* (OnOrderUpdate).
ClosedMeansTraded ==
  \A n \in DOMAIN plans : plans[n].status = "CLOSED" =>
    \E t \in ExitsOf(n) : TradedBy(t) >= tasks[t].quantity

\* An exit never has two live orders: it is placed and replaced by the market
\* goroutine alone, and an order id that an old event brings back cannot be
\* cancelled, so that nothing replaces it.  (Without a crash: see
\* RestartFindsOrders.)
ExitHasOneOrder ==
  \A t \in DOMAIN tasks : tasks[t].kind = "EXIT" =>
    Cardinality(LiveOrdersOf(t)) <= 1

-----------------------------------------------------------------------------
(* Steps *)

Ended == {"FILLED", "CANCELED", "FAILED"}

Placing(t) == \E p \in Procs : /\ proc[p].task = t
                               /\ proc[p].at # "cancel"
                               /\ ~(proc[p].at \in {"clone", "save"}
                                    /\ proc[p].then = "idle")

\* A task is settled when it has ended, no goroutine is placing or replacing
\* it, the exchange holds no order of it, and no partial fill of it is unread.
Settled(t) ==
  /\ t \in DOMAIN tasks /\ tasks[t].status \in Ended
  /\ ~Placing(t)
  /\ LiveOrdersOf(t) = {}
  /\ \A k \in DOMAIN stream : orders[stream[k].order].task = t =>
       stream[k].status # "PARTIALLY_FILLED"

\* A settled task is over, with the last events of its orders still unread,
\* cancels of it under way and its id still among those OnMarket collected: a
\* late NEW does not make it active again, no tick replaces it and no order
\* is sent for it (StatusAfter, maybeReplace).  What Settled excludes does
\* revive a task: see SingleActiveEntry and ChaseGoesOn.  (Without a crash,
\* which may bring back a task that had ended: a failure is not saved.)
SettledStays == [][\A t \in DOMAIN tasks : Settled(t) => Settled(t)']_vars

-----------------------------------------------------------------------------
(* Liveness, under FairSpec or, for the first two, TradeSpec *)

\* An exit never rests before it is sent: it is CHASING, ended or reported as
\* failed again and again, although every replacement by the market goroutine,
\* the only one to place it, makes it PLACED once more, waits for the budget
\* and may be refused or lose its reply (triggerPlan, maybeReplace, placeTask).
\* The first task is an entry.
ExitIsSentOrFails ==
  \A t \in 2..MaxTasks :
    LET Waiting == /\ t \in DOMAIN tasks /\ tasks[t].kind = "EXIT"
                   /\ tasks[t].status \in {"PENDING", "PLACED"}
    IN []<>~Waiting

\* A plan whose line the mark price has reached is triggered by a later message
\* of its symbol, or the price has come back: although checks, replacements
\* and placements keep the market goroutine, which OnMarket returns to last,
\* and the plan may be armed after the tick (OnMarket, triggerPlan).
Reached(plan, mark) ==
  IF plan.positionSide = "LONG"
  THEN mark >= plan.takeProfit \/ mark <= plan.stopLoss
  ELSE mark <= plan.takeProfit \/ mark >= plan.stopLoss

TriggerFires ==
  \A n \in 1..(MaxTasks - 1 + MaxNeeds) :
    LET Due == /\ n \in DOMAIN plans /\ plans[n].status = "ARMED"
               /\ Reached(plans[n], market[plans[n].symbol].mark)
               /\ nTasks < MaxTasks
    IN []<>~Due

\* A position the armed plans do not cover, because its fill is still on the
\* way or was lost with the user stream, is covered or reported in the end.
UncoveredIsReported ==
  \A k \in Keys :
    LET Uncovered == /\ position[k] > Protected(k)
                     /\ \A n \in Needing : KeyOf(plans[n]) # k
    IN Uncovered ~> ~Uncovered

\* Every control request is answered.
RequestsReturn == \A h \in Handlers : ~At(h, "idle") ~> At(h, "idle")

-----------------------------------------------------------------------------
(* What the documents promise and the code does not keep *)

\* README.md:13: only one entry of a symbol and position side is chasing.
\* hasActiveEntryLocked checks it when a task is created, but placeTask and
\* OnOrderUpdate make a task active again that had ended.
SingleActiveEntry ==
  \A t, u \in DOMAIN tasks :
    /\ tasks[t].kind = "ENTRY" /\ tasks[u].kind = "ENTRY"
    /\ KeyOf(tasks[t]) = KeyOf(tasks[u])
    /\ IsActive(tasks[t].status) /\ IsActive(tasks[u].status)
    => t = u

\* Requirements, line 837: a plan protects the cumulative quantity filled.
\* Once every event was read, an armed plan covers all its entry has bought.
ProtectsWhatTraded ==
  connected /\ stream = <<>> /\ drops = 0 =>
    \A n \in DOMAIN plans : plans[n].status = "ARMED" =>
      plans[n].protectedQty >= TradedBy(plans[n].entryTask)

\* Requirements, line 710: exits close only, their quantity is not more than
\* the position.
ExitsCloseOnly ==
  \A k \in Keys :
    LET exits == {o \in DOMAIN orders :
                    /\ orders[o].live /\ KeyOf(orders[o]) = k
                    /\ orders[o].side = CloseSide(k[2])}
    IN MapThenSumSet(LAMBDA o : orders[o].qty - orders[o].filled, exits)
         <= position[k]

\* Requirements, line 947: when the best price of its side moves, an order is
\* cancelled and placed again with what remains, and the chase goes on.  The
\* event of that cancel ends the task instead when OnOrderUpdate reads it
\* after placeTask has returned: a task that no client, no plan and not the
\* exchange has cancelled is CANCELED, with every event read, next to its
\* live order, which nothing will replace again.
ChaseGoesOn ==
  /\ connected /\ stream = <<>> /\ drops = 0
  /\ cancels = 0 /\ expiries = 0
  /\ \A n \in DOMAIN plans : plans[n].status # "TRIGGERED"
  => \A t \in DOMAIN tasks : tasks[t].status = "CANCELED" /\ ~Placing(t) =>
       LiveOrdersOf(t) = {}

\* Requirements, line 955: a restart reconciles the open orders of the
\* exchange: an order the daemon sent and then forgot is known again in the
\* end, or gone.
RestartFindsOrders ==
  \A o \in 1..MaxOrders :
    LET Orphan == /\ o \in DOMAIN orders /\ orders[o].live
                  /\ orders[o].cid \notin DOMAIN clientIndex
                  /\ o \notin DOMAIN orderIndex
    IN Orphan ~> ~Orphan
=============================================================================
