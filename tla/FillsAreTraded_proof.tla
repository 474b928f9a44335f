------------------------- MODULE FillsAreTraded_proof -------------------------
(***************************************************************************)
(* FilledMeansTraded and ClosedMeansTraded for every instance, crashes     *)
(* included.  A sum over the orders of a task is hard to carry through a   *)
(* step, and is not needed: an order asks for what one earlier order of    *)
(* the task had left, so that two orders together have traded the quantity *)
(* of a task that is FILLED.                                               *)
(***************************************************************************)
EXTENDS Attribution_proof, LibraryLemmas

\* One order of task t in os, or two, have traded quantity q.
Backed(os, t, q) ==
  \E a \in DOMAIN os :
    /\ os[a].task = t
    /\ \/ os[a].filled >= q
       \/ \E b \in DOMAIN os : /\ os[b].task = t /\ b # a
                               /\ os[a].filled + os[b].filled >= q

\* Order o of os asks for the whole quantity q, or for what one other order of
\* its task has left of it.
Asks(os, o, q) ==
  \/ os[o].qty >= q
  \/ \E b \in DOMAIN os : /\ os[b].task = os[o].task /\ b # o
                          /\ os[o].qty + os[b].filled >= q

Earned(ts, ps, os) ==
  /\ \A t \in DOMAIN ts : ts[t].status = "FILLED" => Backed(os, t, ts[t].quantity)
  /\ \A n \in DOMAIN ps : ps[n].status = "CLOSED" =>
       \E t \in DOMAIN ts : /\ ts[t].kind = "EXIT" /\ ts[t].plan = n
                            /\ Backed(os, t, ts[t].quantity)

\* The tasks ts of a snapshot are tasks of us, with the same quantity.
KnownTo(us, ts) ==
  \A t \in DOMAIN ts : t \in DOMAIN us /\ ts[t].quantity = us[t].quantity

ImagesEarned ==
  \A i \in Images : Earned(i.tasks, i.plans, orders) /\ KnownTo(tasks, i.tasks)

\* A crash may forget a task, but its id is never given out again.
OrdersAsk ==
  \A o \in DOMAIN orders :
    /\ orders[o].task \in 1..nTasks
    /\ orders[o].task \in DOMAIN tasks =>
         Asks(orders, o, tasks[orders[o].task].quantity)

NewsEarned ==
  \A k \in DOMAIN stream : stream[k].status = "FILLED" =>
    orders[stream[k].order].filled >= orders[stream[k].order].qty

AllEarned == ImagesEarned /\ OrdersAsk /\ NewsEarned

-----------------------------------------------------------------------------
(* Fills only grow *)

LEMMA BackedOn ==
  ASSUME TypeOK, OrdersKept, NEW t, NEW q \in Nat, Backed(orders, t, q)
  PROVE  Backed(orders', t, q)
<1>1. \A o \in DOMAIN orders : orders[o].filled \in Nat
  BY OrderFacts
<1>2. PICK a \in DOMAIN orders :
        /\ orders[a].task = t
        /\ \/ orders[a].filled >= q
           \/ \E b \in DOMAIN orders : /\ orders[b].task = t /\ b # a
                                       /\ orders[a].filled + orders[b].filled >= q
  BY DEF Backed
<1>3. CASE orders[a].filled >= q
  BY <1>1, <1>2, <1>3 DEF Backed, OrdersKept
<1>4. ASSUME NEW b \in DOMAIN orders, orders[b].task = t, b # a,
             orders[a].filled + orders[b].filled >= q
      PROVE  Backed(orders', t, q)
  <2>1. orders'[a].filled + orders'[b].filled >= q
    BY <1>1, <1>4 DEF OrdersKept
  <2>. QED
    BY <1>2, <1>4, <2>1 DEF Backed, OrdersKept
<1>. QED
  BY <1>2, <1>3, <1>4

LEMMA AsksOn ==
  ASSUME TypeOK, OrdersKept, NEW o \in DOMAIN orders, NEW q \in Nat,
         Asks(orders, o, q)
  PROVE  Asks(orders', o, q)
<1>1. \A b \in DOMAIN orders : orders[b].filled \in Nat /\ orders[b].qty \in Nat
  BY OrderFacts DEF Order
<1>2. CASE orders[o].qty >= q
  BY <1>2 DEF Asks, OrdersKept
<1>3. ASSUME NEW b \in DOMAIN orders, orders[b].task = orders[o].task, b # o,
             orders[o].qty + orders[b].filled >= q
      PROVE  Asks(orders', o, q)
  <2>1. orders'[o].qty + orders'[b].filled >= q
    BY <1>1, <1>3 DEF OrdersKept
  <2>. QED
    BY <1>3, <2>1 DEF Asks, OrdersKept
<1>. QED
  BY <1>2, <1>3 DEF Asks

LEMMA ImageQuantities ==
  ASSUME TypeOK
  PROVE  \A i \in Images : \A t \in DOMAIN i.tasks : i.tasks[t].quantity \in Nat
<1>1. \A i \in Images : i.tasks \in [DOMAIN i.tasks -> Task]
  BY DEF TypeOK, ImagesOK, Images, Snapshot, SnapshotOf
<1>. QED
  BY <1>1 DEF Task

LEMMA EarnedOn ==
  ASSUME TypeOK, OrdersKept, NEW i \in Images, Earned(i.tasks, i.plans, orders)
  PROVE  Earned(i.tasks, i.plans, orders')
<1>1. \A t \in DOMAIN i.tasks : i.tasks[t].quantity \in Nat
  BY ImageQuantities
<1>. QED
  BY <1>1, BackedOn DEF Earned

LEMMA MemoryIsEarned ==
  ASSUME AllEarned
  PROVE  Earned(tasks, plans, orders)
<1>1. Memory \in Images /\ Memory.tasks = tasks /\ Memory.plans = plans
  BY DEF Images, Memory
<1>. QED
  BY <1>1 DEF AllEarned, ImagesEarned

-----------------------------------------------------------------------------
(* What a step may do *)

SameTask(a, b) == a.kind = b.kind /\ a.plan = b.plan /\ a.quantity = b.quantity

ClosedBy(n, ts, os) ==
  \E t \in DOMAIN ts : /\ ts[t].kind = "EXIT" /\ ts[t].plan = n
                       /\ Backed(os, t, ts[t].quantity)

\* Tasks go on, a new one has a new id, and what is FILLED or CLOSED was so or
\* has become so rightly.
TasksTame ==
  /\ \A t \in DOMAIN tasks : t \in DOMAIN tasks' /\ SameTask(tasks[t], tasks'[t])
  /\ \A t \in DOMAIN tasks' : t \in DOMAIN tasks \/ t \notin 1..nTasks
  /\ \A t \in DOMAIN tasks' : tasks'[t].status = "FILLED" =>
       \/ t \in DOMAIN tasks /\ tasks[t].status = "FILLED"
       \/ Backed(orders', t, tasks'[t].quantity)

PlansTame ==
  \A n \in DOMAIN plans' : plans'[n].status = "CLOSED" =>
    \/ n \in DOMAIN plans /\ plans[n].status = "CLOSED"
    \/ ClosedBy(n, tasks', orders')

IdsTame == nTasks' \in Nat /\ nTasks <= nTasks'

ImagesTame == Images' \subseteq Images \cup {Memory', NoSnapshot}

OrdersTame ==
  \A o \in DOMAIN orders' : o \in DOMAIN orders
    \/ /\ orders'[o].task \in DOMAIN tasks
       /\ Asks(orders', o, tasks[orders'[o].task].quantity)

LEMMA NothingIsEarned ==
  ASSUME NEW us, NEW os
  PROVE  /\ Earned(NoSnapshot.tasks, NoSnapshot.plans, os)
         /\ KnownTo(us, NoSnapshot.tasks)
BY DEF NoSnapshot, Empty, Earned, KnownTo

LEMMA EarnedGoOn ==
  ASSUME TypeOK, AllEarned, OrdersKept, TasksTame, PlansTame
  PROVE  Earned(tasks', plans', orders')
<1>1. Earned(tasks, plans, orders) /\ \A t \in DOMAIN tasks : tasks[t].quantity \in Nat
  <2>1. \A t \in DOMAIN tasks : tasks[t] \in Task
    BY MemoryFacts
  <2>. QED
    BY <2>1, MemoryIsEarned DEF Task
<1>2. ASSUME NEW t \in DOMAIN tasks', tasks'[t].status = "FILLED"
      PROVE  Backed(orders', t, tasks'[t].quantity)
  BY <1>1, <1>2, BackedOn DEF TasksTame, SameTask, Earned
<1>3. ASSUME NEW n \in DOMAIN plans', plans'[n].status = "CLOSED"
      PROVE  ClosedBy(n, tasks', orders')
  <2>1. CASE n \in DOMAIN plans /\ plans[n].status = "CLOSED"
    <3>1. PICK t \in DOMAIN tasks : /\ tasks[t].kind = "EXIT" /\ tasks[t].plan = n
                                    /\ Backed(orders, t, tasks[t].quantity)
      BY <1>1, <2>1 DEF Earned
    <3>2. Backed(orders', t, tasks[t].quantity)
      BY <1>1, <3>1, BackedOn
    <3>. QED
      BY <3>1, <3>2 DEF ClosedBy, TasksTame, SameTask
  <2>. QED
    BY <1>3, <2>1 DEF PlansTame
<1>. QED
  BY <1>2, <1>3 DEF Earned, ClosedBy

LEMMA EarnedStep ==
  ASSUME TypeOK, AllEarned, OrdersKept, TasksTame, PlansTame, IdsTame, ImagesTame,
         OrdersTame, NewsEarned'
  PROVE  AllEarned'
<1>. /\ \A i \in Images : Earned(i.tasks, i.plans, orders) /\ KnownTo(tasks, i.tasks)
     /\ OrdersAsk
  BY DEF AllEarned, ImagesEarned
<1>1. Earned(tasks', plans', orders')
  BY EarnedGoOn
<1>2. ASSUME NEW i \in Images'
      PROVE  Earned(i.tasks, i.plans, orders') /\ KnownTo(tasks', i.tasks)
  <2>1. CASE i \in Images
    BY <2>1, EarnedOn DEF KnownTo, TasksTame, SameTask
  <2>2. CASE i = Memory'
    BY <1>1, <2>2 DEF Memory, KnownTo
  <2>3. CASE i = NoSnapshot
    BY <2>3, NothingIsEarned
  <2>. QED
    BY <2>1, <2>2, <2>3 DEF ImagesTame
<1>3. ASSUME NEW o \in DOMAIN orders'
      PROVE  /\ orders'[o].task \in 1..nTasks'
             /\ orders'[o].task \in DOMAIN tasks' =>
                  Asks(orders', o, tasks'[orders'[o].task].quantity)
  <2>0. /\ nTasks \in Nat /\ DOMAIN tasks \subseteq 1..nTasks
        /\ \A t \in DOMAIN tasks : tasks[t].quantity \in Nat
    <3>1. \A t \in DOMAIN tasks : tasks[t] \in Task
      BY MemoryFacts
    <3>. QED
      BY <3>1, MemoryFacts DEF Task
  <2>1. CASE o \in DOMAIN orders
    <3>1. orders'[o].task = orders[o].task /\ orders[o].task \in 1..nTasks
      BY <2>1 DEF OrdersAsk, OrdersKept
    <3>2. CASE orders[o].task \in DOMAIN tasks
      <4>1. Asks(orders', o, tasks[orders[o].task].quantity)
        BY <2>0, <2>1, <3>2, AsksOn DEF OrdersAsk
      <4>. QED
        BY <2>0, <3>1, <3>2, <4>1 DEF TasksTame, SameTask, IdsTame
    <3>3. CASE orders[o].task \notin DOMAIN tasks
      BY <2>0, <3>1, <3>3 DEF TasksTame, IdsTame
    <3>. QED
      BY <3>2, <3>3
  <2>2. CASE o \notin DOMAIN orders
    <3>1. /\ orders'[o].task \in DOMAIN tasks
          /\ Asks(orders', o, tasks[orders'[o].task].quantity)
      BY <2>2 DEF OrdersTame
    <3>. QED
      BY <2>0, <3>1 DEF TasksTame, SameTask, IdsTame
  <2>. QED
    BY <2>1, <2>2
<1>. QED
  BY <1>2, <1>3 DEF AllEarned, ImagesEarned, OrdersAsk

\* Most steps leave most of it alone.
LEMMA SavedStays ==
  ASSUME UNCHANGED <<disk, held>>
  PROVE  ImagesTame
BY DEF ImagesTame, Images

LEMMA SameIds == ASSUME TypeOK, UNCHANGED nTasks PROVE IdsTame
BY MemoryFacts DEF IdsTame

LEMMA SameTasks == ASSUME UNCHANGED tasks PROVE TasksTame
BY DEF TasksTame, SameTask

LEMMA SamePlans == ASSUME UNCHANGED plans PROVE PlansTame
BY DEF PlansTame

LEMMA NoNewOrder == ASSUME DOMAIN orders' = DOMAIN orders PROVE OrdersTame
BY DEF OrdersTame

LEMMA OneTaskTame ==
  ASSUME TypeOK, NEW t \in DOMAIN tasks, NEW task,
         tasks' = [tasks EXCEPT ![t] = task], SameTask(tasks[t], task),
         task.status = "FILLED" => \/ tasks[t].status = "FILLED"
                                   \/ Backed(orders', t, tasks[t].quantity)
  PROVE  TasksTame
<1>1. DOMAIN tasks' = DOMAIN tasks /\ tasks'[t] = task
      /\ \A u \in DOMAIN tasks : u # t => tasks'[u] = tasks[u]
  BY MemoryFacts
<1>. QED
  BY <1>1 DEF TasksTame, SameTask

-----------------------------------------------------------------------------
(* The exchange *)

LEMMA NewsOnEarned ==
  ASSUME TypeOK, NewsEarned, OrdersKept,
         \A k \in DOMAIN stream' :
           \/ \E j \in DOMAIN stream : stream'[k] = stream[j]
           \/ stream'[k].status # "FILLED"
           \/ orders'[stream'[k].order].filled >= orders'[stream'[k].order].qty
  PROVE  NewsEarned'
<1>1. \A j \in DOMAIN stream :
        /\ stream[j].order \in DOMAIN orders
        /\ orders[stream[j].order].filled \in Nat
        /\ orders[stream[j].order].qty \in Nat
  BY OrderFacts DEF Order
<1>2. \A j \in DOMAIN stream : stream[j].status = "FILLED" =>
        orders'[stream[j].order].filled >= orders'[stream[j].order].qty
  BY <1>1 DEF NewsEarned, OrdersKept
<1>. QED
  BY <1>2 DEF NewsEarned

LEMMA EmittedEarned ==
  ASSUME TypeOK, NewsEarned, OrdersKept, NEW e, Emit(e),
         \/ e.status # "FILLED"
         \/ orders'[e.order].filled >= orders'[e.order].qty
  PROVE  NewsEarned'
<1>1. stream \in Seq(Event) /\ DOMAIN stream = 1..Len(stream)
  BY DEF TypeOK, ExchangeOK
<1>2. CASE stream' = stream
  BY <1>2, NewsOnEarned
<1>3. CASE stream' = Append(stream, e)
  <2>1. ASSUME NEW k \in DOMAIN stream'
        PROVE  (\E j \in DOMAIN stream : stream'[k] = stream[j]) \/ stream'[k] = e
    BY <1>1, <1>3, <2>1
  <2>. QED
    BY <2>1, NewsOnEarned
<1>. QED
  BY <1>2, <1>3 DEF Emit

\* Steps of the exchange: no new order, and what there is goes on.
Trades == OrdersKept /\ DOMAIN orders' = DOMAIN orders /\ NewsEarned'

LEMMA EndOrderTrades ==
  ASSUME TypeOK, NewsFits, NewsEarned, NEW o, EndOrder(o)
  PROVE  Trades
<1>1. OrdersKept /\ DOMAIN orders' = DOMAIN orders
  BY EndOrderKeeps
<1>2. /\ Emit(EventOf(o, orders[o], "CANCELED"))
      /\ EventOf(o, orders[o], "CANCELED").status # "FILLED"
  BY DEF EndOrder, EventOf
<1>. QED
  BY <1>1, <1>2, EmittedEarned DEF Trades

LEMMA StayTrades ==
  ASSUME TypeOK, NewsEarned, UNCHANGED <<orders, stream>>
  PROVE  Trades
BY SameOrders, NewsOnEarned DEF Trades

LEMMA MaybeEndTrades ==
  ASSUME TypeOK, NewsFits, NewsEarned, NEW o, EndOrder(o) \/ UNCHANGED exchange
  PROVE  Trades
<1>1. CASE EndOrder(o)
  BY <1>1, EndOrderTrades
<1>2. CASE UNCHANGED exchange
  <2>1. UNCHANGED <<orders, stream>>
    BY <1>2 DEF exchange
  <2>. QED
    BY <2>1, StayTrades
<1>. QED
  BY <1>1, <1>2

\* An order that is FILLED has traded all it asked for.
LEMMA FillTrades ==
  ASSUME TypeOK, NewsFits, NewsEarned, NEW o \in DOMAIN orders,
         NEW n \in 1..orders[o].qty, Fill(o, n)
  PROVE  Trades
<1>. DEFINE ord    == orders[o]
            filled == ord.filled + n
            after  == [ord EXCEPT !.filled = filled, !.live = filled < ord.qty]
            status == IF after.live THEN "PARTIALLY_FILLED" ELSE "FILLED"
            e      == EventOf(o, after, status)
<1>1. OrdersKept /\ DOMAIN orders' = DOMAIN orders
  BY FillKeeps
<1>2. ord \in Order /\ ord.filled \in Nat /\ ord.qty \in Nat
  BY OrderFacts DEF Order
<1>3. /\ orders' = [orders EXCEPT ![o] = after] /\ Emit(e)
      /\ e.order = o /\ e.status = status
  BY DEF Fill, EventOf
<1>4. /\ after.filled = filled /\ after.qty = ord.qty
      /\ status = IF filled < ord.qty THEN "PARTIALLY_FILLED" ELSE "FILLED"
  BY <1>2 DEF Order
<1>5. orders'[o] = after
  BY <1>3
<1>6. status = "FILLED" => after.filled >= after.qty
  <2>1. filled \in Nat
    BY <1>2
  <2>. HIDE DEF after, filled, status
  <2>. QED
    BY <1>2, <1>4, <2>1
<1>. HIDE DEF e, status, after, filled, ord
<1>7. e.status # "FILLED" \/ orders'[e.order].filled >= orders'[e.order].qty
  BY <1>3, <1>5, <1>6
<1>. QED
  BY <1>1, <1>3, <1>7, EmittedEarned DEF Trades

\* A step that changes neither the plans nor a snapshot, nor hands out an id.
Kept == UNCHANGED <<plans, nTasks, disk, held>>

LEMMA TradeStep ==
  ASSUME TypeOK, AllEarned, Trades, TasksTame, Kept
  PROVE  AllEarned'
BY EarnedStep, SavedStays, SameIds, SamePlans, NoNewOrder DEF Trades, Kept

\* The order of a placement asks for what is left of its task: for all of it,
\* or, when the task reports a fill, for what an earlier order of it has left.
LEMMA AcceptAsks ==
  ASSUME TypeOK, AllTraced, NewsEarned, NEW t \in DOMAIN tasks, Accept(t)
  PROVE  OrdersKept /\ OrdersTame /\ NewsEarned'
<1>. PICK own \in [1..nCids -> Nat] : Traced(own)
  BY DEF AllTraced
<1>. DEFINE o == Len(orders) + 1
            q == tasks[t].quantity
            f == tasks[t].filled
<1>1. /\ OrdersKept /\ DOMAIN orders' = DOMAIN orders \cup {o}
      /\ orders'[o].task = t /\ orders'[o].qty = Remaining(tasks[t])
  <2>1. /\ OrdersKept /\ DOMAIN orders' = DOMAIN orders \cup {o}
        /\ orders'[o].task = t
    BY AcceptKeeps DEF Traced
  <2>2. orders \in Seq(Order) /\ Len(orders) \in Nat
    BY DEF TypeOK, ExchangeOK
  <2>3. \E ord : orders' = Append(orders, ord) /\ ord.qty = Remaining(tasks[t])
    BY DEF Accept
  <2>4. orders'[o].qty = Remaining(tasks[t])
    BY <2>2, <2>3
  <2>. QED
    BY <2>1, <2>4
<1>2. q \in Nat /\ f \in Nat /\ orders'[o].qty = IF f < q THEN q - f ELSE 0
  <2>1. tasks[t] \in Task
    BY MemoryFacts
  <2>. QED
    BY <1>1, <2>1 DEF Task, Remaining
<1>3. orders'[o].qty > 0
  <2>1. orders \in Seq(Order) /\ Len(orders) \in Nat
    BY DEF TypeOK, ExchangeOK
  <2>2. \E ord : orders' = Append(orders, ord) /\ ord.qty > 0
    BY DEF Accept
  <2>. QED
    BY <2>1, <2>2
<1>4. Asks(orders', o, q)
  <2>1. CASE f = 0
    BY <1>2, <1>3, <2>1 DEF Asks
  <2>2. CASE f > 0
    <3>1. PICK b \in DOMAIN orders : orders[b].task = t /\ orders[b].filled >= f
      BY <2>2, MemoryCarries DEF Traced, Carries
    <3>2. b # o /\ b \in DOMAIN orders' /\ orders'[b].task = t
          /\ orders'[b].filled \in Nat /\ orders'[b].filled >= f
      BY <1>1, <1>2, <3>1, OrderFacts DEF OrdersKept
    <3>3. orders'[o].qty + orders'[b].filled >= q
      BY <1>2, <1>3, <3>2
    <3>. QED
      BY <1>1, <3>2, <3>3 DEF Asks
  <2>. QED
    BY <1>2, <2>1, <2>2
<1>5. OrdersTame
  BY <1>1, <1>4 DEF OrdersTame
<1>6. NewsEarned'
  <2>1. \E e : Emit(e) /\ e.status = "NEW"
    BY DEF Accept, EventOf
  <2>. QED
    BY <1>1, <2>1, EmittedEarned
<1>. QED
  BY <1>1, <1>5, <1>6

-----------------------------------------------------------------------------
(* The actions *)

LEMMA StorageEarned ==
  ASSUME TypeOK, AllEarned, Storage
  PROVE  AllEarned'
<1>1. PICK p \in Procs : Clone(p) \/ Save(p)
  BY DEF Storage
<1>2. UNCHANGED <<tasks, plans, nTasks, orders, stream>>
  BY <1>1 DEF Clone, Save, memory, ids, exchange
<1>3. ImagesTame
  <2>. held = [q \in Procs |-> held[q]]
    BY DEF TypeOK, ImagesOK
  <2>1. CASE Clone(p)
    <3>1. held' = [held EXCEPT ![p] = Memory] /\ disk' = disk /\ Memory' = Memory
      BY <2>1 DEF Clone, memory, Memory
    <3>. QED
      BY <3>1 DEF ImagesTame, Images
  <2>2. CASE Save(p)
    <3>1. /\ held' = [held EXCEPT ![p] = NoSnapshot] /\ disk' \in {disk, held[p]}
          /\ Memory' = Memory
      BY <2>2 DEF Save, memory, Memory
    <3>. QED
      BY <3>1 DEF ImagesTame, Images
  <2>. QED
    BY <1>1, <2>1, <2>2
<1>. QED
  BY <1>2, <1>3, EarnedStep, StayTrades, SameIds, SameTasks, SamePlans, NoNewOrder
     DEF Trades, AllEarned

LEMMA PlaceEarned ==
  ASSUME TypeOK, AllTraced, AllEarned, PlaceTask
  PROVE  AllEarned'
<1>. PICK p \in Procs : \/ PlaceStart(p) \/ PlaceAccepted(p) \/ PlaceRejected(p)
                        \/ PlaceDone(p) \/ PlaceFailed(p)
  BY DEF PlaceTask
<1>. DEFINE t == proc[p].task
<1>0. p \in Procs /\ Kept
  BY DEF PlaceStart, PlaceAccepted, PlaceRejected, PlaceDone, PlaceFailed, Kept,
     memory, ids
<1>1. CASE PlaceAccepted(p)
  <2>1. t \in DOMAIN tasks
    BY <1>1, Worker DEF PlaceAccepted, At
  <2>2. OrdersKept /\ OrdersTame /\ NewsEarned' /\ tasks' = tasks
    BY <1>1, <2>1, AcceptAsks DEF PlaceAccepted, AllEarned, memory
  <2>. QED
    BY <1>0, <2>2, EarnedStep, SavedStays, SameIds, SameTasks, SamePlans DEF Kept
<1>2. CASE ~PlaceAccepted(p)
  <2>1. UNCHANGED <<orders, stream>>
    BY <1>2 DEF PlaceStart, PlaceRejected, PlaceDone, PlaceFailed, exchange
  <2>2. TasksTame
    <3>1. CASE PlaceRejected(p)
      BY <3>1, SameTasks DEF PlaceRejected, memory
    <3>2. CASE PlaceStart(p) \/ PlaceDone(p) \/ PlaceFailed(p)
      <4>1. t \in DOMAIN tasks
        BY <3>2, Worker DEF PlaceStart, PlaceDone, PlaceFailed, At
      <4>2. tasks[t] \in Task
        BY <4>1, MemoryFacts
      <4>3. \E task : /\ tasks' = [tasks EXCEPT ![t] = task]
                      /\ SameTask(tasks[t], task) /\ task.status # "FILLED"
        <5>1. CASE PlaceStart(p)
          <6>. DEFINE task == [tasks[t] EXCEPT !.status = "PLACED",
                 !.target = TargetPrice(market[tasks[t].symbol], tasks[t].side)]
          <6>1. tasks' = [tasks EXCEPT ![t] = task]
            BY <5>1 DEF PlaceStart
          <6>2. SameTask(tasks[t], task) /\ task.status # "FILLED"
            BY <4>2 DEF SameTask, Task
          <6>. QED
            BY <6>1, <6>2
        <5>2. CASE PlaceDone(p)
          <6>. DEFINE o == proc[p].order
                      task == [tasks[t] EXCEPT !.orderID = o, !.cid = orders[o].cid,
                                               !.status = "CHASING"]
          <6>1. tasks' = [tasks EXCEPT ![t] = task]
            BY <5>2 DEF PlaceDone
          <6>2. SameTask(tasks[t], task) /\ task.status # "FILLED"
            BY <4>2 DEF SameTask, Task
          <6>. QED
            BY <6>1, <6>2
        <5>3. CASE PlaceFailed(p)
          <6>. DEFINE task == [tasks[t] EXCEPT !.status = "FAILED"]
          <6>1. tasks' = [tasks EXCEPT ![t] = task]
            BY <5>3 DEF PlaceFailed
          <6>2. SameTask(tasks[t], task) /\ task.status # "FILLED"
            BY <4>2 DEF SameTask, Task
          <6>. QED
            BY <6>1, <6>2
        <5>. QED
          BY <3>2, <5>1, <5>2, <5>3
      <4>. QED
        BY <4>1, <4>3, OneTaskTame
    <3>. QED
      BY <1>2, <3>1, <3>2
  <2>. QED
    BY <1>0, <2>1, <2>2, StayTrades, TradeStep DEF AllEarned
<1>. QED
  BY <1>1, <1>2

\* A new task takes an id that no order was ever made for; ts are the tasks it
\* joins, of which one may have been cancelled.
LEMMA AddTaskTame ==
  ASSUME TypeOK, NEW ts, NEW task \in Task, AddTask(ts, task),
         task.status = "PENDING", DOMAIN ts = DOMAIN tasks,
         \A t \in DOMAIN tasks :
           /\ SameTask(tasks[t], ts[t])
           /\ ts[t].status = "FILLED" => tasks[t].status = "FILLED"
  PROVE  TasksTame /\ IdsTame
<1>. DEFINE new == [task EXCEPT !.cid = nCids + 1]
<1>1. /\ tasks' = Put(ts, nTasks + 1, new) /\ nTasks' = nTasks + 1
  BY DEF AddTask
<1>2. nTasks \in Nat /\ DOMAIN tasks \subseteq 1..nTasks
  BY MemoryFacts
<1>3. /\ DOMAIN tasks' = DOMAIN tasks \cup {nTasks + 1}
      /\ tasks'[nTasks + 1] = new /\ nTasks + 1 \notin 1..nTasks
      /\ \A t \in DOMAIN tasks : tasks'[t] = ts[t]
  BY <1>1, <1>2 DEF Put
<1>4. new.status # "FILLED"
  BY DEF Task
<1>. HIDE DEF new
<1>. QED
  BY <1>1, <1>2, <1>3, <1>4 DEF TasksTame, IdsTame

LEMMA NewsNow ==
  ASSUME AllTraced, AllEarned
  PROVE  NewsFits /\ NewsEarned
BY DEF AllTraced, Traced, AllEarned

LEMMA ControlEarned ==
  ASSUME TypeOK, AllTraced, AllEarned, Control
  PROVE  AllEarned'
<1>. PICK h \in Handlers : \/ \E req \in Requests : Submit(h, req)
                           \/ \E t \in DOMAIN tasks : CancelTask(h, t)
                           \/ CancelOk(h) \/ CancelError(h)
  BY DEF Control
<1>1. ASSUME NEW req \in Requests, Submit(h, req)
      PROVE  AllEarned'
  <2>. DEFINE task == [NewTask("ENTRY", req.symbol, req.positionSide, req.side, req.quantity)
                       EXCEPT !.takeProfit = req.takeProfit, !.stopLoss = req.stopLoss]
  <2>1. task \in Task /\ task.status = "PENDING"
    BY InputAssumption DEF Request, NewTask, Task, TaskKinds, TaskStatuses, ActiveStatuses
  <2>2. AddTask(tasks, task) /\ UNCHANGED <<plans, disk, held, orders, stream>>
    BY <1>1 DEF Submit, exchange
  <2>. HIDE DEF task
  <2>3. TasksTame /\ IdsTame
    BY <2>1, <2>2, AddTaskTame DEF SameTask
  <2>. QED
    BY <2>2, <2>3, EarnedStep, StayTrades, NewsNow, SavedStays, SamePlans, NoNewOrder
       DEF Trades
<1>2. ASSUME NEW t \in DOMAIN tasks, CancelTask(h, t)
      PROVE  AllEarned'
  <2>. DEFINE task == [tasks[t] EXCEPT !.status = "CANCELED"]
  <2>1. tasks[t] \in Task
    BY MemoryFacts
  <2>2. SameTask(tasks[t], task) /\ task.status # "FILLED"
    BY <2>1 DEF Task, SameTask
  <2>3. tasks' = [tasks EXCEPT ![t] = task] /\ Kept /\ UNCHANGED <<orders, stream>>
    BY <1>2 DEF CancelTask, Kept, ids, exchange
  <2>. HIDE DEF task
  <2>. QED
    BY <2>2, <2>3, OneTaskTame, StayTrades, NewsNow, TradeStep
<1>3. CASE CancelOk(h) \/ CancelError(h)
  <2>1. Kept /\ tasks' = tasks
    BY <1>3 DEF CancelOk, CancelError, Kept, memory, ids
  <2>2. Trades
    BY <1>3, NewsNow, MaybeEndTrades DEF CancelOk, CancelError
  <2>. QED
    BY <2>1, <2>2, SameTasks, TradeStep
<1>. QED
  BY <1>1, <1>2, <1>3

LEMMA TriggerEarned ==
  ASSUME TypeOK, AllTraced, AllEarned, NEW n \in DOMAIN plans, Trigger(n)
  PROVE  AllEarned'
<1>. DEFINE plan == plans[n]
            e    == plan.entryTask
            stop == /\ e \in DOMAIN tasks /\ IsActive(tasks[e].status)
                    /\ tasks[e].orderID # 0
            exit == [NewTask("EXIT", plan.symbol, plan.positionSide,
                             CloseSide(plan.positionSide), plan.protectedQty)
                     EXCEPT !.plan = n]
            rest == IF stop THEN [tasks EXCEPT ![e].status = "CANCELED"] ELSE tasks
<1>1. plan \in Plan /\ n \in Nat
  BY MemoryFacts
<1>2. exit \in Task /\ exit.status = "PENDING"
  BY <1>1 DEF Plan, NewTask, Task, TaskKinds, TaskStatuses, ActiveStatuses,
              CloseSide, Sides
<1>3. /\ DOMAIN rest = DOMAIN tasks
      /\ \A t \in DOMAIN tasks :
           /\ SameTask(tasks[t], rest[t])
           /\ rest[t].status = "FILLED" => tasks[t].status = "FILLED"
  <2>1. CASE stop
    <3>1. tasks[e] \in Task
      BY <2>1, MemoryFacts
    <3>2. rest = [tasks EXCEPT ![e] = [tasks[e] EXCEPT !.status = "CANCELED"]]
      BY <2>1
    <3>. QED
      BY <2>1, <3>1, <3>2, MemoryFacts DEF Task, SameTask
  <2>2. CASE ~stop
    BY <2>2 DEF SameTask
  <2>. QED
    BY <2>1, <2>2
<1>4. /\ AddTask(rest, exit) /\ UNCHANGED <<disk, held, orders, stream>>
      /\ plans' = [plans EXCEPT ![n].status = "TRIGGERED", ![n].exitTask = nTasks + 1]
  BY DEF Trigger, exchange
<1>. HIDE DEF exit, rest
<1>5. TasksTame /\ IdsTame
  BY <1>2, <1>3, <1>4, AddTaskTame
<1>6. PlansTame
  <2>1. /\ DOMAIN plans' = DOMAIN plans /\ plans'[n].status = "TRIGGERED"
        /\ \A m \in DOMAIN plans : m # n => plans'[m] = plans[m]
    BY <1>1, <1>4, MemoryFacts DEF Plan
  <2>. QED
    BY <2>1 DEF PlansTame
<1>. QED
  BY <1>4, <1>5, <1>6, EarnedStep, StayTrades, NewsNow, SavedStays, NoNewOrder
     DEF Trades

LEMMA MarketEarned ==
  ASSUME TypeOK, AllTraced, AllEarned, MarketStream
  PROVE  AllEarned'
<1>1. CASE Rename
  <2>. DEFINE t == proc[Market].task
              task == [tasks[t] EXCEPT !.cid = nCids + 1]
  <2>1. t \in DOMAIN tasks /\ tasks[t] \in Task
    BY <1>1, Worker, MemoryFacts DEF Rename, At, Procs, Market
  <2>2. SameTask(tasks[t], task) /\ task.status = tasks[t].status
    BY <2>1 DEF Task, SameTask
  <2>3. tasks' = [tasks EXCEPT ![t] = task] /\ Kept /\ UNCHANGED <<orders, stream>>
    BY <1>1 DEF Rename, Kept, exchange
  <2>. HIDE DEF task
  <2>. QED
    BY <2>1, <2>2, <2>3, OneTaskTame, StayTrades, NewsNow, TradeStep
<1>2. ASSUME NEW n \in DOMAIN plans, Trigger(n)
      PROVE  AllEarned'
  BY <1>2, TriggerEarned
<1>3. CASE \/ \E k \in Ticks : OnMarket(k)
           \/ \E t \in DOMAIN tasks : SkipReplace(t) \/ StartReplace(t)
           \/ ReplaceCancelOk \/ ReplaceCancelError
           \/ \E n \in DOMAIN plans : SkipTrigger(n)
           \/ \E o \in asyncCancels : AsyncCancel(o)
           \/ \E k \in cooling : CooldownEnds(k)
  <2>1. Kept /\ tasks' = tasks
    BY <1>3 DEF OnMarket, SkipReplace, StartReplace, ReplaceCancelOk, Kept, ids,
       ReplaceCancelError, SkipTrigger, AsyncCancel, CooldownEnds, memory
  <2>2. Trades
    <3>1. CASE \/ \E k \in Ticks : OnMarket(k)
               \/ \E t \in DOMAIN tasks : SkipReplace(t) \/ StartReplace(t)
               \/ \E n \in DOMAIN plans : SkipTrigger(n)
               \/ \E k \in cooling : CooldownEnds(k)
      <4>1. UNCHANGED <<orders, stream>>
        BY <3>1 DEF OnMarket, SkipReplace, StartReplace, SkipTrigger, CooldownEnds,
           exchange
      <4>. QED
        BY <4>1, NewsNow, StayTrades
    <3>2. CASE \/ ReplaceCancelOk \/ ReplaceCancelError
               \/ \E o \in asyncCancels : AsyncCancel(o)
      BY <3>2, NewsNow, MaybeEndTrades DEF ReplaceCancelOk, ReplaceCancelError,
         AsyncCancel
    <3>. QED
      BY <1>3, <3>1, <3>2
  <2>. QED
    BY <2>1, <2>2, SameTasks, TradeStep
<1>. QED
  BY <1>1, <1>2, <1>3 DEF MarketStream

\* An event that reports an order as FILLED is news of all that the order
\* asked for, so that the orders of its task have traded the whole quantity.
LEMMA EventEarned ==
  ASSUME TypeOK, AllTraced, AllEarned, stream # <<>>,
         TaskOf(Head(stream)) \in DOMAIN tasks, Head(stream).status = "FILLED"
  PROVE  LET t == TaskOf(Head(stream)) IN Backed(orders, t, tasks[t].quantity)
<1>. PICK own \in [1..nCids -> Nat] : Traced(own)
  BY DEF AllTraced
<1>. DEFINE e == Head(stream)
            o == e.order
            t == TaskOf(e)
            q == tasks[t].quantity
<1>1. /\ 1 \in DOMAIN stream /\ e = stream[1]
  <2>1. stream \in Seq(Event)
    BY DEF TypeOK, ExchangeOK
  <2>. QED
    BY <2>1
<1>2. /\ o \in DOMAIN orders /\ Fits(e, orders)
      /\ orders[o].filled >= orders[o].qty
  BY <1>1, OrderFacts DEF Traced, NewsFits, AllEarned, NewsEarned
<1>3. orders[o].task = t
  BY <1>2, EventFindsTask
<1>4. Asks(orders, o, q)
  BY <1>2, <1>3 DEF AllEarned, OrdersAsk
<1>5. /\ \A b \in DOMAIN orders : orders[b].filled \in Nat /\ orders[b].qty \in Nat
      /\ q \in Nat
  <2>1. tasks[t] \in Task
    BY MemoryFacts
  <2>. QED
    BY <2>1, OrderFacts DEF Order, Task
<1>. HIDE DEF e, o, t, q
<1>6. CASE orders[o].qty >= q
  <2>1. orders[o].filled >= q
    BY <1>2, <1>5, <1>6
  <2>. QED
    BY <1>2, <1>3, <2>1 DEF Backed, t, e, q
<1>7. ASSUME NEW b \in DOMAIN orders, orders[b].task = orders[o].task, b # o,
             orders[o].qty + orders[b].filled >= q
      PROVE  Backed(orders, t, q)
  <2>1. orders[o].filled + orders[b].filled >= q
    BY <1>2, <1>5, <1>7
  <2>. QED
    BY <1>2, <1>3, <1>7, <2>1 DEF Backed
<1>. QED
  BY <1>4, <1>6, <1>7 DEF Asks, t, e, q

LEMMA EnsureTame ==
  ASSUME TypeOK, NEW t, NEW task, EnsurePlan(t, task)
  PROVE  PlansTame
<1>. plans \in [DOMAIN plans -> Plan]
  BY MemoryFacts
<1>1. CASE \E new : plans' = Put(plans, nPlans + 1, new) /\ new.status = "ARMED"
  BY <1>1 DEF Put, PlansTame
<1>2. ASSUME NEW n \in PlansOf(t), NEW qty,
             plans' = [plans EXCEPT ![n].protectedQty = qty, ![n].status = "ARMED"]
      PROVE  PlansTame
  <2>. DEFINE plan == [plans[n] EXCEPT !.protectedQty = qty, !.status = "ARMED"]
  <2>1. n \in DOMAIN plans
    BY DEF PlansOf
  <2>2. plan.status = "ARMED"
    BY <2>1 DEF Plan
  <2>3. plans' = [plans EXCEPT ![n] = plan]
    BY <1>2, <2>1
  <2>. HIDE DEF plan
  <2>4. /\ DOMAIN plans' = DOMAIN plans /\ plans'[n] = plan
        /\ \A m \in DOMAIN plans : m # n => plans'[m] = plans[m]
    BY <2>1, <2>3
  <2>. QED
    BY <2>2, <2>4 DEF PlansTame
<1>3. \/ \E new : plans' = Put(plans, nPlans + 1, new) /\ new.status = "ARMED"
      \/ \E n \in PlansOf(t) : \E qty :
           plans' = [plans EXCEPT ![n].protectedQty = qty, ![n].status = "ARMED"]
  <2>. DEFINE new == [symbol |-> task.symbol, positionSide |-> task.positionSide,
                      entryTask |-> t, exitTask |-> 0, protectedQty |-> task.filled,
                      takeProfit |-> task.takeProfit, stopLoss |-> task.stopLoss,
                      status |-> "ARMED"]
  <2>1. new.status = "ARMED"
    OBVIOUS
  <2>2. CASE plans' = Put(plans, nPlans + 1, new)
    <3>. HIDE DEF new
    <3>. QED
      BY <2>1, <2>2
  <2>3. CASE \E n \in PlansOf(t) :
               plans' = [plans EXCEPT
                 ![n].protectedQty = IF task.filled > @ THEN task.filled ELSE @,
                 ![n].status = "ARMED"]
    <3>1. PICK n \in PlansOf(t) :
               plans' = [plans EXCEPT
                 ![n].protectedQty = IF task.filled > @ THEN task.filled ELSE @,
                 ![n].status = "ARMED"]
      BY <2>3
    <3>. DEFINE old == plans[n].protectedQty
                qty == IF task.filled > old THEN task.filled ELSE old
    <3>2. plans' = [plans EXCEPT ![n].protectedQty = qty, ![n].status = "ARMED"]
      BY <3>1
    <3>. HIDE DEF qty
    <3>. QED
      BY <3>2
  <2>. QED
    BY <2>2, <2>3 DEF EnsurePlan
<1>. QED
  BY <1>1, <1>2, <1>3

\* OnOrderUpdate: a task becomes FILLED with the event that reports the last
\* fill of an order, and with an exit the plan is closed in the same step.
LEMMA UpdateEarned ==
  ASSUME TypeOK, AllTraced, AllEarned, OnOrderUpdate
  PROVE  AllEarned'
<1>. DEFINE e    == Head(stream)
            t    == TaskOf(e)
            old  == tasks[t]
            task == [old EXCEPT !.orderID = e.order, !.cid = e.cid,
                                !.filled = FilledAfter(@, e),
                                !.status = StatusAfter(@, e.status)]
            arms   == task.kind = "ENTRY" /\ task.filled > 0
            closes == /\ task.kind = "EXIT" /\ task.status = "FILLED"
                      /\ task.plan \in DOMAIN plans
<1>1. /\ t \in DOMAIN tasks /\ tasks' = [tasks EXCEPT ![t] = task]
      /\ stream # <<>> /\ stream' = Tail(stream)
      /\ UNCHANGED <<nTasks, disk, held, orders>>
      /\ \/ EnsurePlan(t, task)
         \/ closes /\ ClosePlan(task.plan)
         \/ UNCHANGED plans
  BY DEF OnOrderUpdate
<1>2. old \in Task /\ old.quantity \in Nat
  <2>1. old \in Task
    BY <1>1, MemoryFacts
  <2>. QED
    BY <2>1 DEF Task
<1>3. /\ SameTask(old, task)
      /\ task.status = StatusAfter(old.status, e.status)
  BY <1>2 DEF Task, SameTask
<1>4. task.status = "FILLED" => old.status = "FILLED" \/ e.status = "FILLED"
  BY <1>3 DEF StatusAfter
<1>5. task.status = "FILLED" => Backed(orders, t, old.quantity)
  <2>1. CASE e.status = "FILLED"
    BY <1>1, <2>1, EventEarned
  <2>2. CASE old.status = "FILLED"
    BY <1>1, <2>2, MemoryIsEarned DEF Earned
  <2>. QED
    BY <1>4, <2>1, <2>2
<1>6. Trades
  <2>1. stream \in Seq(Event) /\ DOMAIN stream = 1..Len(stream) /\ Len(stream) \in Nat
    BY DEF TypeOK, ExchangeOK
  <2>2. \A k \in DOMAIN stream' : k + 1 \in DOMAIN stream /\ stream'[k] = stream[k + 1]
    BY <1>1, <2>1
  <2>3. OrdersKept
    BY <1>1, SameOrders
  <2>. QED
    BY <1>1, <2>2, <2>3, NewsNow, NewsOnEarned DEF Trades
<1>7. TasksTame
  <2>. HIDE DEF task, e, t
  <2>. QED
    BY <1>1, <1>3, <1>5, OneTaskTame
<1>8. PlansTame
  <2>1. CASE EnsurePlan(t, task)
    <3>. HIDE DEF task, t
    <3>. QED
      BY <2>1, EnsureTame
  <2>2. CASE closes /\ ClosePlan(task.plan)
    <3>. DEFINE n == task.plan
    <3>1. /\ DOMAIN plans' = DOMAIN plans
          /\ \A m \in DOMAIN plans : m # n => plans'[m] = plans[m]
      BY <2>2 DEF ClosePlan
    <3>2. /\ t \in DOMAIN tasks' /\ tasks'[t] = task
          /\ task.kind = "EXIT" /\ task.plan = n
          /\ Backed(orders', t, task.quantity)
      <4>1. tasks'[t] = task /\ t \in DOMAIN tasks'
        BY <1>1
      <4>2. task.quantity = old.quantity /\ Backed(orders, t, old.quantity)
        BY <1>3, <1>5, <2>2 DEF SameTask
      <4>. HIDE DEF task, t, e
      <4>. QED
        BY <1>1, <2>2, <4>1, <4>2
    <3>3. ClosedBy(n, tasks', orders')
      <4>. HIDE DEF n, t, task
      <4>. QED
        BY <3>2 DEF ClosedBy
    <3>. HIDE DEF n
    <3>. QED
      BY <3>1, <3>3 DEF PlansTame
  <2>3. CASE UNCHANGED plans
    BY <2>3, SamePlans
  <2>. QED
    BY <1>1, <2>1, <2>2, <2>3
<1>. QED
  BY <1>1, <1>6, <1>7, <1>8, EarnedStep, SavedStays, SameIds, NoNewOrder DEF Trades

LEMMA UserEarned ==
  ASSUME TypeOK, AllTraced, AllEarned, UserStream
  PROVE  AllEarned'
<1>1. CASE IgnoreUpdate
  <2>1. stream # <<>> /\ stream' = Tail(stream) /\ UNCHANGED <<tasks, orders>> /\ Kept
    BY <1>1 DEF IgnoreUpdate, memory, ids, Kept
  <2>2. stream \in Seq(Event) /\ DOMAIN stream = 1..Len(stream) /\ Len(stream) \in Nat
    BY DEF TypeOK, ExchangeOK
  <2>3. \A k \in DOMAIN stream' : k + 1 \in DOMAIN stream /\ stream'[k] = stream[k + 1]
    BY <2>1, <2>2
  <2>4. Trades
    BY <2>1, <2>3, SameOrders, NewsNow, NewsOnEarned DEF Trades
  <2>. QED
    BY <2>1, <2>4, SameTasks, TradeStep
<1>. QED
  BY <1>1, UpdateEarned DEF UserStream

LEMMA ReconcilerEarned ==
  ASSUME TypeOK, AllTraced, AllEarned, Reconciler
  PROVE  AllEarned'
<1>1. UNCHANGED <<tasks, nTasks, disk, held, orders, stream>>
  BY DEF Reconciler, StartRound, ReadPositions, ReadFails, MarkNeeds, EndRound,
     memory, ids, exchange
<1>2. PlansTame
  <2>1. CASE MarkNeeds
    <3>. DEFINE gaps  == {k \in DOMAIN audit.seen : Missing(k) # {}}
                fresh == (nPlans + 1)..(nPlans + Cardinality(gaps))
    <3>1. \A n \in DOMAIN plans' :
            \/ plans'[n].status = "NEEDS_PROTECTION"
            \/ n \in DOMAIN plans /\ plans'[n] = plans[n]
      BY <2>1 DEF MarkNeeds
    <3>. QED
      BY <3>1 DEF PlansTame
  <2>2. CASE ~MarkNeeds
    BY <2>2, SamePlans DEF Reconciler, StartRound, ReadPositions, ReadFails, EndRound,
       memory
  <2>. QED
    BY <2>1, <2>2
<1>. QED
  BY <1>1, <1>2, EarnedStep, StayTrades, NewsNow, SavedStays, SameIds, SameTasks,
     NoNewOrder DEF Trades

LEMMA TradingEarned ==
  ASSUME TypeOK, AllTraced, AllEarned, Trading \/ Disconnect \/ Reconnect
  PROVE  AllEarned'
<1>1. Kept /\ tasks' = tasks
  BY DEF Trading, Fill, Expire, Disconnect, Reconnect, memory, ids, Kept
<1>2. ASSUME NEW o \in DOMAIN orders, NEW n \in 1..orders[o].qty, Fill(o, n)
      PROVE  Trades
  BY <1>2, FillTrades, NewsNow
<1>3. ASSUME NEW o, Expire(o)
      PROVE  Trades
  BY <1>3, EndOrderTrades, NewsNow DEF Expire
<1>4. ASSUME Disconnect
      PROVE  Trades
  <2>1. PICK n \in 0..Len(stream) : stream' = SubSeq(stream, 1, n)
    BY <1>4 DEF Disconnect
  <2>2. stream \in Seq(Event) /\ orders' = orders
    BY <1>4 DEF TypeOK, ExchangeOK, Disconnect
  <2>3. \A k \in DOMAIN stream' : k \in DOMAIN stream /\ stream'[k] = stream[k]
    BY <2>1, <2>2
  <2>. QED
    BY <2>2, <2>3, SameOrders, NewsNow, NewsOnEarned DEF Trades
<1>5. ASSUME Reconnect
      PROVE  Trades
  BY <1>5, StayTrades, NewsNow DEF Reconnect
<1>6. Trades
  BY <1>2, <1>3, <1>4, <1>5 DEF Trading
<1>. QED
  BY <1>1, <1>6, SameTasks, TradeStep

\* A restart keeps what the snapshot knew, and all of it was earned.
LEMMA CrashEarned ==
  ASSUME TypeOK, AllTraced, AllEarned, Crash
  PROVE  AllEarned'
<1>1. /\ disk \in Images /\ tasks' = disk.tasks /\ plans' = disk.plans
      /\ stream' = <<>> /\ UNCHANGED <<nTasks, disk, orders>>
  BY DEF Crash, Images, ids
<1>2. /\ Earned(disk.tasks, disk.plans, orders) /\ KnownTo(tasks, disk.tasks)
  BY <1>1 DEF AllEarned, ImagesEarned
<1>3. /\ \A i \in Images' : i = Memory' \/ i = disk \/ i = NoSnapshot
      /\ Memory'.tasks = disk.tasks /\ Memory'.plans = disk.plans
  BY <1>1 DEF Images, Crash, Memory
<1>4. ImagesEarned'
  BY <1>1, <1>2, <1>3, NothingIsEarned DEF ImagesEarned, KnownTo
<1>5. OrdersAsk'
  BY <1>1, <1>2 DEF AllEarned, OrdersAsk, KnownTo
<1>6. NewsEarned'
  BY <1>1 DEF NewsEarned
<1>. QED
  BY <1>4, <1>5, <1>6 DEF AllEarned

-----------------------------------------------------------------------------
(* The invariant *)

LEMMA EarnedInit == Init => AllEarned
<1>. SUFFICES ASSUME Init PROVE AllEarned
  OBVIOUS
<1>1. \A i \in Images : i = NoSnapshot
  BY DEF Init, Images, Memory, NoSnapshot
<1>2. ImagesEarned
  BY <1>1, NothingIsEarned DEF ImagesEarned
<1>. QED
  BY <1>2 DEF Init, AllEarned, OrdersAsk, NewsEarned

LEMMA EarnedAlways == TypeOK /\ AllTraced /\ AllEarned /\ [Next]_vars => AllEarned'
<1>. SUFFICES ASSUME TypeOK, AllTraced, AllEarned, [Next]_vars PROVE AllEarned'
  OBVIOUS
<1>1. CASE Storage
  BY <1>1, StorageEarned
<1>2. CASE PlaceTask
  BY <1>2, PlaceEarned
<1>3. CASE Control
  BY <1>3, ControlEarned
<1>4. CASE MarketStream
  BY <1>4, MarketEarned
<1>5. CASE UserStream
  BY <1>5, UserEarned
<1>6. CASE Reconciler
  BY <1>6, ReconcilerEarned
<1>7. CASE Trading \/ Disconnect \/ Reconnect
  BY <1>7, TradingEarned
<1>8. CASE Crash
  BY <1>8, CrashEarned
<1>9. CASE UNCHANGED vars
  <2>1. Kept /\ UNCHANGED <<tasks, orders, stream>>
    BY <1>9 DEF vars, Kept, memory, ids, exchange
  <2>. QED
    BY <2>1, SameTasks, StayTrades, NewsNow, TradeStep
<1>. QED
  BY <1>1, <1>2, <1>3, <1>4, <1>5, <1>6, <1>7, <1>8, <1>9 DEF Next, Work

LEMMA BackedIsTraded ==
  ASSUME TypeOK, NEW t, NEW q \in Nat, Backed(orders, t, q)
  PROVE  TradedBy(t) >= q
<1>1. /\ IsFiniteSet(OrdersOf(t))
      /\ \A o \in OrdersOf(t) : orders[o].filled \in Nat
  <2>1. OrdersOf(t) \subseteq 1..Len(orders) /\ Len(orders) \in Nat
    BY OrderFacts DEF OrdersOf
  <2>2. IsFiniteSet(1..Len(orders))
    BY <2>1, FS_Interval
  <2>. QED
    BY <2>1, <2>2, FS_Subset, OrderFacts DEF OrdersOf
<1>2. TradedBy(t) = FilledBy(orders, OrdersOf(t))
  BY DEF TradedBy, FilledBy
<1>3. /\ FilledBy(orders, OrdersOf(t)) \in Nat
      /\ \A a \in OrdersOf(t) : orders[a].filled <= FilledBy(orders, OrdersOf(t))
      /\ \A a, b \in OrdersOf(t) : a # b =>
           orders[a].filled + orders[b].filled <= FilledBy(orders, OrdersOf(t))
  BY <1>1, SumOfTwo
<1>4. \/ \E a \in OrdersOf(t) : orders[a].filled >= q
      \/ \E a, b \in OrdersOf(t) : a # b /\ orders[a].filled + orders[b].filled >= q
  BY DEF Backed, OrdersOf
<1>. QED
  BY <1>1, <1>2, <1>3, <1>4

LEMMA EarnedMeansTraded == TypeOK /\ AllEarned => FilledMeansTraded /\ ClosedMeansTraded
<1>. SUFFICES ASSUME TypeOK, AllEarned PROVE FilledMeansTraded /\ ClosedMeansTraded
  OBVIOUS
<1>1. Earned(tasks, plans, orders)
  BY MemoryIsEarned
<1>2. \A t \in DOMAIN tasks : tasks[t].quantity \in Nat
  <2>1. \A t \in DOMAIN tasks : tasks[t] \in Task
    BY MemoryFacts
  <2>. QED
    BY <2>1 DEF Task
<1>. QED
  BY <1>1, <1>2, BackedIsTraded DEF Earned, FilledMeansTraded, ClosedMeansTraded, ExitsOf

LEMMA EarnedInvariant == Spec => [](TypeOK /\ AllTraced /\ AllEarned)
<1>1. Init => TypeOK /\ AllTraced /\ AllEarned
  BY TypeInit, TracedInit, EarnedInit
<1>2. TypeOK /\ AllTraced /\ AllEarned /\ [Next]_vars
        => (TypeOK /\ AllTraced /\ AllEarned)'
  BY TypeStep, TracedStep, EarnedAlways
<1>. QED
  BY <1>1, <1>2, PTL DEF Spec

\* What is reported as FILLED has traded in full at the exchange, however often
\* the order was replaced with what was known to remain, whatever events were
\* late or lost and whichever snapshot a restart began with (placeTask,
\* maybeReplace, OnOrderUpdate, persist, New).
THEOREM FilledIsTraded == Spec => []FilledMeansTraded
<1>. QED
  BY EarnedInvariant, EarnedMeansTraded, PTL

\* A plan that is CLOSED has an exit whose orders have traded all it asked for,
\* with the same losses, replacements and restarts (triggerPlan, maybeReplace,
\* OnOrderUpdate, persist, New).
THEOREM ClosedIsTraded == Spec => []ClosedMeansTraded
<1>. QED
  BY EarnedInvariant, EarnedMeansTraded, PTL
=============================================================================
