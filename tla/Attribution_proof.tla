--------------------------- MODULE Attribution_proof ---------------------------
(***************************************************************************)
(* Attribution and FilledIsReal for every instance.  Neither is inductive: *)
(* two places may name the same client order id, and the daemon keeps no   *)
(* list of who asked for it.  The strengthening says that there is such a  *)
(* list, own, and that all places that name a client order id or an order  *)
(* agree with it: the memory and the snapshots, the indexes, the orders,   *)
(* the news that is not read yet and the goroutines with a reply.  That a  *)
(* settled task stays settled follows from the same agreement, and with    *)
(* who may be placing an exit that it never has two live orders.           *)
(***************************************************************************)
EXTENDS ChaseService_proof

\* Tasks ts name their own client order ids and orders, and report no more
\* than an order of theirs has filled.
Carries(ts, os, own) ==
  \A t \in DOMAIN ts :
    /\ own[ts[t].cid] = t
    /\ ts[t].orderID # 0 => os[ts[t].orderID].task = t
    /\ ts[t].filled > 0 => \E o \in DOMAIN os : /\ os[o].task = t
                                               /\ os[o].filled >= ts[t].filled

ImagesCarry(own) == \A i \in Images : Carries(i.tasks, orders, own)

IndexFits(own) ==
  /\ \A c \in DOMAIN clientIndex : clientIndex[c] = own[c]
  /\ \A o \in DOMAIN orderIndex : orderIndex[o] = orders[o].task
  /\ \A t \in DOMAIN tasks : tasks[t].cid \in DOMAIN clientIndex

OrdersFit(own) ==
  \A o \in DOMAIN orders :
    /\ own[orders[o].cid] = orders[o].task
    /\ orders[o].era <= crashes
    /\ orders[o].era = crashes => orders[o].cid \in DOMAIN clientIndex

Fits(e, os) == e.cid = os[e.order].cid /\ e.filled <= os[e.order].filled
NewsFits == \A k \in DOMAIN stream : Fits(stream[k], orders)

WithOrder == {"ack", "cancel", "rcancel"}
WorkerFits(r, os) == r.at \in WithOrder => os[r.order].task = r.task
WorkersFit == \A p \in Procs : WorkerFits(proc[p], orders)

Traced(own) ==
  /\ own \in [1..nCids -> Nat]
  /\ ImagesCarry(own) /\ IndexFits(own) /\ OrdersFit(own)
  /\ NewsFits /\ WorkersFit

AllTraced == \E own \in [1..nCids -> Nat] : Traced(own)

-----------------------------------------------------------------------------
(* Orders, snapshots and goroutines that were there before                 *)

\* An order never changes hands or its quantity, and never gives back what it
\* has filled.
OrdersKept ==
  \A o \in DOMAIN orders :
    /\ o \in DOMAIN orders'
    /\ orders'[o].cid = orders[o].cid /\ orders'[o].task = orders[o].task
    /\ orders'[o].era = orders[o].era /\ orders'[o].qty = orders[o].qty
    /\ orders'[o].filled \in Nat /\ orders[o].filled <= orders'[o].filled

LEMMA OrderFacts ==
  ASSUME TypeOK
  PROVE  /\ DOMAIN orders = 1..Len(orders) /\ Len(orders) \in Nat
         /\ \A o \in DOMAIN orders :
              /\ orders[o] \in Order /\ orders[o].cid \in 1..nCids
              /\ orders[o].task \in Nat /\ orders[o].filled \in Nat
              /\ orders[o].era \in Nat
         /\ \A k \in DOMAIN stream :
              /\ stream[k] \in Event /\ stream[k].order \in DOMAIN orders
              /\ stream[k].cid \in 1..nCids /\ stream[k].filled \in Nat
<1>1. /\ orders \in Seq(Order) /\ stream \in Seq(Event)
      /\ \A o \in 1..Len(orders) : orders[o].cid \in 1..nCids
      /\ \A k \in 1..Len(stream) : /\ stream[k].cid \in 1..nCids
                                 /\ stream[k].order \in 1..Len(orders)
  BY DEF TypeOK, ExchangeOK
<1>2. /\ DOMAIN orders = 1..Len(orders) /\ Len(orders) \in Nat
      /\ DOMAIN stream = 1..Len(stream)
      /\ \A o \in DOMAIN orders : orders[o] \in Order
      /\ \A k \in DOMAIN stream : stream[k] \in Event
  BY <1>1
<1>. QED
  BY <1>1, <1>2 DEF Order, Event

LEMMA SameOrders == ASSUME TypeOK, UNCHANGED orders PROVE OrdersKept
BY OrderFacts DEF OrdersKept

Extends(own, new) == \A c \in 1..nCids : new[c] = own[c]

\* A snapshot goes on to name what it named, however the orders went on.
LEMMA CarriesOn ==
  ASSUME TypeOK, OrdersKept, NEW own, NEW new, Extends(own, new),
         NEW s, Snapshot(s), Carries(s.tasks, orders, own)
  PROVE  Carries(s.tasks, orders', new)
<1>. SUFFICES ASSUME NEW t \in DOMAIN s.tasks
              PROVE  /\ new[s.tasks[t].cid] = t
                     /\ s.tasks[t].orderID # 0 => orders'[s.tasks[t].orderID].task = t
                     /\ s.tasks[t].filled > 0 =>
                          \E o \in DOMAIN orders' :
                            /\ orders'[o].task = t
                            /\ orders'[o].filled >= s.tasks[t].filled
  BY DEF Carries
<1>1. /\ s.tasks[t].cid \in 1..nCids /\ s.tasks[t].orderID \in 0..Len(orders)
      /\ s.tasks[t].filled \in Nat
  BY DEF Snapshot, SnapshotOf, Task
<1>2. new[s.tasks[t].cid] = t
  BY <1>1 DEF Carries, Extends
<1>3. s.tasks[t].orderID # 0 => orders'[s.tasks[t].orderID].task = t
  BY <1>1, OrderFacts DEF Carries, OrdersKept
<1>4. ASSUME s.tasks[t].filled > 0
      PROVE  \E o \in DOMAIN orders' : /\ orders'[o].task = t
                                      /\ orders'[o].filled >= s.tasks[t].filled
  <2>1. PICK o \in DOMAIN orders : /\ orders[o].task = t
                                   /\ orders[o].filled >= s.tasks[t].filled
    BY <1>4 DEF Carries
  <2>2. /\ o \in DOMAIN orders' /\ orders'[o].task = t
        /\ orders[o].filled \in Nat /\ orders'[o].filled \in Nat
        /\ orders[o].filled <= orders'[o].filled
    BY <2>1, OrderFacts DEF OrdersKept
  <2>. QED
    BY <1>1, <2>1, <2>2
<1>. QED
  BY <1>2, <1>3, <1>4

LEMMA MemoryCarries == ASSUME NEW own, ImagesCarry(own) PROVE Carries(tasks, orders, own)
<1>1. Memory \in Images /\ Memory.tasks = tasks
  BY DEF Images, Memory
<1>. QED
  BY <1>1 DEF ImagesCarry

LEMMA MemoryCarriesOn ==
  ASSUME TypeOK, OrdersKept, NEW own, NEW new, Extends(own, new), ImagesCarry(own)
  PROVE  Carries(tasks, orders', new)
<1>1. Snapshot(Memory) /\ Memory.tasks = tasks
  BY DEF TypeOK, ImagesOK, Memory
<1>2. Carries(Memory.tasks, orders, own)
  BY <1>1, MemoryCarries
<1>. QED
  BY <1>1, <1>2, CarriesOn

\* A step that writes no snapshot has only the memory to answer for.
LEMMA ImagesOn ==
  ASSUME TypeOK, OrdersKept, NEW own, NEW new, Extends(own, new),
         ImagesCarry(own), UNCHANGED <<disk, held>>, Carries(tasks', orders', new)
  PROVE  ImagesCarry(new)'
<1>1. /\ Snapshot(disk) /\ \A p \in Procs : Snapshot(held[p])
      /\ Carries(disk.tasks, orders, own)
      /\ \A p \in Procs : Carries(held[p].tasks, orders, own)
  BY DEF TypeOK, ImagesOK, ImagesCarry, Images
<1>2. Carries(disk.tasks, orders', new)
  BY <1>1, CarriesOn
<1>3. \A p \in Procs : Carries(held[p].tasks, orders', new)
  BY <1>1, CarriesOn
<1>4. Memory'.tasks = tasks'
  BY DEF Memory
<1>. QED
  BY <1>2, <1>3, <1>4 DEF ImagesCarry, Images

LEMMA OrdersOn ==
  ASSUME TypeOK, OrdersKept, NEW own, NEW new, Extends(own, new), OrdersFit(own),
         DOMAIN orders' = DOMAIN orders, UNCHANGED crashes,
         DOMAIN clientIndex \subseteq DOMAIN clientIndex'
  PROVE  OrdersFit(new)'
BY OrderFacts DEF OrdersFit, OrdersKept, Extends

LEMMA NewsOn ==
  ASSUME TypeOK, OrdersKept, NewsFits,
         \A k \in DOMAIN stream' :
            \/ \E j \in DOMAIN stream : stream'[k] = stream[j]
            \/ Fits(stream'[k], orders')
  PROVE  NewsFits'
<1>1. ASSUME NEW j \in DOMAIN stream
      PROVE  Fits(stream[j], orders')
  <2>1. /\ stream[j].order \in DOMAIN orders /\ stream[j].filled \in Nat
        /\ Fits(stream[j], orders) /\ orders[stream[j].order].filled \in Nat
    BY OrderFacts DEF NewsFits
  <2>. QED
    BY <2>1 DEF Fits, OrdersKept
<1>. QED
  BY <1>1 DEF NewsFits

\* A step of goroutine p leaves the others where they were.
Moves(p) == \A q \in Procs : q # p => proc'[q] = proc[q]

LEMMA WorkersOn ==
  ASSUME TypeOK, OrdersKept, WorkersFit, NEW p \in Procs, Moves(p),
         WorkerFits(proc'[p], orders')
  PROVE  WorkersFit'
<1>1. ASSUME NEW q \in Procs, q # p
      PROVE  WorkerFits(proc[q], orders')
  <2>. SUFFICES ASSUME proc[q].at \in WithOrder
                PROVE  orders'[proc[q].order].task = proc[q].task
    BY DEF WorkerFits
  <2>1. proc[q].order \in DOMAIN orders
    BY OrderFacts DEF TypeOK, ProcOK, StateOK, WithOrder
  <2>. QED
    BY <2>1 DEF OrdersKept, WorkersFit, WorkerFits
<1>. QED
  BY <1>1 DEF WorkersFit, Moves

LEMMA WorkersStay ==
  ASSUME TypeOK, OrdersKept, WorkersFit, UNCHANGED proc
  PROVE  WorkersFit'
<1>1. ASSUME NEW q \in Procs
      PROVE  WorkerFits(proc[q], orders')
  <2>. SUFFICES ASSUME proc[q].at \in WithOrder
                PROVE  orders'[proc[q].order].task = proc[q].task
    BY DEF WorkerFits
  <2>1. proc[q].order \in DOMAIN orders
    BY OrderFacts DEF TypeOK, ProcOK, StateOK, WithOrder
  <2>. QED
    BY <2>1 DEF OrdersKept, WorkersFit, WorkerFits
<1>. QED
  BY <1>1 DEF WorkersFit

\* Where a goroutine goes next.
LEMMA Going ==
  ASSUME TypeOK, NEW p \in Procs, NEW label, NEW then, NEW t, NEW o,
         Goto(p, label, then, t, o)
  PROVE  /\ Moves(p) /\ proc'[p].at = label
         /\ proc'[p].task = t /\ proc'[p].order = o
BY DEF TypeOK, ProcOK, Goto, Moves

LEMMA Finishing ==
  ASSUME TypeOK, NEW p \in Procs, Done(p)
  PROVE  Moves(p) /\ proc'[p].at = "idle"
BY DEF TypeOK, ProcOK, Done, Idle, Moves

LEMMA Moving ==
  ASSUME TypeOK, NEW p \in Procs, NEW label, proc' = [proc EXCEPT ![p].at = label]
  PROVE  Moves(p) /\ proc'[p].at = label
<1>1. proc = [q \in Procs |-> proc[q]] /\ "at" \in DOMAIN proc[p]
  BY DEF TypeOK, ProcOK, StateOK
<1>. QED
  BY <1>1 DEF Moves

LEMMA Resuming ==
  ASSUME TypeOK, NEW p \in Procs, NEW label \in {"idle", "place", "clone"},
         NEW t, NEW o, Resume(p, label, t, o)
  PROVE  Moves(p) /\ proc'[p].at \notin WithOrder
BY Going, Finishing DEF Resume, WithOrder

LEMMA Persisting ==
  ASSUME TypeOK, NEW p \in Procs, NEW then \in {"idle", "place", "clone"},
         NEW t, NEW o, Persist(p, then, t, o)
  PROVE  Moves(p) /\ proc'[p].at \notin WithOrder
BY Going, Resuming DEF Persist, WithOrder

LEMMA NoOrder == ASSUME NEW r, NEW os, r.at \notin WithOrder PROVE WorkerFits(r, os)
BY DEF WorkerFits

-----------------------------------------------------------------------------
(* The exchange *)

LEMMA Emitted ==
  ASSUME TypeOK, NewsFits, OrdersKept, NEW e \in Event, Emit(e), Fits(e, orders')
  PROVE  NewsFits'
<1>1. stream \in Seq(Event) /\ DOMAIN stream = 1..Len(stream)
  BY DEF TypeOK, ExchangeOK
<1>2. CASE stream' = stream
  BY <1>2, NewsOn
<1>3. CASE stream' = Append(stream, e)
  <2>1. ASSUME NEW k \in DOMAIN stream'
        PROVE  (\E j \in DOMAIN stream : stream'[k] = stream[j]) \/ stream'[k] = e
    BY <1>1, <1>3, <2>1
  <2>. QED
    BY <2>1, NewsOn
<1>. QED
  BY <1>2, <1>3 DEF Emit

LEMMA EndOrderKeeps ==
  ASSUME TypeOK, NewsFits, NEW o, EndOrder(o)
  PROVE  OrdersKept /\ DOMAIN orders' = DOMAIN orders /\ NewsFits'
<1>1. o \in DOMAIN orders /\ orders[o] \in Order /\ orders[o].filled \in Nat
  BY OrderFacts DEF EndOrder
<1>2. orders' = [orders EXCEPT ![o].live = FALSE]
  BY DEF EndOrder
<1>3. DOMAIN orders' = DOMAIN orders /\ OrdersKept
  BY <1>1, <1>2, OrderFacts DEF OrdersKept, Order
<1>4. /\ EventOf(o, orders[o], "CANCELED") \in Event
      /\ Fits(EventOf(o, orders[o], "CANCELED"), orders')
  BY <1>1, <1>3, OrderFacts DEF EventOf, Event, EventStatuses, Fits, OrdersKept,
     TypeOK, ImagesOK
<1>. QED
  BY <1>3, <1>4, Emitted DEF EndOrder

LEMMA FillKeeps ==
  ASSUME TypeOK, NewsFits, NEW o \in DOMAIN orders, NEW n \in 1..orders[o].qty,
         Fill(o, n)
  PROVE  OrdersKept /\ DOMAIN orders' = DOMAIN orders /\ NewsFits'
<1>. DEFINE ord    == orders[o]
            filled == ord.filled + n
            after  == [ord EXCEPT !.filled = filled, !.live = filled < ord.qty]
            status == IF after.live THEN "PARTIALLY_FILLED" ELSE "FILLED"
<1>1. /\ ord \in Order /\ ord.filled \in Nat /\ n \in Nat /\ filled \in Nat
      /\ ord.filled <= filled /\ o \in Nat /\ ord.cid \in Nat
  BY OrderFacts DEF Order
<1>2. /\ orders' = [orders EXCEPT ![o] = after]
      /\ Emit(EventOf(o, after, status))
  BY DEF Fill
<1>3. /\ after.cid = ord.cid /\ after.task = ord.task /\ after.era = ord.era
      /\ after.filled = filled /\ after.qty = ord.qty
  BY <1>1 DEF Order
<1>4. /\ EventOf(o, after, status).order = o
      /\ EventOf(o, after, status).cid = ord.cid
      /\ EventOf(o, after, status).filled = filled
      /\ EventOf(o, after, status) \in Event
  BY <1>1, <1>3 DEF EventOf, Event, EventStatuses
<1>. HIDE DEF after, filled, status
<1>5. DOMAIN orders' = DOMAIN orders /\ orders'[o] = after
      /\ \A u \in DOMAIN orders : u # o => orders'[u] = orders[u]
  BY <1>2, OrderFacts
<1>6. OrdersKept
  BY <1>1, <1>3, <1>5, OrderFacts DEF OrdersKept
<1>7. Fits(EventOf(o, after, status), orders')
  BY <1>1, <1>3, <1>4, <1>5 DEF Fits
<1>. QED
  BY <1>2, <1>4, <1>5, <1>6, <1>7, Emitted

LEMMA AcceptKeeps ==
  ASSUME TypeOK, NewsFits, NEW t \in DOMAIN tasks, Accept(t)
  PROVE  /\ OrdersKept /\ NewsFits'
         /\ DOMAIN orders' = DOMAIN orders \cup {Len(orders) + 1}
         /\ orders'[Len(orders) + 1].task = t
         /\ orders'[Len(orders) + 1].cid = tasks[t].cid
         /\ orders'[Len(orders) + 1].era = crashes
<1>. DEFINE task == tasks[t]
            ord  == [symbol |-> task.symbol, positionSide |-> task.positionSide,
                     side |-> task.side, cid |-> task.cid,
                     qty |-> Remaining(task), filled |-> 0, live |-> TRUE,
                     task |-> t, era |-> crashes]
            o    == Len(orders) + 1
<1>1. /\ orders' = Append(orders, ord) /\ Emit(EventOf(o, ord, "NEW"))
      /\ task.cid \in Nat /\ Len(orders) \in Nat
  BY MemoryFacts DEF Accept
<1>2. /\ ord.cid = task.cid /\ ord.task = t /\ ord.era = crashes /\ ord.filled = 0
      /\ EventOf(o, ord, "NEW").order = o /\ EventOf(o, ord, "NEW").cid = task.cid
      /\ EventOf(o, ord, "NEW").filled = 0 /\ EventOf(o, ord, "NEW") \in Event
  BY <1>1 DEF EventOf, Event, EventStatuses
<1>. HIDE DEF ord
<1>3. /\ DOMAIN orders' = DOMAIN orders \cup {o} /\ orders'[o] = ord
      /\ \A u \in DOMAIN orders : orders'[u] = orders[u]
  <2>1. orders \in Seq(Order)
    BY DEF TypeOK, ExchangeOK
  <2>. QED
    BY <1>1, <2>1
<1>4. OrdersKept
  BY <1>3, OrderFacts DEF OrdersKept
<1>5. Fits(EventOf(o, ord, "NEW"), orders')
  BY <1>2, <1>3 DEF Fits
<1>6. NewsFits'
  BY <1>1, <1>2, <1>4, <1>5, Emitted
<1>. QED
  BY <1>2, <1>3, <1>4, <1>6

-----------------------------------------------------------------------------
(* Steps that name nothing new *)

LEMMA TracedOn ==
  ASSUME TypeOK, NEW own, Traced(own), NEW new \in [1..nCids' -> Nat],
         Extends(own, new), OrdersKept, UNCHANGED <<disk, held>>,
         Carries(tasks', orders', new), IndexFits(new)', OrdersFit(new)',
         NewsFits', WorkersFit'
  PROVE  AllTraced'
BY ImagesOn DEF Traced, AllTraced

Quiet == /\ UNCHANGED <<tasks, clientIndex, orderIndex, nCids, disk, held, crashes>>
         /\ OrdersKept /\ DOMAIN orders' = DOMAIN orders

LEMMA QuietStep ==
  ASSUME TypeOK, NEW own, Traced(own), Quiet, NewsFits', WorkersFit'
  PROVE  AllTraced'
<1>1. own \in [1..nCids' -> Nat] /\ Extends(own, own)
  BY DEF Traced, Quiet, Extends
<1>2. Carries(tasks', orders', own)
  BY <1>1, MemoryCarriesOn DEF Traced, Quiet
<1>3. IndexFits(own)'
  <2>1. \A o \in DOMAIN orderIndex : o \in DOMAIN orders
    BY OrderFacts DEF TypeOK, IndexOK
  <2>. QED
    BY <2>1 DEF IndexFits, Traced, Quiet, OrdersKept
<1>4. OrdersFit(own)'
  BY <1>1, OrdersOn DEF Traced, Quiet
<1>. QED
  BY <1>1, <1>2, <1>3, <1>4, TracedOn DEF Quiet

\* The exchange ends an order or stays as it is, and goroutine p goes on.
LEMMA EndOrderStep ==
  ASSUME TypeOK, NEW own, Traced(own), NEW o, EndOrder(o) \/ UNCHANGED exchange,
         NEW p \in Procs, Moves(p), proc'[p].at \notin WithOrder,
         UNCHANGED <<memory, index, ids, held, disk, crashes>>
  PROVE  AllTraced'
<1>1. OrdersKept /\ DOMAIN orders' = DOMAIN orders /\ NewsFits'
  <2>1. CASE EndOrder(o)
    BY <2>1, EndOrderKeeps DEF Traced
  <2>2. CASE UNCHANGED exchange
    <3>1. UNCHANGED <<orders, stream>>
      BY <2>2 DEF exchange
    <3>. QED
      BY <3>1, SameOrders, NewsOn DEF Traced
  <2>. QED
    BY <2>1, <2>2
<1>2. Quiet
  BY <1>1 DEF Quiet, memory, index, ids
<1>3. WorkersFit'
  BY <1>1, NoOrder, WorkersOn DEF Traced
<1>. QED
  BY <1>1, <1>2, <1>3, QuietStep

Local == UNCHANGED <<clientIndex, orderIndex, nCids, disk, held, crashes, orders, stream>>

LEMMA LocalFacts ==
  ASSUME TypeOK, NewsFits, Local
  PROVE  OrdersKept /\ DOMAIN orders' = DOMAIN orders /\ NewsFits'
BY SameOrders, NewsOn DEF Local

LEMMA LocalStep ==
  ASSUME TypeOK, NEW own, Traced(own), Local, UNCHANGED tasks, WorkersFit'
  PROVE  AllTraced'
<1>1. OrdersKept /\ DOMAIN orders' = DOMAIN orders /\ NewsFits'
  BY LocalFacts DEF Traced
<1>2. Quiet
  BY <1>1 DEF Quiet, Local
<1>. QED
  BY <1>1, <1>2, QuietStep

LEMMA GoStep ==
  ASSUME TypeOK, NEW own, Traced(own), Local, UNCHANGED tasks,
         NEW p \in Procs, Moves(p), WorkerFits(proc'[p], orders')
  PROVE  AllTraced'
BY LocalFacts, WorkersOn, LocalStep DEF Traced

LEMMA StayStep ==
  ASSUME TypeOK, NEW own, Traced(own), Local, UNCHANGED <<tasks, proc>>
  PROVE  AllTraced'
BY LocalFacts, WorkersStay, LocalStep DEF Traced

\* Task t changes in what names nothing.
LEMMA TaskStep ==
  ASSUME TypeOK, NEW own, Traced(own), Local, WorkersFit',
         NEW t \in DOMAIN tasks, NEW task, tasks' = [tasks EXCEPT ![t] = task],
         task.cid = tasks[t].cid, task.orderID = tasks[t].orderID,
         task.filled = tasks[t].filled
  PROVE  AllTraced'
<1>1. OrdersKept /\ DOMAIN orders' = DOMAIN orders /\ NewsFits'
  BY LocalFacts DEF Traced
<1>2. own \in [1..nCids' -> Nat] /\ Extends(own, own)
  BY DEF Traced, Local, Extends
<1>3. /\ DOMAIN tasks' = DOMAIN tasks
      /\ \A u \in DOMAIN tasks : /\ tasks'[u].cid = tasks[u].cid
                                 /\ tasks'[u].orderID = tasks[u].orderID
                                 /\ tasks'[u].filled = tasks[u].filled
  BY MemoryFacts
<1>4. Carries(tasks, orders', own)
  BY <1>1, <1>2, MemoryCarriesOn DEF Traced
<1>5. Carries(tasks', orders', own)
  BY <1>3, <1>4 DEF Carries
<1>6. IndexFits(own)'
  BY <1>3 DEF Traced, IndexFits, Local
<1>7. OrdersFit(own)'
  BY <1>1, <1>2, OrdersOn DEF Traced, Local
<1>. QED
  BY <1>1, <1>2, <1>5, <1>6, <1>7, TracedOn DEF Local

-----------------------------------------------------------------------------
(* placeTask *)

LEMMA PlaceStartTraced ==
  ASSUME TypeOK, NEW own, Traced(own), NEW p \in Procs, PlaceStart(p)
  PROVE  AllTraced'
<1>. DEFINE t     == proc[p].task
            price == TargetPrice(market[tasks[t].symbol], tasks[t].side)
            task  == [tasks[t] EXCEPT !.status = "PLACED", !.target = price]
<1>1. t \in DOMAIN tasks /\ tasks[t] \in Task
  BY Worker, MemoryFacts DEF PlaceStart, At
<1>2. /\ task.cid = tasks[t].cid /\ task.orderID = tasks[t].orderID
      /\ task.filled = tasks[t].filled
  BY <1>1 DEF Task
<1>3. tasks' = [tasks EXCEPT ![t] = task]
  BY DEF PlaceStart
<1>. HIDE DEF task
<1>4. Local
  BY DEF PlaceStart, Local, index, ids, exchange, counts
<1>5. WorkersFit'
  <2>1. Moves(p) /\ proc'[p].at = "wait"
    BY Moving DEF PlaceStart
  <2>. QED
    BY <1>4, <2>1, NoOrder, LocalFacts, WorkersOn DEF Traced, WithOrder
<1>. QED
  BY <1>1, <1>2, <1>3, <1>4, <1>5, TaskStep

LEMMA PlaceFailedTraced ==
  ASSUME TypeOK, NEW own, Traced(own), NEW p \in Procs, PlaceFailed(p)
  PROVE  AllTraced'
<1>. DEFINE t    == proc[p].task
            task == [tasks[t] EXCEPT !.status = "FAILED"]
<1>1. t \in DOMAIN tasks /\ tasks[t] \in Task
  BY Worker, MemoryFacts DEF PlaceFailed, At
<1>2. /\ task.cid = tasks[t].cid /\ task.orderID = tasks[t].orderID
      /\ task.filled = tasks[t].filled
  BY <1>1 DEF Task
<1>3. tasks' = [tasks EXCEPT ![t] = task]
  BY DEF PlaceFailed
<1>. HIDE DEF task
<1>4. Local
  BY DEF PlaceFailed, Local, index, ids, exchange, counts
<1>5. WorkersFit'
  BY <1>4, Finishing, NoOrder, LocalFacts, WorkersOn DEF Traced, WithOrder, PlaceFailed
<1>. QED
  BY <1>1, <1>2, <1>3, <1>4, <1>5, TaskStep

\* The order of a placement is made for the task under its own id, and the
\* reply goes back to the goroutine that works on that task.
LEMMA PlaceAcceptedTraced ==
  ASSUME TypeOK, NEW own, Traced(own), NEW p \in Procs, PlaceAccepted(p)
  PROVE  AllTraced'
<1>. DEFINE t == proc[p].task
            o == Len(orders) + 1
<1>1. t \in DOMAIN tasks
  BY Worker DEF PlaceAccepted, At
<1>2. Accept(t)
  BY DEF PlaceAccepted
<1>3. UNCHANGED <<tasks, clientIndex, orderIndex, nCids, disk, held, crashes>>
  BY DEF PlaceAccepted, memory, index, ids, counts
<1>4. /\ OrdersKept /\ NewsFits' /\ DOMAIN orders' = DOMAIN orders \cup {o}
      /\ orders'[o].task = t /\ orders'[o].cid = tasks[t].cid
      /\ orders'[o].era = crashes
  BY <1>1, <1>2, AcceptKeeps DEF Traced
<1>5. own \in [1..nCids' -> Nat] /\ Extends(own, own)
  BY <1>3 DEF Traced, Extends
<1>6. Carries(tasks', orders', own)
  BY <1>3, <1>4, <1>5, MemoryCarriesOn DEF Traced
<1>7. IndexFits(own)'
  <2>1. \A u \in DOMAIN orderIndex : u \in DOMAIN orders
    BY OrderFacts DEF TypeOK, IndexOK
  <2>. QED
    BY <1>3, <1>4, <2>1 DEF IndexFits, Traced, OrdersKept
<1>8. OrdersFit(own)'
  <2>1. own[tasks[t].cid] = t /\ tasks[t].cid \in DOMAIN clientIndex
    BY <1>1, MemoryCarries DEF Traced, Carries, IndexFits
  <2>2. crashes \in Nat
    BY DEF TypeOK, CountsOK
  <2>3. ASSUME NEW u \in DOMAIN orders'
        PROVE  /\ own[orders'[u].cid] = orders'[u].task
               /\ orders'[u].era <= crashes
               /\ orders'[u].era = crashes => orders'[u].cid \in DOMAIN clientIndex
    <3>1. CASE u = o
      BY <1>4, <2>1, <2>2, <3>1
    <3>2. CASE u \in DOMAIN orders
      BY <3>2, <1>4 DEF Traced, OrdersFit, OrdersKept
    <3>. QED
      BY <1>4, <3>1, <3>2
  <2>. QED
    BY <1>3, <2>3 DEF OrdersFit
<1>9. WorkersFit'
  <2>1. PICK reply \in {"ack", "nack"} : Goto(p, reply, "idle", t, o)
    BY DEF PlaceAccepted
  <2>2. Moves(p) /\ proc'[p].task = t /\ proc'[p].order = o
    BY <2>1, Going
  <2>3. WorkerFits(proc'[p], orders')
    BY <1>4, <2>2 DEF WorkerFits
  <2>. QED
    BY <1>4, <2>2, <2>3, WorkersOn DEF Traced
<1>. QED
  BY <1>3, <1>4, <1>5, <1>6, <1>7, <1>8, <1>9, TracedOn

\* Task t takes over order o, which was made for it, with no more filled than
\* that order has, and is indexed under both of its ids.
LEMMA TakeOver ==
  ASSUME TypeOK, NEW own, Traced(own), NEW t \in DOMAIN tasks, NEW o \in DOMAIN orders,
         orders[o].task = t, NEW task \in Task, tasks' = [tasks EXCEPT ![t] = task],
         task.cid = orders[o].cid, task.orderID = o,
         task.filled <= tasks[t].filled \/ task.filled <= orders[o].filled,
         clientIndex' = Put(clientIndex, orders[o].cid, t),
         orderIndex' = Put(orderIndex, o, t),
         UNCHANGED <<nCids, disk, held, crashes, orders>>, NewsFits', WorkersFit'
  PROVE  AllTraced'
<1>1. OrdersKept
  BY SameOrders
<1>2. own \in [1..nCids' -> Nat] /\ Extends(own, own)
  BY DEF Traced, Extends
<1>3. own[orders[o].cid] = t
  BY DEF Traced, OrdersFit
<1>4. /\ DOMAIN tasks' = DOMAIN tasks /\ tasks'[t] = task
      /\ \A u \in DOMAIN tasks : u # t => tasks'[u] = tasks[u]
  BY MemoryFacts
<1>5. Carries(tasks, orders, own)
  BY MemoryCarries DEF Traced
<1>6. Carries(tasks', orders', own)
  <2>1. ASSUME task.filled > 0
        PROVE  \E u \in DOMAIN orders : /\ orders[u].task = t
                                       /\ orders[u].filled >= task.filled
    <3>1. /\ task.filled \in Nat /\ tasks[t].filled \in Nat
          /\ \A u \in DOMAIN orders : orders[u].filled \in Nat
      BY MemoryFacts, OrderFacts DEF Task
    <3>2. CASE task.filled <= orders[o].filled
      BY <3>1, <3>2
    <3>3. CASE task.filled <= tasks[t].filled
      <4>1. PICK u \in DOMAIN orders : /\ orders[u].task = t
                                       /\ orders[u].filled >= tasks[t].filled
        BY <1>5, <2>1, <3>1, <3>3 DEF Carries
      <4>. QED
        BY <3>1, <3>3, <4>1
    <3>. QED
      BY <3>2, <3>3
  <2>. QED
    BY <1>3, <1>4, <1>5, <2>1 DEF Carries
<1>7. IndexFits(own)'
  <2>1. /\ DOMAIN clientIndex' = DOMAIN clientIndex \cup {orders[o].cid}
        /\ \A c \in DOMAIN clientIndex' :
             clientIndex'[c] = IF c = orders[o].cid THEN t ELSE clientIndex[c]
        /\ \A u \in DOMAIN orderIndex' :
             /\ u \in DOMAIN orderIndex \cup {o}
             /\ orderIndex'[u] = IF u = o THEN t ELSE orderIndex[u]
    BY DEF Put
  <2>. QED
    BY <1>3, <1>4, <2>1 DEF IndexFits, Traced
<1>8. OrdersFit(own)'
  BY <1>1, <1>2, OrdersOn DEF Traced, Put
<1>. QED
  BY <1>1, <1>2, <1>6, <1>7, <1>8, TracedOn

LEMMA PlaceDoneTraced ==
  ASSUME TypeOK, NEW own, Traced(own), NEW p \in Procs, PlaceDone(p)
  PROVE  AllTraced'
<1>. DEFINE t == proc[p].task
            o == proc[p].order
            task == [tasks[t] EXCEPT !.orderID = o, !.cid = orders[o].cid,
                                     !.status = "CHASING"]
<1>1. /\ t \in DOMAIN tasks /\ tasks[t] \in Task /\ o \in DOMAIN orders
      /\ o \in Nat /\ orders[o].cid \in Nat
  BY Worker, MemoryFacts, OrderFacts DEF PlaceDone, At
<1>2. orders[o].task = t
  BY DEF Traced, WorkersFit, WorkerFits, WithOrder, PlaceDone, At
<1>3. /\ task \in Task /\ task.cid = orders[o].cid /\ task.orderID = o
      /\ task.filled = tasks[t].filled /\ task.filled \in Nat
  BY <1>1 DEF Task, TaskStatuses, ActiveStatuses
<1>4. /\ tasks' = [tasks EXCEPT ![t] = task]
      /\ clientIndex' = Put(clientIndex, orders[o].cid, t)
      /\ orderIndex' = Put(orderIndex, o, t)
      /\ UNCHANGED <<nCids, disk, held, crashes, orders, stream>>
  BY DEF PlaceDone, ids, counts, exchange
<1>. HIDE DEF task
<1>5. OrdersKept /\ NewsFits'
  BY <1>4, SameOrders, NewsOn DEF Traced
<1>6. WorkersFit'
  <2>1. Moves(p) /\ proc'[p].at \notin WithOrder
    BY Persisting DEF PlaceDone
  <2>. QED
    BY <1>5, <2>1, NoOrder, WorkersOn DEF Traced
<1>7. task.filled <= tasks[t].filled
  BY <1>3
<1>. QED
  BY <1>1, <1>2, <1>3, <1>4, <1>5, <1>6, <1>7, TakeOver

LEMMA PlaceTraced ==
  ASSUME TypeOK, NEW own, Traced(own), PlaceTask
  PROVE  AllTraced'
<1>. PICK p \in Procs : \/ PlaceStart(p) \/ PlaceAccepted(p) \/ PlaceRejected(p)
                        \/ PlaceDone(p) \/ PlaceFailed(p)
  BY DEF PlaceTask
<1>1. CASE PlaceRejected(p)
  <2>1. Local /\ UNCHANGED tasks
    BY <1>1 DEF PlaceRejected, Local, memory, index, ids, exchange, counts
  <2>2. Moves(p) /\ proc'[p].at = "nack"
    BY <1>1, Going DEF PlaceRejected
  <2>. QED
    BY <2>1, <2>2, NoOrder, GoStep DEF WithOrder
<1>. QED
  BY <1>1, PlaceStartTraced, PlaceAcceptedTraced, PlaceDoneTraced, PlaceFailedTraced

-----------------------------------------------------------------------------
(* New client order ids                                                    *)

\* Task us[u] names what ts[u] named.
NamesAlike(ts, us, u) ==
  /\ u \in DOMAIN ts /\ us[u].cid = ts[u].cid
  /\ us[u].orderID = ts[u].orderID /\ us[u].filled = ts[u].filled

\* Task t, new or known, gets a fresh client order id: own grows by it.
LEMMA NewId ==
  ASSUME TypeOK, NEW own, Traced(own), NEW t \in Nat, nCids' = nCids + 1,
         \A u \in DOMAIN tasks' : u # t => NamesAlike(tasks, tasks', u),
         t \in DOMAIN tasks', tasks'[t].cid = nCids + 1,
         \/ tasks'[t].orderID = 0 /\ tasks'[t].filled = 0
         \/ /\ t \in DOMAIN tasks /\ tasks'[t].orderID = tasks[t].orderID
            /\ tasks'[t].filled = tasks[t].filled,
         clientIndex' = Put(clientIndex, nCids + 1, t),
         UNCHANGED <<orderIndex, disk, held, crashes, orders, stream>>, WorkersFit'
  PROVE  AllTraced'
<1>1. nCids \in Nat /\ own \in [1..nCids -> Nat]
  BY MemoryFacts DEF Traced
<1>2. PICK new \in [1..nCids' -> Nat] : Extends(own, new) /\ new[nCids + 1] = t
  <2>. DEFINE f == [c \in 1..(nCids + 1) |-> IF c = nCids + 1 THEN t ELSE own[c]]
  <2>1. f \in [1..nCids' -> Nat] /\ Extends(own, f) /\ f[nCids + 1] = t
    BY <1>1 DEF Extends
  <2>. QED
    BY <2>1
<1>3. OrdersKept /\ NewsFits'
  BY SameOrders, NewsOn DEF Traced
<1>4. Carries(tasks, orders, new)
  BY <1>2, <1>3, MemoryCarriesOn DEF Traced
<1>5. Carries(tasks', orders', new)
  <2>1. ASSUME NEW u \in DOMAIN tasks', u # t
        PROVE  /\ new[tasks'[u].cid] = u
               /\ tasks'[u].orderID # 0 => orders[tasks'[u].orderID].task = u
               /\ tasks'[u].filled > 0 =>
                    \E o \in DOMAIN orders : /\ orders[o].task = u
                                            /\ orders[o].filled >= tasks'[u].filled
    BY <1>4, <2>1 DEF Carries, NamesAlike
  <2>2. /\ new[tasks'[t].cid] = t
        /\ tasks'[t].orderID # 0 => orders[tasks'[t].orderID].task = t
        /\ tasks'[t].filled > 0 =>
             \E o \in DOMAIN orders : /\ orders[o].task = t
                                     /\ orders[o].filled >= tasks'[t].filled
    BY <1>2, <1>4 DEF Carries
  <2>. QED
    BY <2>1, <2>2 DEF Carries
<1>6. IndexFits(new)'
  <2>1. /\ DOMAIN clientIndex' = DOMAIN clientIndex \cup {nCids + 1}
        /\ \A c \in DOMAIN clientIndex' :
             clientIndex'[c] = IF c = nCids + 1 THEN t ELSE clientIndex[c]
    BY DEF Put
  <2>2. DOMAIN clientIndex \subseteq 1..nCids
    BY DEF TypeOK, IndexOK
  <2>3. \A c \in DOMAIN clientIndex' : clientIndex'[c] = new[c]
    BY <1>2, <2>1, <2>2 DEF Traced, IndexFits, Extends
  <2>4. \A u \in DOMAIN tasks' : tasks'[u].cid \in DOMAIN clientIndex'
    BY <2>1 DEF Traced, IndexFits, NamesAlike
  <2>. QED
    BY <2>3, <2>4 DEF Traced, IndexFits
<1>7. OrdersFit(new)'
  BY <1>2, <1>3, OrdersOn DEF Traced, Put
<1>. QED
  BY <1>2, <1>3, <1>5, <1>6, <1>7, TracedOn

LEMMA AddTaskTraced ==
  ASSUME TypeOK, NEW own, Traced(own), NEW ts, DOMAIN ts = DOMAIN tasks,
         \A u \in DOMAIN tasks : NamesAlike(tasks, ts, u),
         NEW task \in Task, task.orderID = 0, task.filled = 0, AddTask(ts, task),
         UNCHANGED <<orderIndex, disk, held, crashes, orders, stream>>, WorkersFit'
  PROVE  AllTraced'
<1>. DEFINE t    == nTasks + 1
            sent == [task EXCEPT !.cid = nCids + 1]
<1>1. /\ t \in Nat /\ nCids + 1 \in Nat
  BY MemoryFacts
<1>2. sent.cid = nCids + 1 /\ sent.orderID = 0 /\ sent.filled = 0
  BY <1>1 DEF Task
<1>3. /\ nCids' = nCids + 1 /\ tasks' = Put(ts, t, sent)
      /\ clientIndex' = Put(clientIndex, nCids + 1, t)
  BY DEF AddTask
<1>. HIDE DEF sent
<1>4. /\ DOMAIN tasks' = DOMAIN tasks \cup {t} /\ tasks'[t] = sent
      /\ \A u \in DOMAIN tasks' : u # t => u \in DOMAIN tasks /\ tasks'[u] = ts[u]
  BY <1>3 DEF Put
<1>5. \A u \in DOMAIN tasks' : u # t => NamesAlike(tasks, tasks', u)
  BY <1>4 DEF NamesAlike
<1>. QED
  BY <1>1, <1>2, <1>3, <1>4, <1>5, NewId

LEMMA SubmitTraced ==
  ASSUME TypeOK, NEW own, Traced(own), NEW h \in Handlers, NEW req \in Requests,
         Submit(h, req)
  PROVE  AllTraced'
<1>. DEFINE task == [NewTask("ENTRY", req.symbol, req.positionSide, req.side, req.quantity)
                     EXCEPT !.takeProfit = req.takeProfit, !.stopLoss = req.stopLoss]
<1>1. task \in Task /\ task.filled = 0 /\ task.orderID = 0
  BY InputAssumption DEF Request, NewTask, Task, TaskKinds, TaskStatuses, ActiveStatuses
<1>2. /\ AddTask(tasks, task)
      /\ UNCHANGED <<orderIndex, disk, held, crashes, orders, stream>>
  BY DEF Submit, counts, exchange
<1>3. \A u \in DOMAIN tasks : NamesAlike(tasks, tasks, u)
  BY DEF NamesAlike
<1>4. WorkersFit'
  <2>1. h \in Procs
    BY DEF Procs
  <2>2. Moves(h) /\ proc'[h].at \notin WithOrder
    BY <2>1, Persisting DEF Submit
  <2>. QED
    BY <1>2, <2>1, <2>2, SameOrders, NoOrder, WorkersOn DEF Traced
<1>. HIDE DEF task
<1>. QED
  BY <1>1, <1>2, <1>3, <1>4, AddTaskTraced

LEMMA TriggerTraced ==
  ASSUME TypeOK, NEW own, Traced(own), NEW n \in DOMAIN plans, Trigger(n)
  PROVE  AllTraced'
<1>. DEFINE plan == plans[n]
            e    == plan.entryTask
            stop == /\ e \in DOMAIN tasks /\ IsActive(tasks[e].status)
                    /\ tasks[e].orderID # 0
            exit == [NewTask("EXIT", plan.symbol, plan.positionSide,
                             CloseSide(plan.positionSide), plan.protectedQty)
                     EXCEPT !.plan = n]
            rest == IF stop THEN [tasks EXCEPT ![e].status = "CANCELED"] ELSE tasks
<1>1. plan \in Plan /\ n \in Nat
  BY MemoryFacts
<1>2. exit \in Task /\ exit.filled = 0 /\ exit.orderID = 0
  BY <1>1 DEF Plan, NewTask, Task, TaskKinds, TaskStatuses, ActiveStatuses,
              CloseSide, Sides
<1>3. DOMAIN rest = DOMAIN tasks /\ \A u \in DOMAIN tasks : NamesAlike(tasks, rest, u)
  <2>1. CASE stop
    <3>1. tasks[e] \in Task
      BY <2>1, MemoryFacts
    <3>2. rest = [tasks EXCEPT ![e] = [tasks[e] EXCEPT !.status = "CANCELED"]]
      BY <2>1
    <3>. QED
      BY <2>1, <3>1, <3>2, MemoryFacts DEF Task, NamesAlike
  <2>2. CASE ~stop
    BY <2>2 DEF NamesAlike
  <2>. QED
    BY <2>1, <2>2
<1>4. /\ AddTask(rest, exit)
      /\ UNCHANGED <<orderIndex, disk, held, crashes, orders, stream>>
      /\ Persist(Market, "place", nTasks + 1, 0)
  BY DEF Trigger, counts, exchange
<1>. HIDE DEF exit, rest
<1>5. WorkersFit'
  <2>1. Market \in Procs
    BY DEF Procs
  <2>2. Moves(Market) /\ proc'[Market].at \notin WithOrder
    BY <1>4, <2>1, Persisting
  <2>. QED
    BY <1>4, <2>1, <2>2, SameOrders, NoOrder, WorkersOn DEF Traced
<1>. QED
  BY <1>2, <1>3, <1>4, <1>5, AddTaskTraced

LEMMA RenameTraced ==
  ASSUME TypeOK, NEW own, Traced(own), Rename
  PROVE  AllTraced'
<1>. DEFINE t    == proc[Market].task
            task == [tasks[t] EXCEPT !.cid = nCids + 1]
<1>1. /\ Market \in Procs /\ t \in DOMAIN tasks /\ tasks[t] \in Task /\ t \in Nat
      /\ nCids + 1 \in Nat
  BY Worker, MemoryFacts DEF Rename, At, Procs
<1>2. /\ task.cid = nCids + 1 /\ task.orderID = tasks[t].orderID
      /\ task.filled = tasks[t].filled
  BY <1>1 DEF Task
<1>3. /\ nCids' = nCids + 1 /\ tasks' = [tasks EXCEPT ![t] = task]
      /\ clientIndex' = Put(clientIndex, nCids + 1, t)
      /\ UNCHANGED <<orderIndex, disk, held, crashes, orders, stream>>
  BY DEF Rename, counts, exchange
<1>. HIDE DEF task
<1>4. /\ DOMAIN tasks' = DOMAIN tasks /\ tasks'[t] = task
      /\ \A u \in DOMAIN tasks' : u # t => NamesAlike(tasks, tasks', u)
  <2>1. /\ DOMAIN tasks' = DOMAIN tasks /\ tasks'[t] = task
        /\ \A u \in DOMAIN tasks : u # t => tasks'[u] = tasks[u]
    BY <1>1, <1>3, MemoryFacts
  <2>. QED
    BY <2>1 DEF NamesAlike
<1>5. WorkersFit'
  <2>1. Moves(Market) /\ proc'[Market].at = "place"
    BY <1>1, Moving DEF Rename
  <2>. QED
    BY <1>1, <1>3, <2>1, SameOrders, NoOrder, WorkersOn DEF Traced, WithOrder
<1>. QED
  BY <1>1, <1>2, <1>3, <1>4, <1>5, NewId

-----------------------------------------------------------------------------
(* The control connections and the market stream *)

LEMMA CancelTaskTraced ==
  ASSUME TypeOK, NEW own, Traced(own), NEW h \in Handlers, NEW t \in DOMAIN tasks,
         CancelTask(h, t)
  PROVE  AllTraced'
<1>. DEFINE o    == tasks[t].orderID
            task == [tasks[t] EXCEPT !.status = "CANCELED"]
<1>1. h \in Procs /\ tasks[t] \in Task
  BY MemoryFacts DEF Procs
<1>2. /\ task.cid = tasks[t].cid /\ task.orderID = tasks[t].orderID
      /\ task.filled = tasks[t].filled
  BY <1>1 DEF Task
<1>3. tasks' = [tasks EXCEPT ![t] = task]
  BY DEF CancelTask
<1>. HIDE DEF task
<1>4. Local
  BY DEF CancelTask, Local, index, ids, exchange, counts
<1>5. Moves(h) /\ WorkerFits(proc'[h], orders')
  <2>1. CASE o # 0
    <3>1. Goto(h, "cancel", "idle", t, o) /\ orders[o].task = t /\ orders' = orders
      BY <1>4, <2>1, MemoryCarries DEF Traced, Carries, CancelTask, Local
    <3>. QED
      BY <1>1, <3>1, Going DEF WorkerFits
  <2>2. CASE o = 0
    BY <1>1, <2>2, Persisting, NoOrder DEF CancelTask
  <2>. QED
    BY <2>1, <2>2
<1>6. WorkersFit'
  BY <1>1, <1>4, <1>5, LocalFacts, WorkersOn DEF Traced
<1>. QED
  BY <1>2, <1>3, <1>4, <1>6, TaskStep

LEMMA ControlTraced ==
  ASSUME TypeOK, NEW own, Traced(own), Control
  PROVE  AllTraced'
<1>. PICK h \in Handlers : \/ \E req \in Requests : Submit(h, req)
                           \/ \E t \in DOMAIN tasks : CancelTask(h, t)
                           \/ CancelOk(h) \/ CancelError(h)
  BY DEF Control
<1>1. CASE CancelOk(h) \/ CancelError(h)
  <2>1. h \in Procs
    BY DEF Procs
  <2>2. Moves(h) /\ proc'[h].at \notin WithOrder
    BY <1>1, <2>1, Persisting, Finishing DEF CancelOk, CancelError, WithOrder
  <2>3. /\ EndOrder(proc[h].order) \/ UNCHANGED exchange
        /\ UNCHANGED <<memory, index, ids, held, disk, crashes>>
    BY <1>1 DEF CancelOk, CancelError, counts
  <2>. QED
    BY <2>1, <2>2, <2>3, EndOrderStep
<1>. QED
  BY <1>1, SubmitTraced, CancelTaskTraced

LEMMA ReplaceTraced ==
  ASSUME TypeOK, NEW own, Traced(own),
         \/ \E t \in DOMAIN tasks : StartReplace(t)
         \/ ReplaceCancelOk \/ ReplaceCancelError
  PROVE  AllTraced'
<1>. Market \in Procs
  BY DEF Procs
<1>1. ASSUME NEW t \in DOMAIN tasks, StartReplace(t)
      PROVE  AllTraced'
  <2>. DEFINE o == tasks[t].orderID
  <2>1. Local /\ UNCHANGED tasks
    BY <1>1 DEF StartReplace, Local, memory, index, ids, exchange, counts
  <2>2. Goto(Market, IF o # 0 THEN "rcancel" ELSE "rename", "idle", t, o)
    BY <1>1 DEF StartReplace
  <2>3. /\ Moves(Market) /\ proc'[Market].at = (IF o # 0 THEN "rcancel" ELSE "rename")
        /\ proc'[Market].task = t /\ proc'[Market].order = o
    BY <2>2, Going
  <2>4. o # 0 => orders'[o].task = t
    BY <2>1, MemoryCarries DEF Traced, Carries, Local
  <2>5. WorkerFits(proc'[Market], orders')
    BY <2>3, <2>4 DEF WorkerFits, WithOrder
  <2>. QED
    BY <2>1, <2>3, <2>5, GoStep
<1>2. CASE ReplaceCancelOk \/ ReplaceCancelError
  <2>1. Moves(Market) /\ proc'[Market].at \notin WithOrder
    BY <1>2, Moving, Finishing DEF ReplaceCancelOk, ReplaceCancelError, WithOrder
  <2>2. /\ EndOrder(proc[Market].order) \/ UNCHANGED exchange
        /\ UNCHANGED <<memory, index, ids, held, disk, crashes>>
    BY <1>2 DEF ReplaceCancelOk, ReplaceCancelError, counts
  <2>. QED
    BY <2>1, <2>2, EndOrderStep
<1>. QED
  BY <1>1, <1>2

\* Steps of the exchange while no goroutine moves.
LEMMA ExchangeTraced ==
  ASSUME TypeOK, NEW own, Traced(own),
         Quiet, UNCHANGED proc, NewsFits'
  PROVE  AllTraced'
BY WorkersStay, QuietStep DEF Traced, Quiet

LEMMA AsyncCancelTraced ==
  ASSUME TypeOK, NEW own, Traced(own), NEW o, AsyncCancel(o)
  PROVE  AllTraced'
<1>1. UNCHANGED <<tasks, clientIndex, orderIndex, nCids, disk, held, crashes, proc>>
  BY DEF AsyncCancel, memory, index, ids, counts
<1>2. OrdersKept /\ DOMAIN orders' = DOMAIN orders /\ NewsFits'
  <2>1. CASE EndOrder(o)
    BY <2>1, EndOrderKeeps DEF Traced
  <2>2. CASE UNCHANGED exchange
    <3>1. UNCHANGED <<orders, stream>>
      BY <2>2 DEF exchange
    <3>. QED
      BY <3>1, SameOrders, NewsOn DEF Traced
  <2>. QED
    BY <2>1, <2>2 DEF AsyncCancel
<1>. QED
  BY <1>1, <1>2, ExchangeTraced DEF Quiet

LEMMA MarketTraced ==
  ASSUME TypeOK, NEW own, Traced(own), MarketStream
  PROVE  AllTraced'
<1>1. CASE \/ \E k \in Ticks : OnMarket(k)
           \/ \E t \in DOMAIN tasks : SkipReplace(t)
           \/ \E n \in DOMAIN plans : SkipTrigger(n)
           \/ \E k \in cooling : CooldownEnds(k)
  <2>1. Local /\ UNCHANGED <<tasks, proc>>
    BY <1>1 DEF OnMarket, SkipReplace, SkipTrigger, CooldownEnds, Local, memory,
       index, ids, exchange, counts
  <2>. QED
    BY <2>1, StayStep
<1>. QED
  BY <1>1, ReplaceTraced, RenameTraced, TriggerTraced, AsyncCancelTraced DEF MarketStream

-----------------------------------------------------------------------------
(* The user stream *)

LEMMA HeadFacts ==
  ASSUME TypeOK, NewsFits, stream # <<>>, stream' = Tail(stream), UNCHANGED orders
  PROVE  /\ Head(stream).order \in DOMAIN orders /\ Head(stream) \in Event
         /\ Fits(Head(stream), orders) /\ NewsFits'
<1>1. /\ stream \in Seq(Event) /\ DOMAIN stream = 1..Len(stream) /\ Len(stream) \in Nat
  BY DEF TypeOK, ExchangeOK
<1>2. 1 \in DOMAIN stream /\ Head(stream) = stream[1]
  BY <1>1
<1>3. \A k \in DOMAIN stream' : k + 1 \in DOMAIN stream /\ stream'[k] = stream[k + 1]
  BY <1>1
<1>4. NewsFits'
  BY <1>3, SameOrders, NewsOn
<1>. QED
  BY <1>2, <1>4, OrderFacts DEF NewsFits

\* Whatever index leads an event to a task, it is the task that asked for the
\* order of the event.
LEMMA EventFindsTask ==
  ASSUME TypeOK, NEW own, Traced(own), NEW e, e.order \in DOMAIN orders,
         Fits(e, orders), TaskOf(e) \in DOMAIN tasks
  PROVE  orders[e.order].task = TaskOf(e)
<1>1. CASE e.cid \in DOMAIN clientIndex
  <2>1. own[e.cid] = orders[e.order].task
    BY DEF Traced, OrdersFit, Fits
  <2>. QED
    BY <1>1, <2>1 DEF Traced, IndexFits, TaskOf
<1>2. CASE e.cid \notin DOMAIN clientIndex /\ e.order \in DOMAIN orderIndex
  BY <1>2 DEF Traced, IndexFits, TaskOf
<1>3. CASE e.cid \notin DOMAIN clientIndex /\ e.order \notin DOMAIN orderIndex
  BY <1>3, MemoryFacts DEF TaskOf
<1>. QED
  BY <1>1, <1>2, <1>3

LEMMA UserTraced ==
  ASSUME TypeOK, NEW own, Traced(own), UserStream
  PROVE  AllTraced'
<1>1. CASE IgnoreUpdate
  <2>1. /\ UNCHANGED <<tasks, clientIndex, orderIndex, nCids, disk, held, crashes,
                      proc, orders>>
        /\ stream # <<>> /\ stream' = Tail(stream)
    BY <1>1 DEF IgnoreUpdate, memory, index, ids, counts
  <2>. QED
    BY <2>1, HeadFacts, SameOrders, ExchangeTraced DEF Traced, Quiet
<1>2. CASE OnOrderUpdate
  <2>. DEFINE e      == Head(stream)
              t      == TaskOf(e)
              o      == e.order
              filled == FilledAfter(tasks[t].filled, e)
              status == StatusAfter(tasks[t].status, e.status)
              task   == [tasks[t] EXCEPT !.orderID = e.order, !.cid = e.cid,
                                         !.filled = filled, !.status = status]
  <2>1. /\ t \in DOMAIN tasks /\ tasks' = [tasks EXCEPT ![t] = task]
        /\ stream # <<>> /\ stream' = Tail(stream)
        /\ clientIndex' = Put(clientIndex, e.cid, t)
        /\ orderIndex' = Put(orderIndex, o, t)
        /\ UNCHANGED <<nCids, disk, held, crashes, orders>>
    BY <1>2 DEF OnOrderUpdate, counts
  <2>2. o \in DOMAIN orders /\ e \in Event /\ Fits(e, orders) /\ NewsFits'
    BY <2>1, HeadFacts DEF Traced
  <2>3. orders[o].task = t
    BY <2>1, <2>2, EventFindsTask
  <2>4. tasks[t] \in Task /\ tasks[t].filled \in Nat
    <3>1. tasks[t] \in Task
      BY <2>1, MemoryFacts
    <3>. QED
      BY <3>1 DEF Task
  <2>5. /\ e.cid \in Nat /\ e.filled \in Nat /\ o \in Nat /\ filled \in Nat
        /\ filled <= tasks[t].filled \/ filled <= orders[o].filled
        /\ status \in TaskStatuses
    BY <2>2, <2>4 DEF FilledAfter, StatusAfter, Event, EventStatuses, Fits, Task,
       TaskStatuses, ActiveStatuses
  <2>6. /\ task \in Task /\ task.cid = orders[o].cid /\ task.orderID = o
        /\ task.filled = filled
    <3>. DEFINE New(u, c, f, s) == [tasks[t] EXCEPT !.orderID = u, !.cid = c,
                                                    !.filled = f, !.status = s]
    <3>1. ASSUME NEW u \in Nat, NEW c \in Nat, NEW f \in Nat, NEW s \in TaskStatuses
          PROVE  /\ New(u, c, f, s) \in Task /\ New(u, c, f, s).filled = f
                 /\ New(u, c, f, s).cid = c /\ New(u, c, f, s).orderID = u
      BY <2>4 DEF Task
    <3>2. task = New(o, e.cid, filled, status) /\ e.cid = orders[o].cid
      BY <2>2 DEF Fits
    <3>3. o \in Nat /\ e.cid \in Nat /\ filled \in Nat /\ status \in TaskStatuses
      BY <2>5
    <3>. HIDE DEF New, task, e, o, filled, status
    <3>4. /\ New(o, e.cid, filled, status) \in Task
          /\ New(o, e.cid, filled, status).filled = filled
          /\ New(o, e.cid, filled, status).cid = e.cid
          /\ New(o, e.cid, filled, status).orderID = o
      BY <3>1, <3>3
    <3>. QED
      BY <3>2, <3>4
  <2>7. WorkersFit'
    <3>1. User \in Procs
      BY DEF Procs
    <3>2. Moves(User) /\ proc'[User].at \notin WithOrder
      BY <1>2, <3>1, Persisting DEF OnOrderUpdate
    <3>. QED
      BY <2>1, <3>1, <3>2, SameOrders, NoOrder, WorkersOn DEF Traced
  <2>8. e.cid = orders[o].cid
    BY <2>2 DEF Fits
  <2>. HIDE DEF task, filled, status, e, t
  <2>. QED
    BY <2>1, <2>2, <2>3, <2>5, <2>6, <2>7, <2>8, TakeOver
<1>. QED
  BY <1>1, <1>2 DEF UserStream

-----------------------------------------------------------------------------
(* Saves, reconcile, the exchange and a restart *)

LEMMA NothingCarries == ASSUME NEW os, NEW own PROVE Carries(NoSnapshot.tasks, os, own)
BY DEF Carries, NoSnapshot, Empty

LEMMA StorageTraced ==
  ASSUME TypeOK, NEW own, Traced(own), NEW p \in Procs, Clone(p) \/ Save(p)
  PROVE  AllTraced'
<1>1. UNCHANGED <<memory, tasks, clientIndex, orderIndex, nCids, crashes, orders, stream>>
  BY DEF Clone, Save, memory, index, ids, counts, exchange
<1>2. OrdersKept /\ DOMAIN orders' = DOMAIN orders /\ NewsFits'
  BY <1>1, SameOrders, NewsOn DEF Traced
<1>3. Moves(p) /\ proc'[p].at \notin WithOrder
  <2>1. CASE Clone(p)
    <3>1. Moves(p) /\ proc'[p].at = "save"
      BY <2>1, Moving DEF Clone
    <3>. QED
      BY <3>1 DEF WithOrder
  <2>2. CASE Save(p)
    <3>1. proc[p].then \in {"idle", "place", "clone"}
      BY DEF TypeOK, ProcOK, StateOK
    <3>. QED
      BY <2>2, <3>1, Resuming DEF Save
  <2>. QED
    BY <2>1, <2>2
<1>4. ImagesCarry(own)'
  <2>1. /\ Memory' = Memory
        /\ disk' \in Images /\ \A q \in Procs : held'[q] \in Images \cup {NoSnapshot}
    <3>1. held = [q \in Procs |-> held[q]]
      BY DEF TypeOK, ImagesOK
    <3>2. Memory' = Memory
      BY <1>1 DEF Memory, memory
    <3>3. CASE Clone(p)
      BY <3>1, <3>2, <3>3 DEF Clone, Images
    <3>4. CASE Save(p)
      BY <3>1, <3>2, <3>4 DEF Save, Images
    <3>. QED
      BY <3>2, <3>3, <3>4
  <2>2. \A i \in Images' : i \in Images \cup {NoSnapshot}
    BY <2>1 DEF Images
  <2>. QED
    BY <1>1, <2>2, NothingCarries DEF ImagesCarry, Traced
<1>5. own \in [1..nCids' -> Nat] /\ Extends(own, own)
  BY <1>1 DEF Traced, Extends
<1>6. IndexFits(own)' /\ OrdersFit(own)'
  BY <1>1 DEF Traced, IndexFits, OrdersFit
<1>7. WorkersFit'
  BY <1>2, <1>3, NoOrder, WorkersOn DEF Traced
<1>. QED
  BY <1>2, <1>4, <1>5, <1>6, <1>7 DEF Traced, AllTraced

LEMMA ReconcilerTraced ==
  ASSUME TypeOK, NEW own, Traced(own), Reconciler
  PROVE  AllTraced'
<1>. Reconcile \in Procs
  BY DEF Procs
<1>1. CASE \E s \in Symbols : ReadFails(s)
  <2>1. Local /\ UNCHANGED <<tasks, proc>>
    BY <1>1 DEF ReadFails, Local, memory, index, ids, exchange, counts
  <2>. QED
    BY <2>1, StayStep
<1>2. CASE \/ StartRound \/ MarkNeeds \/ EndRound
           \/ \E s \in Symbols : ReadPositions(s)
  <2>1. Local /\ UNCHANGED tasks
    BY <1>2 DEF StartRound, ReadPositions, MarkNeeds, EndRound, Local, memory, index,
       ids, exchange, counts
  <2>2. Moves(Reconcile) /\ proc'[Reconcile].at \notin WithOrder
    <3>1. CASE StartRound
      BY <3>1, Going DEF StartRound, WithOrder
    <3>2. CASE \E s \in Symbols : ReadPositions(s)
      <4>1. Moves(Reconcile) /\ proc'[Reconcile].at = "mark"
        BY <3>2, Moving DEF ReadPositions
      <4>. QED
        BY <4>1 DEF WithOrder
    <3>3. CASE MarkNeeds
      <4>1. Moves(Reconcile) /\ proc'[Reconcile].at = "read"
        BY <3>3, Moving DEF MarkNeeds
      <4>. QED
        BY <4>1 DEF WithOrder
    <3>4. CASE EndRound
      BY <3>4, Persisting DEF EndRound
    <3>. QED
      BY <1>2, <3>1, <3>2, <3>3, <3>4
  <2>. QED
    BY <2>1, <2>2, NoOrder, GoStep
<1>. QED
  BY <1>1, <1>2 DEF Reconciler

LEMMA TradingTraced ==
  ASSUME TypeOK, NEW own, Traced(own), Trading \/ Disconnect \/ Reconnect
  PROVE  AllTraced'
<1>1. UNCHANGED <<tasks, clientIndex, orderIndex, nCids, disk, held, crashes, proc>>
  BY DEF Trading, Fill, Expire, Disconnect, Reconnect, memory, index, ids, counts
<1>2. OrdersKept /\ DOMAIN orders' = DOMAIN orders /\ NewsFits'
  <2>1. ASSUME NEW o \in DOMAIN orders, NEW n \in 1..orders[o].qty, Fill(o, n)
        PROVE  OrdersKept /\ DOMAIN orders' = DOMAIN orders /\ NewsFits'
    BY <2>1, FillKeeps DEF Traced
  <2>2. ASSUME NEW o, Expire(o)
        PROVE  OrdersKept /\ DOMAIN orders' = DOMAIN orders /\ NewsFits'
    BY <2>2, EndOrderKeeps DEF Traced, Expire
  <2>3. CASE Disconnect
    <3>1. PICK n \in 0..Len(stream) : stream' = SubSeq(stream, 1, n)
      BY <2>3 DEF Disconnect
    <3>2. stream \in Seq(Event) /\ orders' = orders
      BY <2>3 DEF TypeOK, ExchangeOK, Disconnect
    <3>3. \A k \in DOMAIN stream' : k \in DOMAIN stream /\ stream'[k] = stream[k]
      BY <3>1, <3>2
    <3>. QED
      BY <3>2, <3>3, SameOrders, NewsOn DEF Traced
  <2>4. CASE Reconnect
    BY <2>4, SameOrders, NewsOn DEF Traced, Reconnect
  <2>. QED
    BY <2>1, <2>2, <2>3, <2>4 DEF Trading
<1>. QED
  BY <1>1, <1>2, ExchangeTraced DEF Quiet

\* A rebuilt index leads from an id to a task that has it.
LEMMA Rebuilt ==
  ASSUME NEW ts, NEW field
  PROVE  /\ \A id \in DOMAIN RebuildIndex(ts, field) :
              /\ id # 0 /\ RebuildIndex(ts, field)[id] \in DOMAIN ts
              /\ ts[RebuildIndex(ts, field)[id]][field] = id
         /\ \A t \in DOMAIN ts : ts[t][field] # 0 =>
              ts[t][field] \in DOMAIN RebuildIndex(ts, field)
<1>1. ASSUME NEW id \in IdsIn(ts, field)
      PROVE  /\ TaskWith(ts, field, id) \in DOMAIN ts
             /\ ts[TaskWith(ts, field, id)][field] = id /\ id # 0
  BY DEF IdsIn, TaskWith
<1>2. \A t \in DOMAIN ts : ts[t][field] # 0 => ts[t][field] \in IdsIn(ts, field)
  BY DEF IdsIn
<1>. QED
  BY <1>1, <1>2 DEF RebuildIndex

LEMMA CrashTraced ==
  ASSUME TypeOK, NEW own, Traced(own), Crash
  PROVE  AllTraced'
<1>1. /\ UNCHANGED <<nCids, disk, orders>> /\ tasks' = disk.tasks
      /\ clientIndex' = RebuildIndex(disk.tasks, "cid")
      /\ orderIndex' = RebuildIndex(disk.tasks, "orderID")
      /\ proc' = [p \in Procs |-> Idle] /\ held' = [p \in Procs |-> NoSnapshot]
      /\ stream' = <<>> /\ crashes' = crashes + 1
  BY DEF Crash, ids
<1>2. Carries(disk.tasks, orders, own)
  BY DEF Traced, ImagesCarry, Images
<1>3. ImagesCarry(own)'
  <2>1. \A i \in Images' : i = Memory' \/ i = disk \/ i = NoSnapshot
    BY <1>1 DEF Images
  <2>2. Memory'.tasks = disk.tasks
    BY <1>1 DEF Memory
  <2>. QED
    BY <1>1, <1>2, <2>1, <2>2, NothingCarries DEF ImagesCarry
<1>4. IndexFits(own)'
  <2>1. \A t \in DOMAIN disk.tasks : disk.tasks[t].cid # 0
    BY MemoryFacts DEF TypeOK, ImagesOK, Snapshot, SnapshotOf
  <2>2. \A c \in DOMAIN clientIndex' : clientIndex'[c] = own[c]
    <3>. SUFFICES ASSUME NEW c \in DOMAIN clientIndex' PROVE clientIndex'[c] = own[c]
      OBVIOUS
    <3>1. clientIndex'[c] \in DOMAIN disk.tasks /\ disk.tasks[clientIndex'[c]].cid = c
      BY <1>1, Rebuilt
    <3>. QED
      BY <1>2, <3>1 DEF Carries
  <2>3. \A o \in DOMAIN orderIndex' : orderIndex'[o] = orders[o].task
    <3>. SUFFICES ASSUME NEW o \in DOMAIN orderIndex'
                  PROVE  orderIndex'[o] = orders[o].task
      OBVIOUS
    <3>1. /\ orderIndex'[o] \in DOMAIN disk.tasks /\ o # 0
          /\ disk.tasks[orderIndex'[o]].orderID = o
      BY <1>1, Rebuilt
    <3>. QED
      BY <1>2, <3>1 DEF Carries
  <2>4. \A t \in DOMAIN tasks' : tasks'[t].cid \in DOMAIN clientIndex'
    BY <1>1, <2>1, Rebuilt
  <2>. QED
    BY <1>1, <2>2, <2>3, <2>4 DEF IndexFits
<1>5. OrdersFit(own)'
  <2>1. crashes \in Nat /\ \A o \in DOMAIN orders : orders[o].era \in Nat
    BY OrderFacts DEF TypeOK, CountsOK
  <2>. QED
    BY <1>1, <2>1 DEF Traced, OrdersFit
<1>6. NewsFits' /\ WorkersFit'
  <2>1. \A p \in Procs : proc'[p].at \notin WithOrder
    BY <1>1 DEF Idle, WithOrder
  <2>. QED
    BY <1>1, <2>1 DEF NewsFits, WorkersFit, WorkerFits
<1>7. own \in [1..nCids' -> Nat]
  BY <1>1 DEF Traced
<1>. QED
  BY <1>3, <1>4, <1>5, <1>6, <1>7 DEF Traced, AllTraced

-----------------------------------------------------------------------------
(* The theorems *)

LEMMA TracedInit == Init => AllTraced
<1>. SUFFICES ASSUME Init PROVE AllTraced
  OBVIOUS
<1>. DEFINE own == [c \in 1..0 |-> 0]
<1>1. own \in [1..nCids -> Nat]
  BY DEF Init
<1>2. ImagesCarry(own)
  <2>1. \A i \in Images : i = NoSnapshot
    BY DEF Init, Images, Memory, NoSnapshot
  <2>. QED
    BY <2>1, NothingCarries DEF ImagesCarry
<1>3. IndexFits(own) /\ OrdersFit(own) /\ NewsFits
  BY DEF Init, IndexFits, OrdersFit, NewsFits, Empty
<1>4. WorkersFit
  BY DEF Init, WorkersFit, WorkerFits, Idle, WithOrder
<1>. QED
  BY <1>1, <1>2, <1>3, <1>4 DEF Traced, AllTraced

LEMMA TracedStep == TypeOK /\ AllTraced /\ [Next]_vars => AllTraced'
<1>. SUFFICES ASSUME TypeOK, AllTraced, [Next]_vars PROVE AllTraced'
  OBVIOUS
<1>. PICK own \in [1..nCids -> Nat] : Traced(own)
  BY DEF AllTraced
<1>1. CASE Storage
  BY <1>1, StorageTraced DEF Storage
<1>2. CASE PlaceTask
  BY <1>2, PlaceTraced
<1>3. CASE Control
  BY <1>3, ControlTraced
<1>4. CASE MarketStream
  BY <1>4, MarketTraced
<1>5. CASE UserStream
  BY <1>5, UserTraced
<1>6. CASE Reconciler
  BY <1>6, ReconcilerTraced
<1>7. CASE Trading \/ Disconnect \/ Reconnect
  BY <1>7, TradingTraced
<1>8. CASE Crash
  BY <1>8, CrashTraced
<1>9. CASE UNCHANGED vars
  <2>1. Local /\ UNCHANGED <<tasks, proc>>
    BY <1>9 DEF vars, Local, memory, index, ids, exchange, counts
  <2>. QED
    BY <2>1, StayStep
<1>. QED
  BY <1>1, <1>2, <1>3, <1>4, <1>5, <1>6, <1>7, <1>8, <1>9 DEF Next, Work

LEMMA TracedAttribution == TypeOK /\ AllTraced => Attribution
<1>. SUFFICES ASSUME TypeOK, AllTraced PROVE Attribution
  OBVIOUS
<1>. PICK own \in [1..nCids -> Nat] : Traced(own)
  BY DEF AllTraced
<1>1. \A o \in DOMAIN orders : orders[o].cid \in DOMAIN clientIndex =>
        clientIndex[orders[o].cid] = orders[o].task
  BY DEF Traced, OrdersFit, IndexFits
<1>2. \A t \in DOMAIN tasks : tasks[t].orderID # 0 => orders[tasks[t].orderID].task = t
  BY MemoryCarries DEF Traced, Carries
<1>. QED
  BY <1>1, <1>2 DEF Attribution, Traced, OrdersFit, IndexFits, WorkersFit, WorkerFits,
     WithOrder

LEMMA TracedFilled == AllTraced => FilledIsReal
<1>. SUFFICES ASSUME AllTraced PROVE FilledIsReal
  OBVIOUS
<1>. PICK own \in [1..nCids -> Nat] : Traced(own)
  BY DEF AllTraced
<1>. QED
  BY DEF Traced, ImagesCarry, Carries, FilledIsReal, OrdersOf

\* Every event finds its way home: whatever renames, lost replies, events of
\* orders long replaced, out-of-order saves and restarts there were, no index,
\* cancel, reply or order id of a task leads to the order of another task, and
\* an order of this run is indexed before the exchange can report on it
\* (SubmitEntry, triggerPlan, maybeReplace, placeTask, OnOrderUpdate, New).
THEOREM OrdersAreAttributed == Spec => []Attribution
<1>1. Init => TypeOK /\ AllTraced
  BY TypeInit, TracedInit
<1>2. TypeOK /\ AllTraced /\ [Next]_vars => (TypeOK /\ AllTraced)'
  BY TypeStep, TracedStep
<1>. QED
  BY <1>1, <1>2, TracedAttribution, PTL DEF Spec

\* What a task reports as filled, in memory or in a snapshot, one order of it
\* has filled: no duplicate, late or stray event and no restart counts a fill
\* twice or for another task (OnOrderUpdate, persist, New).
THEOREM FillsAreReal == Spec => []FilledIsReal
<1>1. Init => TypeOK /\ AllTraced
  BY TypeInit, TracedInit
<1>2. TypeOK /\ AllTraced /\ [Next]_vars => (TypeOK /\ AllTraced)'
  BY TypeStep, TracedStep
<1>. QED
  BY <1>1, <1>2, TracedFilled, PTL DEF Spec

-----------------------------------------------------------------------------
(* A settled task, as long as the daemon does not crash                    *)

\* No partial fill of an order of task t is unread, and none of its orders is
\* live.
NoPartUnread(t) ==
  \A k \in DOMAIN stream : orders[stream[k].order].task = t =>
    stream[k].status # "PARTIALLY_FILLED"
Calm(t) == LiveOrdersOf(t) = {} /\ NoPartUnread(t)

LEMMA CalmEmit ==
  ASSUME TypeOK, NEW t, Calm(t), OrdersKept, NEW e, Emit(e),
         orders'[e.order].task # t
  PROVE  NoPartUnread(t)'
<1>1. stream \in Seq(Event) /\ DOMAIN stream = 1..Len(stream)
  BY DEF TypeOK, ExchangeOK
<1>2. \A k \in DOMAIN stream : orders'[stream[k].order].task = t =>
        stream[k].status # "PARTIALLY_FILLED"
  BY OrderFacts DEF Calm, NoPartUnread, OrdersKept
<1>3. ASSUME NEW k \in DOMAIN stream'
      PROVE  (\E j \in DOMAIN stream : stream'[k] = stream[j]) \/ stream'[k] = e
  <2>1. CASE stream' = stream
    BY <2>1
  <2>2. CASE stream' = Append(stream, e)
    BY <1>1, <2>2
  <2>. QED
    BY <2>1, <2>2 DEF Emit
<1>. QED
  BY <1>2, <1>3 DEF NoPartUnread

LEMMA CalmStay ==
  ASSUME NEW t, Calm(t), UNCHANGED <<orders, stream>>
  PROVE  Calm(t)'
BY DEF Calm, NoPartUnread, LiveOrdersOf, OrdersOf

LEMMA CalmEndOrder ==
  ASSUME TypeOK, NewsFits, NEW t, Calm(t), NEW o, EndOrder(o)
  PROVE  Calm(t)'
<1>1. OrdersKept /\ DOMAIN orders' = DOMAIN orders
  BY EndOrderKeeps
<1>2. o \in DOMAIN orders /\ orders[o].live /\ orders[o].task # t
  BY DEF Calm, EndOrder, LiveOrdersOf, OrdersOf
<1>3. orders'[o].task # t
  BY <1>1, <1>2 DEF OrdersKept
<1>4. \A u \in DOMAIN orders : u # o => orders'[u] = orders[u]
  BY DEF EndOrder
<1>5. \A u \in DOMAIN orders' : ~(orders'[u].task = t /\ orders'[u].live)
  BY <1>1, <1>3, <1>4 DEF Calm, LiveOrdersOf, OrdersOf
<1>6. Emit(EventOf(o, orders[o], "CANCELED"))
      /\ EventOf(o, orders[o], "CANCELED").order = o
  BY DEF EndOrder, EventOf
<1>7. NoPartUnread(t)'
  <2>. DEFINE e == EventOf(o, orders[o], "CANCELED")
  <2>1. Emit(e) /\ orders'[e.order].task # t
    BY <1>3, <1>6
  <2>. HIDE DEF e
  <2>. QED
    BY <1>1, <2>1, CalmEmit
<1>. QED
  BY <1>5, <1>7 DEF Calm, LiveOrdersOf, OrdersOf

LEMMA CalmFill ==
  ASSUME TypeOK, NewsFits, NEW t, Calm(t), NEW o \in DOMAIN orders,
         NEW n \in 1..orders[o].qty, Fill(o, n)
  PROVE  Calm(t)'
<1>. DEFINE after == [orders[o] EXCEPT !.filled = orders[o].filled + n,
                                      !.live = orders[o].filled + n < orders[o].qty]
            e == EventOf(o, after, IF after.live THEN "PARTIALLY_FILLED" ELSE "FILLED")
<1>1. OrdersKept /\ DOMAIN orders' = DOMAIN orders
  BY FillKeeps
<1>2. orders[o].task # t
  BY DEF Calm, Fill, LiveOrdersOf, OrdersOf
<1>3. orders'[o].task # t
  BY <1>1, <1>2 DEF OrdersKept
<1>4. \A u \in DOMAIN orders : u # o => orders'[u] = orders[u]
  BY DEF Fill
<1>5. \A u \in DOMAIN orders' : ~(orders'[u].task = t /\ orders'[u].live)
  BY <1>1, <1>3, <1>4 DEF Calm, LiveOrdersOf, OrdersOf
<1>6. Emit(e) /\ e.order = o
  BY DEF Fill, EventOf
<1>7. NoPartUnread(t)'
  <2>. HIDE DEF e
  <2>. QED
    BY <1>1, <1>3, <1>6, CalmEmit
<1>. QED
  BY <1>5, <1>7 DEF Calm, LiveOrdersOf, OrdersOf

LEMMA CalmAccept ==
  ASSUME TypeOK, NewsFits, NEW t, Calm(t), NEW u \in DOMAIN tasks, u # t, Accept(u)
  PROVE  Calm(t)'
<1>. DEFINE o == Len(orders) + 1
<1>1. /\ OrdersKept /\ DOMAIN orders' = DOMAIN orders \cup {o}
      /\ orders'[o].task # t
  BY AcceptKeeps
<1>2. \A v \in DOMAIN orders : orders'[v] = orders[v]
  BY OrderFacts DEF Accept, TypeOK, ExchangeOK
<1>3. \A v \in DOMAIN orders' : ~(orders'[v].task = t /\ orders'[v].live)
  BY <1>1, <1>2 DEF Calm, LiveOrdersOf, OrdersOf
<1>4. \E e : Emit(e) /\ e.order = o
  BY DEF Accept, EventOf
<1>5. NoPartUnread(t)'
  BY <1>1, <1>4, CalmEmit
<1>. QED
  BY <1>3, <1>5 DEF Calm, LiveOrdersOf, OrdersOf

LEMMA CalmSub ==
  ASSUME NEW t, Calm(t), UNCHANGED orders,
         \A k \in DOMAIN stream' : \E j \in DOMAIN stream : stream'[k] = stream[j]
  PROVE  Calm(t)'
BY DEF Calm, NoPartUnread, LiveOrdersOf, OrdersOf

LEMMA CalmTail ==
  ASSUME TypeOK, NEW t, Calm(t), UNCHANGED orders,
         stream # <<>>, stream' = Tail(stream)
  PROVE  Calm(t)'
<1>1. /\ stream \in Seq(Event) /\ DOMAIN stream = 1..Len(stream)
      /\ Len(stream) \in Nat
  BY DEF TypeOK, ExchangeOK
<1>2. \A k \in DOMAIN stream' : k + 1 \in DOMAIN stream /\ stream'[k] = stream[k + 1]
  BY <1>1
<1>. QED
  BY <1>2, CalmSub

LEMMA CalmPrefix ==
  ASSUME TypeOK, NEW t, Calm(t), UNCHANGED orders,
         NEW n \in 0..Len(stream), stream' = SubSeq(stream, 1, n)
  PROVE  Calm(t)'
<1>1. stream \in Seq(Event)
  BY DEF TypeOK, ExchangeOK
<1>2. \A k \in DOMAIN stream' : k \in DOMAIN stream /\ stream'[k] = stream[k]
  BY <1>1
<1>. QED
  BY <1>2, CalmSub

\* A goroutine in state r does not place task t.
Leaves(r, t) ==
  r.task # t \/ r.at = "cancel" \/ (r.at \in {"clone", "save"} /\ r.then = "idle")

LEMMA PlacingNone == ASSUME NEW t PROVE ~Placing(t) <=> \A p \in Procs : Leaves(proc[p], t)
BY DEF Placing, Leaves

LEMMA LeavesOn ==
  ASSUME NEW t, ~Placing(t), NEW p \in Procs, Moves(p), Leaves(proc'[p], t)
  PROVE  ~Placing(t)'
BY DEF Placing, Leaves, Moves

LEMMA LeavesStay == ASSUME NEW t, ~Placing(t), UNCHANGED proc PROVE ~Placing(t)'
BY DEF Placing

LEMMA DoneLeaves ==
  ASSUME TypeOK, NEW t \in DOMAIN tasks, ~Placing(t), NEW p \in Procs, Done(p)
  PROVE  ~Placing(t)'
<1>1. Moves(p) /\ proc'[p] = Idle
  BY DEF TypeOK, ProcOK, Done, Moves
<1>2. t # 0
  BY MemoryFacts
<1>. QED
  BY <1>1, <1>2, LeavesOn DEF Idle, Leaves

LEMMA ResumeLeaves ==
  ASSUME TypeOK, NEW t \in DOMAIN tasks, ~Placing(t), NEW p \in Procs,
         NEW label, NEW u, NEW o, label = "idle" \/ u # t, Resume(p, label, u, o)
  PROVE  ~Placing(t)'
BY DoneLeaves, Going, LeavesOn DEF Resume, Leaves

LEMMA MoveLeaves ==
  ASSUME TypeOK, NEW t, ~Placing(t), NEW p \in Procs, NEW label,
         proc[p].task # t, proc' = [proc EXCEPT ![p].at = label]
  PROVE  ~Placing(t)'
<1>1. Moves(p)
  BY Moving
<1>2. proc'[p].task = proc[p].task
  BY DEF TypeOK, ProcOK, StateOK
<1>. QED
  BY <1>1, <1>2, LeavesOn DEF Leaves

LEMMA GoLeaves ==
  ASSUME TypeOK, NEW t, ~Placing(t), NEW p \in Procs, NEW label, NEW u, NEW o,
         Goto(p, label, "idle", u, o), u # t \/ label = "cancel"
  PROVE  ~Placing(t)'
BY Going, LeavesOn DEF Leaves

\* Where no crash can come nothing is saved.
LEMMA PersistLeaves ==
  ASSUME TypeOK, MaxCrashes = 0, NEW t \in DOMAIN tasks, ~Placing(t),
         NEW p \in Procs, NEW then, NEW u, NEW o, then = "idle" \/ u # t,
         Persist(p, then, u, o)
  PROVE  ~Placing(t)'
<1>1. ~MayCrash
  BY DEF TypeOK, CountsOK, MayCrash
<1>. QED
  BY <1>1, ResumeLeaves DEF Persist

Over(t) == t \in DOMAIN tasks /\ tasks[t].status \in Ended

LEMMA SettledParts == ASSUME NEW t PROVE Settled(t) <=> Over(t) /\ ~Placing(t) /\ Calm(t)
BY DEF Settled, Over, Calm, NoPartUnread

LEMMA OverStays ==
  ASSUME NEW t, Over(t), UNCHANGED tasks
  PROVE  Over(t)'
BY DEF Over

LEMMA SettledPlace ==
  ASSUME TypeOK, NEW own, Traced(own), NEW t, Over(t), ~Placing(t), Calm(t), PlaceTask
  PROVE  Settled(t)'
<1>. PICK p \in Procs : \/ PlaceStart(p) \/ PlaceAccepted(p) \/ PlaceRejected(p)
                        \/ PlaceDone(p) \/ PlaceFailed(p)
  BY DEF PlaceTask
<1>. DEFINE u == proc[p].task
<1>1. t \in DOMAIN tasks /\ u \in DOMAIN tasks
  BY Worker DEF PlaceStart, PlaceAccepted, PlaceRejected, PlaceDone, PlaceFailed, At, Over
<1>2. u # t
  BY DEF Placing, PlaceStart, PlaceAccepted, PlaceRejected, PlaceDone, PlaceFailed, At
<1>3. Over(t)'
  BY <1>1, <1>2, MemoryFacts DEF Over, PlaceStart, PlaceAccepted, PlaceRejected,
     PlaceDone, PlaceFailed, memory
<1>4. Calm(t)'
  <2>1. CASE PlaceAccepted(p)
    BY <1>1, <1>2, <2>1, CalmAccept DEF PlaceAccepted, Traced
  <2>2. CASE PlaceStart(p) \/ PlaceRejected(p) \/ PlaceDone(p) \/ PlaceFailed(p)
    <3>1. UNCHANGED <<orders, stream>>
      BY <2>2 DEF PlaceStart, PlaceRejected, PlaceDone, PlaceFailed, exchange
    <3>. QED
      BY <3>1, CalmStay
  <2>. QED
    BY <2>1, <2>2
<1>5. ~Placing(t)'
  <2>1. CASE PlaceStart(p)
    BY <1>2, <2>1, MoveLeaves DEF PlaceStart
  <2>2. CASE PlaceAccepted(p)
    BY <1>2, <2>2, GoLeaves DEF PlaceAccepted
  <2>3. CASE PlaceRejected(p)
    BY <1>2, <2>3, GoLeaves DEF PlaceRejected
  <2>4. CASE PlaceDone(p)
    <3>1. Persist(p, "idle", u, proc[p].order)
      BY <2>4 DEF PlaceDone
    <3>2. CASE MayCrash
      BY <1>2, <3>1, <3>2, Going, LeavesOn DEF Persist, Leaves
    <3>3. CASE ~MayCrash
      BY <1>1, <3>1, <3>3, ResumeLeaves DEF Persist
    <3>. QED
      BY <3>2, <3>3
  <2>5. CASE PlaceFailed(p)
    BY <1>1, <2>5, DoneLeaves DEF PlaceFailed
  <2>. QED
    BY <2>1, <2>2, <2>3, <2>4, <2>5
<1>. QED
  BY <1>3, <1>4, <1>5 DEF Settled, Over, Calm, NoPartUnread

LEMMA SettledStorage ==
  ASSUME TypeOK, NEW t, Over(t), ~Placing(t), Calm(t), NEW p \in Procs,
         Clone(p) \/ Save(p)
  PROVE  Settled(t)'
<1>1. UNCHANGED <<tasks, orders, stream>> /\ t \in DOMAIN tasks
  BY DEF Clone, Save, memory, exchange, Over
<1>2. ~Placing(t)'
  <2>1. Leaves(proc[p], t)
    BY PlacingNone
  <2>2. CASE Clone(p)
    <3>1. Moves(p)
      BY <2>2, Moving DEF Clone
    <3>2. proc'[p] = [proc[p] EXCEPT !.at = "save"] /\ proc[p].at = "clone"
      BY <2>2 DEF TypeOK, ProcOK, Clone, At
    <3>3. proc'[p].task = proc[p].task /\ proc'[p].then = proc[p].then
          /\ proc'[p].at = "save"
      BY <3>2 DEF TypeOK, ProcOK, StateOK
    <3>. QED
      BY <2>1, <3>1, <3>2, <3>3, LeavesOn DEF Leaves
  <2>3. CASE Save(p)
    <3>1. Resume(p, proc[p].then, proc[p].task, proc[p].order)
          /\ (proc[p].then = "idle" \/ proc[p].task # t)
      BY <2>1, <2>3 DEF Save, At, Leaves
    <3>. QED
      BY <1>1, <3>1, ResumeLeaves
  <2>. QED
    BY <2>2, <2>3
<1>. QED
  BY <1>1, <1>2, OverStays, CalmStay DEF Settled, Over, Calm, NoPartUnread

LEMMA SettledEndOrder ==
  ASSUME TypeOK, NEW own, Traced(own), NEW t, Over(t), Calm(t), ~Placing(t)',
         UNCHANGED tasks, NEW o, EndOrder(o) \/ UNCHANGED exchange
  PROVE  Settled(t)'
<1>1. Calm(t)'
  BY CalmEndOrder, CalmStay DEF Traced, exchange
<1>. QED
  BY <1>1, OverStays DEF Settled, Over, Calm, NoPartUnread

LEMMA AddTaskOver ==
  ASSUME TypeOK, NEW t, Over(t), NEW ts, DOMAIN ts = DOMAIN tasks,
         ts[t].status \in Ended, NEW task, AddTask(ts, task)
  PROVE  Over(t)' /\ nTasks + 1 # t
<1>1. nTasks + 1 # t /\ t \in DOMAIN ts
  BY MemoryFacts DEF Over
<1>. QED
  BY <1>1 DEF AddTask, Put, Over

LEMMA SettledControl ==
  ASSUME MaxCrashes = 0, TypeOK, NEW own, Traced(own), NEW t, Over(t), ~Placing(t),
         Calm(t), Control
  PROVE  Settled(t)'
<1>. PICK h \in Handlers : \/ \E req \in Requests : Submit(h, req)
                           \/ \E u \in DOMAIN tasks : CancelTask(h, u)
                           \/ CancelOk(h) \/ CancelError(h)
  BY DEF Control
<1>0. h \in Procs /\ t \in DOMAIN tasks
  BY DEF Procs, Over
<1>1. ASSUME NEW req \in Requests, Submit(h, req)
      PROVE  Settled(t)'
  <2>1. UNCHANGED <<orders, stream>> /\ Persist(h, "place", nTasks + 1, 0)
    BY <1>1 DEF Submit, exchange
  <2>2. Over(t)' /\ nTasks + 1 # t
    BY <1>1, AddTaskOver DEF Submit, Over
  <2>3. ~Placing(t)'
    BY <1>0, <2>1, <2>2, PersistLeaves
  <2>. QED
    BY <2>1, <2>2, <2>3, CalmStay DEF Settled, Over, Calm, NoPartUnread
<1>2. ASSUME NEW u \in DOMAIN tasks, CancelTask(h, u)
      PROVE  Settled(t)'
  <2>1. UNCHANGED <<orders, stream>>
    BY <1>2 DEF CancelTask, exchange
  <2>2. Over(t)'
    BY <1>0, <1>2, MemoryFacts DEF CancelTask, Over, Ended
  <2>3. ~Placing(t)'
    BY <1>0, <1>2, PersistLeaves, GoLeaves DEF CancelTask
  <2>. QED
    BY <2>1, <2>2, <2>3, CalmStay DEF Settled, Over, Calm, NoPartUnread
<1>3. CASE CancelOk(h) \/ CancelError(h)
  <2>1. /\ EndOrder(proc[h].order) \/ UNCHANGED exchange
        /\ UNCHANGED tasks
    BY <1>3 DEF CancelOk, CancelError, memory
  <2>2. ~Placing(t)'
    BY <1>0, <1>3, PersistLeaves, DoneLeaves DEF CancelOk, CancelError
  <2>. QED
    BY <2>1, <2>2, SettledEndOrder
<1>. QED
  BY <1>1, <1>2, <1>3

LEMMA SettledMarket ==
  ASSUME MaxCrashes = 0, TypeOK, NEW own, Traced(own), NEW t, Over(t), ~Placing(t),
         Calm(t), MarketStream
  PROVE  Settled(t)'
<1>0. Market \in Procs /\ t \in DOMAIN tasks
  BY DEF Procs, Over
<1>1. CASE \/ \E k \in Ticks : OnMarket(k)
           \/ \E u \in DOMAIN tasks : SkipReplace(u)
           \/ \E n \in DOMAIN plans : SkipTrigger(n)
           \/ \E k \in cooling : CooldownEnds(k)
  <2>1. UNCHANGED <<tasks, proc, orders, stream>>
    BY <1>1 DEF OnMarket, SkipReplace, SkipTrigger, CooldownEnds, memory, exchange
  <2>. QED
    BY <2>1, CalmStay, LeavesStay, OverStays DEF Settled, Over, Calm, NoPartUnread
<1>2. ASSUME NEW u \in DOMAIN tasks, StartReplace(u)
      PROVE  Settled(t)'
  <2>1. u # t
    BY <1>2 DEF StartReplace, WantsReplace, IsActive, ActiveStatuses, Over, Ended
  <2>2. UNCHANGED <<tasks, orders, stream>>
    BY <1>2 DEF StartReplace, memory, exchange
  <2>3. ~Placing(t)'
    BY <1>0, <1>2, <2>1, GoLeaves DEF StartReplace
  <2>. QED
    BY <2>2, <2>3, CalmStay, OverStays DEF Settled, Over, Calm, NoPartUnread
<1>3. CASE ReplaceCancelOk \/ ReplaceCancelError
  <2>1. /\ EndOrder(proc[Market].order) \/ UNCHANGED exchange
        /\ UNCHANGED tasks
    BY <1>3 DEF ReplaceCancelOk, ReplaceCancelError, memory
  <2>2. proc[Market].task # t
    BY <1>0, <1>3 DEF ReplaceCancelOk, ReplaceCancelError, At, Placing
  <2>3. ~Placing(t)'
    BY <1>0, <1>3, <2>2, MoveLeaves, DoneLeaves DEF ReplaceCancelOk, ReplaceCancelError
  <2>. QED
    BY <2>1, <2>3, SettledEndOrder
<1>4. CASE Rename
  <2>1. proc[Market].task # t /\ UNCHANGED <<orders, stream>>
    BY <1>0, <1>4 DEF Rename, At, Placing, exchange
  <2>2. Over(t)'
    BY <1>0, <1>4, <2>1, MemoryFacts DEF Rename, Over
  <2>3. ~Placing(t)'
    BY <1>0, <1>4, <2>1, MoveLeaves DEF Rename
  <2>. QED
    BY <2>1, <2>2, <2>3, CalmStay DEF Settled, Over, Calm, NoPartUnread
<1>5. ASSUME NEW n \in DOMAIN plans, Trigger(n)
      PROVE  Settled(t)'
  <2>. DEFINE e    == plans[n].entryTask
              stop == /\ e \in DOMAIN tasks /\ IsActive(tasks[e].status)
                      /\ tasks[e].orderID # 0
              exit == [NewTask("EXIT", plans[n].symbol, plans[n].positionSide,
                               CloseSide(plans[n].positionSide), plans[n].protectedQty)
                       EXCEPT !.plan = n]
              rest == IF stop THEN [tasks EXCEPT ![e].status = "CANCELED"] ELSE tasks
  <2>1. UNCHANGED <<orders, stream>> /\ AddTask(rest, exit)
        /\ Persist(Market, "place", nTasks + 1, 0)
    BY <1>5 DEF Trigger, exchange
  <2>2. DOMAIN rest = DOMAIN tasks /\ rest[t].status \in Ended
    BY <1>0, MemoryFacts DEF Over, Ended
  <2>3. Over(t)' /\ nTasks + 1 # t
    <3>. HIDE DEF rest, exit
    <3>. QED
      BY <2>1, <2>2, AddTaskOver
  <2>4. ~Placing(t)'
    BY <1>0, <2>1, <2>3, PersistLeaves
  <2>. QED
    BY <2>1, <2>3, <2>4, CalmStay DEF Settled, Over, Calm, NoPartUnread
<1>6. ASSUME NEW o, AsyncCancel(o)
      PROVE  Settled(t)'
  <2>1. /\ EndOrder(o) \/ UNCHANGED exchange
        /\ UNCHANGED <<tasks, proc>>
    BY <1>6 DEF AsyncCancel, memory
  <2>. QED
    BY <2>1, LeavesStay, SettledEndOrder
<1>. QED
  BY <1>1, <1>2, <1>3, <1>4, <1>5, <1>6 DEF MarketStream

LEMMA SettledUser ==
  ASSUME MaxCrashes = 0, TypeOK, NEW own, Traced(own), NEW t, Over(t), ~Placing(t),
         Calm(t), UserStream
  PROVE  Settled(t)'
<1>0. User \in Procs /\ t \in DOMAIN tasks
  BY DEF Procs, Over
<1>1. stream # <<>> /\ stream' = Tail(stream) /\ UNCHANGED orders
  BY DEF UserStream, IgnoreUpdate, OnOrderUpdate
<1>2. Calm(t)'
  BY <1>1, CalmTail
<1>3. CASE IgnoreUpdate
  <2>1. UNCHANGED <<tasks, proc>>
    BY <1>3 DEF IgnoreUpdate, memory
  <2>. QED
    BY <1>2, <2>1, LeavesStay, OverStays DEF Settled, Over, Calm, NoPartUnread
<1>4. CASE OnOrderUpdate
  <2>. DEFINE e == Head(stream)
              u == TaskOf(e)
  <2>1. /\ u \in DOMAIN tasks
        /\ \E task : /\ tasks' = [tasks EXCEPT ![u] = task]
                     /\ task.status = StatusAfter(tasks[u].status, e.status)
    <3>. DEFINE task == [tasks[u] EXCEPT
                           !.orderID = e.order, !.cid = e.cid,
                           !.filled = FilledAfter(tasks[u].filled, e),
                           !.status = StatusAfter(tasks[u].status, e.status)]
    <3>1. u \in DOMAIN tasks /\ tasks' = [tasks EXCEPT ![u] = task]
      BY <1>4 DEF OnOrderUpdate
    <3>2. tasks[u] \in Task
      BY <3>1, MemoryFacts
    <3>3. task.status = StatusAfter(tasks[u].status, e.status)
      BY <3>2 DEF Task
    <3>. QED
      BY <3>1, <3>3
  <2>2. /\ e.order \in DOMAIN orders /\ e \in Event /\ Fits(e, orders)
    BY <1>1, HeadFacts DEF Traced
  <2>3. orders[e.order].task = u
    BY <2>1, <2>2, EventFindsTask
  <2>4. \E k \in DOMAIN stream : stream[k] = e
    <3>1. stream \in Seq(Event)
      BY DEF TypeOK, ExchangeOK
    <3>. QED
      BY <1>1, <3>1
  <2>. HIDE DEF e, u
  <2>5. u = t => e.status \in {"NEW", "FILLED", "CANCELED"}
    <3>1. e.status \in EventStatuses
      BY <2>2 DEF Event
    <3>. QED
      BY <2>3, <2>4, <3>1 DEF Calm, NoPartUnread, EventStatuses
  <2>6. Over(t)'
    <3>1. CASE u # t
      BY <1>0, <2>1, <3>1, MemoryFacts DEF Over
    <3>2. CASE u = t
      <4>1. StatusAfter(tasks[t].status, e.status) \in Ended
        BY <2>5, <3>2 DEF StatusAfter, Over, Ended
      <4>. QED
        BY <1>0, <2>1, <3>2, <4>1, MemoryFacts DEF Over
    <3>. QED
      BY <3>1, <3>2
  <2>7. ~Placing(t)'
    <3>1. ~MayCrash
      BY DEF TypeOK, CountsOK, MayCrash
    <3>2. Persist(User, "idle", 0, 0)
      BY <1>4, <3>1 DEF OnOrderUpdate
    <3>. QED
      BY <1>0, <3>2, PersistLeaves
  <2>. QED
    BY <1>2, <2>6, <2>7 DEF Settled, Over, Calm, NoPartUnread
<1>. QED
  BY <1>3, <1>4 DEF UserStream

LEMMA SettledRest ==
  ASSUME MaxCrashes = 0, TypeOK, NEW own, Traced(own), NEW t, Over(t), ~Placing(t),
         Calm(t), Reconciler \/ Trading \/ Disconnect \/ Reconnect
  PROVE  Settled(t)'
<1>0. Reconcile \in Procs /\ t \in DOMAIN tasks /\ t # 0
  BY MemoryFacts DEF Procs, Over
<1>1. CASE Reconciler
  <2>1. UNCHANGED <<tasks, orders, stream>>
    BY <1>1 DEF Reconciler, StartRound, ReadPositions, ReadFails, MarkNeeds, EndRound,
       memory, exchange
  <2>2. ~Placing(t)'
    <3>1. CASE StartRound
      BY <1>0, <3>1, GoLeaves DEF StartRound
    <3>2. CASE \E s \in Symbols : ReadFails(s)
      BY <3>2, LeavesStay DEF ReadFails
    <3>3. CASE EndRound
      BY <1>0, <3>3, PersistLeaves DEF EndRound
    <3>4. CASE MarkNeeds \/ \E s \in Symbols : ReadPositions(s)
      <4>1. proc[Reconcile].task # t
        <5>1. proc[Reconcile].at \in {"mark", "read"}
          BY <3>4 DEF MarkNeeds, ReadPositions, At
        <5>. QED
          BY <1>0, <5>1 DEF Placing
      <4>. QED
        BY <1>0, <3>4, <4>1, MoveLeaves DEF MarkNeeds, ReadPositions
    <3>. QED
      BY <1>1, <3>1, <3>2, <3>3, <3>4 DEF Reconciler
  <2>. QED
    BY <2>1, <2>2, CalmStay, OverStays DEF Settled, Over, Calm, NoPartUnread
<1>2. CASE Trading \/ Disconnect \/ Reconnect
  <2>1. UNCHANGED <<tasks, proc>>
    BY <1>2 DEF Trading, Fill, Expire, Disconnect, Reconnect, memory
  <2>2. Calm(t)'
    <3>1. ASSUME NEW o \in DOMAIN orders, Expire(o)
          PROVE  Calm(t)'
      BY <3>1, CalmEndOrder DEF Expire, Traced
    <3>2. ASSUME NEW o \in DOMAIN orders, NEW n \in 1..orders[o].qty, Fill(o, n)
          PROVE  Calm(t)'
      BY <3>2, CalmFill DEF Traced
    <3>3. CASE Disconnect
      BY <3>3, CalmPrefix DEF Disconnect
    <3>4. CASE Reconnect
      BY <3>4, CalmStay DEF Reconnect
    <3>. QED
      BY <1>2, <3>1, <3>2, <3>3, <3>4 DEF Trading
  <2>. QED
    BY <2>1, <2>2, LeavesStay, OverStays DEF Settled, Over, Calm, NoPartUnread
<1>. QED
  BY <1>1, <1>2

LEMMA SettledStep ==
  ASSUME MaxCrashes = 0
  PROVE  TypeOK /\ AllTraced /\ [Next]_vars =>
           [\A t \in DOMAIN tasks : Settled(t) => Settled(t)']_vars
<1>. SUFFICES ASSUME TypeOK, AllTraced, Next, NEW t \in DOMAIN tasks, Settled(t)
              PROVE  Settled(t)'
  OBVIOUS
<1>. PICK own \in [1..nCids -> Nat] : Traced(own)
  BY DEF AllTraced
<1>1. Over(t) /\ ~Placing(t) /\ Calm(t)
  BY SettledParts
<1>2. ~Crash
  BY DEF TypeOK, CountsOK, Crash
<1>3. CASE Storage
  BY <1>1, <1>3, SettledStorage DEF Storage
<1>. QED
  BY <1>1, <1>2, <1>3, SettledPlace, SettledControl, SettledMarket, SettledUser,
     SettledRest DEF Next, Work

\* A settled task stays ended and gets no other order as long as the daemon
\* runs, although the last events of its orders are unread, cancels of it are
\* under way, ticks still list it and other tasks of any goroutine go on
\* (placeTask, CancelTask, maybeReplace, triggerPlan, OnOrderUpdate).
THEOREM SettledTasksStay == ASSUME MaxCrashes = 0 PROVE Spec => SettledStays
<1>1. Init => TypeOK /\ AllTraced
  BY TypeInit, TracedInit
<1>2. TypeOK /\ AllTraced /\ [Next]_vars => (TypeOK /\ AllTraced)'
  BY TypeStep, TracedStep
<1>. QED
  BY <1>1, <1>2, SettledStep, PTL DEF Spec, SettledStays

-----------------------------------------------------------------------------
(* One live order of an exit, as long as the daemon does not crash         *)

\* What the market goroutine does for task t: it is about to send an order,
\* or has the reply to one.
Sends(t)    == proc[Market].task = t /\ proc[Market].at \in {"rename", "place", "wait"}
Answered(t) == proc[Market].task = t /\ proc[Market].at \in {"ack", "nack"}

\* No other goroutine sends an order of task t.
Placers     == {"place", "wait", "ack", "nack"}
Reserved(t) == \A p \in Procs \ {Market} : proc[p].at \in Placers => proc[p].task # t

None(t)  == LiveOrdersOf(t) = {}
Alone(t) == \A a, b \in LiveOrdersOf(t) : a = b

\* maybeReplace would cancel an order of task t first, or leave the task.
Careful(t) == tasks[t].orderID # 0 \/ ~IsActive(tasks[t].status)

ExitFits(t) ==
  /\ Alone(t)
  /\ Sends(t) => None(t)
  /\ None(t) \/ Careful(t) \/ Answered(t)
  /\ Reserved(t)

Exits == {t \in DOMAIN tasks : tasks[t].kind = "EXIT"}

\* Without a crash nothing is saved.
NoSaves == \A p \in Procs : proc[p].at \notin {"clone", "save"}

ExitsFit ==
  /\ crashes = 0 /\ NoSaves
  /\ \A t \in Exits : ExitFits(t)

\* The orders of task t that were live are the only ones that may still be.
Fewer(t) == LiveOrdersOf(t)' \subseteq LiveOrdersOf(t)

LEMMA SameFewer == ASSUME NEW t, UNCHANGED orders PROVE Fewer(t)
BY DEF Fewer, LiveOrdersOf, OrdersOf

LEMMA EndOrderFewer ==
  ASSUME TypeOK, NewsFits, NEW t, NEW o, EndOrder(o) \/ UNCHANGED exchange
  PROVE  Fewer(t)
<1>1. CASE EndOrder(o)
  <2>1. DOMAIN orders' = DOMAIN orders /\ OrdersKept
    BY <1>1, EndOrderKeeps
  <2>2. \A u \in DOMAIN orders : u # o => orders'[u] = orders[u]
    BY <1>1 DEF EndOrder
  <2>3. o \in DOMAIN orders /\ orders[o].live
    BY <1>1 DEF EndOrder
  <2>. QED
    BY <2>1, <2>2, <2>3 DEF OrdersKept, Fewer, LiveOrdersOf, OrdersOf
<1>2. CASE UNCHANGED exchange
  BY <1>2, SameFewer DEF exchange
<1>. QED
  BY <1>1, <1>2

LEMMA FillFewer ==
  ASSUME TypeOK, NewsFits, NEW t, NEW o \in DOMAIN orders, NEW n \in 1..orders[o].qty, Fill(o, n)
  PROVE  Fewer(t)
<1>1. OrdersKept /\ DOMAIN orders' = DOMAIN orders
  BY FillKeeps
<1>2. orders[o].live /\ \A u \in DOMAIN orders : u # o => orders'[u] = orders[u]
  BY DEF Fill
<1>. QED
  BY <1>1, <1>2 DEF OrdersKept, Fewer, LiveOrdersOf, OrdersOf

LEMMA AcceptFewer ==
  ASSUME TypeOK, NewsFits, NEW u \in DOMAIN tasks, Accept(u), NEW t
  PROVE  IF u = t THEN LiveOrdersOf(t)' \subseteq LiveOrdersOf(t) \cup {Len(orders) + 1}
         ELSE Fewer(t)
<1>. DEFINE o == Len(orders) + 1
<1>1. DOMAIN orders' = DOMAIN orders \cup {o}
  BY AcceptKeeps
<1>2. orders'[o].task = u
  BY OrderFacts DEF Accept, TypeOK, ExchangeOK
<1>3. \A v \in DOMAIN orders : orders'[v] = orders[v]
  BY OrderFacts DEF Accept, TypeOK, ExchangeOK
<1>. QED
  BY <1>1, <1>2, <1>3 DEF Fewer, LiveOrdersOf, OrdersOf

-----------------------------------------------------------------------------
(* One goroutine moves *)

LEMMA ExitOn ==
  ASSUME TypeOK, NEW t, ExitFits(t), Fewer(t), NEW p \in Procs, Moves(p),
         p # Market /\ proc'[p].at \in Placers => proc'[p].task # t,
         p = Market /\ Sends(t)' => Sends(t) \/ None(t)',
         Careful(t) \/ (p = Market /\ Answered(t)) => Careful(t)' \/ None(t)'
  PROVE  ExitFits(t)'
<1>1. None(t) => None(t)'
  BY DEF Fewer, None
<1>2. Alone(t)'
  BY DEF ExitFits, Fewer, Alone
<1>3. Reserved(t)'
  BY DEF ExitFits, Reserved, Moves
<1>4. CASE p = Market
  BY <1>1, <1>2, <1>3, <1>4 DEF ExitFits
<1>5. CASE p # Market
  <2>1. proc'[Market] = proc[Market]
    BY <1>5 DEF Moves, Procs
  <2>2. Sends(t)' = Sends(t) /\ Answered(t)' = Answered(t)
    BY <2>1 DEF Sends, Answered
  <2>. QED
    BY <1>1, <1>2, <1>3, <1>5, <2>2 DEF ExitFits
<1>. QED
  BY <1>4, <1>5

\* No goroutine moves.
LEMMA ExitStays ==
  ASSUME TypeOK, NEW t, ExitFits(t), Fewer(t), UNCHANGED <<tasks, proc>>
  PROVE  ExitFits(t)'
<1>1. User \in Procs /\ User # Market /\ Moves(User)
  BY DEF Procs, User, Market, Moves
<1>2. proc'[User].at \in Placers => proc'[User].task # t
  BY <1>1 DEF ExitFits, Reserved
<1>3. Careful(t) => Careful(t)'
  BY DEF Careful
<1>. QED
  BY <1>1, <1>2, <1>3, ExitOn

LEMMA SavesOn ==
  ASSUME NoSaves, NEW p \in Procs, Moves(p), proc'[p].at \notin {"clone", "save"}
  PROVE  NoSaves'
BY DEF NoSaves, Moves

LEMMA SavesStay == ASSUME NoSaves, UNCHANGED proc PROVE NoSaves'
BY DEF NoSaves

LEMMA Unsaved ==
  ASSUME TypeOK, MaxCrashes = 0, NEW p \in Procs, NEW then, NEW t, NEW o,
         Persist(p, then, t, o)
  PROVE  Resume(p, then, t, o)
BY DEF TypeOK, CountsOK, MayCrash, Persist

\* What a goroutine that has finished, or goes on to place task t, does next.
LEMMA Persisted ==
  ASSUME TypeOK, MaxCrashes = 0, NEW p \in Procs, NEW then \in {"idle", "place"},
         NEW t, NEW o, Persist(p, then, t, o)
  PROVE  /\ Moves(p) /\ proc'[p].at = then
         /\ then = "place" => proc'[p].task = t
BY Unsaved, Going, Finishing DEF Resume

-----------------------------------------------------------------------------
(* The actions *)

LEMMA ExitPlace ==
  ASSUME TypeOK, NewsFits, MaxCrashes = 0, NoSaves, PlaceTask
  PROVE  NoSaves' /\ \A t \in Exits : ExitFits(t) => ExitFits(t)'
<1>. PICK p \in Procs : \/ PlaceStart(p) \/ PlaceAccepted(p) \/ PlaceRejected(p)
                        \/ PlaceDone(p) \/ PlaceFailed(p)
  BY DEF PlaceTask
<1>. DEFINE u == proc[p].task
            o == proc[p].order
<1>1. u \in DOMAIN tasks /\ proc[p].at \in Placers
  BY Worker DEF PlaceStart, PlaceAccepted, PlaceRejected, PlaceDone, PlaceFailed, At,
     Placers
<1>2. ASSUME NEW t \in Exits, ExitFits(t), p # Market
      PROVE  u # t
  BY <1>1, <1>2 DEF ExitFits, Reserved
<1>3. CASE PlaceStart(p)
  <2>1. Moves(p) /\ proc'[p].at = "wait" /\ proc'[p].task = u
    <3>1. proc' = [proc EXCEPT ![p].at = "wait"]
      BY <1>3 DEF PlaceStart
    <3>. QED
      BY <3>1, Moving DEF TypeOK, ProcOK, StateOK
  <2>2. ASSUME NEW t \in Exits, ExitFits(t)
        PROVE  ExitFits(t)'
    <3>1. Fewer(t)
      BY <1>3, SameFewer DEF PlaceStart, exchange
    <3>2. p = Market /\ u = t => Sends(t)
      BY <1>3 DEF PlaceStart, At, Sends
    <3>3. p = Market /\ u = t => None(t)'
      BY <2>2, <3>1, <3>2 DEF ExitFits, Fewer, None
    <3>4. u # t => tasks'[t] = tasks[t]
      BY <1>1, <1>3, MemoryFacts DEF PlaceStart, Exits
    <3>5. Careful(t) => Careful(t)' \/ None(t)'
      BY <1>2, <2>2, <3>3, <3>4 DEF Careful
    <3>6. ~(p = Market /\ Answered(t))
      BY <1>3 DEF PlaceStart, At, Answered
    <3>7. p # Market => u # t
      BY <1>2, <2>2
    <3>8. p = Market /\ Sends(t)' => None(t)'
      BY <2>1, <3>3 DEF Sends
    <3>. QED
      BY <2>1, <2>2, <3>1, <3>5, <3>6, <3>7, <3>8, ExitOn
  <2>. QED
    BY <2>1, <2>2, SavesOn
<1>4. CASE PlaceAccepted(p)
  <2>1. Moves(p) /\ proc'[p].at \in {"ack", "nack"} /\ proc'[p].task = u
    BY <1>4, Going DEF PlaceAccepted
  <2>2. Accept(u) /\ UNCHANGED tasks
    BY <1>4 DEF PlaceAccepted, memory
  <2>3. ASSUME NEW t \in Exits, ExitFits(t)
        PROVE  ExitFits(t)'
    <3>1. CASE u = t
      <4>1. p = Market
        BY <1>2, <2>3, <3>1
      <4>2. None(t)
        BY <1>4, <2>3, <3>1, <4>1 DEF PlaceAccepted, At, Sends, ExitFits
      <4>3. LiveOrdersOf(t)' \subseteq {Len(orders) + 1}
        BY <1>1, <2>2, <3>1, <4>2, AcceptFewer DEF None
      <4>4. Alone(t)'
        BY <4>3 DEF Alone
      <4>5. Answered(t)' /\ ~Sends(t)'
        BY <2>1, <3>1, <4>1 DEF Answered, Sends
      <4>6. Reserved(t)'
        BY <2>1, <2>3, <4>1 DEF ExitFits, Reserved, Moves
      <4>. QED
        BY <4>4, <4>5, <4>6 DEF ExitFits
    <3>2. CASE u # t
      <4>1. Fewer(t)
        BY <1>1, <2>2, <3>2, AcceptFewer
      <4>2. Careful(t)' = Careful(t)
        BY <2>2 DEF Careful
      <4>3. ~(p = Market /\ Answered(t)) /\ ~(p = Market /\ Sends(t)')
        BY <2>1, <3>2 DEF Answered, Sends
      <4>. QED
        BY <2>1, <2>3, <3>2, <4>1, <4>2, <4>3, ExitOn
    <3>. QED
      BY <3>1, <3>2
  <2>. QED
    BY <2>1, <2>3, SavesOn
<1>5. CASE PlaceRejected(p)
  <2>1. Moves(p) /\ proc'[p].at = "nack" /\ proc'[p].task = u
    BY <1>5, Going DEF PlaceRejected
  <2>2. ASSUME NEW t \in Exits, ExitFits(t)
        PROVE  ExitFits(t)'
    <3>1. Fewer(t) /\ UNCHANGED tasks
      BY <1>5, SameFewer DEF PlaceRejected, exchange, memory
    <3>2. Careful(t)' = Careful(t)
      BY <3>1 DEF Careful
    <3>3. ~(p = Market /\ Answered(t)) /\ ~(p = Market /\ Sends(t)')
      BY <1>5, <2>1 DEF PlaceRejected, At, Answered, Sends
    <3>4. p # Market => u # t
      BY <1>2, <2>2
    <3>. QED
      BY <2>1, <2>2, <3>1, <3>2, <3>3, <3>4, ExitOn
  <2>. QED
    BY <2>1, <2>2, SavesOn
<1>6. CASE PlaceDone(p) \/ PlaceFailed(p)
  <2>1. Moves(p) /\ proc'[p].at = "idle"
    BY <1>6, Persisted, Finishing DEF PlaceDone, PlaceFailed
  <2>2. UNCHANGED orders
    BY <1>6 DEF PlaceDone, PlaceFailed, exchange
  <2>3. \A t \in Exits : u # t => tasks'[t] = tasks[t]
    BY <1>1, <1>6, MemoryFacts DEF PlaceDone, PlaceFailed, Exits
  <2>4. tasks'[u].orderID # 0 \/ tasks'[u].status = "FAILED"
    <3>1. CASE PlaceDone(p)
      <4>1. o \in 1..Len(orders) /\ Len(orders) \in Nat
        <5>1. StateOK(p, proc[p], DOMAIN tasks, 1..Len(orders)) /\ proc[p].at = "ack"
          BY <3>1 DEF TypeOK, ProcOK, PlaceDone, At
        <5>. QED
          BY <5>1, OrderFacts DEF StateOK
      <4>2. tasks'[u].orderID = o
        BY <1>1, <3>1, MemoryFacts DEF PlaceDone, Task
      <4>. QED
        BY <4>1, <4>2
    <3>2. CASE PlaceFailed(p)
      BY <1>1, <3>2, MemoryFacts DEF PlaceFailed, Task
    <3>. QED
      BY <1>6, <3>1, <3>2
  <2>5. ASSUME NEW t \in Exits, ExitFits(t)
        PROVE  ExitFits(t)'
    <3>1. Fewer(t)
      BY <2>2, SameFewer
    <3>2. u = t => Careful(t)'
      BY <2>4 DEF Careful, IsActive, ActiveStatuses
    <3>3. u # t => Careful(t)' = Careful(t)
      BY <2>3 DEF Careful
    <3>4. p = Market /\ Answered(t) => u = t
      BY DEF Answered
    <3>5. ~(p = Market /\ Sends(t)')
      BY <2>1 DEF Sends
    <3>. QED
      BY <2>1, <2>5, <3>1, <3>2, <3>3, <3>4, <3>5, ExitOn DEF Placers
  <2>. QED
    BY <2>1, <2>5, SavesOn
<1>. QED
  BY <1>3, <1>4, <1>5, <1>6

LEMMA ExitControl ==
  ASSUME TypeOK, NewsFits, MaxCrashes = 0, NoSaves, Control
  PROVE  NoSaves' /\ \A t \in Exits : ExitFits(t) => ExitFits(t)'
<1>. PICK h \in Handlers : \/ \E req \in Requests : Submit(h, req)
                           \/ \E u \in DOMAIN tasks : CancelTask(h, u)
                           \/ CancelOk(h) \/ CancelError(h)
  BY DEF Control
<1>0. h \in Procs /\ h # Market
  BY HandlerAssumption DEF Procs
<1>1. ASSUME NEW req \in Requests, Submit(h, req)
      PROVE  NoSaves' /\ \A t \in Exits : ExitFits(t) => ExitFits(t)'
  <2>1. Moves(h) /\ proc'[h].at = "place" /\ proc'[h].task = nTasks + 1
    BY <1>0, <1>1, Persisted DEF Submit
  <2>2. ASSUME NEW t \in Exits, ExitFits(t)
        PROVE  ExitFits(t)'
    <3>1. Fewer(t)
      BY <1>1, SameFewer DEF Submit, exchange
    <3>2. t # nTasks + 1
      BY MemoryFacts DEF Exits
    <3>3. tasks'[t] = tasks[t]
      BY <1>1, <3>2 DEF Submit, AddTask, Put, Exits
    <3>4. Careful(t)' = Careful(t)
      BY <3>3 DEF Careful
    <3>. QED
      BY <1>0, <2>1, <2>2, <3>1, <3>2, <3>4, ExitOn
  <2>. QED
    BY <1>0, <2>1, <2>2, SavesOn
<1>2. ASSUME NEW u \in DOMAIN tasks, CancelTask(h, u)
      PROVE  NoSaves' /\ \A t \in Exits : ExitFits(t) => ExitFits(t)'
  <2>1. Moves(h) /\ proc'[h].at \in {"cancel", "idle"}
    BY <1>0, <1>2, Persisted, Going DEF CancelTask
  <2>2. ASSUME NEW t \in Exits, ExitFits(t)
        PROVE  ExitFits(t)'
    <3>1. Fewer(t)
      BY <1>2, SameFewer DEF CancelTask, exchange
    <3>2. t # u => tasks'[t] = tasks[t]
      BY <1>2, MemoryFacts DEF CancelTask, Exits
    <3>3. t = u => ~IsActive(tasks'[t].status)
      BY <1>2, MemoryFacts DEF CancelTask, Exits, Task, IsActive, ActiveStatuses
    <3>4. Careful(t) => Careful(t)'
      BY <3>2, <3>3 DEF Careful
    <3>. QED
      BY <1>0, <2>1, <2>2, <3>1, <3>4, ExitOn DEF Placers
  <2>. QED
    BY <1>0, <2>1, <2>2, SavesOn
<1>3. CASE CancelOk(h) \/ CancelError(h)
  <2>1. Moves(h) /\ proc'[h].at = "idle"
    BY <1>0, <1>3, Persisted, Finishing DEF CancelOk, CancelError
  <2>2. ASSUME NEW t \in Exits, ExitFits(t)
        PROVE  ExitFits(t)'
    <3>1. Fewer(t) /\ UNCHANGED tasks
      BY <1>3, EndOrderFewer DEF CancelOk, CancelError, memory
    <3>2. Careful(t)' = Careful(t)
      BY <3>1 DEF Careful
    <3>. QED
      BY <1>0, <2>1, <2>2, <3>1, <3>2, ExitOn DEF Placers
  <2>. QED
    BY <1>0, <2>1, <2>2, SavesOn
<1>. QED
  BY <1>1, <1>2, <1>3

\* An exit that triggerPlan has just created: nobody else knows it yet.
LEMMA ExitCreated ==
  ASSUME TypeOK, MaxCrashes = 0, ExitsFit, NEW own, Traced(own),
         NEW n \in DOMAIN plans, Trigger(n), NEW t, t = nTasks + 1
  PROVE  ExitFits(t)'
<1>1. \A o \in DOMAIN orders : orders[o].task \in DOMAIN tasks
  BY OrderFacts DEF ExitsFit, Traced, OrdersFit, IndexFits, TypeOK, IndexOK
<1>2. t \notin DOMAIN tasks /\ UNCHANGED orders
  BY MemoryFacts DEF Trigger, exchange
<1>3. LiveOrdersOf(t)' = {}
  BY <1>1, <1>2 DEF LiveOrdersOf, OrdersOf
<1>4. Moves(Market)
  BY Persisted DEF Trigger, Procs
<1>5. Reserved(t)'
  <2>. SUFFICES ASSUME NEW p \in Procs \ {Market}, proc[p].at \in Placers
                PROVE  proc[p].task # t
    BY <1>4 DEF Reserved, Moves
  <2>. QED
    BY <1>2, Worker DEF Placers
<1>. QED
  BY <1>3, <1>5 DEF ExitFits, Alone, None

LEMMA ExitReplace ==
  ASSUME TypeOK, MaxCrashes = 0, NewsFits, WorkersFit, NoSaves,
         \/ \E u \in DOMAIN tasks : StartReplace(u)
         \/ ReplaceCancelOk \/ ReplaceCancelError \/ Rename
  PROVE  NoSaves' /\ \A t \in Exits : ExitFits(t) => ExitFits(t)'
<1>0. Market \in Procs
  BY DEF Procs
<1>1. ASSUME NEW u \in DOMAIN tasks, StartReplace(u)
      PROVE  NoSaves' /\ \A t \in Exits : ExitFits(t) => ExitFits(t)'
  <2>1. /\ Moves(Market) /\ proc'[Market].task = u
        /\ proc'[Market].at = IF tasks[u].orderID # 0 THEN "rcancel" ELSE "rename"
    BY <1>0, <1>1, Going DEF StartReplace
  <2>2. ASSUME NEW t \in Exits, ExitFits(t)
        PROVE  ExitFits(t)'
    <3>1. Fewer(t) /\ UNCHANGED tasks
      BY <1>1, SameFewer DEF StartReplace, exchange, memory
    <3>2. ~Answered(t)
      BY <1>1 DEF StartReplace, At, Answered
    <3>3. Sends(t)' => ~Careful(t)
      BY <1>1, <2>1 DEF StartReplace, WantsReplace, Sends, Careful
    <3>4. Sends(t)' => None(t)'
      BY <2>2, <3>1, <3>2, <3>3 DEF ExitFits, Fewer, None
    <3>5. Careful(t)' = Careful(t)
      BY <3>1 DEF Careful
    <3>. QED
      BY <1>0, <2>1, <2>2, <3>1, <3>2, <3>4, <3>5, ExitOn
  <2>. QED
    BY <1>0, <2>1, <2>2, SavesOn
<1>2. CASE ReplaceCancelOk
  <2>. DEFINE u == proc[Market].task
              o == proc[Market].order
  <2>1. Moves(Market) /\ proc'[Market].at = "rename" /\ proc'[Market].task = u
    <3>1. proc' = [proc EXCEPT ![Market].at = "rename"]
      BY <1>2 DEF ReplaceCancelOk
    <3>. QED
      BY <1>0, <3>1, Moving DEF TypeOK, ProcOK, StateOK
  <2>2. EndOrder(o) /\ UNCHANGED tasks
    BY <1>2 DEF ReplaceCancelOk, memory
  <2>3. orders[o].task = u /\ o \in DOMAIN orders /\ orders[o].live
    BY <1>0, <1>2 DEF ReplaceCancelOk, EndOrder, At, WorkersFit, WorkerFits, WithOrder
  <2>4. ~orders'[o].live
    BY <2>2, OrderFacts DEF EndOrder, Order
  <2>5. ASSUME NEW t \in Exits, ExitFits(t)
        PROVE  ExitFits(t)'
    <3>1. Fewer(t)
      BY <2>2, EndOrderFewer
    <3>2. Sends(t)' => None(t)'
      <4>. SUFFICES ASSUME u = t
                    PROVE  None(t)'
        BY <2>1 DEF Sends
      <4>1. LiveOrdersOf(t) \subseteq {o}
        BY <2>3, <2>5 DEF ExitFits, Alone, LiveOrdersOf, OrdersOf
      <4>2. o \notin LiveOrdersOf(t)'
        BY <2>4 DEF LiveOrdersOf
      <4>. QED
        BY <3>1, <4>1, <4>2 DEF Fewer, None
    <3>3. ~Answered(t) /\ Careful(t)' = Careful(t)
      BY <1>2, <2>2 DEF ReplaceCancelOk, At, Answered, Careful
    <3>. QED
      BY <1>0, <2>1, <2>5, <3>1, <3>2, <3>3, ExitOn
  <2>. QED
    BY <1>0, <2>1, <2>5, SavesOn
<1>3. CASE ReplaceCancelError
  <2>1. Moves(Market) /\ proc'[Market].at = "idle"
    BY <1>0, <1>3, Finishing DEF ReplaceCancelError
  <2>2. ASSUME NEW t \in Exits, ExitFits(t)
        PROVE  ExitFits(t)'
    <3>1. Fewer(t) /\ UNCHANGED tasks
      BY <1>3, EndOrderFewer DEF ReplaceCancelError, memory
    <3>2. ~Answered(t) /\ Careful(t)' = Careful(t) /\ ~Sends(t)'
      BY <1>3, <2>1, <3>1 DEF ReplaceCancelError, At, Answered, Careful, Sends
    <3>. QED
      BY <1>0, <2>1, <2>2, <3>1, <3>2, ExitOn
  <2>. QED
    BY <1>0, <2>1, <2>2, SavesOn
<1>4. CASE Rename
  <2>. DEFINE u == proc[Market].task
  <2>1. Moves(Market) /\ proc'[Market].at = "place" /\ proc'[Market].task = u
    <3>1. proc' = [proc EXCEPT ![Market].at = "place"]
      BY <1>4 DEF Rename
    <3>. QED
      BY <1>0, <3>1, Moving DEF TypeOK, ProcOK, StateOK
  <2>2. ASSUME NEW t \in Exits, ExitFits(t)
        PROVE  ExitFits(t)'
    <3>1. Fewer(t)
      BY <1>4, SameFewer DEF Rename, exchange
    <3>2. Sends(t)' => Sends(t)
      BY <1>4, <2>1 DEF Rename, At, Sends
    <3>3. tasks'[t].orderID = tasks[t].orderID /\ tasks'[t].status = tasks[t].status
      BY <1>4, MemoryFacts DEF Rename, Exits, Task
    <3>4. ~Answered(t) /\ Careful(t)' = Careful(t)
      BY <1>4, <3>3 DEF Rename, At, Answered, Careful
    <3>. QED
      BY <1>0, <2>1, <2>2, <3>1, <3>2, <3>4, ExitOn
  <2>. QED
    BY <1>0, <2>1, <2>2, SavesOn
<1>. QED
  BY <1>1, <1>2, <1>3, <1>4

LEMMA ExitMarket ==
  ASSUME TypeOK, MaxCrashes = 0, NewsFits, WorkersFit, NoSaves, MarketStream
  PROVE  NoSaves' /\ \A t \in Exits : ExitFits(t) => ExitFits(t)'
<1>0. Market \in Procs
  BY DEF Procs
<1>1. CASE \/ \E k \in Ticks : OnMarket(k)
           \/ \E u \in DOMAIN tasks : SkipReplace(u)
           \/ \E n \in DOMAIN plans : SkipTrigger(n)
           \/ \E k \in cooling : CooldownEnds(k)
  <2>1. UNCHANGED <<tasks, proc, orders>>
    BY <1>1 DEF OnMarket, SkipReplace, SkipTrigger, CooldownEnds, memory, exchange
  <2>. QED
    BY <2>1, SameFewer, ExitStays, SavesStay
<1>2. ASSUME NEW n \in DOMAIN plans, Trigger(n)
      PROVE  NoSaves' /\ \A t \in Exits : ExitFits(t) => ExitFits(t)'
  <2>. DEFINE e    == plans[n].entryTask
              stop == /\ e \in DOMAIN tasks /\ IsActive(tasks[e].status)
                      /\ tasks[e].orderID # 0
              exit == [NewTask("EXIT", plans[n].symbol, plans[n].positionSide,
                               CloseSide(plans[n].positionSide), plans[n].protectedQty)
                       EXCEPT !.plan = n]
              rest == IF stop THEN [tasks EXCEPT ![e].status = "CANCELED"] ELSE tasks
  <2>1. UNCHANGED orders /\ AddTask(rest, exit) /\ Persist(Market, "place", nTasks + 1, 0)
    BY <1>2 DEF Trigger, exchange
  <2>2. Moves(Market) /\ proc'[Market].at = "place" /\ proc'[Market].task = nTasks + 1
    BY <1>0, <2>1, Persisted
  <2>3. ASSUME NEW t \in Exits
        PROVE  /\ t # nTasks + 1
               /\ tasks'[t].orderID = tasks[t].orderID
               /\ IsActive(tasks'[t].status) => IsActive(tasks[t].status)
    <3>1. t # nTasks + 1 /\ t \in DOMAIN tasks
      BY MemoryFacts DEF Exits
    <3>2. DOMAIN rest = DOMAIN tasks
      BY MemoryFacts
    <3>3. /\ rest[t].orderID = tasks[t].orderID
          /\ IsActive(rest[t].status) => IsActive(tasks[t].status)
      BY <3>1, MemoryFacts DEF Task, IsActive, ActiveStatuses
    <3>4. tasks'[t] = rest[t]
      <4>. HIDE DEF rest, exit
      <4>. QED
        BY <2>1, <3>1, <3>2 DEF AddTask, Put
    <3>. QED
      BY <3>1, <3>3, <3>4
  <2>4. ASSUME NEW t \in Exits, ExitFits(t)
        PROVE  ExitFits(t)'
    <3>1. Fewer(t)
      BY <2>1, SameFewer
    <3>2. ~Sends(t)'
      BY <2>2, <2>3 DEF Sends
    <3>3. ~Answered(t)
      BY <1>2 DEF Trigger, At, Answered
    <3>4. Careful(t) => Careful(t)'
      BY <2>3 DEF Careful
    <3>. QED
      BY <1>0, <2>2, <2>4, <3>1, <3>2, <3>3, <3>4, ExitOn
  <2>. QED
    BY <1>0, <2>2, <2>4, SavesOn
<1>3. ASSUME NEW o, AsyncCancel(o)
      PROVE  NoSaves' /\ \A t \in Exits : ExitFits(t) => ExitFits(t)'
  <2>1. (EndOrder(o) \/ UNCHANGED exchange) /\ UNCHANGED <<tasks, proc>>
    BY <1>3 DEF AsyncCancel, memory
  <2>. QED
    BY <2>1, EndOrderFewer, ExitStays, SavesStay
<1>. QED
  BY <1>1, <1>2, <1>3, ExitReplace DEF MarketStream

LEMMA ExitUser ==
  ASSUME TypeOK, MaxCrashes = 0, NoSaves, UserStream
  PROVE  NoSaves' /\ \A t \in Exits : ExitFits(t) => ExitFits(t)'
<1>0. User \in Procs /\ User # Market
  BY DEF Procs, User, Market
<1>1. CASE IgnoreUpdate
  <2>1. UNCHANGED <<tasks, proc, orders>>
    BY <1>1 DEF IgnoreUpdate, memory
  <2>. QED
    BY <2>1, SameFewer, ExitStays, SavesStay
<1>2. CASE OnOrderUpdate
  <2>. DEFINE e == Head(stream)
              u == TaskOf(e)
              task == [tasks[u] EXCEPT
                         !.orderID = e.order, !.cid = e.cid,
                         !.filled = FilledAfter(@, e),
                         !.status = StatusAfter(@, e.status)]
  <2>1. UNCHANGED orders /\ u \in DOMAIN tasks /\ tasks' = [tasks EXCEPT ![u] = task]
    BY <1>2 DEF OnOrderUpdate
  <2>2. Moves(User) /\ proc'[User].at = "idle"
    <3>1. ~MayCrash
      BY DEF TypeOK, CountsOK, MayCrash
    <3>2. Persist(User, "idle", 0, 0)
      BY <1>2, <3>1 DEF OnOrderUpdate
    <3>. QED
      BY <1>0, <3>2, Persisted
  <2>3. task.orderID # 0
    <3>1. e.order \in 1..Len(orders) /\ Len(orders) \in Nat
      <4>1. stream # <<>> /\ stream \in Seq(Event)
        BY <1>2 DEF OnOrderUpdate, TypeOK, ExchangeOK
      <4>2. 1 \in DOMAIN stream /\ stream[1] = e
        BY <4>1
      <4>. QED
        BY <4>2, OrderFacts
    <3>2. task.orderID = e.order
      BY <2>1, MemoryFacts DEF Task
    <3>. QED
      BY <3>1, <3>2
  <2>4. ASSUME NEW t \in Exits, ExitFits(t)
        PROVE  ExitFits(t)'
    <3>. HIDE DEF u, task
    <3>1. Fewer(t)
      BY <2>1, SameFewer
    <3>2. Careful(t) => Careful(t)'
      BY <2>1, <2>3, MemoryFacts DEF Careful, Exits
    <3>. QED
      BY <1>0, <2>2, <2>4, <3>1, <3>2, ExitOn DEF Placers
  <2>. QED
    BY <1>0, <2>2, <2>4, SavesOn
<1>. QED
  BY <1>1, <1>2 DEF UserStream

LEMMA ExitRest ==
  ASSUME TypeOK, MaxCrashes = 0, NewsFits, NoSaves,
         Storage \/ Reconciler \/ Trading \/ Disconnect \/ Reconnect
  PROVE  NoSaves' /\ \A t \in Exits : ExitFits(t) => ExitFits(t)'
<1>0. Reconcile \in Procs /\ Reconcile # Market
  BY DEF Procs, Reconcile, Market
<1>1. CASE Storage
  BY <1>1 DEF Storage, Clone, Save, At, NoSaves
<1>2. CASE Reconciler
  <2>1. UNCHANGED <<tasks, orders>>
    BY <1>2 DEF Reconciler, StartRound, ReadPositions, ReadFails, MarkNeeds, EndRound,
       memory, exchange
  <2>2. Moves(Reconcile) /\ proc'[Reconcile].at \notin Placers \cup {"clone", "save"}
    <3>1. CASE StartRound
      BY <1>0, <3>1, Going DEF StartRound, Placers
    <3>2. CASE \E s \in Symbols : ReadFails(s)
      BY <1>0, <3>2 DEF ReadFails, At, Moves, Placers
    <3>3. CASE EndRound
      BY <1>0, <3>3, Persisted DEF EndRound, Placers
    <3>4. CASE MarkNeeds \/ \E s \in Symbols : ReadPositions(s)
      <4>1. \E label \in {"read", "mark"} : proc' = [proc EXCEPT ![Reconcile].at = label]
        BY <3>4 DEF MarkNeeds, ReadPositions
      <4>. QED
        BY <1>0, <4>1, Moving DEF Placers
    <3>. QED
      BY <1>2, <3>1, <3>2, <3>3, <3>4 DEF Reconciler
  <2>3. ASSUME NEW t \in Exits, ExitFits(t)
        PROVE  ExitFits(t)'
    <3>1. Fewer(t) /\ Careful(t)' = Careful(t)
      BY <2>1, SameFewer DEF Careful
    <3>. QED
      BY <1>0, <2>2, <2>3, <3>1, ExitOn
  <2>. QED
    BY <1>0, <2>2, <2>3, SavesOn
<1>3. CASE Trading \/ Disconnect \/ Reconnect
  <2>1. UNCHANGED <<tasks, proc>>
    BY <1>3 DEF Trading, Fill, Expire, Disconnect, Reconnect, memory
  <2>2. ASSUME NEW t
        PROVE  Fewer(t)
    <3>1. ASSUME NEW o \in DOMAIN orders, Expire(o)
          PROVE  Fewer(t)
      BY <3>1, EndOrderFewer DEF Expire
    <3>2. ASSUME NEW o \in DOMAIN orders, NEW n \in 1..orders[o].qty, Fill(o, n)
          PROVE  Fewer(t)
      BY <3>2, FillFewer
    <3>3. CASE Disconnect \/ Reconnect
      BY <3>3, SameFewer DEF Disconnect, Reconnect
    <3>. QED
      BY <1>3, <3>1, <3>2, <3>3 DEF Trading
  <2>. QED
    BY <2>1, <2>2, ExitStays, SavesStay
<1>. QED
  BY <1>1, <1>2, <1>3

\* A task keeps its kind, and triggerPlan alone makes exits.
LEMMA ExitsComeFromPlans ==
  ASSUME TypeOK, Next, ~Crash
  PROVE  \A t \in Exits' : \/ t \in Exits
                           \/ t = nTasks + 1 /\ \E n \in DOMAIN plans : Trigger(n)
<1>1. CASE UNCHANGED tasks
  BY <1>1 DEF Exits
<1>2. ASSUME NEW u \in DOMAIN tasks, NEW task,
             tasks' = [tasks EXCEPT ![u] = task], task.kind = tasks[u].kind
      PROVE  \A t \in Exits' : t \in Exits
  BY <1>2, MemoryFacts DEF Exits
<1>3. ASSUME NEW h \in Handlers, NEW req \in Requests, Submit(h, req)
      PROVE  \A t \in Exits' : t \in Exits
  <2>. DEFINE task == [NewTask("ENTRY", req.symbol, req.positionSide, req.side, req.quantity)
                       EXCEPT !.takeProfit = req.takeProfit, !.stopLoss = req.stopLoss]
  <2>1. AddTask(tasks, task)
    BY <1>3 DEF Submit
  <2>2. task.kind = "ENTRY" /\ [task EXCEPT !.cid = nCids + 1].kind = "ENTRY"
    BY DEF NewTask
  <2>3. tasks' = Put(tasks, nTasks + 1, [task EXCEPT !.cid = nCids + 1])
    BY <2>1 DEF AddTask
  <2>. HIDE DEF task
  <2>. QED
    BY <2>2, <2>3 DEF Put, Exits
<1>4. ASSUME NEW n \in DOMAIN plans, Trigger(n)
      PROVE  \A t \in Exits' : t \in Exits \/ t = nTasks + 1
  <2>. DEFINE e    == plans[n].entryTask
              stop == /\ e \in DOMAIN tasks /\ IsActive(tasks[e].status)
                      /\ tasks[e].orderID # 0
              exit == [NewTask("EXIT", plans[n].symbol, plans[n].positionSide,
                               CloseSide(plans[n].positionSide), plans[n].protectedQty)
                       EXCEPT !.plan = n]
              rest == IF stop THEN [tasks EXCEPT ![e].status = "CANCELED"] ELSE tasks
  <2>1. AddTask(rest, exit)
    BY <1>4 DEF Trigger
  <2>2. DOMAIN rest = DOMAIN tasks /\ \A t \in DOMAIN tasks : rest[t].kind = tasks[t].kind
    BY MemoryFacts DEF Task
  <2>3. \A t \in DOMAIN tasks' : t = nTasks + 1 \/ (t \in DOMAIN rest /\ tasks'[t] = rest[t])
    <3>. HIDE DEF rest, exit
    <3>. QED
      BY <2>1 DEF AddTask, Put
  <2>. QED
    BY <2>2, <2>3 DEF Exits
<1>5. CASE PlaceTask
  <2>. PICK p \in Procs : \/ PlaceStart(p) \/ PlaceAccepted(p) \/ PlaceRejected(p)
                          \/ PlaceDone(p) \/ PlaceFailed(p)
    BY <1>5 DEF PlaceTask
  <2>1. CASE PlaceAccepted(p) \/ PlaceRejected(p)
    BY <1>1, <2>1 DEF PlaceAccepted, PlaceRejected, memory
  <2>2. CASE PlaceStart(p) \/ PlaceDone(p) \/ PlaceFailed(p)
    <3>1. proc[p].task \in DOMAIN tasks
      BY <2>2, Worker DEF PlaceStart, PlaceDone, PlaceFailed, At
    <3>2. ASSUME NEW t \in DOMAIN tasks'
          PROVE  t \in DOMAIN tasks /\ tasks'[t].kind = tasks[t].kind
      <4>1. CASE PlaceStart(p)
        BY <3>1, <4>1, MemoryFacts DEF PlaceStart, Task
      <4>2. CASE PlaceDone(p)
        BY <3>1, <4>2, MemoryFacts DEF PlaceDone, Task
      <4>3. CASE PlaceFailed(p)
        BY <3>1, <4>3, MemoryFacts DEF PlaceFailed, Task
      <4>. QED
        BY <2>2, <4>1, <4>2, <4>3
    <3>. QED
      BY <3>2 DEF Exits
  <2>. QED
    BY <2>1, <2>2
<1>6. CASE Control
  <2>1. ASSUME NEW h \in Handlers, NEW u \in DOMAIN tasks, CancelTask(h, u)
        PROVE  \A t \in Exits' : t \in Exits
    <3>1. tasks' = [tasks EXCEPT ![u].status = "CANCELED"]
      BY <2>1 DEF CancelTask
    <3>. QED
      BY <3>1, MemoryFacts DEF Exits, Task
  <2>. QED
    BY <1>1, <1>3, <1>6, <2>1 DEF Control, CancelOk, CancelError, memory
<1>7. CASE MarketStream
  <2>1. CASE Rename
    <3>1. tasks' = [tasks EXCEPT ![proc[Market].task].cid = nCids + 1]
      BY <2>1 DEF Rename
    <3>. QED
      BY <3>1, MemoryFacts DEF Exits, Task
  <2>. QED
    BY <1>1, <1>4, <1>7, <2>1 DEF MarketStream, OnMarket, SkipReplace, StartReplace,
       ReplaceCancelOk, ReplaceCancelError, SkipTrigger, AsyncCancel, CooldownEnds, memory
<1>8. CASE UserStream
  <2>1. CASE OnOrderUpdate
    <3>. DEFINE u == TaskOf(Head(stream))
                e == Head(stream)
                task == [tasks[u] EXCEPT
                           !.orderID = e.order, !.cid = e.cid,
                           !.filled = FilledAfter(@, e),
                           !.status = StatusAfter(@, e.status)]
    <3>1. u \in DOMAIN tasks /\ tasks' = [tasks EXCEPT ![u] = task]
      BY <2>1 DEF OnOrderUpdate
    <3>2. task.kind = tasks[u].kind
      BY <3>1, MemoryFacts DEF Task
    <3>. HIDE DEF u, task
    <3>. QED
      BY <1>2, <3>1, <3>2
  <2>. QED
    BY <1>1, <1>8, <2>1 DEF UserStream, IgnoreUpdate, memory
<1>9. CASE Storage \/ Reconciler \/ Trading \/ Disconnect \/ Reconnect
  BY <1>1, <1>9 DEF Storage, Clone, Save, Reconciler, StartRound, ReadPositions, ReadFails,
     MarkNeeds, EndRound, Trading, Fill, Expire, Disconnect, Reconnect, memory
<1>. QED
  BY <1>5, <1>6, <1>7, <1>8, <1>9 DEF Next, Work

LEMMA ExitInit == Init => ExitsFit
BY DEF Init, ExitsFit, NoSaves, Idle, Exits, Empty

LEMMA ExitStep ==
  ASSUME MaxCrashes = 0
  PROVE  TypeOK /\ AllTraced /\ ExitsFit /\ [Next]_vars => ExitsFit'
<1>. SUFFICES ASSUME TypeOK, AllTraced, ExitsFit, [Next]_vars
              PROVE  ExitsFit'
  OBVIOUS
<1>. PICK own \in [1..nCids -> Nat] : Traced(own)
  BY DEF AllTraced
<1>0. NewsFits /\ WorkersFit /\ NoSaves /\ ~Crash
  BY DEF Traced, ExitsFit, TypeOK, CountsOK, Crash
<1>1. CASE UNCHANGED vars
  <2>1. UNCHANGED <<tasks, proc, orders, crashes>>
    BY <1>1 DEF vars, memory, exchange, counts
  <2>2. \A t \in Exits : ExitFits(t)'
    BY <2>1, SameFewer, ExitStays DEF ExitsFit
  <2>. QED
    BY <1>0, <2>1, <2>2, SavesStay DEF ExitsFit, Exits
<1>2. CASE Next
  <2>1. NoSaves' /\ \A t \in Exits : ExitFits(t) => ExitFits(t)'
    BY <1>0, <1>2, ExitPlace, ExitControl, ExitMarket, ExitUser, ExitRest DEF Next, Work
  <2>2. crashes' = 0
    <3>1. UNCHANGED crashes
      BY <1>0, <1>2 DEF Next, Work, Storage, Clone, Save, PlaceTask, PlaceStart,
         PlaceAccepted, PlaceRejected, PlaceDone, PlaceFailed, Control, Submit,
         CancelTask, CancelOk, CancelError, MarketStream, OnMarket, SkipReplace,
         StartReplace, ReplaceCancelOk, ReplaceCancelError, Rename, SkipTrigger,
         Trigger, AsyncCancel, CooldownEnds, UserStream, IgnoreUpdate, OnOrderUpdate,
         Reconciler, StartRound, ReadPositions, ReadFails, MarkNeeds, EndRound,
         Trading, Fill, Expire, Disconnect, Reconnect, counts
    <3>. QED
      BY <3>1 DEF ExitsFit
  <2>3. ASSUME NEW t \in Exits'
        PROVE  ExitFits(t)'
    <3>1. CASE t \in Exits
      BY <2>1, <3>1 DEF ExitsFit
    <3>2. ASSUME t = nTasks + 1, NEW n \in DOMAIN plans, Trigger(n)
          PROVE  ExitFits(t)'
      BY <3>2, ExitCreated
    <3>. QED
      BY <1>0, <1>2, <3>1, <3>2, ExitsComeFromPlans
  <2>. QED
    BY <2>1, <2>2, <2>3 DEF ExitsFit
<1>. QED
  BY <1>1, <1>2

LEMMA ExitsAlone == TypeOK /\ ExitsFit => ExitHasOneOrder
<1>. SUFFICES ASSUME TypeOK, ExitsFit, NEW t \in Exits
              PROVE  Cardinality(LiveOrdersOf(t)) <= 1
  BY DEF ExitHasOneOrder, Exits
<1>1. CASE LiveOrdersOf(t) = {}
  BY <1>1, FS_EmptySet
<1>2. ASSUME NEW o \in LiveOrdersOf(t)
      PROVE  Cardinality(LiveOrdersOf(t)) <= 1
  <2>1. LiveOrdersOf(t) = {o}
    BY <1>2 DEF ExitsFit, ExitFits, Alone
  <2>2. Cardinality({o}) = 1
    BY FS_Singleton
  <2>. QED
    BY <2>1, <2>2
<1>. QED
  BY <1>1, <1>2

\* An exit never has two live orders at the exchange, whatever replies are
\* lost and events replayed: a replacement is sent only after the one order
\* there is was cancelled, as long as the daemon does not crash (placeTask,
\* maybeReplace, triggerPlan, OnOrderUpdate).
THEOREM ExitsHaveOneOrder == ASSUME MaxCrashes = 0 PROVE Spec => []ExitHasOneOrder
<1>1. Init => TypeOK /\ AllTraced /\ ExitsFit
  BY TypeInit, TracedInit, ExitInit
<1>2. TypeOK /\ AllTraced /\ ExitsFit /\ [Next]_vars => (TypeOK /\ AllTraced /\ ExitsFit)'
  BY TypeStep, TracedStep, ExitStep
<1>. QED
  BY <1>1, <1>2, ExitsAlone, PTL DEF Spec
=============================================================================
