------------------------- MODULE ChaseService_proof -------------------------
(***************************************************************************)
(* Theorems about ChaseService, for every set of symbols, handlers,        *)
(* requests and ticks and every bound.                                     *)
(***************************************************************************)
EXTENDS ChaseProperties, FiniteSetTheorems, SequenceTheorems, TLAPS

-----------------------------------------------------------------------------
(* Maps and snapshots *)

LEMMA PutType ==
  ASSUME NEW V, NEW f, f \in [DOMAIN f -> V], NEW k, NEW v \in V
  PROVE  /\ Put(f, k, v) \in [DOMAIN f \cup {k} -> V]
         /\ DOMAIN Put(f, k, v) = DOMAIN f \cup {k}
         /\ Put(f, k, v)[k] = v
         /\ \A x \in DOMAIN f : x # k => Put(f, k, v)[x] = f[x]
BY DEF Put

\* A snapshot stays one when more ids are given out.
LEMMA SnapshotGrows ==
  ASSUME NEW s,
         NEW nt \in Nat, NEW np \in Nat, NEW nc \in Nat, NEW no \in Nat,
         NEW mt \in Nat, NEW mp \in Nat, NEW mc \in Nat, NEW mo \in Nat,
         nt <= mt, np <= mp, nc <= mc, no <= mo,
         SnapshotOf(s, nt, np, nc, no)
  PROVE  SnapshotOf(s, mt, mp, mc, mo)
BY DEF SnapshotOf

Grows == /\ nTasks' \in Nat /\ nPlans' \in Nat /\ nCids' \in Nat
         /\ nTasks <= nTasks' /\ nPlans <= nPlans' /\ nCids <= nCids'
         /\ Len(orders') \in Nat /\ Len(orders) <= Len(orders')

\* An action that leaves the disk and the snapshots under way alone has only
\* the memory to answer for.
LEMMA ImagesKept ==
  ASSUME TypeOK, Grows, UNCHANGED <<disk, held>>, Snapshot(Memory)'
  PROVE  ImagesOK'
<1>1. Len(orders) \in Nat
  BY DEF TypeOK, ExchangeOK
<1>2. ASSUME NEW s, Snapshot(s)
      PROVE  SnapshotOf(s, nTasks', nPlans', nCids', Len(orders'))
  BY <1>1, <1>2, SnapshotGrows DEF Snapshot, Grows, TypeOK, ImagesOK
<1>. QED
  BY <1>2 DEF ImagesOK, Snapshot, TypeOK, Grows

LEMMA MemoryKept ==
  ASSUME TypeOK, Grows, UNCHANGED <<disk, held, memory>>
  PROVE  ImagesOK'
<1>1. Len(orders) \in Nat
  BY DEF TypeOK, ExchangeOK
<1>2. SnapshotOf(Memory, nTasks', nPlans', nCids', Len(orders'))
  BY <1>1, SnapshotGrows DEF Snapshot, Grows, TypeOK, ImagesOK
<1>3. Memory' = Memory
  BY DEF memory, Memory
<1>. QED
  BY <1>2, <1>3, ImagesKept DEF Snapshot

-----------------------------------------------------------------------------
(* The exchange *)

LEMMA EmitType ==
  ASSUME TypeOK, NEW e \in Event, e.cid \in 1..nCids,
         e.order \in 1..Len(orders'), Emit(e),
         Len(orders') \in Nat, Len(orders) <= Len(orders')
  PROVE  /\ stream' \in Seq(Event)
         /\ \A k \in 1..Len(stream') : /\ stream'[k].cid \in 1..nCids
                                       /\ stream'[k].order \in 1..Len(orders')
BY DEF TypeOK, ExchangeOK, Emit

\* What every action of the exchange keeps.
ExchangeStep == /\ ExchangeOK' /\ Len(orders') = Len(orders)

LEMMA EndOrderType ==
  ASSUME TypeOK, NEW o, EndOrder(o), UNCHANGED nCids
  PROVE  ExchangeStep
<1>1. /\ o \in 1..Len(orders) /\ orders[o] \in Order
      /\ orders[o].cid \in 1..nCids /\ Len(orders) \in Nat
  BY DEF TypeOK, ExchangeOK, EndOrder
<1>2. /\ orders' \in Seq(Order) /\ Len(orders') = Len(orders)
      /\ \A k \in 1..Len(orders) : orders'[k].cid = orders[k].cid
  <2>. DEFINE ended == [orders[o] EXCEPT !.live = FALSE]
  <2>1. ended \in Order /\ ended.cid = orders[o].cid
    BY <1>1 DEF Order
  <2>2. orders' = [orders EXCEPT ![o] = ended]
    BY DEF EndOrder
  <2>. QED
    BY <1>1, <2>1, <2>2, ExceptSeq DEF TypeOK, ExchangeOK
<1>3. EventOf(o, orders[o], "CANCELED") \in Event
  BY <1>1 DEF EventOf, Event, EventStatuses, Order, TypeOK, ImagesOK
<1>4. /\ stream' \in Seq(Event)
      /\ \A k \in 1..Len(stream') : /\ stream'[k].cid \in 1..nCids
                                    /\ stream'[k].order \in 1..Len(orders')
  BY <1>1, <1>2, <1>3, EmitType DEF EndOrder, EventOf
<1>. QED
  BY <1>2, <1>4 DEF ExchangeStep, TypeOK, ExchangeOK, EndOrder

LEMMA FillType ==
  ASSUME TypeOK, NEW o \in DOMAIN orders, NEW n \in 1..orders[o].qty, Fill(o, n)
  PROVE  ExchangeStep
<1>. DEFINE ord    == orders[o]
            filled == ord.filled + n
            after  == [ord EXCEPT !.filled = filled, !.live = filled < ord.qty]
            status == IF after.live THEN "PARTIALLY_FILLED" ELSE "FILLED"
<1>1. /\ o \in 1..Len(orders) /\ ord \in Order /\ n \in Nat
      /\ ord.cid \in 1..nCids /\ Len(orders) \in Nat /\ nCids \in Nat
  <2>1. o \in 1..Len(orders) /\ ord \in Order /\ Len(orders) \in Nat
    BY DEF TypeOK, ExchangeOK
  <2>2. n \in Nat
    BY <2>1 DEF Order
  <2>. QED
    BY <2>1, <2>2 DEF TypeOK, ExchangeOK, ImagesOK
<1>2. /\ after \in Order /\ after.cid = ord.cid /\ after.filled \in Nat
      /\ orders' = [orders EXCEPT ![o] = after]
  <2>1. filled \in Nat /\ (filled < ord.qty) \in BOOLEAN
    BY <1>1 DEF Order
  <2>2. after \in Order /\ after.cid = ord.cid /\ after.filled = filled
    BY <1>1, <2>1 DEF Order
  <2>. QED
    BY <2>1, <2>2 DEF Fill
<1>3. /\ orders' \in Seq(Order) /\ Len(orders') = Len(orders)
      /\ \A k \in 1..Len(orders) : orders'[k].cid = orders[k].cid
  BY <1>1, <1>2, ExceptSeq DEF TypeOK, ExchangeOK
<1>4. /\ EventOf(o, after, status) \in Event
      /\ EventOf(o, after, status).cid = ord.cid
      /\ EventOf(o, after, status).order = o
  BY <1>1, <1>2 DEF EventOf, Event, EventStatuses
<1>5. Emit(EventOf(o, after, status)) /\ UNCHANGED <<connected, nCids>>
  BY DEF Fill, ids
<1>6. /\ stream' \in Seq(Event)
      /\ \A k \in 1..Len(stream') : /\ stream'[k].cid \in 1..nCids
                                    /\ stream'[k].order \in 1..Len(orders')
  BY <1>1, <1>3, <1>4, <1>5, EmitType
<1>7. position' \in [Keys -> Nat]
  <2>1. KeyOf(ord) \in Keys
    BY <1>1 DEF KeyOf, Keys, Order
  <2>2. position[KeyOf(ord)] \in Nat
    BY <2>1 DEF TypeOK, ExchangeOK
  <2>3. CASE ord.side = CloseSide(ord.positionSide)
    BY <1>1, <2>1, <2>2, <2>3 DEF Fill, TypeOK, ExchangeOK
  <2>4. CASE ord.side # CloseSide(ord.positionSide)
    BY <1>1, <2>1, <2>2, <2>4 DEF Fill, TypeOK, ExchangeOK
  <2>. QED
    BY <2>3, <2>4
<1>. QED
  BY <1>3, <1>5, <1>6, <1>7 DEF ExchangeStep, TypeOK, ExchangeOK

LEMMA AcceptType ==
  ASSUME TypeOK, NEW t \in DOMAIN tasks, Accept(t), UNCHANGED nCids
  PROVE  ExchangeOK' /\ Len(orders') = Len(orders) + 1
<1>. DEFINE task == tasks[t]
            ord  == [symbol |-> task.symbol, positionSide |-> task.positionSide,
                     side |-> task.side, cid |-> task.cid,
                     qty |-> Remaining(task), filled |-> 0, live |-> TRUE,
                     task |-> t, era |-> crashes]
            new  == EventOf(Len(orders) + 1, ord, "NEW")
<1>1. /\ task \in Task /\ task.cid \in 1..nCids /\ t \in Nat
      /\ Len(orders) \in Nat /\ orders \in Seq(Order) /\ nCids \in Nat
      /\ crashes \in Nat
  BY DEF TypeOK, ExchangeOK, CountsOK, ImagesOK, Snapshot, SnapshotOf, Memory
<1>2. Remaining(task) \in Nat
  BY <1>1 DEF Remaining, Task
<1>3. ord \in Order /\ ord.cid = task.cid
  BY <1>1, <1>2 DEF Order, Task
<1>4. orders' = Append(orders, ord) /\ Emit(new) /\ UNCHANGED <<position, connected>>
  BY DEF Accept
<1>5. /\ orders' \in Seq(Order) /\ Len(orders') = Len(orders) + 1
      /\ \A k \in 1..Len(orders) : orders'[k] = orders[k]
      /\ orders'[Len(orders) + 1] = ord
  BY <1>1, <1>3, <1>4, AppendProperties
<1>6. new \in Event /\ new.cid = task.cid /\ new.order = Len(orders) + 1
  BY <1>1, <1>3 DEF EventOf, Event, EventStatuses
<1>7. /\ stream' \in Seq(Event)
      /\ \A k \in 1..Len(stream') : /\ stream'[k].cid \in 1..nCids
                                    /\ stream'[k].order \in 1..Len(orders')
  BY <1>1, <1>4, <1>5, <1>6, EmitType
<1>8. ASSUME NEW k \in 1..Len(orders')
      PROVE  orders'[k].cid \in 1..nCids
  <2>1. CASE k = Len(orders) + 1
    BY <1>1, <1>3, <1>5, <2>1
  <2>2. CASE k \in 1..Len(orders)
    BY <1>5, <2>2 DEF TypeOK, ExchangeOK
  <2>. QED
    BY <1>1, <1>5, <2>1, <2>2
<1>. QED
  BY <1>4, <1>5, <1>7, <1>8 DEF TypeOK, ExchangeOK

-----------------------------------------------------------------------------
(* The goroutines *)

NoIdLost == /\ DOMAIN tasks \subseteq DOMAIN tasks'
            /\ Len(orders') \in Nat /\ Len(orders) <= Len(orders')

\* A step of goroutine p to a good state keeps all the others good.
LEMMA ProcStep ==
  ASSUME TypeOK, NoIdLost, NEW p \in Procs, NEW r,
         proc' = [proc EXCEPT ![p] = r],
         StateOK(p, r, DOMAIN tasks', 1..Len(orders'))
  PROVE  ProcOK'
<1>1. Len(orders) \in Nat
  BY DEF TypeOK, ExchangeOK
<1>2. proc' = [q \in Procs |-> IF q = p THEN r ELSE proc[q]]
  BY DEF TypeOK, ProcOK
<1>3. ASSUME NEW q \in Procs
      PROVE  StateOK(q, proc'[q], DOMAIN tasks', 1..Len(orders'))
  <2>1. CASE q = p
    BY <1>2, <2>1
  <2>2. CASE q # p
    <3>1. proc'[q] = proc[q] /\ StateOK(q, proc[q], DOMAIN tasks, 1..Len(orders))
      BY <1>2, <2>2 DEF TypeOK, ProcOK
    <3>2. 1..Len(orders) \subseteq 1..Len(orders')
      BY <1>1 DEF NoIdLost
    <3>. QED
      BY <3>1, <3>2 DEF StateOK, NoIdLost
  <2>. QED
    BY <2>1, <2>2
<1>. QED
  BY <1>2, <1>3 DEF ProcOK

LEMMA ProcKept ==
  ASSUME TypeOK, NoIdLost, UNCHANGED proc
  PROVE  ProcOK'
<1>1. Len(orders) \in Nat
  BY DEF TypeOK, ExchangeOK
<1>2. 1..Len(orders) \subseteq 1..Len(orders')
  BY <1>1 DEF NoIdLost
<1>. QED
  BY <1>2 DEF ProcOK, TypeOK, NoIdLost, StateOK

-----------------------------------------------------------------------------
(* The memory *)

LEMMA MemoryFacts ==
  ASSUME TypeOK
  PROVE  /\ market \in [Symbols -> Quote]
         /\ tasks \in [DOMAIN tasks -> Task] /\ DOMAIN tasks \subseteq 1..nTasks
         /\ plans \in [DOMAIN plans -> Plan] /\ DOMAIN plans \subseteq 1..nPlans
         /\ \A t \in DOMAIN tasks : /\ tasks[t].cid \in 1..nCids
                                   /\ tasks[t].orderID \in 0..Len(orders)
         /\ nTasks \in Nat /\ nPlans \in Nat /\ nCids \in Nat
         /\ Len(orders) \in Nat /\ 0 \notin DOMAIN tasks
BY DEF TypeOK, ImagesOK, Snapshot, SnapshotOf, Memory, ExchangeOK

\* A task changes within its type, and the plans with it or not.
LEMMA TaskChange ==
  ASSUME TypeOK, Grows, NEW t \in DOMAIN tasks, NEW task \in Task,
         tasks' = [tasks EXCEPT ![t] = task],
         task.cid \in 1..nCids', task.orderID \in 0..Len(orders'),
         plans' \in [DOMAIN plans' -> Plan], DOMAIN plans' \subseteq 1..nPlans',
         UNCHANGED <<market, disk, held>>
  PROVE  ImagesOK' /\ DOMAIN tasks' = DOMAIN tasks
<1>1. /\ tasks' \in [DOMAIN tasks' -> Task] /\ DOMAIN tasks' = DOMAIN tasks
      /\ DOMAIN tasks' \subseteq 1..nTasks'
      /\ \A u \in DOMAIN tasks : u # t => tasks'[u] = tasks[u]
      /\ tasks'[t] = task
  BY MemoryFacts DEF Grows
<1>2. \A u \in DOMAIN tasks' : /\ tasks'[u].cid \in 1..nCids'
                             /\ tasks'[u].orderID \in 0..Len(orders')
  BY <1>1, MemoryFacts DEF Grows
<1>3. Snapshot(Memory)'
  BY <1>1, <1>2, MemoryFacts DEF Snapshot, SnapshotOf, Memory
<1>. QED
  BY <1>1, <1>3, ImagesKept

\* A task joins those there were, or those the action makes of them.
LEMMA TaskAdded ==
  ASSUME TypeOK, Grows, NEW ts, ts \in [DOMAIN tasks -> Task], NEW task \in Task,
         \A u \in DOMAIN tasks : /\ ts[u].cid = tasks[u].cid
                               /\ ts[u].orderID = tasks[u].orderID,
         AddTask(ts, task), task.orderID = 0,
         plans' \in [DOMAIN plans -> Plan],
         UNCHANGED <<market, nPlans, disk, held, orders, orderIndex>>
  PROVE  /\ ImagesOK' /\ IndexOK'
         /\ DOMAIN tasks' = DOMAIN tasks \cup {nTasks + 1}
<1>. DEFINE new == [task EXCEPT !.cid = nCids + 1]
<1>1. new \in Task /\ new.cid = nCids + 1 /\ new.orderID = 0
  <2>1. nCids + 1 \in Nat
    BY MemoryFacts
  <2>2. ASSUME NEW c \in Nat
        PROVE  /\ [task EXCEPT !.cid = c] \in Task
               /\ [task EXCEPT !.cid = c].cid = c
               /\ [task EXCEPT !.cid = c].orderID = task.orderID
    BY DEF Task
  <2>. QED
    BY <2>1, <2>2
<1>2. /\ nTasks' = nTasks + 1 /\ nCids' = nCids + 1
      /\ tasks' = Put(ts, nTasks + 1, new)
      /\ clientIndex' = Put(clientIndex, nCids + 1, nTasks + 1)
  BY DEF AddTask
<1>3. /\ tasks' \in [DOMAIN tasks \cup {nTasks + 1} -> Task]
      /\ tasks'[nTasks + 1] = new
      /\ \A u \in DOMAIN tasks : u # nTasks + 1 => tasks'[u] = ts[u]
  <2>1. ts \in [DOMAIN ts -> Task] /\ DOMAIN ts = DOMAIN tasks
    OBVIOUS
  <2>2. /\ Put(ts, nTasks + 1, new) \in [DOMAIN tasks \cup {nTasks + 1} -> Task]
        /\ Put(ts, nTasks + 1, new)[nTasks + 1] = new
        /\ \A u \in DOMAIN tasks : u # nTasks + 1 => Put(ts, nTasks + 1, new)[u] = ts[u]
    <3>1. new \in Task
      BY <1>1
    <3>2. ASSUME NEW v \in Task
          PROVE  /\ Put(ts, nTasks + 1, v) \in [DOMAIN ts \cup {nTasks + 1} -> Task]
                 /\ Put(ts, nTasks + 1, v)[nTasks + 1] = v
                 /\ \A u \in DOMAIN ts : u # nTasks + 1 => Put(ts, nTasks + 1, v)[u] = ts[u]
      BY <2>1 DEF Put
    <3>. QED
      BY <2>1, <3>1, <3>2
  <2>. QED
    BY <1>2, <2>2
<1>4. DOMAIN tasks' = DOMAIN tasks \cup {nTasks + 1}
      /\ DOMAIN tasks' \subseteq 1..nTasks'
  BY <1>2, <1>3, MemoryFacts
<1>5. ASSUME NEW u \in DOMAIN tasks'
      PROVE  tasks'[u].cid \in 1..nCids' /\ tasks'[u].orderID \in 0..Len(orders')
  <2>1. CASE u = nTasks + 1
    <3>1. tasks'[u].cid = nCids + 1 /\ tasks'[u].orderID = 0
      BY <1>1, <1>3, <2>1
    <3>. QED
      BY <1>2, <3>1, MemoryFacts
  <2>2. CASE u # nTasks + 1
    <3>1. u \in DOMAIN tasks /\ tasks'[u] = ts[u]
      BY <1>3, <1>4, <2>2
    <3>2. tasks[u].cid \in 1..nCids /\ tasks[u].orderID \in 0..Len(orders)
      BY <3>1, MemoryFacts
    <3>. QED
      BY <1>2, <3>1, <3>2, MemoryFacts
  <2>. QED
    BY <2>1, <2>2
<1>6. /\ plans' \in [DOMAIN plans' -> Plan] /\ DOMAIN plans' \subseteq 1..nPlans'
      /\ tasks' \in [DOMAIN tasks' -> Task] /\ market' \in [Symbols -> Quote]
  BY <1>3, MemoryFacts
<1>7. Snapshot(Memory)'
  BY <1>4, <1>5, <1>6 DEF Snapshot, SnapshotOf, Memory
<1>8. IndexOK'
  <2>1. /\ clientIndex \in [DOMAIN clientIndex -> DOMAIN tasks']
        /\ DOMAIN clientIndex \subseteq 1..nCids
        /\ orderIndex \in [DOMAIN orderIndex -> DOMAIN tasks']
        /\ DOMAIN orderIndex \subseteq 1..Len(orders)
    BY <1>4 DEF TypeOK, IndexOK
  <2>2. nTasks + 1 \in DOMAIN tasks'
    BY <1>4
  <2>3. clientIndex' \in [DOMAIN clientIndex \cup {nCids + 1} -> DOMAIN tasks']
    BY <1>2, <2>1, <2>2, PutType
  <2>4. DOMAIN clientIndex \cup {nCids + 1} \subseteq 1..nCids'
    BY <1>2, <2>1, MemoryFacts
  <2>. QED
    BY <2>1, <2>3, <2>4 DEF IndexOK
<1>. QED
  BY <1>4, <1>7, <1>8, ImagesKept

LEMMA IndexKept ==
  ASSUME TypeOK, Grows, UNCHANGED index, DOMAIN tasks \subseteq DOMAIN tasks'
  PROVE  IndexOK'
BY MemoryFacts DEF TypeOK, IndexOK, index, Grows

LEMMA WorkKept ==
  ASSUME TypeOK, Grows, UNCHANGED <<work, audit>>,
         DOMAIN tasks \subseteq DOMAIN tasks', DOMAIN plans \subseteq DOMAIN plans'
  PROVE  WorkOK'
BY MemoryFacts DEF TypeOK, WorkOK, work, Grows

LEMMA ExchangeKept ==
  ASSUME TypeOK, Grows, UNCHANGED exchange
  PROVE  ExchangeOK'
BY MemoryFacts DEF TypeOK, ExchangeOK, exchange, Grows

LEMMA CountsKept == ASSUME TypeOK, UNCHANGED counts PROVE CountsOK'
BY DEF TypeOK, CountsOK, counts

\* An action that only moves goroutines, or the exchange, forgets no id.
LEMMA Still ==
  ASSUME TypeOK, UNCHANGED <<memory, index, ids>>,
         Len(orders') \in Nat, Len(orders) <= Len(orders')
  PROVE  /\ Grows /\ NoIdLost /\ IndexOK'
         /\ DOMAIN tasks' = DOMAIN tasks /\ DOMAIN plans' = DOMAIN plans
<1>1. Grows /\ NoIdLost /\ DOMAIN tasks' = DOMAIN tasks /\ DOMAIN plans' = DOMAIN plans
  BY MemoryFacts DEF Grows, NoIdLost, memory, ids
<1>. QED
  BY <1>1, IndexKept

LEMMA ResumeStep ==
  ASSUME TypeOK, NoIdLost, NEW p \in Procs, NEW label \in {"idle", "place", "clone"},
         NEW t \in Nat, NEW o \in Nat, Resume(p, label, t, o),
         p \notin {User, Reconcile} /\ label # "idle" => t \in DOMAIN tasks',
         p \in {User, Reconcile} => label # "place"
  PROVE  ProcOK'
<1>1. CASE label = "idle"
  <2>1. StateOK(p, Idle, DOMAIN tasks', 1..Len(orders'))
    BY DEF StateOK, Idle, Labels
  <2>. QED
    BY <1>1, <2>1, ProcStep DEF Resume, Done
<1>2. CASE label # "idle"
  <2>. DEFINE r == [at |-> label, then |-> "idle", task |-> t, order |-> o]
  <2>1. StateOK(p, r, DOMAIN tasks', 1..Len(orders'))
    BY <1>2 DEF StateOK, Labels
  <2>. QED
    BY <1>2, <2>1, ProcStep DEF Resume, Goto
<1>. QED
  BY <1>1, <1>2

LEMMA PersistStep ==
  ASSUME TypeOK, NoIdLost, NEW p \in Procs, NEW then \in {"idle", "place", "clone"},
         NEW t \in Nat, NEW o \in Nat, Persist(p, then, t, o),
         p \notin {User, Reconcile} => t \in DOMAIN tasks',
         p \in {User, Reconcile} => then # "place"
  PROVE  ProcOK'
<1>1. CASE MayCrash
  <2>. DEFINE r == [at |-> "clone", then |-> then, task |-> t, order |-> o]
  <2>1. StateOK(p, r, DOMAIN tasks', 1..Len(orders'))
    BY DEF StateOK, Labels
  <2>. QED
    BY <1>1, <2>1, ProcStep DEF Persist, Goto
<1>2. CASE ~MayCrash
  BY <1>2, ResumeStep DEF Persist
<1>. QED
  BY <1>1, <1>2

LEMMA DoneStep ==
  ASSUME TypeOK, NoIdLost, NEW p \in Procs, Done(p)
  PROVE  ProcOK'
<1>1. StateOK(p, Idle, DOMAIN tasks', 1..Len(orders'))
  BY DEF StateOK, Idle, Labels
<1>. QED
  BY <1>1, ProcStep DEF Done

LEMMA GotoStep ==
  ASSUME TypeOK, NoIdLost, NEW p \in Procs, NEW label \in Labels,
         NEW t \in Nat, NEW o \in Nat, Goto(p, label, "idle", t, o),
         p \notin {User, Reconcile} => t \in DOMAIN tasks',
         p \in {User, Reconcile} => label \in {"read", "clone"},
         label \in {"ack", "cancel", "rcancel"} => o \in 1..Len(orders')
  PROVE  ProcOK'
<1>. DEFINE r == [at |-> label, then |-> "idle", task |-> t, order |-> o]
<1>1. StateOK(p, r, DOMAIN tasks', 1..Len(orders'))
  BY DEF StateOK, Labels
<1>. QED
  BY <1>1, ProcStep DEF Goto

\* A goroutine in the middle of something goes on with the same task.
LEMMA MoveStep ==
  ASSUME TypeOK, NoIdLost, NEW p \in Procs, NEW label \in Labels,
         proc' = [proc EXCEPT ![p].at = label],
         p \in {User, Reconcile} => label \in {"save", "read", "mark"},
         p \notin {User, Reconcile} =>
           proc[p].at \notin {"idle", "read", "mark"},
         label \notin {"ack", "cancel", "rcancel"}
  PROVE  ProcOK'
<1>. DEFINE r == [proc[p] EXCEPT !.at = label]
<1>1. StateOK(p, proc[p], DOMAIN tasks, 1..Len(orders))
  BY DEF TypeOK, ProcOK
<1>2. /\ proc[p] \in [at : Labels, then : {"idle", "place", "clone"},
                      task : Nat, order : Nat]
      /\ p \notin {User, Reconcile} => proc[p].task \in DOMAIN tasks
      /\ p \in {User, Reconcile} => proc[p].then # "place"
  BY <1>1 DEF StateOK
<1>3. /\ r \in [at : Labels, then : {"idle", "place", "clone"},
                task : Nat, order : Nat]
      /\ r.at = label /\ r.then = proc[p].then /\ r.task = proc[p].task
  BY <1>2
<1>4. StateOK(p, r, DOMAIN tasks', 1..Len(orders'))
  BY <1>2, <1>3 DEF StateOK, NoIdLost
<1>5. proc' = [proc EXCEPT ![p] = r]
  OBVIOUS
<1>. QED
  BY <1>4, <1>5, ProcStep

-----------------------------------------------------------------------------
(* persist *)

LEMMA EmptySnapshot ==
  ASSUME NEW nt \in Nat, NEW np \in Nat, NEW nc \in Nat, NEW no \in Nat
  PROVE  SnapshotOf(NoSnapshot, nt, np, nc, no)
BY DEF SnapshotOf, NoSnapshot, NoQuotes, Quote, Empty

LEMMA StorageType ==
  ASSUME TypeOK, NEW p \in Procs, Clone(p) \/ Save(p)
  PROVE  TypeOK'
<1>0. UNCHANGED <<memory, index, ids, work, audit, exchange, counts>>
  BY DEF Clone, Save
<1>1. Grows /\ NoIdLost /\ IndexOK' /\ UNCHANGED orders
      /\ DOMAIN tasks' = DOMAIN tasks /\ DOMAIN plans' = DOMAIN plans
  <2>1. UNCHANGED orders
    BY <1>0 DEF exchange
  <2>. QED
    BY <1>0, <2>1, Still, MemoryFacts
<1>2. WorkOK' /\ ExchangeOK' /\ CountsOK'
  BY <1>0, <1>1, WorkKept, ExchangeKept, CountsKept
<1>3. \A s : Snapshot(s) => Snapshot(s)'
  BY <1>0, <1>1 DEF Snapshot, ids
<1>4. Memory' = Memory
  BY <1>0 DEF memory, Memory
<1>5. CASE Clone(p)
  <2>1. ImagesOK'
    BY <1>0, <1>1, <1>3, <1>4, <1>5 DEF TypeOK, ImagesOK, Clone, ids, Grows, Snapshot
  <2>2. ProcOK'
    BY <1>1, <1>5, MoveStep DEF Clone, At, Labels
  <2>. QED
    BY <1>1, <1>2, <2>1, <2>2 DEF TypeOK
<1>6. CASE Save(p)
  <2>1. ImagesOK'
    <3>1. Snapshot(NoSnapshot)
      BY EmptySnapshot, MemoryFacts DEF Snapshot
    <3>. QED
      BY <1>0, <1>1, <1>3, <1>4, <1>6, <3>1 DEF TypeOK, ImagesOK, Save, ids, Grows, Snapshot
  <2>2. StateOK(p, proc[p], DOMAIN tasks, 1..Len(orders)) /\ proc[p].at = "save"
    BY <1>6 DEF TypeOK, ProcOK, Save, At
  <2>3. ProcOK'
    <3>1. /\ proc[p].then \in {"idle", "place", "clone"}
          /\ proc[p].task \in Nat /\ proc[p].order \in Nat
          /\ p \notin {User, Reconcile} => proc[p].task \in DOMAIN tasks'
          /\ p \in {User, Reconcile} => proc[p].then # "place"
      BY <1>1, <2>2 DEF StateOK
    <3>. QED
      BY <1>1, <1>6, <3>1, ResumeStep DEF Save
  <2>. QED
    BY <1>1, <1>2, <2>1, <2>3 DEF TypeOK
<1>. QED
  BY <1>5, <1>6

-----------------------------------------------------------------------------
(* placeTask *)

\* In placeTask, a cancel or a rename a goroutine has a task, and with a reply
\* or a cancel an order of the exchange.
LEMMA Worker ==
  ASSUME TypeOK, NEW p \in Procs,
         proc[p].at \notin {"idle", "clone", "save", "read", "mark"}
  PROVE  /\ p \notin {User, Reconcile} /\ proc[p].task \in DOMAIN tasks
         /\ proc[p].task \in Nat /\ proc[p].order \in Nat
         /\ proc[p].at \in {"ack", "cancel", "rcancel"} =>
              proc[p].order \in 1..Len(orders)
BY DEF TypeOK, ProcOK, StateOK

LEMMA Indexed ==
  ASSUME TypeOK, Grows, DOMAIN tasks' = DOMAIN tasks, NEW t \in DOMAIN tasks,
         NEW c \in 1..nCids', clientIndex' = Put(clientIndex, c, t),
         \/ UNCHANGED orderIndex
         \/ \E o \in 1..Len(orders') : orderIndex' = Put(orderIndex, o, t)
  PROVE  IndexOK'
<1>1. /\ clientIndex \in [DOMAIN clientIndex -> DOMAIN tasks]
      /\ DOMAIN clientIndex \subseteq 1..nCids
      /\ orderIndex \in [DOMAIN orderIndex -> DOMAIN tasks]
      /\ DOMAIN orderIndex \subseteq 1..Len(orders)
  BY DEF TypeOK, IndexOK
<1>2. /\ clientIndex' \in [DOMAIN clientIndex' -> DOMAIN tasks']
      /\ DOMAIN clientIndex' \subseteq 1..nCids'
  <2>1. /\ clientIndex' \in [DOMAIN clientIndex \cup {c} -> DOMAIN tasks]
        /\ DOMAIN clientIndex' = DOMAIN clientIndex \cup {c}
    BY <1>1 DEF Put
  <2>. QED
    BY <1>1, <2>1, MemoryFacts DEF Grows
<1>3. /\ orderIndex' \in [DOMAIN orderIndex' -> DOMAIN tasks']
      /\ DOMAIN orderIndex' \subseteq 1..Len(orders')
  <2>1. CASE UNCHANGED orderIndex
    BY <1>1, <2>1, MemoryFacts DEF Grows
  <2>2. ASSUME NEW o \in 1..Len(orders'), orderIndex' = Put(orderIndex, o, t)
        PROVE  /\ orderIndex' \in [DOMAIN orderIndex' -> DOMAIN tasks']
               /\ DOMAIN orderIndex' \subseteq 1..Len(orders')
    <3>1. /\ orderIndex' \in [DOMAIN orderIndex \cup {o} -> DOMAIN tasks]
          /\ DOMAIN orderIndex' = DOMAIN orderIndex \cup {o}
      BY <1>1, <2>2 DEF Put
    <3>. QED
      BY <1>1, <3>1, MemoryFacts DEF Grows
  <2>. QED
    BY <2>1, <2>2
<1>. QED
  BY <1>2, <1>3 DEF IndexOK

LEMMA PlaceStartType ==
  ASSUME TypeOK, NEW p \in Procs, PlaceStart(p)
  PROVE  TypeOK'
<1>. DEFINE t == proc[p].task
            price == TargetPrice(market[tasks[t].symbol], tasks[t].side)
            task == [tasks[t] EXCEPT !.status = "PLACED", !.target = price]
<1>1. t \in DOMAIN tasks /\ p \notin {User, Reconcile}
  BY Worker DEF PlaceStart, At
<1>2. tasks[t] \in Task /\ price \in Nat
  <2>1. tasks[t] \in Task
    BY <1>1, MemoryFacts
  <2>2. market[tasks[t].symbol] \in Quote
    BY <2>1, MemoryFacts DEF Task
  <2>. QED
    BY <2>1, <2>2 DEF TargetPrice, Quote
<1>3. task \in Task /\ task.cid = tasks[t].cid /\ task.orderID = tasks[t].orderID
  <2>1. ASSUME NEW x \in Nat
        PROVE  /\ [tasks[t] EXCEPT !.status = "PLACED", !.target = x] \in Task
               /\ [tasks[t] EXCEPT !.status = "PLACED", !.target = x].cid = tasks[t].cid
               /\ [tasks[t] EXCEPT !.status = "PLACED", !.target = x].orderID
                    = tasks[t].orderID
    BY <1>2 DEF Task, TaskStatuses, ActiveStatuses
  <2>. QED
    BY <1>2, <2>1
<1>4. /\ tasks' = [tasks EXCEPT ![t] = task]
      /\ UNCHANGED <<market, plans, index, ids, held, work, audit, disk,
                     exchange, counts>>
  BY DEF PlaceStart
<1>5. Grows /\ UNCHANGED <<orders, nPlans, nTasks, nCids>>
  BY <1>4, MemoryFacts DEF Grows, ids, exchange
<1>6. ImagesOK' /\ DOMAIN tasks' = DOMAIN tasks
  <2>. HIDE DEF task
  <2>. QED
    BY <1>1, <1>3, <1>4, <1>5, MemoryFacts, TaskChange
<1>7. ProcOK'
  BY <1>1, <1>5, <1>6, MoveStep DEF PlaceStart, At, Labels, NoIdLost, Grows
<1>. QED
  BY <1>4, <1>5, <1>6, <1>7, IndexKept, WorkKept, ExchangeKept, CountsKept DEF TypeOK

LEMMA PlaceReplyType ==
  ASSUME TypeOK, NEW p \in Procs, PlaceAccepted(p) \/ PlaceRejected(p)
  PROVE  TypeOK'
<1>1. /\ proc[p].task \in DOMAIN tasks /\ proc[p].task \in Nat
      /\ p \notin {User, Reconcile}
  BY Worker DEF PlaceAccepted, PlaceRejected, At
<1>2. UNCHANGED <<memory, index, ids, held, work, audit, disk, counts>>
  BY DEF PlaceAccepted, PlaceRejected
<1>3. CASE PlaceAccepted(p)
  <2>1. ExchangeOK' /\ Len(orders') = Len(orders) + 1
    BY <1>1, <1>2, <1>3, AcceptType DEF PlaceAccepted, ids
  <2>2. Len(orders') \in Nat /\ Len(orders) <= Len(orders')
    BY <2>1, MemoryFacts
  <2>3. /\ Grows /\ NoIdLost /\ IndexOK' /\ DOMAIN tasks' = DOMAIN tasks
        /\ DOMAIN plans' = DOMAIN plans
    BY <1>2, <2>2, Still
  <2>4. PICK reply \in {"ack", "nack"} :
          Goto(p, reply, "idle", proc[p].task, Len(orders) + 1)
    BY <1>3 DEF PlaceAccepted
  <2>5. ProcOK'
    BY <1>1, <2>1, <2>3, <2>4, MemoryFacts, GotoStep DEF Labels
  <2>. QED
    BY <1>2, <2>1, <2>3, <2>5, MemoryKept, WorkKept, CountsKept DEF TypeOK
<1>4. CASE PlaceRejected(p)
  <2>1. UNCHANGED exchange /\ UNCHANGED orders
    BY <1>4 DEF PlaceRejected, exchange
  <2>2. /\ Grows /\ NoIdLost /\ IndexOK' /\ DOMAIN tasks' = DOMAIN tasks
        /\ DOMAIN plans' = DOMAIN plans
    BY <1>2, <2>1, Still, MemoryFacts
  <2>3. ProcOK'
    BY <1>1, <1>4, <2>2, GotoStep DEF PlaceRejected, Labels
  <2>. QED
    BY <1>2, <2>1, <2>2, <2>3, MemoryKept, WorkKept, ExchangeKept, CountsKept DEF TypeOK
<1>. QED
  BY <1>3, <1>4

LEMMA PlaceDoneType ==
  ASSUME TypeOK, NEW p \in Procs, PlaceDone(p)
  PROVE  TypeOK'
<1>. DEFINE t == proc[p].task
            o == proc[p].order
            c == orders[o].cid
            task == [tasks[t] EXCEPT !.orderID = o, !.cid = c, !.status = "CHASING"]
<1>1. t \in DOMAIN tasks /\ t \in Nat /\ p \notin {User, Reconcile}
      /\ o \in 1..Len(orders) /\ o \in Nat
  BY Worker DEF PlaceDone, At
<1>2. c \in 1..nCids /\ c \in Nat /\ tasks[t] \in Task
  BY <1>1, MemoryFacts DEF TypeOK, ExchangeOK
<1>3. task \in Task /\ task.cid = c /\ task.orderID = o
  <2>1. ASSUME NEW x \in Nat, NEW y \in Nat
        PROVE  LET new == [tasks[t] EXCEPT !.orderID = x, !.cid = y, !.status = "CHASING"]
               IN  new \in Task /\ new.cid = y /\ new.orderID = x
    BY <1>2 DEF Task, TaskStatuses, ActiveStatuses
  <2>. QED
    BY <1>1, <1>2, <2>1
<1>4. /\ tasks' = [tasks EXCEPT ![t] = task]
      /\ clientIndex' = Put(clientIndex, c, t)
      /\ orderIndex' = Put(orderIndex, o, t)
      /\ UNCHANGED <<market, plans, ids, held, work, audit, disk, exchange, counts>>
  BY DEF PlaceDone
<1>5. Grows /\ UNCHANGED <<orders, nPlans, nTasks, nCids>>
  BY <1>4, MemoryFacts DEF Grows, ids, exchange
<1>6. ImagesOK' /\ DOMAIN tasks' = DOMAIN tasks
  <2>1. task.cid \in 1..nCids' /\ task.orderID \in 0..Len(orders')
    BY <1>1, <1>2, <1>3, <1>5, MemoryFacts
  <2>2. plans' \in [DOMAIN plans' -> Plan] /\ DOMAIN plans' \subseteq 1..nPlans'
    BY <1>4, <1>5, MemoryFacts
  <2>. HIDE DEF task
  <2>. QED
    BY <1>1, <1>3, <1>4, <1>5, <2>1, <2>2, TaskChange
<1>7. IndexOK'
  BY <1>1, <1>2, <1>4, <1>5, <1>6, Indexed
<1>8. ProcOK'
  BY <1>1, <1>5, <1>6, PersistStep DEF PlaceDone, NoIdLost, Grows
<1>. QED
  BY <1>4, <1>5, <1>6, <1>7, <1>8, WorkKept, ExchangeKept, CountsKept DEF TypeOK

\* A task only changes its status.
LEMMA StatusChange ==
  ASSUME TypeOK, NEW t \in DOMAIN tasks, NEW status \in TaskStatuses,
         tasks' = [tasks EXCEPT ![t].status = status],
         UNCHANGED <<market, plans, ids, disk, held, orders>>
  PROVE  ImagesOK' /\ DOMAIN tasks' = DOMAIN tasks /\ Grows
<1>. DEFINE task == [tasks[t] EXCEPT !.status = status]
<1>1. tasks[t] \in Task
  BY MemoryFacts
<1>2. task \in Task /\ task.cid = tasks[t].cid /\ task.orderID = tasks[t].orderID
  BY <1>1 DEF Task
<1>3. tasks' = [tasks EXCEPT ![t] = task]
  OBVIOUS
<1>4. Grows /\ UNCHANGED <<nCids, nPlans>>
  BY MemoryFacts DEF Grows, ids
<1>. HIDE DEF task
<1>. QED
  BY <1>2, <1>3, <1>4, MemoryFacts, TaskChange

LEMMA PlaceFailedType ==
  ASSUME TypeOK, NEW p \in Procs, PlaceFailed(p)
  PROVE  TypeOK'
<1>1. proc[p].task \in DOMAIN tasks /\ p \notin {User, Reconcile}
  BY Worker DEF PlaceFailed, At
<1>2. UNCHANGED <<market, plans, index, ids, held, work, audit, disk, exchange, counts, orders>>
  BY DEF PlaceFailed, exchange
<1>3. ImagesOK' /\ DOMAIN tasks' = DOMAIN tasks /\ Grows
  BY <1>1, <1>2, StatusChange DEF PlaceFailed, TaskStatuses
<1>4. ProcOK'
  BY <1>3, DoneStep DEF PlaceFailed, NoIdLost, Grows
<1>. QED
  BY <1>2, <1>3, <1>4, IndexKept, WorkKept, ExchangeKept, CountsKept DEF TypeOK

-----------------------------------------------------------------------------
(* The control connections *)

LEMMA CancelReplyType ==
  ASSUME TypeOK, NEW h \in Handlers, CancelOk(h) \/ CancelError(h)
  PROVE  TypeOK'
<1>1. h \in Procs /\ h \notin {User, Reconcile}
  BY HandlerAssumption DEF Procs
<1>2. /\ proc[h].task \in DOMAIN tasks /\ proc[h].task \in Nat
      /\ proc[h].order \in 1..Len(orders)
  BY <1>1, Worker DEF CancelOk, CancelError, At
<1>3. UNCHANGED <<memory, index, ids, held, work, audit, disk, counts>>
  BY DEF CancelOk, CancelError
<1>4. ExchangeOK' /\ Len(orders') = Len(orders)
  <2>1. UNCHANGED nCids
    BY <1>3 DEF ids
  <2>2. CASE EndOrder(proc[h].order)
    BY <2>1, <2>2, EndOrderType DEF ExchangeStep
  <2>3. CASE UNCHANGED exchange
    BY <2>1, <2>3 DEF TypeOK, ExchangeOK, exchange
  <2>. QED
    BY <2>2, <2>3 DEF CancelOk, CancelError
<1>5. /\ Grows /\ NoIdLost /\ IndexOK' /\ DOMAIN tasks' = DOMAIN tasks
      /\ DOMAIN plans' = DOMAIN plans
  BY <1>3, <1>4, Still, MemoryFacts
<1>6. ProcOK'
  BY <1>1, <1>2, <1>5, PersistStep, DoneStep DEF CancelOk, CancelError
<1>. QED
  BY <1>3, <1>4, <1>5, <1>6, MemoryKept, WorkKept, CountsKept DEF TypeOK

LEMMA CancelTaskType ==
  ASSUME TypeOK, NEW h \in Handlers, NEW t \in DOMAIN tasks, CancelTask(h, t)
  PROVE  TypeOK'
<1>1. h \in Procs /\ h \notin {User, Reconcile}
  BY HandlerAssumption DEF Procs
<1>2. UNCHANGED <<market, plans, index, ids, held, work, audit, disk, exchange, orders>>
  BY DEF CancelTask, exchange
<1>3. ImagesOK' /\ DOMAIN tasks' = DOMAIN tasks /\ Grows /\ NoIdLost
  BY <1>2, StatusChange DEF CancelTask, TaskStatuses, NoIdLost, Grows
<1>4. t \in Nat /\ tasks[t].orderID \in 0..Len(orders) /\ Len(orders) \in Nat
  BY MemoryFacts
<1>5. ProcOK'
  <2>1. CASE tasks[t].orderID # 0
    <3>1. /\ tasks[t].orderID \in Nat /\ tasks[t].orderID \in 1..Len(orders')
          /\ Goto(h, "cancel", "idle", t, tasks[t].orderID)
      BY <1>2, <1>4, <2>1 DEF CancelTask
    <3>. QED
      BY <1>1, <1>3, <1>4, <3>1, GotoStep DEF Labels
  <2>2. CASE tasks[t].orderID = 0
    <3>1. Persist(h, "idle", t, 0)
      BY <2>2 DEF CancelTask
    <3>. QED
      BY <1>1, <1>3, <1>4, <3>1, PersistStep
  <2>. QED
    BY <2>1, <2>2
<1>6. CountsOK'
  BY DEF CancelTask, TypeOK, CountsOK
<1>. QED
  BY <1>2, <1>3, <1>5, <1>6, IndexKept, WorkKept, ExchangeKept DEF TypeOK

LEMMA SubmitType ==
  ASSUME TypeOK, NEW h \in Handlers, NEW req \in Requests, Submit(h, req)
  PROVE  TypeOK'
<1>. DEFINE task == [NewTask("ENTRY", req.symbol, req.positionSide, req.side, req.quantity)
                     EXCEPT !.takeProfit = req.takeProfit, !.stopLoss = req.stopLoss]
<1>1. h \in Procs /\ h \notin {User, Reconcile}
  BY HandlerAssumption DEF Procs
<1>2. task \in Task /\ task.orderID = 0
  BY InputAssumption DEF Request, NewTask, Task, TaskKinds, TaskStatuses, ActiveStatuses
<1>3. /\ AddTask(tasks, task)
      /\ UNCHANGED <<market, plans, orderIndex, nPlans, held, work, audit,
                     disk, exchange, counts, orders>>
  BY DEF Submit, exchange
<1>4. Grows
  BY <1>3, MemoryFacts DEF Grows, AddTask
<1>5. /\ ImagesOK' /\ IndexOK' /\ DOMAIN tasks' = DOMAIN tasks \cup {nTasks + 1}
  <2>. HIDE DEF task
  <2>1. plans' \in [DOMAIN plans -> Plan] /\ tasks \in [DOMAIN tasks -> Task]
    BY <1>3, MemoryFacts
  <2>. QED
    BY <1>2, <1>3, <1>4, <2>1, TaskAdded
<1>6. ProcOK'
  <2>1. NoIdLost /\ nTasks + 1 \in DOMAIN tasks' /\ nTasks + 1 \in Nat
    BY <1>3, <1>4, <1>5, MemoryFacts DEF NoIdLost, Grows
  <2>. QED
    BY <1>1, <2>1, PersistStep DEF Submit
<1>. QED
  BY <1>3, <1>4, <1>5, <1>6, WorkKept, ExchangeKept, CountsKept DEF TypeOK

LEMMA ControlType ==
  ASSUME TypeOK, Control
  PROVE  TypeOK'
BY SubmitType, CancelTaskType, CancelReplyType DEF Control

-----------------------------------------------------------------------------
(* The market stream *)

LEMMA OnMarketType ==
  ASSUME TypeOK, NEW k \in Ticks, OnMarket(k)
  PROVE  TypeOK'
<1>. DEFINE s == k.symbol
            q == [bid |-> Newer(market[s].bid, k.bid),
                  ask |-> Newer(market[s].ask, k.ask),
                  mark |-> Newer(market[s].mark, k.mark)]
<1>1. s \in Symbols /\ k.bid \in Nat /\ k.ask \in Nat /\ k.mark \in Nat
  BY InputAssumption DEF Tick
<1>2. q \in Quote
  BY <1>1, MemoryFacts DEF Quote, Newer
<1>3. /\ market' = [market EXCEPT ![s] = q]
      /\ checks' \subseteq DOMAIN tasks /\ triggers' \subseteq DOMAIN plans
      /\ UNCHANGED <<tasks, plans, index, ids, proc, held, asyncCancels,
                     cooling, audit, disk, exchange, counts>>
  BY DEF OnMarket
<1>4. market' \in [Symbols -> Quote]
  BY <1>1, <1>2, <1>3, MemoryFacts
<1>5. /\ Grows /\ NoIdLost
      /\ UNCHANGED <<orders, nTasks, nPlans, nCids>>
  BY <1>3, MemoryFacts DEF Grows, NoIdLost, ids, exchange
<1>6. ImagesOK'
  <2>1. Snapshot(Memory)'
    BY <1>3, <1>4, <1>5, MemoryFacts DEF Snapshot, SnapshotOf, Memory
  <2>. QED
    BY <1>3, <1>5, <2>1, ImagesKept
<1>7. WorkOK'
  BY <1>3, <1>5 DEF TypeOK, WorkOK
<1>. QED
  BY <1>3, <1>5, <1>6, <1>7, IndexKept, ProcKept, ExchangeKept, CountsKept DEF TypeOK

LEMMA SkipType ==
  ASSUME TypeOK,
         \/ \E t \in DOMAIN tasks : SkipReplace(t)
         \/ \E n \in DOMAIN plans : SkipTrigger(n)
         \/ \E k \in cooling : CooldownEnds(k)
  PROVE  TypeOK'
<1>1. /\ UNCHANGED <<memory, index, ids, proc, held, asyncCancels, audit,
                     disk, exchange, counts, orders>>
      /\ checks' \subseteq checks /\ triggers' \subseteq triggers
      /\ cooling' \subseteq cooling
  BY DEF SkipReplace, SkipTrigger, CooldownEnds, exchange
<1>2. /\ Grows /\ NoIdLost /\ IndexOK' /\ DOMAIN tasks' = DOMAIN tasks
      /\ DOMAIN plans' = DOMAIN plans
  BY <1>1, Still, MemoryFacts
<1>3. WorkOK'
  BY <1>1, <1>2 DEF TypeOK, WorkOK
<1>. QED
  BY <1>1, <1>2, <1>3, MemoryKept, ProcKept, ExchangeKept, CountsKept DEF TypeOK

LEMMA StartReplaceType ==
  ASSUME TypeOK, NEW t \in DOMAIN tasks, StartReplace(t)
  PROVE  TypeOK'
<1>. DEFINE o == tasks[t].orderID
            label == IF o # 0 THEN "rcancel" ELSE "rename"
<1>1. /\ UNCHANGED <<memory, index, ids, held, triggers, asyncCancels, audit,
                     disk, exchange, counts, orders>>
      /\ checks' \subseteq checks /\ cooling' = cooling \cup {KeyOf(tasks[t])}
      /\ Goto(Market, label, "idle", t, o)
  BY DEF StartReplace, exchange
<1>2. /\ Grows /\ NoIdLost /\ IndexOK' /\ DOMAIN tasks' = DOMAIN tasks
      /\ DOMAIN plans' = DOMAIN plans
  BY <1>1, Still, MemoryFacts
<1>3. tasks[t] \in Task /\ t \in Nat /\ o \in 0..Len(orders) /\ Len(orders) \in Nat
  BY MemoryFacts
<1>4. WorkOK'
  <2>1. KeyOf(tasks[t]) \in Keys
    BY <1>3 DEF KeyOf, Keys, Task
  <2>. QED
    BY <1>1, <1>2, <2>1 DEF TypeOK, WorkOK
<1>5. ProcOK'
  <2>1. /\ Market \in Procs /\ Market \notin {User, Reconcile}
        /\ label \in Labels /\ o \in Nat
        /\ label \in {"ack", "cancel", "rcancel"} => o \in 1..Len(orders')
    BY <1>1, <1>3 DEF Procs, Market, User, Reconcile, Labels
  <2>. QED
    BY <1>1, <1>2, <1>3, <2>1, GotoStep
<1>. QED
  BY <1>1, <1>2, <1>4, <1>5, MemoryKept, ExchangeKept, CountsKept DEF TypeOK

LEMMA ReplaceCancelType ==
  ASSUME TypeOK, ReplaceCancelOk \/ ReplaceCancelError
  PROVE  TypeOK'
<1>1. Market \in Procs /\ Market \notin {User, Reconcile} /\ proc[Market].at = "rcancel"
  BY DEF Procs, Market, User, Reconcile, ReplaceCancelOk, ReplaceCancelError, At
<1>2. UNCHANGED <<memory, index, ids, held, work, audit, disk, counts>>
  BY DEF ReplaceCancelOk, ReplaceCancelError
<1>3. ExchangeOK' /\ Len(orders') = Len(orders)
  <2>1. UNCHANGED nCids
    BY <1>2 DEF ids
  <2>2. CASE EndOrder(proc[Market].order)
    BY <2>1, <2>2, EndOrderType DEF ExchangeStep
  <2>3. CASE UNCHANGED exchange
    BY <2>1, <2>3 DEF TypeOK, ExchangeOK, exchange
  <2>. QED
    BY <2>2, <2>3 DEF ReplaceCancelOk, ReplaceCancelError
<1>4. /\ Grows /\ NoIdLost /\ IndexOK' /\ DOMAIN tasks' = DOMAIN tasks
      /\ DOMAIN plans' = DOMAIN plans
  BY <1>2, <1>3, Still, MemoryFacts
<1>5. ProcOK'
  <2>1. CASE ReplaceCancelOk
    BY <1>1, <1>4, <2>1, MoveStep DEF ReplaceCancelOk, Labels
  <2>2. CASE ReplaceCancelError
    BY <1>1, <1>4, <2>2, DoneStep DEF ReplaceCancelError
  <2>. QED
    BY <2>1, <2>2
<1>. QED
  BY <1>2, <1>3, <1>4, <1>5, MemoryKept, WorkKept, CountsKept DEF TypeOK

LEMMA RenameType ==
  ASSUME TypeOK, Rename
  PROVE  TypeOK'
<1>. DEFINE t == proc[Market].task
            c == nCids + 1
            task == [tasks[t] EXCEPT !.cid = c]
<1>1. /\ Market \in Procs /\ Market \notin {User, Reconcile}
      /\ proc[Market].at = "rename"
  BY DEF Procs, Market, User, Reconcile, Rename, At
<1>2. t \in DOMAIN tasks
  BY <1>1, Worker
<1>3. task \in Task /\ task.cid = c /\ task.orderID = tasks[t].orderID
  <2>1. tasks[t] \in Task /\ c \in Nat
    BY <1>2, MemoryFacts
  <2>2. ASSUME NEW x \in Nat
        PROVE  LET new == [tasks[t] EXCEPT !.cid = x]
               IN  new \in Task /\ new.cid = x /\ new.orderID = tasks[t].orderID
    BY <2>1 DEF Task
  <2>. QED
    BY <2>1, <2>2
<1>4. /\ nCids' = c /\ tasks' = [tasks EXCEPT ![t] = task]
      /\ clientIndex' = Put(clientIndex, c, t)
      /\ UNCHANGED <<market, plans, orderIndex, nTasks, nPlans, held, work,
                     audit, disk, exchange, counts, orders>>
  BY DEF Rename, exchange
<1>5. Grows
  BY <1>4, MemoryFacts DEF Grows
<1>6. ImagesOK' /\ DOMAIN tasks' = DOMAIN tasks
  <2>1. c \in 1..nCids' /\ tasks[t].orderID \in 0..Len(orders')
    BY <1>2, <1>4, MemoryFacts
  <2>2. plans' \in [DOMAIN plans' -> Plan] /\ DOMAIN plans' \subseteq 1..nPlans'
    BY <1>4, MemoryFacts
  <2>. HIDE DEF task, c
  <2>. QED
    BY <1>2, <1>3, <1>4, <1>5, <2>1, <2>2, TaskChange
<1>7. IndexOK'
  <2>1. c \in 1..nCids'
    BY <1>4, MemoryFacts
  <2>. QED
    BY <1>2, <1>4, <1>5, <1>6, <2>1, Indexed
<1>8. ProcOK'
  BY <1>1, <1>5, <1>6, MoveStep DEF Rename, Labels, NoIdLost, Grows
<1>. QED
  BY <1>4, <1>5, <1>6, <1>7, <1>8, WorkKept, ExchangeKept, CountsKept DEF TypeOK

LEMMA TriggerPlanType ==
  ASSUME TypeOK, NEW n \in DOMAIN plans, Trigger(n)
  PROVE  TypeOK'
<1>. DEFINE plan == plans[n]
            e    == plan.entryTask
            stop == /\ e \in DOMAIN tasks /\ IsActive(tasks[e].status)
                    /\ tasks[e].orderID # 0
            exit == [NewTask("EXIT", plan.symbol, plan.positionSide,
                             CloseSide(plan.positionSide), plan.protectedQty)
                     EXCEPT !.plan = n]
            rest == IF stop THEN [tasks EXCEPT ![e].status = "CANCELED"] ELSE tasks
<1>1. plan \in Plan /\ n \in Nat
  BY MemoryFacts
<1>2. exit \in Task /\ exit.orderID = 0
  BY <1>1 DEF Plan, NewTask, Task, TaskKinds, TaskStatuses, ActiveStatuses,
              CloseSide, Sides
<1>3. /\ rest \in [DOMAIN tasks -> Task]
      /\ \A u \in DOMAIN tasks : /\ rest[u].cid = tasks[u].cid
                                /\ rest[u].orderID = tasks[u].orderID
  <2>1. CASE stop
    <3>1. tasks[e] \in Task
      BY <2>1, MemoryFacts
    <3>2. [tasks[e] EXCEPT !.status = "CANCELED"] \in Task
      BY <3>1 DEF Task, TaskStatuses
    <3>3. rest = [tasks EXCEPT ![e] = [tasks[e] EXCEPT !.status = "CANCELED"]]
      BY <2>1
    <3>. QED
      BY <2>1, <3>1, <3>2, <3>3, MemoryFacts DEF Task
  <2>2. CASE ~stop
    BY <2>2, MemoryFacts
  <2>. QED
    BY <2>1, <2>2
<1>4. plans' \in [DOMAIN plans -> Plan]
  <2>1. ASSUME NEW x \in Nat
        PROVE  [plans[n] EXCEPT !.status = "TRIGGERED", !.exitTask = x] \in Plan
    BY <1>1 DEF Plan, PlanStatuses
  <2>2. plans' = [plans EXCEPT ![n] =
                    [plans[n] EXCEPT !.status = "TRIGGERED", !.exitTask = nTasks + 1]]
    BY DEF Trigger
  <2>3. nTasks + 1 \in Nat
    BY MemoryFacts
  <2>. QED
    BY <2>1, <2>2, <2>3, MemoryFacts
<1>5. /\ AddTask(rest, exit) /\ triggers' \subseteq triggers
      /\ asyncCancels' \subseteq asyncCancels \cup
           (IF stop THEN {tasks[e].orderID} ELSE {})
      /\ Persist(Market, "place", nTasks + 1, 0)
      /\ UNCHANGED <<market, orderIndex, nPlans, held, checks, cooling, audit,
                     disk, exchange, counts, orders>>
  BY DEF Trigger, exchange
<1>6. Grows
  BY <1>5, MemoryFacts DEF Grows, AddTask
<1>7. ImagesOK' /\ IndexOK' /\ DOMAIN tasks' = DOMAIN tasks \cup {nTasks + 1}
  <2>. HIDE DEF rest, exit
  <2>. QED
    BY <1>2, <1>3, <1>4, <1>5, <1>6, TaskAdded
<1>8. ProcOK'
  <2>1. NoIdLost /\ nTasks + 1 \in DOMAIN tasks' /\ nTasks + 1 \in Nat
    BY <1>5, <1>6, <1>7, MemoryFacts DEF NoIdLost, Grows
  <2>2. Market \in Procs /\ Market \notin {User, Reconcile}
    BY DEF Procs, Market, User, Reconcile
  <2>. QED
    BY <1>5, <2>1, <2>2, PersistStep
<1>9. WorkOK'
  <2>1. stop => tasks[e].orderID \in 1..Len(orders)
    BY MemoryFacts
  <2>2. asyncCancels' \subseteq 1..Len(orders')
    <3>. HIDE DEF stop
    <3>. QED
      BY <1>5, <2>1 DEF TypeOK, WorkOK
  <2>. QED
    BY <1>4, <1>5, <1>7, <2>2 DEF TypeOK, WorkOK
<1>. QED
  BY <1>5, <1>6, <1>7, <1>8, <1>9, ExchangeKept, CountsKept DEF TypeOK

LEMMA AsyncCancelType ==
  ASSUME TypeOK, NEW o \in asyncCancels, AsyncCancel(o)
  PROVE  TypeOK'
<1>1. /\ UNCHANGED <<memory, index, ids, proc, held, checks, triggers, cooling,
                     audit, disk, counts>>
      /\ asyncCancels' \subseteq asyncCancels
  BY DEF AsyncCancel
<1>2. ExchangeOK' /\ Len(orders') = Len(orders)
  <2>1. UNCHANGED nCids
    BY <1>1 DEF ids
  <2>2. CASE EndOrder(o)
    BY <2>1, <2>2, EndOrderType DEF ExchangeStep
  <2>3. CASE UNCHANGED exchange
    BY <2>1, <2>3 DEF TypeOK, ExchangeOK, exchange
  <2>. QED
    BY <2>2, <2>3 DEF AsyncCancel
<1>3. /\ Grows /\ NoIdLost /\ IndexOK' /\ DOMAIN tasks' = DOMAIN tasks
      /\ DOMAIN plans' = DOMAIN plans
  BY <1>1, <1>2, Still, MemoryFacts
<1>4. WorkOK'
  BY <1>1, <1>2, <1>3 DEF TypeOK, WorkOK
<1>. QED
  BY <1>1, <1>2, <1>3, <1>4, MemoryKept, ProcKept, CountsKept DEF TypeOK

LEMMA MarketType ==
  ASSUME TypeOK, MarketStream
  PROVE  TypeOK'
BY OnMarketType, SkipType, StartReplaceType, ReplaceCancelType, RenameType,
   TriggerPlanType, AsyncCancelType DEF MarketStream

-----------------------------------------------------------------------------
(* The user stream *)

LEMMA EventRead ==
  ASSUME TypeOK, stream # <<>>, stream' = Tail(stream),
         UNCHANGED <<orders, position, connected, nCids>>
  PROVE  /\ ExchangeOK'
         /\ Head(stream) \in Event
         /\ Head(stream).cid \in 1..nCids /\ Head(stream).order \in 1..Len(orders)
<1>1. /\ stream \in Seq(Event) /\ Len(stream) \in Nat
      /\ \A k \in 1..Len(stream) : /\ stream[k].cid \in 1..nCids
                                 /\ stream[k].order \in 1..Len(orders)
  BY DEF TypeOK, ExchangeOK
<1>2. /\ Head(stream) \in Event /\ Tail(stream) \in Seq(Event)
      /\ Len(Tail(stream)) = Len(stream) - 1
      /\ \A i \in 1..Len(Tail(stream)) : Tail(stream)[i] = stream[i + 1]
  BY <1>1, HeadTailProperties
<1>3. Head(stream) = stream[1] /\ 1 \in 1..Len(stream)
  BY <1>1
<1>4. ASSUME NEW k \in 1..Len(stream')
      PROVE  stream'[k].cid \in 1..nCids' /\ stream'[k].order \in 1..Len(orders')
  <2>1. k + 1 \in 1..Len(stream) /\ stream'[k] = stream[k + 1]
    BY <1>1, <1>2
  <2>. QED
    BY <1>1, <2>1
<1>. QED
  BY <1>1, <1>2, <1>3, <1>4 DEF TypeOK, ExchangeOK

LEMMA EnsurePlanType ==
  ASSUME TypeOK, NEW t \in DOMAIN tasks, NEW task \in Task, EnsurePlan(t, task)
  PROVE  /\ plans' \in [DOMAIN plans' -> Plan] /\ DOMAIN plans' \subseteq 1..nPlans'
         /\ nPlans' \in Nat /\ nPlans <= nPlans'
         /\ DOMAIN plans \subseteq DOMAIN plans'
<1>. DEFINE new == [symbol |-> task.symbol, positionSide |-> task.positionSide,
                    entryTask |-> t, exitTask |-> 0, protectedQty |-> task.filled,
                    takeProfit |-> task.takeProfit, stopLoss |-> task.stopLoss,
                    status |-> "ARMED"]
<1>1. new \in Plan
  BY MemoryFacts DEF Plan, Task, PlanStatuses
<1>2. CASE plans' = Put(plans, nPlans + 1, new) /\ nPlans' = nPlans + 1
  <2>1. plans' \in [DOMAIN plans \cup {nPlans + 1} -> Plan]
    <3>. HIDE DEF new
    <3>. QED
      BY <1>1, <1>2, MemoryFacts DEF Put
  <2>. QED
    BY <1>2, <2>1, MemoryFacts
<1>3. ASSUME NEW n \in DOMAIN plans, UNCHANGED nPlans,
             plans' = [plans EXCEPT
               ![n].protectedQty = IF task.filled > @ THEN task.filled ELSE @,
               ![n].status = "ARMED"]
      PROVE  plans' \in [DOMAIN plans -> Plan]
  <2>. DEFINE raised == IF task.filled > plans[n].protectedQty THEN task.filled
                        ELSE plans[n].protectedQty
  <2>1. plans[n] \in Plan
    BY MemoryFacts
  <2>2. raised \in Nat
    BY <2>1 DEF Plan, Task
  <2>3. ASSUME NEW x \in Nat
        PROVE  [plans[n] EXCEPT !.protectedQty = x, !.status = "ARMED"] \in Plan
    BY <2>1 DEF Plan, PlanStatuses
  <2>4. plans' = [plans EXCEPT ![n] =
                    [plans[n] EXCEPT !.protectedQty = raised, !.status = "ARMED"]]
    BY <1>3
  <2>. QED
    BY <2>2, <2>3, <2>4, MemoryFacts
<1>4. CASE \E n \in PlansOf(t) :
             /\ plans' = [plans EXCEPT
                  ![n].protectedQty = IF task.filled > @ THEN task.filled ELSE @,
                  ![n].status = "ARMED"]
             /\ UNCHANGED nPlans
  <2>1. plans' \in [DOMAIN plans -> Plan] /\ UNCHANGED nPlans
    BY <1>3, <1>4 DEF PlansOf
  <2>. QED
    BY <2>1, MemoryFacts
<1>. QED
  BY <1>2, <1>4 DEF EnsurePlan

LEMMA ClosePlanType ==
  ASSUME TypeOK, NEW n \in DOMAIN plans, ClosePlan(n)
  PROVE  plans' \in [DOMAIN plans -> Plan]
<1>1. [plans[n] EXCEPT !.status = "CLOSED", !.protectedQty = 0] \in Plan
  BY MemoryFacts DEF Plan, PlanStatuses
<1>2. plans' = [plans EXCEPT ![n] =
                  [plans[n] EXCEPT !.status = "CLOSED", !.protectedQty = 0]]
  BY DEF ClosePlan
<1>. QED
  BY <1>1, <1>2, MemoryFacts

LEMMA OrderUpdateType ==
  ASSUME TypeOK, OnOrderUpdate
  PROVE  TypeOK'
<1>. DEFINE e      == Head(stream)
            t      == TaskOf(e)
            filled == FilledAfter(tasks[t].filled, e)
            status == StatusAfter(tasks[t].status, e.status)
            task   == [tasks[t] EXCEPT !.orderID = e.order, !.cid = e.cid,
                                       !.filled = filled, !.status = status]
<1>1. /\ t \in DOMAIN tasks /\ stream # <<>> /\ stream' = Tail(stream)
      /\ tasks' = [tasks EXCEPT ![t] = task]
      /\ clientIndex' = Put(clientIndex, e.cid, t)
      /\ orderIndex' = Put(orderIndex, e.order, t)
      /\ UNCHANGED <<market, nTasks, nCids, held, work, audit, disk, orders,
                     position, connected, counts>>
  BY DEF OnOrderUpdate
<1>2. ExchangeOK' /\ e \in Event /\ e.cid \in 1..nCids /\ e.order \in 1..Len(orders)
  BY <1>1, EventRead
<1>3. task \in Task /\ task.cid = e.cid /\ task.orderID = e.order
  <2>1. tasks[t] \in Task /\ e.cid \in Nat /\ e.order \in Nat
    BY <1>1, <1>2, MemoryFacts DEF Event
  <2>2. filled \in Nat /\ status \in TaskStatuses
    BY <1>2, <2>1 DEF FilledAfter, StatusAfter, Event, EventStatuses, Task,
                      TaskStatuses, ActiveStatuses
  <2>. DEFINE New(o, c, f, s) == [tasks[t] EXCEPT !.orderID = o, !.cid = c,
                                                  !.filled = f, !.status = s]
  <2>3. ASSUME NEW o \in Nat, NEW c \in Nat, NEW f \in Nat, NEW s \in TaskStatuses
        PROVE  New(o, c, f, s) \in Task /\ New(o, c, f, s).cid = c
               /\ New(o, c, f, s).orderID = o
    BY <2>1 DEF Task
  <2>4. task = New(e.order, e.cid, filled, status)
    OBVIOUS
  <2>. HIDE DEF New, task, e, filled, status
  <2>. QED
    BY <2>1, <2>2, <2>3, <2>4
<1>4. /\ plans' \in [DOMAIN plans' -> Plan] /\ DOMAIN plans' \subseteq 1..nPlans'
      /\ nPlans' \in Nat /\ nPlans <= nPlans'
      /\ DOMAIN plans \subseteq DOMAIN plans'
  <2>1. \/ EnsurePlan(t, task)
        \/ task.plan \in DOMAIN plans /\ ClosePlan(task.plan) /\ UNCHANGED nPlans
        \/ UNCHANGED <<plans, nPlans>>
    BY DEF OnOrderUpdate
  <2>. HIDE DEF task
  <2>2. CASE EnsurePlan(t, task)
    BY <1>1, <1>3, <2>2, EnsurePlanType
  <2>3. CASE task.plan \in DOMAIN plans /\ ClosePlan(task.plan) /\ UNCHANGED nPlans
    BY <2>3, ClosePlanType, MemoryFacts
  <2>4. CASE UNCHANGED <<plans, nPlans>>
    BY <2>4, MemoryFacts
  <2>. QED
    BY <2>1, <2>2, <2>3, <2>4
<1>5. Grows
  BY <1>1, <1>4, MemoryFacts DEF Grows
<1>6. ImagesOK' /\ DOMAIN tasks' = DOMAIN tasks
  <2>1. task.cid \in 1..nCids' /\ task.orderID \in 0..Len(orders')
    BY <1>1, <1>2, <1>3, MemoryFacts
  <2>. HIDE DEF task
  <2>. QED
    BY <1>1, <1>3, <1>4, <1>5, <2>1, TaskChange
<1>7. IndexOK'
  <2>1. e.cid \in 1..nCids' /\ e.order \in 1..Len(orders')
    BY <1>1, <1>2
  <2>. QED
    BY <1>1, <1>5, <1>6, <2>1, Indexed
<1>8. ProcOK'
  <2>1. PICK label \in {"clone", "idle"} : Persist(User, label, 0, 0)
    BY DEF OnOrderUpdate
  <2>. QED
    BY <1>5, <1>6, <2>1, PersistStep DEF Procs, NoIdLost, Grows
<1>. QED
  BY <1>1, <1>2, <1>4, <1>5, <1>6, <1>7, <1>8, WorkKept, CountsKept DEF TypeOK

LEMMA IgnoreUpdateType ==
  ASSUME TypeOK, IgnoreUpdate
  PROVE  TypeOK'
<1>1. /\ stream # <<>> /\ stream' = Tail(stream)
      /\ UNCHANGED <<memory, index, ids, proc, held, work, audit, disk, orders,
                     position, connected, counts>>
  BY DEF IgnoreUpdate
<1>2. ExchangeOK'
  BY <1>1, EventRead DEF ids
<1>3. /\ Grows /\ NoIdLost /\ IndexOK' /\ DOMAIN tasks' = DOMAIN tasks
      /\ DOMAIN plans' = DOMAIN plans
  BY <1>1, Still, MemoryFacts
<1>. QED
  BY <1>1, <1>2, <1>3, MemoryKept, ProcKept, WorkKept, CountsKept DEF TypeOK

LEMMA UserType ==
  ASSUME TypeOK, UserStream
  PROVE  TypeOK'
BY OrderUpdateType, IgnoreUpdateType DEF UserStream

-----------------------------------------------------------------------------
(* reconcile *)

LEMMA SidesFinite == IsFiniteSet(PositionSides)
<1>1. IsFiniteSet({"SHORT"})
  BY FS_EmptySet, FS_AddElement, {"SHORT"} = {} \cup {"SHORT"}
<1>2. PositionSides = {"SHORT"} \cup {"LONG"}
  BY DEF PositionSides
<1>. QED
  BY <1>1, <1>2, FS_AddElement

\* A round of reconcile touches the memory only in MarkNeeds.
LEMMA RoundType ==
  ASSUME TypeOK,
         \/ StartRound
         \/ \E s \in Symbols : ReadPositions(s) \/ ReadFails(s)
         \/ EndRound
  PROVE  TypeOK'
<1>1. /\ UNCHANGED <<memory, index, ids, held, work, disk, exchange, counts, orders>>
      /\ Reconcile \in Procs /\ Reconcile \in {User, Reconcile}
  BY DEF StartRound, ReadPositions, ReadFails, EndRound, exchange, Procs
<1>2. /\ Grows /\ NoIdLost /\ IndexOK' /\ DOMAIN tasks' = DOMAIN tasks
      /\ DOMAIN plans' = DOMAIN plans
  BY <1>1, Still, MemoryFacts
<1>3. ProcOK'
  <2>1. CASE StartRound
    BY <1>1, <1>2, <2>1, GotoStep DEF StartRound, Labels
  <2>2. ASSUME NEW s \in Symbols, ReadPositions(s)
        PROVE  ProcOK'
    BY <1>1, <1>2, <2>2, MoveStep DEF ReadPositions, Labels
  <2>3. ASSUME NEW s \in Symbols, ReadFails(s)
        PROVE  ProcOK'
    BY <1>2, <2>3, ProcKept DEF ReadFails
  <2>4. CASE EndRound
    BY <1>1, <1>2, <2>4, PersistStep DEF EndRound
  <2>. QED
    BY <2>1, <2>2, <2>3, <2>4
<1>4. WorkOK'
  <2>1. /\ UNCHANGED <<checks, triggers, asyncCancels, cooling>>
        /\ audit = [left |-> audit.left, seen |-> audit.seen]
    BY <1>1 DEF work, TypeOK, WorkOK
  <2>2. CASE \/ StartRound \/ EndRound \/ \E s \in Symbols : ReadFails(s)
    BY <1>1, <1>2, <2>1, <2>2
       DEF StartRound, EndRound, ReadFails, TypeOK, WorkOK
  <2>3. ASSUME NEW s \in Symbols, ReadPositions(s)
        PROVE  WorkOK'
    <3>. DEFINE ks   == {s} \X PositionSides
                seen == [k \in ks |-> position[k]]
    <3>1. IsFiniteSet(ks) /\ ks \subseteq Keys
      BY SidesFinite, FS_Singleton, FS_Product DEF Keys
    <3>2. seen \in [ks -> Nat]
      BY <3>1 DEF TypeOK, ExchangeOK
    <3>3. audit' = [left |-> audit.left \ {s}, seen |-> seen]
      BY <2>3 DEF ReadPositions
    <3>. QED
      BY <1>1, <1>2, <2>1, <3>1, <3>2, <3>3 DEF TypeOK, WorkOK
  <2>. QED
    BY <2>2, <2>3
<1>. QED
  BY <1>1, <1>2, <1>3, <1>4, MemoryKept, ExchangeKept, CountsKept DEF TypeOK

LEMMA MarkNeedsType ==
  ASSUME TypeOK, MarkNeeds
  PROVE  TypeOK'
<1>. DEFINE gaps  == {k \in DOMAIN audit.seen : Missing(k) # {}}
            fresh == (nPlans + 1)..(nPlans + Cardinality(gaps))
            Needs(k) == [symbol |-> k[1], positionSide |-> k[2], entryTask |-> 0,
                         exitTask |-> 0,
                         protectedQty |-> CHOOSE q \in Missing(k) : TRUE,
                         takeProfit |-> 0, stopLoss |-> 0,
                         status |-> "NEEDS_PROTECTION"]
<1>1. PICK keyOf \in Bijection(fresh, gaps) :
        plans' = [n \in DOMAIN plans \cup fresh |->
                    IF n \in fresh THEN Needs(keyOf[n]) ELSE plans[n]]
  BY DEF MarkNeeds
<1>2. /\ nPlans' = nPlans + Cardinality(gaps)
      /\ audit' = [audit EXCEPT !.seen = Empty]
      /\ proc' = [proc EXCEPT ![Reconcile].at = "read"]
      /\ UNCHANGED <<market, tasks, index, nTasks, nCids, held, work, disk,
                     exchange, counts, orders>>
  BY DEF MarkNeeds, exchange
<1>3. Cardinality(gaps) \in Nat
  <2>1. IsFiniteSet(gaps)
    BY FS_Subset DEF TypeOK, WorkOK
  <2>. QED
    BY <2>1, FS_CardinalityType
<1>4. keyOf \in [fresh -> gaps]
  BY <1>1 DEF Bijection, Injection, Surjection
<1>5. ASSUME NEW k \in gaps
      PROVE  Needs(k) \in Plan
  <2>1. k[1] \in Symbols /\ k[2] \in PositionSides /\ audit.seen[k] \in Nat
    BY DEF TypeOK, WorkOK, Keys
  <2>2. (CHOOSE q \in Missing(k) : TRUE) \in Nat
    BY <2>1 DEF Missing
  <2>. QED
    BY <2>1, <2>2 DEF Plan, PlanStatuses
<1>6. /\ plans' \in [DOMAIN plans' -> Plan] /\ DOMAIN plans' = DOMAIN plans \cup fresh
  <2>. HIDE DEF Needs, fresh, gaps
  <2>. QED
    BY <1>1, <1>4, <1>5, MemoryFacts
<1>7. DOMAIN plans' \subseteq 1..nPlans' /\ nPlans' \in Nat /\ nPlans <= nPlans'
  <2>. HIDE DEF gaps
  <2>. QED
    BY <1>2, <1>3, <1>6, MemoryFacts
<1>8. Grows /\ NoIdLost
  BY <1>2, <1>7, MemoryFacts DEF Grows, NoIdLost
<1>9. ImagesOK'
  <2>1. Snapshot(Memory)'
    BY <1>2, <1>6, <1>7, MemoryFacts DEF Snapshot, SnapshotOf, Memory
  <2>. QED
    BY <1>2, <1>8, <2>1, ImagesKept
<1>10. ProcOK'
  BY <1>2, <1>8, MoveStep DEF Procs, Labels
<1>11. WorkOK'
  <2>1. audit' = [left |-> audit.left, seen |-> Empty]
    BY <1>2 DEF TypeOK, WorkOK
  <2>2. IsFiniteSet({}) /\ DOMAIN Empty = {} /\ Empty \in [{} -> Nat]
    BY FS_EmptySet DEF Empty
  <2>. QED
    BY <1>2, <1>6, <2>1, <2>2 DEF TypeOK, WorkOK, work
<1>. QED
  BY <1>2, <1>8, <1>9, <1>10, <1>11, IndexKept, ExchangeKept, CountsKept DEF TypeOK

LEMMA ReconcilerType ==
  ASSUME TypeOK, Reconciler
  PROVE  TypeOK'
BY RoundType, MarkNeedsType DEF Reconciler

-----------------------------------------------------------------------------
(* The exchange and its stream, and a crash *)

\* The exchange acts on its own state only.
LEMMA ExchangeActs ==
  ASSUME TypeOK, ExchangeOK', CountsOK', Len(orders') = Len(orders),
         UNCHANGED <<memory, index, ids, proc, held, work, audit, disk>>
  PROVE  TypeOK'
<1>1. /\ Grows /\ NoIdLost /\ IndexOK' /\ DOMAIN tasks' = DOMAIN tasks
      /\ DOMAIN plans' = DOMAIN plans
  BY Still, MemoryFacts
<1>. QED
  BY <1>1, MemoryKept, ProcKept, WorkKept DEF TypeOK

LEMMA ExchangeType ==
  ASSUME TypeOK, Trading \/ Disconnect \/ Reconnect
  PROVE  TypeOK'
<1>1. ASSUME NEW o \in DOMAIN orders, Expire(o)
      PROVE  TypeOK'
  <2>1. /\ EndOrder(o) /\ CountsOK'
        /\ UNCHANGED <<memory, index, ids, proc, held, work, audit, disk>>
    BY <1>1 DEF Expire, TypeOK, CountsOK
  <2>2. ExchangeStep
    BY <2>1, EndOrderType DEF ids
  <2>. QED
    BY <2>1, <2>2, ExchangeActs DEF ExchangeStep
<1>2. ASSUME NEW o \in DOMAIN orders, NEW n \in 1..orders[o].qty, Fill(o, n)
      PROVE  TypeOK'
  <2>1. ExchangeStep
    BY <1>2, FillType
  <2>2. CountsOK' /\ UNCHANGED <<memory, index, ids, proc, held, work, audit, disk>>
    BY <1>2, CountsKept DEF Fill
  <2>. QED
    BY <2>1, <2>2, ExchangeActs DEF ExchangeStep
<1>3. CASE Disconnect \/ Reconnect
  <2>1. ExchangeOK'
    <3>1. /\ UNCHANGED <<orders, position, ids>> /\ connected' \in BOOLEAN
          /\ \/ stream' = stream
             \/ \E n \in 0..Len(stream) : stream' = SubSeq(stream, 1, n)
      BY <1>3 DEF Disconnect, Reconnect
    <3>2. UNCHANGED nCids
      BY <3>1 DEF ids
    <3>3. CASE stream' = stream
      BY <3>1, <3>2, <3>3 DEF TypeOK, ExchangeOK
    <3>4. ASSUME NEW n \in 0..Len(stream), stream' = SubSeq(stream, 1, n)
          PROVE  ExchangeOK'
      <4>1. stream \in Seq(Event) /\ n \in Nat /\ n <= Len(stream)
        BY <3>4 DEF TypeOK, ExchangeOK
      <4>2. /\ stream' \in Seq(Event) /\ Len(stream') = n
            /\ \A k \in 1..n : stream'[k] = stream[k]
        BY <3>4, <4>1
      <4>. QED
        BY <3>1, <3>2, <4>1, <4>2 DEF TypeOK, ExchangeOK
    <3>. QED
      BY <3>1, <3>3, <3>4
  <2>2. CountsOK'
    BY <1>3 DEF Disconnect, Reconnect, TypeOK, CountsOK, counts
  <2>3. /\ Len(orders') = Len(orders)
        /\ UNCHANGED <<memory, index, ids, proc, held, work, audit, disk>>
    BY <1>3 DEF Disconnect, Reconnect
  <2>. QED
    BY <2>1, <2>2, <2>3, ExchangeActs
<1>. QED
  BY <1>1, <1>2, <1>3 DEF Trading

LEMMA RebuildIndexType ==
  ASSUME NEW ts, NEW field, NEW S, IdsIn(ts, field) \subseteq S
  PROVE  /\ RebuildIndex(ts, field) \in [DOMAIN RebuildIndex(ts, field) -> DOMAIN ts]
         /\ DOMAIN RebuildIndex(ts, field) \subseteq S
<1>1. ASSUME NEW id \in IdsIn(ts, field)
      PROVE  TaskWith(ts, field, id) \in DOMAIN ts
  BY DEF IdsIn, TaskWith
<1>. QED
  BY <1>1 DEF RebuildIndex

LEMMA CrashType ==
  ASSUME TypeOK, Crash
  PROVE  TypeOK'
<1>1. /\ UNCHANGED <<ids, nTasks, nPlans, nCids, disk, orders>>
      /\ Snapshot(disk) /\ nTasks \in Nat /\ nPlans \in Nat /\ nCids \in Nat
      /\ Len(orders) \in Nat
  BY MemoryFacts DEF Crash, ids, TypeOK, ImagesOK
<1>2. ImagesOK'
  <2>1. /\ disk = [market |-> disk.market, tasks |-> disk.tasks, plans |-> disk.plans]
        /\ Memory' = [market |-> disk.market, tasks |-> disk.tasks, plans |-> disk.plans]
    BY <1>1 DEF Snapshot, SnapshotOf, Memory, Crash
  <2>2. Snapshot(disk)' /\ Snapshot(Memory)'
    BY <1>1, <2>1 DEF Snapshot
  <2>3. Snapshot(NoSnapshot)'
    BY <1>1, EmptySnapshot DEF Snapshot
  <2>4. held' = [p \in Procs |-> NoSnapshot]
    BY DEF Crash
  <2>. QED
    BY <1>1, <2>2, <2>3, <2>4 DEF ImagesOK, Snapshot
<1>3. IndexOK'
  <2>1. /\ tasks' = disk.tasks
        /\ clientIndex' = RebuildIndex(disk.tasks, "cid")
        /\ orderIndex' = RebuildIndex(disk.tasks, "orderID")
    BY DEF Crash
  <2>2. /\ IdsIn(disk.tasks, "cid") \subseteq 1..nCids
        /\ IdsIn(disk.tasks, "orderID") \subseteq 1..Len(orders)
    <3>1. \A t \in DOMAIN disk.tasks : /\ disk.tasks[t].cid \in 1..nCids
                                      /\ disk.tasks[t].orderID \in 0..Len(orders)
      BY <1>1 DEF Snapshot, SnapshotOf
    <3>2. IdsIn(disk.tasks, "cid") = {disk.tasks[t].cid : t \in DOMAIN disk.tasks} \ {0}
      BY DEF IdsIn
    <3>3. IdsIn(disk.tasks, "orderID") = {disk.tasks[t].orderID : t \in DOMAIN disk.tasks} \ {0}
      BY DEF IdsIn
    <3>4. 0..Len(orders) \ {0} \subseteq 1..Len(orders)
      OBVIOUS
    <3>. QED
      BY <3>1, <3>2, <3>3, <3>4, Zenon
  <2>. QED
    BY <1>1, <2>1, <2>2, RebuildIndexType DEF IndexOK
<1>4. ProcOK'
  <2>1. proc' = [p \in Procs |-> Idle]
    BY DEF Crash
  <2>2. \A p \in Procs : StateOK(p, Idle, DOMAIN tasks', 1..Len(orders'))
    BY DEF StateOK, Idle, Labels
  <2>. QED
    BY <2>1, <2>2 DEF ProcOK
<1>5. WorkOK'
  <2>1. IsFiniteSet({}) /\ DOMAIN Empty = {} /\ Empty \in [{} -> Nat]
    BY FS_EmptySet DEF Empty
  <2>. QED
    BY <2>1 DEF Crash, WorkOK
<1>6. ExchangeOK'
  <2>1. /\ stream' = <<>> /\ connected' \in BOOLEAN
        /\ UNCHANGED <<orders, position, nCids>>
    BY <1>1 DEF Crash
  <2>. QED
    BY <2>1 DEF TypeOK, ExchangeOK
<1>7. CountsOK'
  BY DEF Crash, TypeOK, CountsOK
<1>. QED
  BY <1>2, <1>3, <1>4, <1>5, <1>6, <1>7 DEF TypeOK

-----------------------------------------------------------------------------
(* Type correctness *)

LEMMA TypeInit == Init => TypeOK
<1>. SUFFICES ASSUME Init PROVE TypeOK
  OBVIOUS
<1>1. Len(orders) = 0 /\ orders \in Seq(Order) /\ stream \in Seq(Event) /\ Len(stream) = 0
  BY DEF Init
<1>2. ImagesOK
  <2>1. Memory = NoSnapshot
    BY DEF Init, Memory, NoSnapshot
  <2>2. Snapshot(NoSnapshot)
    BY <1>1, EmptySnapshot DEF Snapshot, Init
  <2>. QED
    BY <2>1, <2>2 DEF Init, ImagesOK
<1>3. DOMAIN Empty = {} /\ (\A S : Empty \in [{} -> S]) /\ IsFiniteSet({})
  BY FS_EmptySet DEF Empty
<1>4. IndexOK /\ WorkOK
  BY <1>1, <1>3 DEF Init, IndexOK, WorkOK
<1>5. ProcOK
  <2>1. \A p \in Procs : StateOK(p, Idle, DOMAIN tasks, 1..Len(orders))
    BY DEF StateOK, Idle, Labels
  <2>. QED
    BY <2>1 DEF Init, ProcOK
<1>6. ExchangeOK /\ CountsOK
  BY <1>1 DEF Init, ExchangeOK, CountsOK
<1>. QED
  BY <1>2, <1>4, <1>5, <1>6 DEF TypeOK

LEMMA TypeStep == TypeOK /\ [Next]_vars => TypeOK'
<1>. SUFFICES ASSUME TypeOK, [Next]_vars PROVE TypeOK'
  OBVIOUS
<1>1. CASE Storage
  BY <1>1, StorageType DEF Storage
<1>2. CASE PlaceTask
  BY <1>2, PlaceStartType, PlaceReplyType, PlaceDoneType, PlaceFailedType DEF PlaceTask
<1>3. CASE Control
  BY <1>3, ControlType
<1>4. CASE MarketStream
  BY <1>4, MarketType
<1>5. CASE UserStream
  BY <1>5, UserType
<1>6. CASE Reconciler
  BY <1>6, ReconcilerType
<1>7. CASE Trading \/ Disconnect \/ Reconnect
  BY <1>7, ExchangeType
<1>8. CASE Crash
  BY <1>8, CrashType
<1>9. CASE UNCHANGED vars
  <2>1. UNCHANGED <<memory, index, ids, proc, held, work, audit, disk,
                    exchange, counts, orders>>
    BY <1>9 DEF vars, exchange
  <2>2. ExchangeOK' /\ Len(orders') = Len(orders)
    BY <2>1, Still, MemoryFacts, ExchangeKept
  <2>. QED
    BY <2>1, <2>2, ExchangeActs, CountsKept
<1>. QED
  BY <1>1, <1>2, <1>3, <1>4, <1>5, <1>6, <1>7, <1>8, <1>9 DEF Next, Work

\* Every id the daemon works with, in memory, in any snapshot, in its indexes
\* and in what its goroutines hold, was given out before: no step of New,
\* placeTask, OnMarket, OnOrderUpdate or reconcile, and no restart from
\* whatever snapshot reached the disk, leads to a task, plan or order that
\* does not exist.
THEOREM TypeCorrect == Spec => []TypeOK
BY TypeInit, TypeStep, PTL DEF Spec
=============================================================================
