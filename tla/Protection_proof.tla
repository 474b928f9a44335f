-------------------------- MODULE Protection_proof --------------------------
(***************************************************************************)
(* The protection of an entry for every instance: the plans agree with     *)
(* their entries and exits, and the rules agree with one another.          *)
(***************************************************************************)
EXTENDS Attribution_proof

-----------------------------------------------------------------------------
(* What tasks and plans have to do with each other.  PlansMatch is     *)
(* inductive with TypeOK: its conjuncts on closed plans and on plans that  *)
(* ask for protection are what ensurePlanLocked needs when it arms such a  *)
(* plan again.  Founded adds that the terms a plan or an exit was made on  *)
(* are still those of its entry, and needs PlansMatch when a plan that is  *)
(* armed is triggered.                                                     *)

\* An entry has a line on each side; an exit is for no more than the entry of
\* its plan reports as filled.
FoundedTask(task, ts, ps) ==
  /\ task.kind = "ENTRY" => LinesApart(task)
  /\ task.kind = "EXIT" =>
       /\ task.plan \in DOMAIN ps /\ ps[task.plan].entryTask # 0
       /\ KeyOf(task) = KeyOf(ps[task.plan])
       /\ task.quantity <= ts[ps[task.plan].entryTask].filled

FoundedPlan(plan, ts) ==
  plan.entryTask # 0 =>
    /\ plan.entryTask \in DOMAIN ts /\ ts[plan.entryTask].kind = "ENTRY"
    /\ SameLines(plan, ts[plan.entryTask]) /\ ts[plan.entryTask].filled > 0

Founded(ts, ps) ==
  /\ \A n \in DOMAIN ps : FoundedPlan(ps[n], ts)
  /\ \A t \in DOMAIN ts : FoundedTask(ts[t], ts, ps)

Sound(ts, ps) == PlansMatch(ts, ps) /\ Founded(ts, ps)
AllSound == \A i \in Images : Sound(i.tasks, i.plans)
Match == Sound(tasks, plans)

LEMMA EmptyIsSound ==
  /\ NoSnapshot.tasks = Empty /\ NoSnapshot.plans = Empty
  /\ Sound(Empty, Empty)
BY DEF NoSnapshot, Sound, Founded, PlansMatch, Covered, OnePlanEach, Empty

\* A step that writes no snapshot has only the memory to answer for.
LEMMA MatchImages ==
  ASSUME AllSound, Match', UNCHANGED <<disk, held>>
  PROVE  AllSound'
<1>1. /\ \A i \in {disk} \cup {held[p] : p \in Procs} : Sound(i.tasks, i.plans)
  BY DEF AllSound, Images
<1>2. /\ Memory'.tasks = tasks' /\ Memory'.plans = plans'
  BY DEF Memory
<1>. QED
  BY <1>1, <1>2 DEF AllSound, Images, Match

LEMMA MatchNow == ASSUME AllSound PROVE Match
<1>1. Memory \in Images /\ Memory.tasks = tasks /\ Memory.plans = plans
  BY DEF Images, Memory
<1>. QED
  BY <1>1 DEF AllSound, Match

\* The terms of a task, which nothing changes.
SameTerms(a, b) ==
  /\ a.kind = b.kind /\ a.plan = b.plan /\ a.quantity = b.quantity
  /\ a.symbol = b.symbol /\ a.positionSide = b.positionSide
  /\ a.takeProfit = b.takeProfit /\ a.stopLoss = b.stopLoss

\* The tasks go on with more filled or the same, and new tasks are founded.
Goes(ts, us, ps) ==
  /\ \A t \in DOMAIN ts :
       /\ t \in DOMAIN us /\ SameTerms(us[t], ts[t])
       /\ ts[t].filled \in Nat /\ us[t].filled \in Nat
       /\ ts[t].quantity \in Nat /\ ts[t].filled <= us[t].filled
  /\ \A t \in DOMAIN us \ DOMAIN ts : FoundedTask(us[t], us, ps)

LEMMA TasksGo ==
  ASSUME NEW ts, NEW us, NEW ps, Founded(ts, ps), Goes(ts, us, ps)
  PROVE  Founded(us, ps)
<1>1. ASSUME NEW n \in DOMAIN ps, ps[n].entryTask # 0
      PROVE  LET e == ps[n].entryTask
             IN /\ e \in DOMAIN us /\ us[e].kind = "ENTRY"
                /\ SameLines(ps[n], us[e]) /\ us[e].filled > 0
  <2>. DEFINE e == ps[n].entryTask
  <2>1. /\ e \in DOMAIN ts /\ ts[e].kind = "ENTRY" /\ SameLines(ps[n], ts[e])
        /\ ts[e].filled > 0
    BY <1>1 DEF Founded, FoundedPlan
  <2>2. /\ e \in DOMAIN us /\ SameTerms(us[e], ts[e])
        /\ ts[e].filled \in Nat /\ us[e].filled \in Nat
        /\ ts[e].filled <= us[e].filled
    BY <2>1 DEF Goes
  <2>3. us[e].filled > 0
    BY <2>1, <2>2
  <2>. QED
    BY <2>1, <2>2, <2>3 DEF SameTerms, SameLines, KeyOf
<1>2. ASSUME NEW t \in DOMAIN ts
      PROVE  FoundedTask(us[t], us, ps)
  <2>1. SameTerms(us[t], ts[t]) /\ FoundedTask(ts[t], ts, ps)
    BY DEF Founded, Goes
  <2>2. us[t].kind = "ENTRY" => LinesApart(us[t])
    BY <2>1 DEF SameTerms, FoundedTask, LinesApart
  <2>3. ASSUME us[t].kind = "EXIT"
        PROVE  /\ us[t].plan \in DOMAIN ps /\ ps[us[t].plan].entryTask # 0
               /\ KeyOf(us[t]) = KeyOf(ps[us[t].plan])
               /\ us[t].quantity <= us[ps[us[t].plan].entryTask].filled
    <3>. DEFINE e == ps[ts[t].plan].entryTask
    <3>1. /\ ts[t].plan \in DOMAIN ps /\ e # 0 /\ KeyOf(ts[t]) = KeyOf(ps[ts[t].plan])
          /\ ts[t].quantity <= ts[e].filled
      BY <2>1, <2>3 DEF SameTerms, FoundedTask
    <3>2. e \in DOMAIN ts
      BY <3>1 DEF Founded, FoundedPlan
    <3>3. ts[t].quantity <= us[e].filled
      BY <3>1, <3>2 DEF Goes
    <3>. QED
      BY <2>1, <3>1, <3>3 DEF SameTerms, KeyOf
  <2>. QED
    BY <2>2, <2>3 DEF FoundedTask
<1>. QED
  BY <1>1, <1>2 DEF Founded, FoundedPlan, Goes

\* A plan keeps its entry and its lines, and a new one is founded.
PlansKeep(ps, qs) ==
  \A n \in DOMAIN ps : /\ n \in DOMAIN qs /\ SameLines(qs[n], ps[n])
                       /\ qs[n].entryTask = ps[n].entryTask

LEMMA PlansGo ==
  ASSUME NEW ts, NEW ps, NEW qs, Founded(ts, ps), PlansKeep(ps, qs),
         \A n \in DOMAIN qs \ DOMAIN ps : FoundedPlan(qs[n], ts)
  PROVE  Founded(ts, qs)
<1>1. ASSUME NEW n \in DOMAIN ps
      PROVE  FoundedPlan(qs[n], ts)
  BY DEF Founded, FoundedPlan, PlansKeep, SameLines
<1>2. ASSUME NEW t \in DOMAIN ts
      PROVE  FoundedTask(ts[t], ts, qs)
  <2>1. FoundedTask(ts[t], ts, ps)
    BY DEF Founded
  <2>. QED
    BY <2>1 DEF FoundedTask, PlansKeep, SameLines
<1>. QED
  BY <1>1, <1>2 DEF Founded

\* The tasks may change in all that a plan does not look at, and new tasks
\* may join that have nothing filled.
Alike(ts, us, ps) ==
  /\ Goes(ts, us, ps)
  /\ \A t \in DOMAIN ts : us[t].filled = ts[t].filled
  /\ \A t \in DOMAIN us \ DOMAIN ts : us[t].filled = 0

LEMMA AlikeMatch ==
  ASSUME NEW ts, NEW us, NEW ps, Sound(ts, ps), Alike(ts, us, ps)
  PROVE  Sound(us, ps)
<1>1. Covered(us, ps)
  <2>. SUFFICES ASSUME NEW t \in DOMAIN us, us[t].kind = "ENTRY", us[t].filled > 0
                PROVE  \E n \in DOMAIN ps : ps[n].entryTask = t
    BY DEF Covered
  <2>1. t \in DOMAIN ts
    BY DEF Alike
  <2>. QED
    BY <2>1 DEF Alike, Goes, SameTerms, Sound, PlansMatch, Covered
<1>2. ASSUME NEW n \in DOMAIN ps
      PROVE  PlanFits(us, n, ps[n])
  BY DEF Sound, PlansMatch, PlanFits, Alike, Goes, SameTerms
<1>3. Founded(us, ps)
  BY TasksGo DEF Sound, Alike
<1>. QED
  BY <1>1, <1>2, <1>3 DEF Sound, PlansMatch

LEMMA TasksAlike ==
  ASSUME TypeOK, Match, Alike(tasks, tasks', plans), UNCHANGED plans
  PROVE  Match'
BY AlikeMatch DEF Match

LEMMA TaskNumbers ==
  ASSUME TypeOK
  PROVE  \A t \in DOMAIN tasks : tasks[t].filled \in Nat /\ tasks[t].quantity \in Nat
BY MemoryFacts DEF Task

\* One task changes in all that a plan does not look at.
LEMMA OneAlike ==
  ASSUME TypeOK, NEW t \in DOMAIN tasks, NEW task, NEW ts,
         ts = [tasks EXCEPT ![t] = task],
         SameTerms(task, tasks[t]), task.filled = tasks[t].filled
  PROVE  Alike(tasks, ts, plans)
<1>1. /\ DOMAIN ts = DOMAIN tasks /\ ts[t] = task
      /\ \A u \in DOMAIN tasks : u # t => ts[u] = tasks[u]
  BY MemoryFacts
<1>2. \A u \in DOMAIN tasks : SameTerms(ts[u], tasks[u]) /\ ts[u].filled = tasks[u].filled
  BY <1>1 DEF SameTerms
<1>. QED
  BY <1>1, <1>2, TaskNumbers DEF Alike, Goes

LEMMA PlaceMatch ==
  ASSUME TypeOK, AllSound, PlaceTask
  PROVE  AllSound'
<1>. PICK p \in Procs : \/ PlaceStart(p) \/ PlaceAccepted(p) \/ PlaceRejected(p)
                        \/ PlaceDone(p) \/ PlaceFailed(p)
  BY DEF PlaceTask
<1>. DEFINE t == proc[p].task
<1>1. UNCHANGED <<plans, disk, held>>
  BY DEF PlaceStart, PlaceAccepted, PlaceRejected, PlaceDone, PlaceFailed, memory
<1>2. CASE PlaceStart(p)
  <2>. DEFINE price == TargetPrice(market[tasks[t].symbol], tasks[t].side)
              task  == [tasks[t] EXCEPT !.status = "PLACED", !.target = price]
  <2>1. t \in DOMAIN tasks /\ tasks[t] \in Task
    BY <1>2, Worker, MemoryFacts DEF PlaceStart, At
  <2>2. SameTerms(task, tasks[t]) /\ task.filled = tasks[t].filled
    BY <2>1 DEF Task, SameTerms
  <2>3. tasks' = [tasks EXCEPT ![t] = task]
    BY <1>2 DEF PlaceStart
  <2>4. Alike(tasks, tasks', plans)
    <3>. HIDE DEF task
    <3>. QED
      BY <2>1, <2>2, <2>3, OneAlike
  <2>. QED
    BY <1>1, <2>4, MatchNow, TasksAlike, MatchImages
<1>3. CASE PlaceDone(p)
  <2>. DEFINE task == [tasks[t] EXCEPT !.orderID = proc[p].order,
                         !.cid = orders[proc[p].order].cid, !.status = "CHASING"]
  <2>1. t \in DOMAIN tasks /\ tasks[t] \in Task
    BY <1>3, Worker, MemoryFacts DEF PlaceDone, At
  <2>2. SameTerms(task, tasks[t]) /\ task.filled = tasks[t].filled
    BY <2>1 DEF Task, SameTerms
  <2>3. tasks' = [tasks EXCEPT ![t] = task]
    BY <1>3 DEF PlaceDone
  <2>4. Alike(tasks, tasks', plans)
    <3>. HIDE DEF task
    <3>. QED
      BY <2>1, <2>2, <2>3, OneAlike
  <2>. QED
    BY <1>1, <2>4, MatchNow, TasksAlike, MatchImages
<1>4. CASE PlaceFailed(p)
  <2>. DEFINE task == [tasks[t] EXCEPT !.status = "FAILED"]
  <2>1. t \in DOMAIN tasks /\ tasks[t] \in Task
    BY <1>4, Worker, MemoryFacts DEF PlaceFailed, At
  <2>2. SameTerms(task, tasks[t]) /\ task.filled = tasks[t].filled
    BY <2>1 DEF Task, SameTerms
  <2>3. tasks' = [tasks EXCEPT ![t] = task]
    BY <1>4 DEF PlaceFailed
  <2>4. Alike(tasks, tasks', plans)
    <3>. HIDE DEF task
    <3>. QED
      BY <2>1, <2>2, <2>3, OneAlike
  <2>. QED
    BY <1>1, <2>4, MatchNow, TasksAlike, MatchImages
<1>5. CASE PlaceAccepted(p) \/ PlaceRejected(p)
  <2>1. UNCHANGED tasks
    BY <1>5 DEF PlaceAccepted, PlaceRejected, memory
  <2>. QED
    BY <1>1, <2>1, MatchNow, MatchImages DEF Match
<1>. QED
  BY <1>2, <1>3, <1>4, <1>5

LEMMA StorageMatch ==
  ASSUME TypeOK, AllSound, NEW p \in Procs, Clone(p) \/ Save(p)
  PROVE  AllSound'
<1>1. Memory' = Memory /\ \A i \in Images : Sound(i.tasks, i.plans)
  BY DEF Memory, memory, Clone, Save, AllSound
<1>2. \A i \in Images' : i \in Images \/ i = NoSnapshot
  BY <1>1 DEF Images, Clone, Save, TypeOK, ImagesOK
<1>. QED
  BY <1>1, <1>2, EmptyIsSound DEF AllSound

LEMMA AddedAlike ==
  ASSUME TypeOK, NEW ts, DOMAIN ts = DOMAIN tasks, Alike(tasks, ts, plans),
         NEW task \in Task, task.filled = 0, AddTask(ts, task),
         FoundedTask(task, ts, plans),
         \A n \in DOMAIN plans :
           plans[n].entryTask # 0 => plans[n].entryTask \in DOMAIN tasks
  PROVE  /\ Alike(tasks, tasks', plans)
         /\ nTasks + 1 \in DOMAIN tasks'
         /\ tasks'[nTasks + 1] = [task EXCEPT !.cid = nCids + 1]
<1>. DEFINE new == [task EXCEPT !.cid = nCids + 1]
<1>1. nTasks + 1 \notin DOMAIN tasks
  BY MemoryFacts
<1>2. SameTerms(new, task) /\ new.filled = 0
  BY DEF Task, SameTerms
<1>3. /\ DOMAIN tasks' = DOMAIN tasks \cup {nTasks + 1}
      /\ tasks'[nTasks + 1] = new
      /\ \A u \in DOMAIN tasks : tasks'[u] = ts[u]
  BY <1>1 DEF AddTask, Put
<1>. HIDE DEF new
<1>4. FoundedTask(new, tasks', plans)
  BY <1>2, <1>3 DEF FoundedTask, SameTerms, LinesApart, KeyOf
<1>. QED
  BY <1>1, <1>2, <1>3, <1>4 DEF Alike, Goes, new

LEMMA ControlMatch ==
  ASSUME TypeOK, AllSound, Control
  PROVE  AllSound'
<1>. PICK h \in Handlers : \/ \E req \in Requests : Submit(h, req)
                           \/ \E t \in DOMAIN tasks : CancelTask(h, t)
                           \/ CancelOk(h) \/ CancelError(h)
  BY DEF Control
<1>1. UNCHANGED <<plans, disk, held>>
  BY DEF Submit, CancelTask, CancelOk, CancelError, memory
<1>2. ASSUME NEW req \in Requests, Submit(h, req)
      PROVE  AllSound'
  <2>. DEFINE task == [NewTask("ENTRY", req.symbol, req.positionSide, req.side, req.quantity)
                       EXCEPT !.takeProfit = req.takeProfit, !.stopLoss = req.stopLoss]
  <2>1. task \in Task /\ task.filled = 0
    BY InputAssumption DEF Request, NewTask, Task, TaskKinds, TaskStatuses, ActiveStatuses
  <2>2. AddTask(tasks, task) /\ Alike(tasks, tasks, plans)
    <3>1. Alike(tasks, tasks, plans)
      BY TaskNumbers DEF Alike, Goes, SameTerms
    <3>. QED
      BY <1>2, <3>1 DEF Submit
  <2>3. FoundedTask(task, tasks, plans)
    <3>1. LinesApart(req)
      <4>. DEFINE ref == market[req.symbol].mark
      <4>1. req \in Request
        BY InputAssumption
      <4>2. market[req.symbol] \in Quote
        BY <4>1, MemoryFacts DEF Request
      <4>3. ref \in Nat /\ req.takeProfit \in Nat /\ req.stopLoss \in Nat
        BY <4>1, <4>2 DEF Quote, Request
      <4>4. ValidRequest(req, ref)
        BY <1>2 DEF Submit
      <4>. HIDE DEF ref
      <4>. QED
        BY <4>3, <4>4 DEF ValidRequest, ValidProtection, LinesApart
    <3>2. /\ task.kind = "ENTRY" /\ task.positionSide = req.positionSide
          /\ task.takeProfit = req.takeProfit /\ task.stopLoss = req.stopLoss
      BY <3>1 DEF NewTask
    <3>. QED
      BY <3>1, <3>2 DEF FoundedTask, LinesApart
  <2>4. \A n \in DOMAIN plans :
          plans[n].entryTask # 0 => plans[n].entryTask \in DOMAIN tasks
    BY MatchNow DEF Match, Sound, Founded, FoundedPlan
  <2>5. Alike(tasks, tasks', plans)
    <3>. HIDE DEF task
    <3>. QED
      BY <2>1, <2>2, <2>3, <2>4, AddedAlike
  <2>. QED
    BY <1>1, <2>5, MatchNow, TasksAlike, MatchImages
<1>3. ASSUME NEW t \in DOMAIN tasks, CancelTask(h, t)
      PROVE  AllSound'
  <2>. DEFINE task == [tasks[t] EXCEPT !.status = "CANCELED"]
  <2>1. tasks[t] \in Task
    BY MemoryFacts
  <2>2. SameTerms(task, tasks[t]) /\ task.filled = tasks[t].filled
    BY <2>1 DEF Task, SameTerms
  <2>3. tasks' = [tasks EXCEPT ![t] = task]
    BY <1>3 DEF CancelTask
  <2>4. Alike(tasks, tasks', plans)
    <3>. HIDE DEF task
    <3>. QED
      BY <2>2, <2>3, OneAlike
  <2>. QED
    BY <1>1, <2>4, MatchNow, TasksAlike, MatchImages
<1>4. CASE CancelOk(h) \/ CancelError(h)
  <2>1. UNCHANGED tasks
    BY <1>4 DEF CancelOk, CancelError, memory
  <2>. QED
    BY <1>1, <2>1, MatchNow, MatchImages DEF Match
<1>. QED
  BY <1>2, <1>3, <1>4

\* triggerPlan: the plan that is triggered was armed and so fitted its entry;
\* the exit task it now has asks for what it protects.
LEMMA TriggerMatch ==
  ASSUME TypeOK, AllSound, NEW n \in DOMAIN plans, Trigger(n)
  PROVE  AllSound'
<1>. DEFINE plan == plans[n]
            e    == plan.entryTask
            stop == /\ e \in DOMAIN tasks /\ IsActive(tasks[e].status)
                    /\ tasks[e].orderID # 0
            exit == [NewTask("EXIT", plan.symbol, plan.positionSide,
                             CloseSide(plan.positionSide), plan.protectedQty)
                     EXCEPT !.plan = n]
            rest == IF stop THEN [tasks EXCEPT ![e].status = "CANCELED"] ELSE tasks
            sent == [exit EXCEPT !.cid = nCids + 1]
<1>1. plan \in Plan /\ n \in Nat
  BY MemoryFacts
<1>2. /\ exit \in Task /\ exit.filled = 0
      /\ sent.kind = "EXIT" /\ sent.plan = n /\ sent.quantity = plan.protectedQty
  BY <1>1 DEF Plan, NewTask, Task, TaskKinds, TaskStatuses, ActiveStatuses,
              CloseSide, Sides
<1>3. DOMAIN rest = DOMAIN tasks /\ Alike(tasks, rest, plans)
  <2>1. CASE stop
    <3>. DEFINE task == [tasks[e] EXCEPT !.status = "CANCELED"]
    <3>1. tasks[e] \in Task
      BY <2>1, MemoryFacts
    <3>2. rest = [tasks EXCEPT ![e] = task] /\ e \in DOMAIN tasks
      BY <2>1
    <3>3. SameTerms(task, tasks[e]) /\ task.filled = tasks[e].filled
      BY <3>1 DEF Task, SameTerms
    <3>. HIDE DEF task, rest, stop, e
    <3>4. DOMAIN rest = DOMAIN tasks
      BY <3>2, MemoryFacts
    <3>. QED
      BY <3>2, <3>3, <3>4, OneAlike
  <2>2. CASE ~stop
    BY <2>2, TaskNumbers DEF Alike, Goes, SameTerms
  <2>. QED
    BY <2>1, <2>2
<1>4. /\ AddTask(rest, exit) /\ UNCHANGED <<disk, held>>
      /\ plans[n].status = "ARMED"
      /\ plans' = [plans EXCEPT ![n].status = "TRIGGERED", ![n].exitTask = nTasks + 1]
  BY DEF Trigger, Triggers
<1>5. /\ \A m \in DOMAIN plans :
           plans[m].entryTask # 0 => plans[m].entryTask \in DOMAIN tasks
      /\ FoundedTask(exit, rest, plans)
  <2>1. /\ PlanFits(tasks, n, plan) /\ \A m \in DOMAIN plans : FoundedPlan(plans[m], tasks)
    BY MatchNow DEF Match, Sound, PlansMatch, Founded
  <2>2. /\ e \in DOMAIN tasks /\ plan.protectedQty = tasks[e].filled
    BY <1>4, <2>1 DEF PlanFits
  <2>3. e # 0 /\ rest[e].filled = tasks[e].filled /\ tasks[e].filled \in Nat
    BY <1>3, <2>2, MemoryFacts, TaskNumbers DEF Alike
  <2>4. /\ exit.kind = "EXIT" /\ exit.plan = n /\ exit.quantity = plan.protectedQty
        /\ KeyOf(exit) = KeyOf(plan)
    BY DEF NewTask, KeyOf
  <2>5. exit.quantity <= rest[e].filled
    BY <2>2, <2>3, <2>4
  <2>. HIDE DEF exit, rest
  <2>. QED
    BY <2>1, <2>3, <2>4, <2>5 DEF FoundedPlan, FoundedTask
<1>6. /\ Alike(tasks, tasks', plans) /\ nTasks + 1 \in DOMAIN tasks'
      /\ tasks'[nTasks + 1] = sent
  <2>1. \A x \in Task :
          x.filled = 0 /\ AddTask(rest, x) /\ FoundedTask(x, rest, plans) =>
          /\ Alike(tasks, tasks', plans) /\ nTasks + 1 \in DOMAIN tasks'
          /\ tasks'[nTasks + 1] = [x EXCEPT !.cid = nCids + 1]
    <3>. HIDE DEF rest
    <3>. QED
      BY <1>3, <1>5, AddedAlike
  <2>. QED
    BY <1>2, <1>4, <1>5, <2>1
<1>7. Sound(tasks', plans)
  BY <1>6, MatchNow, AlikeMatch DEF Match
<1>8. /\ DOMAIN plans' = DOMAIN plans
      /\ \A m \in DOMAIN plans : /\ m # n => plans'[m] = plans[m]
                                /\ plans'[m].entryTask = plans[m].entryTask
                                /\ SameLines(plans'[m], plans[m])
      /\ plans'[n].status = "TRIGGERED" /\ plans'[n].exitTask = nTasks + 1
      /\ plans'[n].protectedQty = plan.protectedQty
  <2>1. plans' = [plans EXCEPT ![n] = [plan EXCEPT !.status = "TRIGGERED",
                                                   !.exitTask = nTasks + 1]]
    BY <1>4
  <2>2. /\ plans'[n] = [plan EXCEPT !.status = "TRIGGERED", !.exitTask = nTasks + 1]
        /\ \A m \in DOMAIN plans : m # n => plans'[m] = plans[m]
        /\ DOMAIN plans' = DOMAIN plans
    BY <2>1, MemoryFacts
  <2>. QED
    BY <1>1, <2>2 DEF Plan, SameLines, KeyOf
<1>9. PlanFits(tasks', n, plans'[n])
  <2>1. /\ plan.entryTask \in DOMAIN tasks'
        /\ tasks'[plan.entryTask].kind = "ENTRY"
        /\ plan.protectedQty = tasks'[plan.entryTask].filled
    BY <1>4, <1>7 DEF Sound, PlansMatch, PlanFits
  <2>2. /\ plans'[n].entryTask = plan.entryTask
        /\ plans'[n].protectedQty = plan.protectedQty
        /\ plans'[n].exitTask = nTasks + 1 /\ plans'[n].status = "TRIGGERED"
    BY <1>8
  <2>3. /\ tasks'[nTasks + 1].kind = "EXIT" /\ tasks'[nTasks + 1].plan = n
        /\ tasks'[nTasks + 1].quantity = plan.protectedQty
    BY <1>2, <1>6
  <2>. QED
    BY <1>6, <2>1, <2>2, <2>3 DEF PlanFits
<1>10. Match'
  <2>1. Covered(tasks', plans') /\ OnePlanEach(plans')
    BY <1>7, <1>8 DEF Sound, PlansMatch, Covered, OnePlanEach
  <2>2. ASSUME NEW m \in DOMAIN plans'
        PROVE  PlanFits(tasks', m, plans'[m])
    BY <1>7, <1>8, <1>9 DEF Sound, PlansMatch
  <2>3. Founded(tasks', plans')
    BY <1>7, <1>8, PlansGo DEF Sound, PlansKeep
  <2>. QED
    BY <2>1, <2>2, <2>3 DEF Match, Sound, PlansMatch
<1>. QED
  BY <1>4, <1>10, MatchImages

LEMMA MarketMatch ==
  ASSUME TypeOK, AllSound, MarketStream
  PROVE  AllSound'
<1>1. CASE Rename
  <2>. DEFINE t == proc[Market].task
              task == [tasks[t] EXCEPT !.cid = nCids + 1]
  <2>1. t \in DOMAIN tasks /\ tasks[t] \in Task
    BY <1>1, Worker, MemoryFacts DEF Rename, At, Procs, Market
  <2>2. SameTerms(task, tasks[t]) /\ task.filled = tasks[t].filled
    BY <2>1 DEF Task, SameTerms
  <2>3. tasks' = [tasks EXCEPT ![t] = task] /\ UNCHANGED <<plans, disk, held>>
    BY <1>1 DEF Rename
  <2>4. Alike(tasks, tasks', plans)
    <3>. HIDE DEF task
    <3>. QED
      BY <2>1, <2>2, <2>3, OneAlike
  <2>. QED
    BY <2>3, <2>4, MatchNow, TasksAlike, MatchImages
<1>2. ASSUME NEW n \in DOMAIN plans, Trigger(n)
      PROVE  AllSound'
  BY <1>2, TriggerMatch
<1>3. CASE \/ \E k \in Ticks : OnMarket(k)
           \/ \E t \in DOMAIN tasks : SkipReplace(t) \/ StartReplace(t)
           \/ ReplaceCancelOk \/ ReplaceCancelError
           \/ \E n \in DOMAIN plans : SkipTrigger(n)
           \/ \E o \in asyncCancels : AsyncCancel(o)
           \/ \E k \in cooling : CooldownEnds(k)
  <2>1. UNCHANGED <<tasks, plans, disk, held>>
    BY <1>3 DEF OnMarket, SkipReplace, StartReplace, ReplaceCancelOk,
       ReplaceCancelError, SkipTrigger, AsyncCancel, CooldownEnds, memory
  <2>. QED
    BY <2>1, MatchNow, MatchImages DEF Match
<1>. QED
  BY <1>1, <1>2, <1>3 DEF MarketStream

-----------------------------------------------------------------------------
(* The user stream *)

\* The event of an order changes what task t reports as filled.  A plan still
\* fits unless it is the plan of an entry for which that is another amount.
LEMMA UpdateFits ==
  ASSUME TypeOK, NEW t \in DOMAIN tasks, NEW task,
         tasks' = [tasks EXCEPT ![t] = task],
         task.kind = tasks[t].kind, task.plan = tasks[t].plan,
         task.quantity = tasks[t].quantity,
         NEW m \in DOMAIN plans, PlanFits(tasks, m, plans[m]),
         \/ plans[m].entryTask # t \/ task.kind # "ENTRY"
         \/ task.filled = tasks[t].filled
  PROVE  PlanFits(tasks', m, plans[m])
<1>1. /\ DOMAIN tasks' = DOMAIN tasks /\ tasks'[t] = task
      /\ \A u \in DOMAIN tasks : u # t => tasks'[u] = tasks[u]
  BY MemoryFacts
<1>. QED
  BY <1>1 DEF PlanFits

\* It only adds to what the task has filled, and keeps its terms.
LEMMA UpdateGoes ==
  ASSUME TypeOK, Match, NEW t \in DOMAIN tasks, NEW task \in Task,
         tasks' = [tasks EXCEPT ![t] = task],
         SameTerms(task, tasks[t]), tasks[t].filled <= task.filled
  PROVE  Founded(tasks', plans)
<1>1. /\ DOMAIN tasks' = DOMAIN tasks /\ tasks'[t] = task
      /\ \A u \in DOMAIN tasks : u # t => tasks'[u] = tasks[u]
  BY MemoryFacts
<1>2. task.filled \in Nat
  BY DEF Task
<1>3. \A u \in DOMAIN tasks : /\ SameTerms(tasks'[u], tasks[u])
                             /\ tasks'[u].filled \in Nat
                             /\ tasks[u].filled <= tasks'[u].filled
  BY <1>1, <1>2, TaskNumbers DEF SameTerms
<1>4. Goes(tasks, tasks', plans)
  BY <1>1, <1>3, TaskNumbers DEF Goes
<1>. QED
  BY <1>4, TasksGo DEF Match, Sound

LEMMA EnsurePlanMatch ==
  ASSUME TypeOK, Match, NEW t \in DOMAIN tasks, NEW task \in Task,
         tasks' = [tasks EXCEPT ![t] = task],
         SameTerms(task, tasks[t]), tasks[t].filled <= task.filled,
         task.kind = "ENTRY", task.filled > 0, EnsurePlan(t, task)
  PROVE  Match'
<1>. DEFINE new == [symbol |-> task.symbol, positionSide |-> task.positionSide,
                    entryTask |-> t, exitTask |-> 0, protectedQty |-> task.filled,
                    takeProfit |-> task.takeProfit, stopLoss |-> task.stopLoss,
                    status |-> "ARMED"]
<1>1. /\ DOMAIN tasks' = DOMAIN tasks /\ tasks'[t] = task /\ t # 0
      /\ \A u \in DOMAIN tasks : u # t => tasks'[u] = tasks[u]
  BY MemoryFacts
<1>2. /\ Covered(tasks, plans) /\ OnePlanEach(plans)
      /\ \A m \in DOMAIN plans : PlanFits(tasks, m, plans[m])
  BY DEF Match, Sound, PlansMatch
<1>3. \A m \in DOMAIN plans : plans[m].entryTask # t => PlanFits(tasks', m, plans[m])
  BY <1>2, UpdateFits DEF SameTerms
<1>4. Founded(tasks', plans)
  BY UpdateGoes
<1>5. CASE PlansOf(t) = {} /\ plans' = Put(plans, nPlans + 1, new)
  <2>1. /\ DOMAIN plans' = DOMAIN plans \cup {nPlans + 1}
        /\ nPlans + 1 \notin DOMAIN plans
        /\ plans'[nPlans + 1] = new
        /\ \A m \in DOMAIN plans : plans'[m] = plans[m] /\ plans[m].entryTask # t
    <3>. HIDE DEF new
    <3>. QED
      BY <1>5, MemoryFacts DEF Put, PlansOf
  <2>2. Covered(tasks', plans') /\ OnePlanEach(plans')
    BY <1>1, <1>2, <2>1 DEF Covered, OnePlanEach
  <2>3. PlanFits(tasks', nPlans + 1, new)
    BY <1>1 DEF PlanFits
  <2>4. \A m \in DOMAIN plans' : PlanFits(tasks', m, plans'[m])
    <3>. HIDE DEF new
    <3>. QED
      BY <1>3, <2>1, <2>3
  <2>5. Founded(tasks', plans')
    <3>1. FoundedPlan(new, tasks')
      BY <1>1 DEF FoundedPlan, SameLines, KeyOf
    <3>. HIDE DEF new
    <3>2. PlansKeep(plans, plans')
      BY <2>1 DEF PlansKeep, SameLines
    <3>. QED
      BY <1>4, <2>1, <3>1, <3>2, PlansGo
  <2>. QED
    BY <2>2, <2>4, <2>5 DEF Match, Sound, PlansMatch
<1>6. ASSUME NEW n \in PlansOf(t),
             plans' = [plans EXCEPT
               ![n].protectedQty = IF task.filled > @ THEN task.filled ELSE @,
               ![n].status = "ARMED"]
      PROVE  Match'
  <2>1. n \in DOMAIN plans /\ plans[n].entryTask = t /\ plans[n] \in Plan
        /\ task.filled \in Nat /\ tasks[t].filled \in Nat
    BY MemoryFacts DEF PlansOf, Task
  <2>2. plans[n].protectedQty <= task.filled
    <3>1. PlanFits(tasks, n, plans[n]) /\ plans[n].status \in PlanStatuses
      BY <1>2, <2>1 DEF Plan
    <3>2. CASE plans[n].status = "CLOSED"
      BY <2>1, <3>1, <3>2 DEF PlanFits
    <3>3. CASE plans[n].status \in {"ARMED", "TRIGGERED"}
      BY <2>1, <3>1, <3>3 DEF PlanFits
    <3>4. plans[n].status # "NEEDS_PROTECTION"
      BY <1>1, <2>1, <3>1 DEF PlanFits
    <3>. QED
      BY <3>1, <3>2, <3>3, <3>4 DEF PlanStatuses
  <2>3. (IF task.filled > plans[n].protectedQty THEN task.filled
         ELSE plans[n].protectedQty) = task.filled
    BY <2>1, <2>2 DEF Plan
  <2>4. /\ DOMAIN plans' = DOMAIN plans
        /\ \A m \in DOMAIN plans : m # n => plans'[m] = plans[m]
        /\ plans'[n] = [plans[n] EXCEPT !.protectedQty = task.filled, !.status = "ARMED"]
    BY <1>6, <2>1, <2>3, MemoryFacts
  <2>5. /\ plans'[n].entryTask = t /\ plans'[n].protectedQty = task.filled
        /\ plans'[n].status = "ARMED" /\ SameLines(plans'[n], plans[n])
    BY <2>1, <2>4 DEF Plan, SameLines, KeyOf
  <2>6. \A m \in DOMAIN plans : plans'[m].entryTask = plans[m].entryTask
    BY <2>1, <2>4, <2>5
  <2>7. Covered(tasks', plans') /\ OnePlanEach(plans')
    BY <1>1, <1>2, <2>1, <2>4, <2>6 DEF Covered, OnePlanEach
  <2>8. PlanFits(tasks', n, plans'[n])
    BY <1>1, <2>5 DEF PlanFits
  <2>9. ASSUME NEW m \in DOMAIN plans', m # n
        PROVE  PlanFits(tasks', m, plans'[m])
    <3>1. plans[m].entryTask # t
      BY <1>1, <1>2, <2>1, <2>4, <2>9 DEF OnePlanEach
    <3>. QED
      BY <1>3, <2>4, <2>9, <3>1
  <2>10. Founded(tasks', plans')
    <3>1. PlansKeep(plans, plans')
      BY <2>1, <2>4, <2>5, <2>6 DEF PlansKeep, SameLines
    <3>. QED
      BY <1>4, <2>4, <3>1, PlansGo
  <2>. QED
    BY <2>7, <2>8, <2>9, <2>10 DEF Match, Sound, PlansMatch
<1>. QED
  BY <1>5, <1>6 DEF EnsurePlan

LEMMA ClosePlanMatch ==
  ASSUME TypeOK, Match, NEW t \in DOMAIN tasks, NEW task \in Task,
         tasks' = [tasks EXCEPT ![t] = task],
         SameTerms(task, tasks[t]), tasks[t].filled <= task.filled,
         task.kind # "ENTRY", NEW n \in DOMAIN plans, ClosePlan(n)
  PROVE  Match'
<1>1. /\ DOMAIN tasks' = DOMAIN tasks /\ tasks'[t] = task
      /\ \A u \in DOMAIN tasks : u # t => tasks'[u] = tasks[u]
  BY MemoryFacts
<1>2. /\ Covered(tasks, plans) /\ OnePlanEach(plans)
      /\ \A m \in DOMAIN plans : PlanFits(tasks, m, plans[m])
  BY DEF Match, Sound, PlansMatch
<1>3. \A m \in DOMAIN plans : PlanFits(tasks', m, plans[m])
  BY <1>2, UpdateFits DEF SameTerms
<1>4. /\ DOMAIN plans' = DOMAIN plans
      /\ \A m \in DOMAIN plans : m # n => plans'[m] = plans[m]
      /\ plans'[n] = [plans[n] EXCEPT !.status = "CLOSED", !.protectedQty = 0]
  BY MemoryFacts DEF ClosePlan
<1>5. /\ plans'[n].entryTask = plans[n].entryTask
      /\ plans'[n].status = "CLOSED" /\ plans'[n].protectedQty = 0
      /\ SameLines(plans'[n], plans[n])
  <2>1. plans[n] \in Plan
    BY MemoryFacts
  <2>. QED
    BY <1>4, <2>1 DEF Plan, SameLines, KeyOf
<1>6. Covered(tasks', plans') /\ OnePlanEach(plans')
  <2>1. \A m \in DOMAIN plans : plans'[m].entryTask = plans[m].entryTask
    BY <1>4, <1>5
  <2>2. OnePlanEach(plans')
    BY <1>2, <1>4, <2>1 DEF OnePlanEach
  <2>3. \A u \in DOMAIN tasks' : tasks'[u].kind = "ENTRY" => tasks'[u] = tasks[u]
    BY <1>1
  <2>4. Covered(tasks', plans')
    BY <1>1, <1>2, <1>4, <2>1, <2>3 DEF Covered
  <2>. QED
    BY <2>2, <2>4
<1>7. PlanFits(tasks', n, plans'[n])
  BY <1>5 DEF PlanFits
<1>8. Founded(tasks', plans')
  <2>1. Founded(tasks', plans)
    BY UpdateGoes
  <2>2. PlansKeep(plans, plans')
    BY <1>4, <1>5 DEF PlansKeep, SameLines
  <2>. QED
    BY <1>4, <2>1, <2>2, PlansGo
<1>. QED
  BY <1>3, <1>4, <1>6, <1>7, <1>8 DEF Match, Sound, PlansMatch

LEMMA UserMatch ==
  ASSUME TypeOK, AllSound, UserStream
  PROVE  AllSound'
<1>1. CASE IgnoreUpdate
  <2>1. UNCHANGED <<tasks, plans, disk, held>>
    BY <1>1 DEF IgnoreUpdate, memory
  <2>. QED
    BY <2>1, MatchNow, MatchImages DEF Match
<1>2. CASE OnOrderUpdate
  <2>. DEFINE e      == Head(stream)
              t      == TaskOf(e)
              filled == FilledAfter(tasks[t].filled, e)
              status == StatusAfter(tasks[t].status, e.status)
              task   == [tasks[t] EXCEPT !.orderID = e.order, !.cid = e.cid,
                                         !.filled = filled, !.status = status]
  <2>1. /\ t \in DOMAIN tasks /\ tasks' = [tasks EXCEPT ![t] = task]
        /\ UNCHANGED <<disk, held>>
        /\ \/ task.kind = "ENTRY" /\ task.filled > 0 /\ EnsurePlan(t, task)
           \/ task.kind = "EXIT" /\ task.plan \in DOMAIN plans /\ ClosePlan(task.plan)
           \/ ~(task.kind = "ENTRY" /\ task.filled > 0) /\ UNCHANGED plans
    BY <1>2 DEF OnOrderUpdate
  <2>2. tasks[t] \in Task /\ tasks[t].filled \in Nat
    <3>1. tasks[t] \in Task
      BY <2>1, MemoryFacts
    <3>. QED
      BY <3>1 DEF Task
  <2>3. /\ e \in Event /\ filled \in Nat /\ tasks[t].filled <= filled
        /\ status \in TaskStatuses
    <3>1. e \in Event
      BY <1>2, EventRead DEF OnOrderUpdate
    <3>. QED
      BY <2>2, <3>1 DEF FilledAfter, StatusAfter, Event, EventStatuses, Task,
                        TaskStatuses, ActiveStatuses
  <2>4. /\ task \in Task /\ SameTerms(task, tasks[t])
        /\ tasks[t].filled <= task.filled
    <3>. DEFINE New(o, c, f, s) == [tasks[t] EXCEPT !.orderID = o, !.cid = c,
                                                    !.filled = f, !.status = s]
    <3>1. ASSUME NEW o \in Nat, NEW c \in Nat, NEW f \in Nat, NEW s \in TaskStatuses
          PROVE  /\ New(o, c, f, s) \in Task /\ New(o, c, f, s).filled = f
                 /\ SameTerms(New(o, c, f, s), tasks[t])
      BY <2>2 DEF Task, SameTerms
    <3>2. task = New(e.order, e.cid, filled, status)
      OBVIOUS
    <3>3. e.order \in Nat /\ e.cid \in Nat
      BY <2>3 DEF Event
    <3>. HIDE DEF New, task, e, filled, status
    <3>. QED
      BY <2>3, <3>1, <3>2, <3>3
  <2>. HIDE DEF task
  <2>5. CASE task.kind = "ENTRY" /\ task.filled > 0 /\ EnsurePlan(t, task)
    BY <2>1, <2>4, <2>5, MatchNow, EnsurePlanMatch, MatchImages
  <2>6. CASE task.kind = "EXIT" /\ task.plan \in DOMAIN plans /\ ClosePlan(task.plan)
    BY <2>1, <2>4, <2>6, MatchNow, ClosePlanMatch, MatchImages
  <2>7. CASE ~(task.kind = "ENTRY" /\ task.filled > 0) /\ UNCHANGED plans
    <3>1. task.kind # "ENTRY" \/ task.filled = tasks[t].filled
      BY <2>2, <2>4, <2>7 DEF Task
    <3>2. Covered(tasks, plans) /\ OnePlanEach(plans)
          /\ \A m \in DOMAIN plans : PlanFits(tasks, m, plans[m])
      BY MatchNow DEF Match, Sound, PlansMatch
    <3>3. /\ DOMAIN tasks' = DOMAIN tasks /\ tasks'[t] = task
          /\ \A u \in DOMAIN tasks : u # t => tasks'[u] = tasks[u]
      BY <2>1, MemoryFacts
    <3>4. \A m \in DOMAIN plans : PlanFits(tasks', m, plans[m])
      BY <2>1, <2>4, <3>1, <3>2, UpdateFits DEF SameTerms
    <3>5. Covered(tasks', plans)
      BY <2>4, <2>7, <3>2, <3>3 DEF Covered, SameTerms
    <3>6. Founded(tasks', plans)
      BY <2>1, <2>4, MatchNow, UpdateGoes
    <3>. QED
      BY <2>1, <2>7, <3>2, <3>4, <3>5, <3>6, MatchImages DEF Match, Sound, PlansMatch
  <2>. QED
    BY <2>1, <2>5, <2>6, <2>7
<1>. QED
  BY <1>1, <1>2 DEF UserStream

-----------------------------------------------------------------------------
(* The rest, and the theorem *)

LEMMA MarkNeedsMatch ==
  ASSUME TypeOK, AllSound, MarkNeeds
  PROVE  AllSound'
<1>. DEFINE gaps  == {k \in DOMAIN audit.seen : Missing(k) # {}}
            fresh == (nPlans + 1)..(nPlans + Cardinality(gaps))
<1>1. /\ DOMAIN plans' = DOMAIN plans \cup fresh
      /\ \A n \in fresh : /\ plans'[n].status = "NEEDS_PROTECTION"
                         /\ plans'[n].entryTask = 0
      /\ \A n \in DOMAIN plans \ fresh : plans'[n] = plans[n]
      /\ UNCHANGED <<tasks, disk, held>>
  BY DEF MarkNeeds
<1>2. \A n \in DOMAIN plans : n \notin fresh
  BY MemoryFacts
<1>. HIDE DEF fresh
<1>3. /\ Covered(tasks, plans) /\ OnePlanEach(plans)
      /\ \A m \in DOMAIN plans : PlanFits(tasks, m, plans[m])
  BY MatchNow DEF Match, Sound, PlansMatch
<1>4. Covered(tasks', plans')
  BY <1>1, <1>2, <1>3 DEF Covered
<1>5. OnePlanEach(plans')
  BY <1>1, <1>2, <1>3 DEF OnePlanEach
<1>6. ASSUME NEW n \in DOMAIN plans'
      PROVE  PlanFits(tasks', n, plans'[n])
  <2>1. CASE n \in fresh
    BY <1>1, <2>1 DEF PlanFits
  <2>2. CASE n \notin fresh
    BY <1>1, <1>3, <2>2
  <2>. QED
    BY <2>1, <2>2
<1>7. Founded(tasks', plans')
  <2>1. PlansKeep(plans, plans')
    BY <1>1, <1>2 DEF PlansKeep, SameLines
  <2>2. \A n \in DOMAIN plans' \ DOMAIN plans : FoundedPlan(plans'[n], tasks)
    BY <1>1 DEF FoundedPlan
  <2>. QED
    BY <1>1, <2>1, <2>2, MatchNow, PlansGo DEF Match, Sound
<1>. QED
  BY <1>1, <1>4, <1>5, <1>6, <1>7, MatchImages DEF Match, Sound, PlansMatch

\* A restart takes the snapshot on disk for the memory.
LEMMA CrashMatch ==
  ASSUME TypeOK, AllSound, Crash
  PROVE  AllSound'
<1>1. disk \in Images /\ UNCHANGED disk /\ tasks' = disk.tasks /\ plans' = disk.plans
  BY DEF Images, Crash
<1>2. Sound(disk.tasks, disk.plans)
  BY <1>1 DEF AllSound
<1>3. /\ \A i \in Images' : i = Memory' \/ i = disk \/ i = NoSnapshot
      /\ Memory'.tasks = disk.tasks /\ Memory'.plans = disk.plans
  BY <1>1 DEF Images, Crash, Memory
<1>. QED
  BY <1>2, <1>3, EmptyIsSound DEF AllSound

LEMMA PlanInit == Init => AllSound
<1>. SUFFICES ASSUME Init PROVE AllSound
  OBVIOUS
<1>1. \A i \in Images : i = NoSnapshot
  BY DEF Init, Images, Memory, NoSnapshot
<1>. QED
  BY <1>1, EmptyIsSound DEF AllSound

LEMMA PlanStep == TypeOK /\ AllSound /\ [Next]_vars => AllSound'
<1>. SUFFICES ASSUME TypeOK, AllSound, [Next]_vars PROVE AllSound'
  OBVIOUS
<1>1. CASE Storage
  BY <1>1, StorageMatch DEF Storage
<1>2. CASE PlaceTask
  BY <1>2, PlaceMatch
<1>3. CASE Control
  BY <1>3, ControlMatch
<1>4. CASE MarketStream
  BY <1>4, MarketMatch
<1>5. CASE UserStream
  BY <1>5, UserMatch
<1>6. CASE MarkNeeds
  BY <1>6, MarkNeedsMatch
<1>7. CASE \/ StartRound \/ EndRound \/ Trading \/ Disconnect \/ Reconnect
           \/ UNCHANGED vars
           \/ \E s \in Symbols : ReadPositions(s) \/ ReadFails(s)
  <2>1. UNCHANGED <<tasks, plans, disk, held>>
    BY <1>7 DEF StartRound, EndRound, ReadPositions, ReadFails, Trading, Expire,
       Fill, Disconnect, Reconnect, vars, memory
  <2>. QED
    BY <2>1, MatchNow, MatchImages DEF Match
<1>8. CASE Crash
  BY <1>8, CrashMatch
<1>. QED
  BY <1>1, <1>2, <1>3, <1>4, <1>5, <1>6, <1>7, <1>8 DEF Next, Work, Reconciler

LEMMA SoundAlways == Spec => [](TypeOK /\ AllSound)
<1>1. Init => TypeOK /\ AllSound
  BY TypeInit, PlanInit
<1>2. TypeOK /\ AllSound /\ [Next]_vars => (TypeOK /\ AllSound)'
  BY TypeStep, PlanStep
<1>. QED
  BY <1>1, <1>2, PTL DEF Spec

\* The protection of an entry never comes apart from it: whatever cancels,
\* replacements, late events, out-of-order saves and restarts there were, an
\* armed or triggered plan protects what its entry reports as filled, and a
\* triggered plan has an exit task of that quantity (OnOrderUpdate,
\* ensurePlanLocked, triggerPlan, markNeedsProtection, persist and New).
THEOREM PlansTrackEntries == Spec => []PlanTracksEntry
<1>1. AllSound => PlanTracksEntry
  BY DEF AllSound, Sound, PlanTracksEntry
<1>. QED
  BY <1>1, SoundAlways, PTL

\* What is armed can trigger, and on one side only: the plan of a late fill,
\* of a restart or of a fill after the exit has the two lines its entry was
\* admitted with, for its symbol and position side (SubmitEntry,
\* ensurePlanLocked, markNeedsProtection, persist and New).
THEOREM ArmedPlansTrigger == Spec => []ArmedPlansHaveLines
<1>1. ASSUME TypeOK, AllSound, NEW i \in Images, NEW n \in DOMAIN i.plans,
             i.plans[n].status = "ARMED"
      PROVE  /\ i.plans[n].entryTask \in DOMAIN i.tasks
             /\ SameLines(i.plans[n], i.tasks[i.plans[n].entryTask])
             /\ LinesApart(i.plans[n])
  <2>. DEFINE plan  == i.plans[n]
              entry == i.tasks[plan.entryTask]
  <2>1. /\ PlanFits(i.tasks, n, plan) /\ FoundedPlan(plan, i.tasks)
        /\ \A t \in DOMAIN i.tasks : FoundedTask(i.tasks[t], i.tasks, i.plans)
    BY <1>1 DEF AllSound, Sound, PlansMatch, Founded
  <2>2. plan.entryTask \in DOMAIN i.tasks /\ entry.kind = "ENTRY"
    BY <1>1, <2>1 DEF PlanFits
  <2>3. plan.entryTask # 0
    <3>1. DOMAIN i.tasks \subseteq 1..nTasks
      BY <1>1 DEF TypeOK, ImagesOK, Images, Snapshot, SnapshotOf
    <3>. QED
      BY <2>2, <3>1
  <2>4. SameLines(plan, entry) /\ LinesApart(entry)
    BY <2>1, <2>2, <2>3 DEF FoundedPlan, FoundedTask
  <2>. QED
    BY <2>2, <2>4 DEF LinesApart, SameLines, KeyOf
<1>2. TypeOK /\ AllSound => ArmedPlansHaveLines
  BY <1>1 DEF ArmedPlansHaveLines
<1>. QED
  BY <1>2, SoundAlways, PTL

\* Nothing is exited that was not bought: an exit task is for no more than one
\* order of the entry of its plan has traded at the exchange, whatever fills
\* came after the trigger, and whichever snapshot a restart loads
\* (triggerPlan, ensurePlanLocked, persist and New).
THEOREM ExitsAreForFills == Spec => []ExitsAreBacked
<1>1. ASSUME TypeOK, AllSound, FilledIsReal, NEW i \in Images,
             NEW t \in DOMAIN i.tasks, i.tasks[t].kind = "EXIT"
      PROVE  /\ i.tasks[t].plan \in DOMAIN i.plans
             /\ LET e == i.plans[i.tasks[t].plan].entryTask
                IN /\ e \in DOMAIN i.tasks /\ KeyOf(i.tasks[e]) = KeyOf(i.tasks[t])
                   /\ \E o \in OrdersOf(e) : orders[o].filled >= i.tasks[t].quantity
  <2>. DEFINE n == i.tasks[t].plan
              e == i.plans[n].entryTask
  <2>1. /\ n \in DOMAIN i.plans /\ e # 0
        /\ KeyOf(i.tasks[t]) = KeyOf(i.plans[n])
        /\ i.tasks[t].quantity <= i.tasks[e].filled
    BY <1>1 DEF AllSound, Sound, Founded, FoundedTask
  <2>2. /\ e \in DOMAIN i.tasks /\ i.tasks[e].filled > 0
        /\ KeyOf(i.plans[n]) = KeyOf(i.tasks[e])
    BY <1>1, <2>1 DEF AllSound, Sound, Founded, FoundedPlan, SameLines
  <2>3. PICK o \in OrdersOf(e) : orders[o].filled >= i.tasks[e].filled
    BY <1>1, <2>2 DEF FilledIsReal
  <2>4. /\ i.tasks[t].quantity \in Nat /\ i.tasks[e].filled \in Nat
        /\ orders[o].filled \in Nat
    <3>1. i.tasks \in [DOMAIN i.tasks -> Task]
      BY <1>1 DEF TypeOK, ImagesOK, Images, Snapshot, SnapshotOf
    <3>2. i.tasks[t] \in Task /\ i.tasks[e] \in Task
      BY <2>2, <3>1
    <3>3. orders[o].filled \in Nat
      BY <1>1, OrderFacts DEF OrdersOf
    <3>. QED
      BY <3>2, <3>3 DEF Task
  <2>5. orders[o].filled >= i.tasks[t].quantity
    BY <2>1, <2>3, <2>4
  <2>. QED
    BY <2>1, <2>2, <2>3, <2>5
<1>2. TypeOK /\ AllSound /\ FilledIsReal => ExitsAreBacked
  BY <1>1 DEF ExitsAreBacked
<1>. QED
  BY <1>2, SoundAlways, FillsAreReal, PTL

-----------------------------------------------------------------------------
(* What the rules give together, for every price *)

Lines == [positionSide : PositionSides, takeProfit : Nat, stopLoss : Nat]
Asked == [side : Sides, positionSide : PositionSides, quantity : Nat,
          takeProfit : Nat, stopLoss : Nat]

\* The lines a plan takes over from the request of its entry (SubmitEntry,
\* ensurePlanLocked).
LinesOf(req) == [positionSide |-> req.positionSide,
                 takeProfit |-> req.takeProfit, stopLoss |-> req.stopLoss]

LEMMA LinesAroundRef ==
  ASSUME NEW req \in Asked, NEW ref \in Nat, ValidRequest(req, ref)
  PROVE  /\ req.positionSide \in PositionSides
         /\ req.takeProfit \in Nat /\ req.takeProfit > 0
         /\ req.stopLoss \in Nat /\ req.stopLoss > 0
         /\ req.positionSide = "LONG" => req.stopLoss < ref /\ ref < req.takeProfit
         /\ req.positionSide = "SHORT" => req.takeProfit < ref /\ ref < req.stopLoss
BY DEF Asked, ValidRequest, ValidProtection

\* A plan does not trigger at the mark price its request was validated
\* against: validateProtectionPricesLocked and shouldTrigger agree on which
\* side of the price each line lies, for both position sides.
THEOREM AdmittedIsQuiet ==
  ASSUME NEW req \in Asked, NEW ref \in Nat, ValidRequest(req, ref)
  PROVE  ~ShouldTrigger(LinesOf(req), ref)
<1>1. ~HitsTakeProfit(LinesOf(req), ref) /\ ~HitsStopLoss(LinesOf(req), ref)
  BY LinesAroundRef DEF LinesOf, HitsTakeProfit, HitsStopLoss
<1>. QED
  BY <1>1 DEF ShouldTrigger, TriggerType

\* No price is beyond both lines of an admitted request, so that the order in
\* which triggerType looks at them does not decide what a plan triggers as.
THEOREM LinesExclude ==
  ASSUME NEW req \in Asked, NEW ref \in Nat, ValidRequest(req, ref),
         NEW price \in Nat
  PROVE  ~(HitsTakeProfit(LinesOf(req), price) /\ HitsStopLoss(LinesOf(req), price))
BY LinesAroundRef DEF LinesOf, HitsTakeProfit, HitsStopLoss, PositionSides

\* Once a price beyond a line triggers a plan, so does every price further
\* out: a mark that jumps over the line is not missed.
THEOREM TriggersBeyond ==
  ASSUME NEW plan \in Lines, NEW price \in Nat, NEW further \in Nat, price > 0,
         \/ /\ HitsTakeProfit(plan, price)
            /\ plan.positionSide = "LONG" => price <= further
            /\ plan.positionSide = "SHORT" => further <= price
         \/ /\ HitsStopLoss(plan, price)
            /\ plan.positionSide = "LONG" => further <= price
            /\ plan.positionSide = "SHORT" => price <= further,
         further > 0
  PROVE  ShouldTrigger(plan, further)
<1>1. HitsTakeProfit(plan, further) \/ HitsStopLoss(plan, further)
  BY DEF Lines, HitsTakeProfit, HitsStopLoss, PositionSides
<1>2. ~(further <= 0)
  OBVIOUS
<1>. QED
  BY <1>1, <1>2 DEF ShouldTrigger, TriggerType
=============================================================================
