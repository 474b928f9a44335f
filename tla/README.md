# binance-chase-trader in TLA+

Models, model-checking runs and proofs for the trading daemon in `src/`: the
local service that chases an entry order at the best price of its own side,
protects every fill with a take-profit / stop-loss plan, and exits with a chased
order when the mark price reaches a line of the plan.

Everything the daemon does to money happens where goroutines overlap: a REST
call is made without `Service.mu`, the reply comes back into a task that ticks,
order events and cancels have changed in the meantime, and the snapshot on disk
is written by yet another interleaving. That is what the models are about.

## 1. The system

| Component | State | Operations | Talks to |
|:--|:--|:--|:--|
| Control server (`internal/control`) | none; one goroutine per connection | `order`, `cancel`, `window`, `tasks`, `plans` | calls `SubmitEntry`, `CancelTask`, queries |
| Chase service (`service.go`) | `tasks`, `plans`, `clientIndex`, `orderIndex`, `markets`, under one mutex | `SubmitEntry`, `CancelTask`, `placeTask`, `maybeReplace`, `triggerPlan`, `OnOrderUpdate`, `OnMarket` | REST client, limiter, store |
| Market stream (`stream.go`) | a websocket | `bookTicker` and `markPriceUpdate` messages, reconnect for ever | calls `OnMarket` on its goroutine, which also replaces and triggers |
| User stream (`stream.go`) | a websocket and a listen key | order events in order, reconnect for ever, keepalive | calls `OnOrderUpdate` on its goroutine |
| Reconcile ticker (`Run`, `reconcile`) | none | every 30 s: positions per symbol, report what no plan covers | REST client, `plans` |
| Snapshot store (`store.go`) | `snapshot.json`, its temporary file, `events.jsonl`, a mutex of its own | `Append`, `Save` (temporary file and rename), `Load` | called by `persist` after the lock is released |
| Restart (`New`) | - | load the snapshot, `rebuildIndexes` | store |
| Replace limiter (`limiter.go`) | next time per key | `Allow` | asked by `maybeReplace` |
| Order budget (`limiter.go`, `service.go`) | tokens, capacity, rate; two limits of the exchange | `Wait`, `take`, `Update`, `configureRateLimits`, `adaptOrderBudget` | asked by `placeTask`, set by `Run` and by every placement and cancel |
| REST client (`client.go`) | the usage of the last reply of all | place, cancel, positions, prices, listen key | the exchange |
| Market window | ticks per symbol | append and trim, copy out | read by queries only |
| Configuration, command line | - | parse | - |
| Exchange (external) | orders, positions, event stream | accept, fill, expire, cancel | REST replies and events |

The hard parts, each listed with its line in `PROJECT.json` under `hazards`:

* a status read under the lock and used after a REST call (`maybeReplace`,
  `placeTask`, `CancelTask`, `triggerPlan`'s asynchronous cancel);
* events of an order that was already replaced, and events that arrive before
  the reply to the placement they belong to, or after a reply that was lost;
* two goroutines placing the same task;
* clones of the state written to disk in another order than they were taken, a
  crash between any two steps, indexes rebuilt from what a snapshot carries;
* order events lost while the user stream is down, or while its connection is
  open and its listen key has expired;
* a budget that is configured while placements already lower it, from a usage
  that any call overwrites;
* a temporary file that all writers share, and an error at any step of a save;
* triggers that wait behind the replacements of the same goroutine.

What makes each component correct:

* *indexes*: an event, a cancel and a rebuilt index reach the task that asked
  for the order (`Attribution`);
* *tasks*: what is reported as filled was traded (`FilledIsReal`,
  `FilledMeansTraded`), what is over stays over (`SettledStays`), one order per
  exit (`ExitHasOneOrder`);
* *plans*: entry, plan and exit agree in memory and in every snapshot
  (`PlanTracksEntry`), a plan is closed by an exit that traded
  (`ClosedMeansTraded`), an armed plan has lines to trigger at
  (`ArmedPlansHaveLines`), and no exit asks for more than one order of its entry
  has bought (`ExitsAreBacked`); a reached line triggers and its exit is sent
  (`TriggerFires`, `ExitIsSentOrFails`);
* *reconcile*: an uncovered position is reported (`UncoveredIsReported`);
* *user stream*: to the rest of the daemon it is a connection that breaks and
  comes back (`ImplementsChase`), and it always comes back (`HearsAgain`);
* *store*: the disk holds whole images of the memory only (`ImplementsRegister`),
  one writer at a time is between opening and renaming (`StoreOK`), plans get
  there in spite of errors and races (`PlansReachDisk`), the history keeps what
  is recent (`WindowEndsWithRecent`);
* *budget*: the orders of any interval keep to the bucket (`BucketBound`), from a
  lowered budget they go out one by one at the slow rate for ever (`StaysSlow`),
  and they still go out (`OrdersGoOn`);
* *control*: every request returns (`RequestsReturn`);
* *rules*: an admitted request does not trigger at once, its two lines exclude
  each other, no jump over a line is missed (proved).

## 2. Modules

| Module | What it is |
|:--|:--|
| `ProtectionRules` | the pure rules: admission, active statuses, target price, triggers |
| `ChaseService` | the daemon, the exchange and the disk; extends the rules |
| `ChaseProperties` | what the daemon promises, and what only its documents promise |
| `UserFeed` | the user stream in full, composed with the daemon; extends `ChaseProperties`, implements `ChaseService` |
| `SnapshotRegister` | abstract: the disk is a register of whole images of the memory |
| `MarketWindow` | the trimming of a symbol's history, and what it should keep |
| `SnapshotStore` | `persist` and the store step by step; implements `SnapshotRegister` |
| `OrderBudget` | the token bucket, its configuration and the feedback of replies |
| `MCChase`, `MCFeed`, `MCStore`, `MCBudget` | requests, ticks and limits for the TLC instances |
| `ChaseService_proof` | type correctness of `ChaseService` |
| `Attribution_proof` | updates find their task, fills are real, settled tasks stay, exits have one order |
| `FillsAreTraded_proof` | the orders of a task add up to what it reports as filled |
| `Protection_proof` | plans, entries and exits agree, lines and quantities of plans, the rules for every price |
| `UserFeed_proof` | `UserFeed` implements `ChaseService` |
| `SnapshotStore_proof` | the window, the store's invariant and its refinement |
| `OrderBudget_proof` | the bucket's invariant, the bound on bursts, the pace of a lowered budget |
| `LibraryLemmas` | the least member of a set of naturals, and sums over finite sets, for the proofs above |

### How `ChaseService` corresponds to the code

One action is one critical section of `Service.mu`, or one REST call at the
moment the exchange takes it; any other goroutine may run in between. A goroutine
is a record `proc[p]` (label, what follows its save, task, order):

* every control connection `h`: `Submit` or `CancelTask`, then the rest of it
  (`clone`/`save`, `place`/`wait`/`ack`/`nack`, `cancel`);
* `market`: `OnMarket` sets up the work of one message (`checks`, `triggers`);
  `SkipReplace`/`StartReplace`, `ReplaceCancelOk`/`ReplaceCancelError`, `Rename`
  and then `placeTask` are `maybeReplace`; `SkipTrigger`/`Trigger` and `placeTask`
  are `triggerPlan`. The next message is read when the work is done;
* `user`: `OnOrderUpdate` or `IgnoreUpdate`, with the saves that follow;
* `reconcile`: `StartRound`, `ReadPositions`/`ReadFails` per symbol, `MarkNeeds`,
  `EndRound`;
* the goroutines `triggerPlan` spawns: one member of `asyncCancels` each.

`placeTask` is `PlaceStart` (first section), `PlaceAccepted` or `PlaceRejected`
(the REST call, whose reply may be lost: `nack` with a live order), `PlaceDone`
or `PlaceFailed` (second section or `markTaskFailed`). `persist` is `Clone` (the
copy under the lock, into `held[p]`) and `Save` (the write, or its failure, or the
failure of the event log before it). `Crash` replaces the memory by the disk and
rebuilds the indexes as `New` does.

The exchange is external and modelled from how the code uses it: an order lives
until it is filled, cancelled or expired; each change is an event, appended to a
FIFO stream while the user stream is up and lost otherwise; a duplicate of a live
client order id and a quantity of 0 are refused; an exit never turns a position
around (hedge mode). The history fields `task` and `era` of an order say who
asked for it and in which run of the daemon; the daemon never reads them.

### `UserFeed`

`feed` is where `runUser` is: asking for a listen key (`StartListenKey`), dialling
(`DialOk`, `DialFails`) or in `readUser` (until `ReadEnds`). `link` and `keyLive`
are the two halves of being connected: the socket, and the key at the exchange.
`LinkBreaks` loses the end of what was sent; `KeyExpires` stands for a keepalive
that failed, which `keepalive` only logs: the socket stays open and silent, since
`readUser` skips the notice (`listenKeyExpired`) as it skips every event that is
not an order update, until the exchange closes it (`SilentLinkCloses`).
`FeedNext` is `Work` of `ChaseService` next to these. `ImplementsChase` maps
`connected` to `Hears` (reading, open, key alive) and shows that all of it is
`Disconnect`, `Reconnect` or nothing to the rest.

### `SnapshotStore` and `SnapshotRegister`

`at[w]` is the step of `persist` a goroutine `w` is at: `append` (the event log),
`clone` (under `Service.mu`), `save` (wait for `Store.mu`), `write`, `fill` (the two
halves of `os.WriteFile`), `rename`. Each step that touches a file may fail and
ends `persist` there, with the temporary file as it is. Of the memory there are
two parts that change differently: the history of a symbol, which `OnMarket`
changes without a save, and the plans, which are saved at once. A crash loses
everything but the files; the first tick after it may have an older time than
those of the snapshot. `SnapshotRegister` forgets how a save works: a writer takes
an image, and later writes it or gives it up. It does not say that the newest
image wins, because the code does not: an older clone may be written last, and
only the next save of the ticker makes that good (`PlansReachDisk`).

### `OrderBudget`

`capacity`, `rate`, `tokens` and `idle` (the time since `last`) are the fields of
`TokenBucket`; tokens come in tenths. `TakeFails` and `Take` are `take`, polled by
`Wait`; `Send`, `Cancel` and `OtherReply` are calls whose replies overwrite
`usage`; `Adapt` is `adaptOrderBudget`, which reads whatever is there by then.
`InfoOk`, `NextLimit` per entry and `Configure` are `configureRateLimits` on the
goroutine of `Run`, while control connections place orders already. A reply is its
status and, for each of the two limits, whether its count is near; the replies of
calls other than orders, errors among them, carry no counts (`Uncounted`) but
overwrite those of an order. `orders` is history: the age of the orders that were
let through, with the capacity at that time, the highest rate since the one
before, and whether the budget was a lowered one (`Lowered`).

### Abstractions

* Prices are numbers of ticks, quantities numbers of lots, 0 is the Go zero value
  "not known"; the tolerances `1e-9` and `1e-12` vanish with them.
* Ids are fresh numbers. (In the code they are the clock in nanoseconds; the
  collision of two of them is a listed hazard, not a behaviour of the model.)
* A REST call is one step at the exchange. The request is built from the task
  without the lock; building it at that step is one of the moments the race
  allows, and the earlier ones differ only in the old client order id or
  quantity of a task that another goroutine is placing too.
* `ReplaceLimiter` is the set `cooling` of keys that are refused, left at any
  time. In `ChaseService` `TokenBucket.Wait` is a delay without state; its state
  is `OrderBudget`.
* `ReplaceCount`, trigger price and type, `EntryQty`, times, error texts and the
  tick history are left out: nothing of the trading logic reads them.
  `RemainingQty` is computed from `Quantity` and `FilledQty`, as every assignment
  of it does.
* `events.jsonl` is never read back; all that is modelled of it is that its
  failure ends `persist`. `os.Rename` is atomic, and a crash is one of the process:
  nothing is synced before the rename, and what a loss of power leaves behind is
  not modelled.
* In `OrderBudget` time goes in seconds and `Wait` polls at any time; the refill is
  cut to the unit of tokens (`UnitAssumption`: never to 0).
* Saves are left out once an instance cannot crash any more: nothing would read
  the disk. A saved and an unsaved step differ only in `disk` and `held`.

## 3. Runs

The runs of `ChaseService` use `MCChase`: one symbol, long positions, stop loss 8,
take profit 12, a mark price of 10 or 8, books at 10 or 7. `CHECK_DEADLOCK FALSE`
everywhere: the instances stop when their counters are used up.

| Run | Shows | Bounds |
|:--|:--|:--|
| `chase` | `FilledIsReal`, `FilledMeansTraded`, `SettledStays` while a connection, ticks, fills, events and reconcile interleave on one entry | 1 connection, 1 task of 2 lots, 2 orders, 1 replacement, 1 cancel, 1 expiry, 1 report |
| `protect` | `Attribution`, `PlanTracksEntry`, `ClosedMeansTraded`, `ExitHasOneOrder` for an entry, its plan and its exit | 2 tasks of 1 lot, 3 orders, 1 replacement, 1 cancel |
| `crash` | `TypeOK`, `Attribution`, `PlanTracksEntry`, `FilledIsReal`, `ExitsAreBacked` across a restart | 2 tasks of 1 lot, 2 orders, 1 loss of events, 1 crash |
| `live` | `ExitIsSentOrFails`, `TriggerFires`, under `TradeSpec` | 2 tasks of 1 lot, 3 orders, 1 replacement |
| `feed` | `ArmedPlansHaveLines`, `ImplementsChase`, `HearsAgain`, `UncoveredIsReported`, `RequestsReturn`, under `FeedSpec` | 1 task of 2 lots, 1 order, 1 cancel, 2 losses of the connection or its key, 1 report |
| `store` | `StoreOK`, `WindowEndsWithRecent`, `ImplementsRegister`, `PlansReachDisk`, under `FairSpec` | 2 writers, 3 ticks per run of the daemon at times 0 to 2, a window of 1 and 2 ticks, 2 plans, 1 error, 1 crash |
| `budget` | `BudgetOK`, `BucketBound`, `StaysSlow`, `OrdersGoOn`, under `FairSpec` | 2 goroutines, limits of 30 in 10 s and 120 in a minute, orders up to 4 s old, 2 s of idle time |
| `single_entry` | `SingleActiveEntry` is violated | 2 connections, 2 tasks, 2 orders, 1 cancel |
| `protects_traded` | `ProtectsWhatTraded` is violated | 1 task of 2 lots, 2 orders, 1 replacement |
| `close_only` | `ExitsCloseOnly` is violated | 3 tasks of 2 lots, 3 orders |
| `goes_on` | `ChaseGoesOn` is violated | 1 task of 1 lot, 2 orders, 1 replacement |
| `restart_orders` | `RestartFindsOrders` is violated, under `FairSpec` | 1 task, 1 order, 1 crash |

Why these bounds meet the cases. Two lots are the least that can be filled in
part: in `chase` a replacement asks for what remained by the events read so far,
with two orders and one replacement an old order has news while a new one is
live, and both goroutines that can place a task, the connection and the market
stream, do. A second connection would add a second cancel of the same task or an
entry that is refused; what it can add to the admission of entries is
`single_entry`, and the theorems of section 4 hold for any number of them.
`Attribution` is checked with two tasks, in `protect` and `crash`, since it is
about ids of one task that lead to another. Three orders are the entry, the exit
and a replacement of either; in `protect` and `live` the orders have one lot, and
what partial fills add to `ClosedMeansTraded` and `ExitHasOneOrder` is left to the
theorems `ClosedIsTraded` and `ExitsHaveOneOrder`. In `live` one replacement, of
the entry or of the exit, makes the exit wait for the goroutine, for its own
cancel or for a second placement that may be refused or lose its reply. A cancel
by a client, which would end the exit, and a report of reconcile, which would
take the lock once more, are left out there for size. In `crash` the entry has
one lot, so that `ExitsAreBacked` is about what a snapshot keeps of entry, plan
and exit there; that it also holds for partial fills and plans that are armed
again, for any quantities, is the theorem `ExitsAreForFills`. One crash reaches
what a restart can do to the first task and its plan: `New` leaves a function of
the disk, and the disk at the crash is any snapshot that any order of clones and
writes can have left; crashes of a daemon that restarted before are
not checked, but the theorems of section 4 about `ChaseService` cover them.
Two symbols would not interact (every rule is per symbol, or per symbol and
position side), except through the goroutine they share, which one symbol with
an entry and an exit keeps busy already.

In `store` two writers are all that can meet at `Store.mu` or pass each other
between clone and write, and three ticks after two old ones fill a window of two
by its age as well as by its length. In `budget` the first limit has the smaller
share and the second the slower refill, so that capacity and rate come from
different entries; `DefaultCapacity` is below both shares, and the lowest rate
needs longer than `MaxIdle` for one token, so that a waiter has to be credited in
parts. Orders are remembered for four seconds, in which a lowered budget may let
through two after the first. In `feed` two losses are one of each kind, in either order.

### Fairness

`FairSpec` assumes of the environment only what the code arranges for: the
scheduler runs every goroutine; a REST call returns (the client has a timeout of
10 s); the token bucket refills; both stream loops reconnect for ever; the market
stream keeps sending for every symbol; the ticker ticks, and one of its calls of
`Positions` gets through in the end (strong fairness, because a call may also
fail). Nothing is assumed of clients, fills, expiries, losses of the user stream
or crashes. The end of a cool-down is not assumed either: a replacement that is
refused is skipped, it does not wait.

Two of these need a word. `ChaseService` assumes that each goroutine that waits
for the budget gets a token in the end; `OrdersGoOn` shows from the bucket that
somebody does, and that it is nobody in particular is left to the scheduler: all
of them poll ten times a second. `WorkFairness` is what `FairSpec` and `FeedSpec`
have in common, and `TradeFairness` the part of it without the ticker, which
`TradeSpec` assumes for the run `live`: a trigger waits for no round of reconcile.
`FeedSpec` has the steps of `runUser` in the place of `Reconnect`:
it retries for ever, one of its dials succeeds in the end (strong fairness, as a
dial may also fail), and the exchange closes a socket whose key is gone.

`SnapshotStore` assumes strong fairness of `Persist(w)`: the ticker persists every
30 s, `sync.Mutex` does not starve a waiter, and errors are not for ever
(`MaxErrors`). `OrderBudget` assumes that time passes and goroutines run, and
nothing of clients or replies.

### What the violations show

The five violation runs are disagreements between the documents and the code;
the quotations are in `PROJECT.json` under `findings`.

* `single_entry`: a client cancels a task whose placement is under way
  (`OrderID` is 0, so no order is cancelled); a second entry is admitted; the
  first placement returns and sets `CHASING`. Two entries of one side chase.
* `protects_traded`: the entry fills one lot, is replaced, and the new order
  fills one lot: `FilledQty` stays 1, and so does the protected quantity.
* `close_only`: a partial fill arms the plan, the price falls and the exit is
  sent; a further event of the entry arms the plan again, and a second exit is
  sent next to the first: together they ask for more than is held.
* `goes_on`: `maybeReplace` cancels the old order and places the new one; the
  event of that cancel is read when the placement has returned, and
  `OnOrderUpdate` marks the task `CANCELED`, although its current order is the new
  one. Nothing replaces that order again, and a second entry is admitted. It takes
  no failure and no second client: one move of the price is enough.
* `restart_orders`: a crash after the exchange took an order and before the
  snapshot with its id was written: the order stays open and nothing looks for
  it.

Every property of a passing run comes with a mutant: a plausible mistake in the
code (an operator marked "mutant" next to the one it replaces) with which TLC
finds the property violated under the same instance.

## 4. Proofs

TLC checks the instances above. The theorems about `ChaseService` hold for any
symbols, requests, ticks, connections and bounds that meet the assumptions
`InputAssumption`, `HandlerAssumption`, `BoundAssumption` and
`MaxDistanceAssumption`; those about the store for any writers and window
(`SaversAssumption`, `StoreBounds`, `WindowAssumption`), and those about the budget
for any goroutines, limits, ratio and rates (`LimitsAssumption`,
`RatioAssumption`, `RateAssumption`, `UnitAssumption`). TLC evaluates them in every
run of the module.

* `TypeCorrect` (`Spec => []TypeOK`). `TypeOK` is inductive as it stands because
  it is more than types: every id in memory, on disk, in the hands of a goroutine
  and at the exchange was given out, a goroutine on its way through `placeTask`
  has a task that exists, and one with a reply has an order that exists. The
  proof has one lemma per action; the snapshots need their own part, since a
  crash makes any clone that was ever taken the memory.
* `PlansTrackEntries`, `ExitsAreForFills`, `ArmedPlansTrigger` (`Spec =>
  []PlanTracksEntry`, `[]ExitsAreBacked`, `[]ArmedPlansHaveLines`). Stated for the
  memory alone the first is not inductive: a crash brings back the disk, and the
  disk the clone a goroutine held. Stated for all images (`AllSound`) it is,
  together with `TypeOK`: each action changes a task, a plan or both in one critical
  section, and `Clone`, `Save` and `Crash` only move images. `Sound` of an image is
  `PlansMatch` (entry, plan and exit agree) and `Founded` (an exit asks for no more
  than its entry's fill, and an armed plan has the lines of its entry). The second
  needs the first: `Trigger` takes the quantity from the plan, and only
  `PlansMatch` says that it is the entry's. The cases that carry the weight are
  `OnOrderUpdate` (the fill and the plan rise together, and a re-armed plan keeps
  its quantity equal to its entry's), `Trigger` (the exit gets the protected
  quantity in the section that marks the plan) and `MarkNeeds` (its plans have no
  entry, and so do not count as a second plan of one). That the entry's fill was
  traded by an order at the exchange is `FillsAreReal`; both together are
  `ExitsAreForFills`.
* `OrdersAreAttributed`, `FillsAreReal`, `SettledTasksStay` (the last for
  `MaxCrashes = 0`). None of the three properties is inductive: two places may name
  the same client order id, and the daemon keeps no list of who asked for it. The
  invariant is `\E own : Traced(own)`: there is such a list, from client order
  ids to tasks, and every image (`ImagesCarry`), the two indexes (`IndexFits`), the
  orders (`OrdersFit`), the updates still on their way (`NewsFits`) and the
  goroutines with a reply (`WorkersFit`) agree with it. The list only grows:
  `AddTask`, `Trigger` and the rotation of the id in `placeTask` extend it at the id
  they have just drawn, every other action is proved with the list it found. A
  crash keeps it, since it speaks of the snapshots too. `SettledStays` needs the
  list to see that an event of another task leaves a settled one alone; what is
  left is `StatusAfter` on the last events of the task's own orders. A goroutine
  that is placing the task, a live order and an unread partial fill are excluded
  by `Settled`, because with them the code does revive a task (`single_entry`).
* `FilledIsTraded` and `ClosedIsTraded` (`Spec => []FilledMeansTraded`,
  `Spec => []ClosedMeansTraded`, whatever the crashes). The properties add up the
  orders of a task with a fold, and a sum is hard to carry through a step. The invariant has none: an order asks for the whole
  quantity of its task or for what one other order of the task had left of it
  (`OrdersAsk`), so that one order or two have traded the quantity of every task
  that an image calls `FILLED`, and of an exit of every plan it calls `CLOSED`
  (`ImagesEarned`); the update `FILLED` is sent when the order is full
  (`NewsEarned`). The fold appears in the last lemma only,
  where two members of a finite set add up to no more than the whole.
* `ExitsHaveOneOrder` (for `MaxCrashes = 0`). `ExitsFit` adds to the above who may
  be placing an exit: only the market goroutine sends orders of it (`Reserved`), it
  has none at the exchange when that goroutine is about to send one, and an exit
  that is active without an order id while an order of it is live is one whose reply
  that goroutine holds (`Careful`, `Answered`). So `maybeReplace` always cancels
  the one order there is. TLC checked `ExitsFit` on the instance of `protect`.
* `AdmittedIsQuiet`, `LinesExclude`, `TriggersBeyond`: the validation of a
  request and the trigger rule agree, for both position sides and every price.

* `FeedRefinesSpec` and `FeedImplementsChase`: the daemon with its listen keys and
  dials is one of `ChaseService`, so that every theorem about `Spec` holds of it,
  and with `connected` read as `Hears` each of its steps is one of `ChaseService`
  or none. The second rests on `FeedOK`: what was sent and not read yet came over
  the connection there is.
* `StoreCorrect` and `StoreImplementsRegister`: `StoreOK` is inductive because it
  ties the label of a writer to the lock and the temporary file to the clone of
  the writer about to rename it. From it follows that the rename puts `held[w]`
  on the disk, which is the one step of the refinement that is not a copy.
* `WindowKeepsRecent` and `WindowIsRecent` (`Spec => []WindowEndsWithRecent`). The
  first is about one call, for any history and any times: the tick appended last
  and every younger one before it is kept while there is room. It rests on what the
  least member of a set of naturals is (`LibraryLemmas`). The second is about every
  reachable history: the last tick is the clock (`LastIsNow`), within a run of the
  daemon ticks do not grow older, and a tick that is kept keeps its place counted
  from the end, so that what was there before the call is there after it.
* `BudgetCorrect`, `BurstsAreBounded`, `LowBudgetIsSlow`. The bound on bursts is not
  inductive: it speaks of orders, and what the next order may use is in the
  bucket. `BucketInv` adds that no order is younger than the one before it or
  than the last look at the bucket (`Aged`), and that for every order the tokens
  there are now, and the orders since, are paid for by its capacity and what had
  flowed in by that look (`Funded`). `Take` turns one token into one order;
  `Second` changes neither side, and `Update` and the cut to the capacity only
  lower the tokens. `LowBudgetIsSlow` follows from the bound:
  a budget that is lowered once `configureRateLimits` is done stays `Lowered`
  (`LoweredStep`: every `Update` after it is one of `adaptOrderBudget`), so that
  every order after it finds a capacity of 1 and a rate of at most `SlowRate`
  (`StillLow`). A 429 is followed by `LowestRate`, but not for good: a later reply
  near a limit raises it to `SlowRate` again (`service.go:607, 612`).

Every invariant and action property of a passing run is stated by one of these
theorems. Model-checked only: `HearsAgain`, `UncoveredIsReported`,
`RequestsReturn`, `ExitIsSentOrFails`, `TriggerFires`, `PlansReachDisk` and
`OrdersGoOn`, since liveness is out of the prover's reach. `SettledTasksStay` and
`ExitsHaveOneOrder` assume `MaxCrashes = 0` because the properties are false
otherwise: a restart takes up an older snapshot, in which a task is not settled
yet or an order not known. No proof is by induction over data; where a sum
is needed, the lemmas of `LibraryLemmas` take it apart at its least element.

## 5. Not modelled

* Signing, encoding and HTTP of the REST client; configuration; the command
  line; the JSON protocol and read-only commands of the control server: pure
  input and output without state of their own. What `Finalize` guarantees of the
  configuration is assumed of the constants (`RatioAssumption`); what it does not
  check, a negative `CHASER_WINDOW_MAX_TICKS`, is listed as a hazard.
* Dry-run mode: without a user stream nothing fills and no plan appears.
* The dial loop of the market stream: no tick is ever waited for, so that a lost
  connection is a tick that comes later.
* Two daemons on one state directory, a loss of power, the clock in ids.
* Trades made by hand at the exchange, one-way mode.
* Crashes in `UserFeed`, and liveness across a crash: the state space with
  fairness and a crash is too large for more than the instance of
  `restart_orders`. `Crash` of `ChaseService` leaves the stream disconnected, where
  `runUser` starts.

## 6. Plan

What this project holds: the core with its runs (`ChaseService`,
`ChaseProperties`), the user stream, the store and the budget with theirs, a
refinement of `SnapshotRegister` and one of `ChaseService`, and the proofs of
section 4. What is left, in this order:

1. `ProtectionLifecycle`: the abstract promise of one plan (bought, protected,
   exiting, closed) and `ChaseService` without re-arming as its refinement; where
   the code leaves it is what `close_only` shows.
2. The age of prices: a mark price that a restart took from the snapshot, and
   what `hydrateInitialMarkets` makes of it when its calls fail.
