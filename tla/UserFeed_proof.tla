---------------------------- MODULE UserFeed_proof ----------------------------
(***************************************************************************)
(* UserFeed implements ChaseService for every instance: a round of runUser *)
(* is the loss and the return of the connection, and each step of the      *)
(* daemon is the step of ChaseService with the same name.                  *)
(***************************************************************************)
EXTENDS UserFeed, ChaseService_proof

\* What runUser knows of its connection: the exchange sends exactly when it
\* hears, a link is open only while it reads, it dials with a key that is
\* still honoured, and when it starts over everything that arrived was read.
FeedOK ==
  /\ connected = Hears
  /\ feed \in {"key", "dial", "read"}
  /\ link => feed = "read"
  /\ feed = "dial" => keyLive
  /\ feed # "read" => stream = <<>>

LEMMA FeedStarts == FeedInit => FeedOK
BY DEF FeedInit, Init, FeedOK, Hears

\* Nothing the daemon does opens or closes the connection, or makes up news.
LEMMA WorkListens ==
  ASSUME Work
  PROVE  UNCHANGED connected /\ (~connected /\ stream = <<>> => stream' = <<>>)
<1>1. CASE Storage \/ Reconciler
  BY <1>1 DEF Storage, Clone, Save, Reconciler, StartRound, ReadPositions, ReadFails,
     MarkNeeds, EndRound, exchange
<1>2. CASE PlaceTask
  BY <1>2 DEF PlaceTask, PlaceStart, PlaceAccepted, PlaceRejected, PlaceDone, PlaceFailed,
     Accept, Emit, exchange
<1>3. CASE Control
  BY <1>3 DEF Control, Submit, CancelTask, CancelOk, CancelError, EndOrder, Emit, exchange
<1>4. CASE MarketStream
  BY <1>4 DEF MarketStream, OnMarket, SkipReplace, StartReplace, ReplaceCancelOk,
     ReplaceCancelError, Rename, SkipTrigger, Trigger, AsyncCancel, CooldownEnds,
     EndOrder, Emit, exchange
<1>5. CASE UserStream
  BY <1>5 DEF UserStream, IgnoreUpdate, OnOrderUpdate
<1>6. CASE Trading
  BY <1>6 DEF Trading, Expire, Fill, EndOrder, Emit
<1>. QED
  BY <1>1, <1>2, <1>3, <1>4, <1>5, <1>6 DEF Work

LEMMA FeedStep == FeedOK /\ [FeedNext]_fullVars => FeedOK'
<1>. SUFFICES ASSUME FeedOK, [FeedNext]_fullVars
              PROVE  FeedOK'
  OBVIOUS
<1>1. CASE Work /\ UNCHANGED feedVars
  BY <1>1, WorkListens DEF FeedOK, Hears, feedVars
<1>2. CASE StartListenKey \/ DialFails \/ ReadEnds \/ SilentLinkCloses
  BY <1>2 DEF StartListenKey, DialFails, ReadEnds, SilentLinkCloses, FeedOK, Hears,
     vars, exchange
<1>3. CASE DialOk
  BY <1>3 DEF DialOk, FeedOK, Hears
<1>4. CASE LinkBreaks \/ KeyExpires
  BY <1>4 DEF LinkBreaks, KeyExpires, FeedOK, Hears
<1>5. CASE UNCHANGED fullVars
  BY <1>5 DEF fullVars, feedVars, vars, exchange, FeedOK, Hears
<1>. QED
  BY <1>1, <1>2, <1>3, <1>4, <1>5 DEF FeedNext, Connection

\* A round of runUser looks like the loss and the return of the connection.
LEMMA FeedIsChase == TypeOK /\ FeedOK /\ [FeedNext]_fullVars => [Next]_vars
<1>. SUFFICES ASSUME TypeOK, FeedOK, [FeedNext]_fullVars
              PROVE  [Next]_vars
  OBVIOUS
<1>1. CASE Work \/ UNCHANGED vars
  BY <1>1 DEF Next
<1>2. CASE DialOk
  BY <1>2 DEF DialOk, FeedOK, Hears, Reconnect, Next
<1>3. CASE LinkBreaks
  BY <1>3 DEF LinkBreaks, FeedOK, Disconnect, Next
<1>4. CASE KeyExpires
  <2>1. Len(stream) \in 0..Len(stream) /\ stream = SubSeq(stream, 1, Len(stream))
    <3>1. stream \in Seq(Event)
      BY DEF TypeOK, ExchangeOK
    <3>. QED
      BY <3>1
  <2>. QED
    BY <1>4, <2>1 DEF KeyExpires, FeedOK, Disconnect, Next
<1>. QED
  BY <1>1, <1>2, <1>3, <1>4 DEF FeedNext, Connection, StartListenKey, DialFails, ReadEnds,
     SilentLinkCloses, fullVars

\* With the listen key and runUser's loop the daemon is the one of
\* ChaseService: whatever is proved of Spec holds of it (runUser, keepalive,
\* readUser).
THEOREM FeedRefinesSpec == FeedSpec => Spec
<1>1. FeedInit => Init /\ TypeOK /\ FeedOK
  BY TypeInit, FeedStarts DEF FeedInit
<1>2. TypeOK /\ FeedOK /\ [FeedNext]_fullVars => (TypeOK /\ FeedOK)' /\ [Next]_vars
  BY TypeStep, FeedStep, FeedIsChase
<1>. QED
  BY <1>1, <1>2, PTL DEF FeedSpec, Spec

-----------------------------------------------------------------------------
(* The same steps, when connected stands for what runUser hears *)

Same == connected = Hears /\ connected' = Hears'

LEMMA SameEmit == ASSUME Same, NEW e, Emit(e) PROVE Chase!Emit(e)
BY DEF Same, Emit, Chase!Emit

LEMMA SameEnd == ASSUME Same, NEW o, EndOrder(o) PROVE Chase!EndOrder(o)
BY SameEmit DEF Same, EndOrder, Chase!EndOrder, EventOf, Chase!EventOf

LEMMA SameAccept == ASSUME Same, NEW t, Accept(t) PROVE Chase!Accept(t)
BY SameEmit DEF Same, Accept, Chase!Accept, EventOf, Chase!EventOf, Remaining, Chase!Remaining

\* The names that read the same in both copies.
USE DEF Same, Market, User, Reconcile, Procs, Keys, Empty, Put, NoQuotes,
  NoSnapshot, Memory, Idle, At, Goto, Done, Resume, MayCrash, Persist,
  Remaining, KeyOf, memory, index, ids, work, exchange, counts, EventOf,
  HasActiveEntry, NewTask, AddTask, Newer, WantsReplace, Replaces, Allowed,
  Triggers, TaskOf, FilledAfter, StatusAfter, PlansOf, EnsurePlan, ClosePlan,
  Needing, Protected, Missing, MapThenSumSet, MapThenFoldSet, ActiveStatuses,
  TaskStatuses, IsActive, TargetPrice, NearlyEqual, Distance, WithinDistance,
  ValidProtection, ValidRequest, HitsTakeProfit, HitsStopLoss, TriggerType,
  ShouldTrigger, CloseSide, EntrySide, PositionSides, Sides, Bijection,
  Injection, IsInjective, Surjection, Cardinality, IsFiniteSet, Chase!Market,
  Chase!User, Chase!Reconcile, Chase!Procs, Chase!Keys, Chase!Empty,
  Chase!Put, Chase!NoQuotes, Chase!NoSnapshot, Chase!Memory, Chase!Idle,
  Chase!At, Chase!Goto, Chase!Done, Chase!Resume, Chase!MayCrash,
  Chase!Persist, Chase!Remaining, Chase!KeyOf, Chase!memory, Chase!index,
  Chase!ids, Chase!work, Chase!exchange, Chase!counts, Chase!EventOf,
  Chase!HasActiveEntry, Chase!NewTask, Chase!AddTask, Chase!Newer,
  Chase!WantsReplace, Chase!Replaces, Chase!Allowed, Chase!Triggers,
  Chase!TaskOf, Chase!FilledAfter, Chase!StatusAfter, Chase!PlansOf,
  Chase!EnsurePlan, Chase!ClosePlan, Chase!Needing, Chase!Protected,
  Chase!Missing, Chase!MapThenSumSet, Chase!MapThenFoldSet,
  Chase!ActiveStatuses, Chase!TaskStatuses, Chase!IsActive, Chase!TargetPrice,
  Chase!NearlyEqual, Chase!Distance, Chase!WithinDistance,
  Chase!ValidProtection, Chase!ValidRequest, Chase!HitsTakeProfit,
  Chase!HitsStopLoss, Chase!TriggerType, Chase!ShouldTrigger, Chase!CloseSide,
  Chase!EntrySide, Chase!PositionSides, Chase!Sides, Chase!Bijection,
  Chase!Injection, Chase!IsInjective, Chase!Surjection, Chase!Cardinality,
  Chase!IsFiniteSet

LEMMA SameStorage == ASSUME Same, Storage PROVE Chase!Storage
BY DEF Storage, Chase!Storage, Clone, Chase!Clone, Save, Chase!Save

LEMMA SamePlace == ASSUME Same, PlaceTask PROVE Chase!PlaceTask
<1>1. ASSUME NEW p, PlaceAccepted(p)
      PROVE  Chase!PlaceAccepted(p)
  BY <1>1, SameAccept DEF PlaceAccepted, Chase!PlaceAccepted
<1>2. ASSUME NEW p, PlaceDone(p)
      PROVE  Chase!PlaceDone(p)
  BY <1>2 DEF PlaceDone, Chase!PlaceDone
<1>3. ASSUME NEW p, PlaceStart(p) \/ PlaceRejected(p) \/ PlaceFailed(p)
      PROVE  Chase!PlaceStart(p) \/ Chase!PlaceRejected(p) \/ Chase!PlaceFailed(p)
  BY <1>3 DEF PlaceStart, Chase!PlaceStart, PlaceRejected, Chase!PlaceRejected,
     PlaceFailed, Chase!PlaceFailed
<1>. QED
  BY <1>1, <1>2, <1>3 DEF PlaceTask, Chase!PlaceTask

LEMMA SameControl == ASSUME Same, Control PROVE Chase!Control
<1>1. ASSUME NEW h, NEW req, Submit(h, req)
      PROVE  Chase!Submit(h, req)
  BY <1>1 DEF Submit, Chase!Submit
<1>2. ASSUME NEW h, NEW t, CancelTask(h, t)
      PROVE  Chase!CancelTask(h, t)
  BY <1>2 DEF CancelTask, Chase!CancelTask
<1>3. ASSUME NEW h, CancelOk(h) \/ CancelError(h)
      PROVE  Chase!CancelOk(h) \/ Chase!CancelError(h)
  BY <1>3, SameEnd DEF CancelOk, Chase!CancelOk, CancelError, Chase!CancelError
<1>. QED
  BY <1>1, <1>2, <1>3 DEF Control, Chase!Control

LEMMA SameMarket == ASSUME Same, MarketStream PROVE Chase!MarketStream
<1>1. ASSUME NEW k, OnMarket(k)
      PROVE  Chase!OnMarket(k)
  BY <1>1 DEF OnMarket, Chase!OnMarket
<1>2. ASSUME NEW t, SkipReplace(t)
      PROVE  Chase!SkipReplace(t)
  BY <1>2 DEF SkipReplace, Chase!SkipReplace
<1>3. ASSUME NEW t, StartReplace(t)
      PROVE  Chase!StartReplace(t)
  BY <1>3 DEF StartReplace, Chase!StartReplace
<1>4. CASE ReplaceCancelOk \/ ReplaceCancelError \/ Rename
  BY <1>4, SameEnd DEF ReplaceCancelOk, Chase!ReplaceCancelOk, ReplaceCancelError,
     Chase!ReplaceCancelError, Rename, Chase!Rename, Chase!MarketStream
<1>5. ASSUME NEW n, SkipTrigger(n)
      PROVE  Chase!SkipTrigger(n)
  BY <1>5 DEF SkipTrigger, Chase!SkipTrigger
<1>6. ASSUME NEW n, Trigger(n)
      PROVE  Chase!Trigger(n)
  BY <1>6 DEF Trigger, Chase!Trigger
<1>7. ASSUME NEW o, AsyncCancel(o)
      PROVE  Chase!AsyncCancel(o)
  BY <1>7, SameEnd DEF AsyncCancel, Chase!AsyncCancel
<1>8. ASSUME NEW k, CooldownEnds(k)
      PROVE  Chase!CooldownEnds(k)
  BY <1>8 DEF CooldownEnds, Chase!CooldownEnds
<1>. QED
  BY <1>1, <1>2, <1>3, <1>4, <1>5, <1>6, <1>7, <1>8 DEF MarketStream, Chase!MarketStream

LEMMA SameUser == ASSUME Same, UserStream PROVE Chase!UserStream
<1>1. CASE IgnoreUpdate
  BY <1>1 DEF IgnoreUpdate, Chase!IgnoreUpdate, Chase!UserStream
<1>2. CASE OnOrderUpdate
  BY <1>2 DEF OnOrderUpdate, Chase!OnOrderUpdate, Chase!UserStream
<1>. QED
  BY <1>1, <1>2 DEF UserStream

LEMMA SameReconciler == ASSUME Same, Reconciler PROVE Chase!Reconciler
<1>1. StartRound => Chase!StartRound
  BY DEF StartRound, Chase!StartRound
<1>2. \A s : ReadPositions(s) => Chase!ReadPositions(s)
  BY DEF ReadPositions, Chase!ReadPositions
<1>3. \A s : ReadFails(s) => Chase!ReadFails(s)
  BY DEF ReadFails, Chase!ReadFails
<1>4. MarkNeeds => Chase!MarkNeeds
  BY DEF MarkNeeds, Chase!MarkNeeds
<1>5. EndRound => Chase!EndRound
  BY DEF EndRound, Chase!EndRound
<1>. QED
  BY <1>1, <1>2, <1>3, <1>4, <1>5 DEF Reconciler, Chase!Reconciler

LEMMA SameTrading == ASSUME Same, Trading PROVE Chase!Trading
<1>1. \A o : Expire(o) => Chase!Expire(o)
  BY SameEnd DEF Expire, Chase!Expire
<1>2. ASSUME NEW o, NEW n, Fill(o, n)
      PROVE  Chase!Fill(o, n)
  BY <1>2, SameEmit DEF Fill, Chase!Fill
<1>. QED
  BY <1>1, <1>2 DEF Trading, Chase!Trading

LEMMA SameLosses ==
  ASSUME Same
  PROVE  /\ Disconnect => Chase!Disconnect
         /\ Reconnect => Chase!Reconnect
         /\ Crash => Chase!Crash
         /\ UNCHANGED vars => UNCHANGED Chase!vars
<1>1. Disconnect => Chase!Disconnect
  BY DEF Disconnect, Chase!Disconnect
<1>2. Reconnect => Chase!Reconnect
  BY DEF Reconnect, Chase!Reconnect
<1>3. Crash => Chase!Crash
  BY DEF Crash, Chase!Crash, RebuildIndex, Chase!RebuildIndex, IdsIn, Chase!IdsIn,
     TaskWith, Chase!TaskWith
<1>4. UNCHANGED vars => UNCHANGED Chase!vars
  BY DEF vars, Chase!vars
<1>. QED
  BY <1>1, <1>2, <1>3, <1>4

LEMMA SameInit == ASSUME connected = Hears, Init PROVE Chase!Init
BY DEF Init, Chase!Init

HIDE DEF Same, Market, User, Reconcile, Procs, Keys, Empty, Put, NoQuotes,
  NoSnapshot, Memory, Idle, At, Goto, Done, Resume, MayCrash, Persist,
  Remaining, KeyOf, memory, index, ids, work, exchange, counts, EventOf,
  HasActiveEntry, NewTask, AddTask, Newer, WantsReplace, Replaces, Allowed,
  Triggers, TaskOf, FilledAfter, StatusAfter, PlansOf, EnsurePlan, ClosePlan,
  Needing, Protected, Missing, MapThenSumSet, MapThenFoldSet, ActiveStatuses,
  TaskStatuses, IsActive, TargetPrice, NearlyEqual, Distance, WithinDistance,
  ValidProtection, ValidRequest, HitsTakeProfit, HitsStopLoss, TriggerType,
  ShouldTrigger, CloseSide, EntrySide, PositionSides, Sides, Bijection,
  Injection, IsInjective, Surjection, Cardinality, IsFiniteSet, Chase!Market,
  Chase!User, Chase!Reconcile, Chase!Procs, Chase!Keys, Chase!Empty,
  Chase!Put, Chase!NoQuotes, Chase!NoSnapshot, Chase!Memory, Chase!Idle,
  Chase!At, Chase!Goto, Chase!Done, Chase!Resume, Chase!MayCrash,
  Chase!Persist, Chase!Remaining, Chase!KeyOf, Chase!memory, Chase!index,
  Chase!ids, Chase!work, Chase!exchange, Chase!counts, Chase!EventOf,
  Chase!HasActiveEntry, Chase!NewTask, Chase!AddTask, Chase!Newer,
  Chase!WantsReplace, Chase!Replaces, Chase!Allowed, Chase!Triggers,
  Chase!TaskOf, Chase!FilledAfter, Chase!StatusAfter, Chase!PlansOf,
  Chase!EnsurePlan, Chase!ClosePlan, Chase!Needing, Chase!Protected,
  Chase!Missing, Chase!MapThenSumSet, Chase!MapThenFoldSet,
  Chase!ActiveStatuses, Chase!TaskStatuses, Chase!IsActive, Chase!TargetPrice,
  Chase!NearlyEqual, Chase!Distance, Chase!WithinDistance,
  Chase!ValidProtection, Chase!ValidRequest, Chase!HitsTakeProfit,
  Chase!HitsStopLoss, Chase!TriggerType, Chase!ShouldTrigger, Chase!CloseSide,
  Chase!EntrySide, Chase!PositionSides, Chase!Sides, Chase!Bijection,
  Chase!Injection, Chase!IsInjective, Chase!Surjection, Chase!Cardinality,
  Chase!IsFiniteSet

LEMMA ChaseStep ==
  ASSUME Same, [Next]_vars
  PROVE  [Chase!Next]_(Chase!vars)
<1>1. Work => Chase!Work
  BY SameStorage, SamePlace, SameControl, SameMarket, SameUser, SameReconciler,
     SameTrading DEF Work, Chase!Work
<1>. QED
  BY <1>1, SameLosses DEF Next, Chase!Next

\* Listen keys that expire, dials that fail and connections that fall silent
\* add no behaviour: to the tasks and plans the user stream is one that breaks
\* and comes back once everything that arrived was read (runUser, keepalive,
\* readUser).
THEOREM FeedImplementsChase == FeedSpec => ImplementsChase
<1>1. FeedInit => TypeOK /\ FeedOK /\ Chase!Init
  BY TypeInit, FeedStarts, SameInit DEF FeedInit, FeedOK
<1>2. TypeOK /\ FeedOK /\ [FeedNext]_fullVars =>
        (TypeOK /\ FeedOK)' /\ [Chase!Next]_(Chase!vars)
  <2>. SUFFICES ASSUME TypeOK, FeedOK, [FeedNext]_fullVars
                PROVE  (TypeOK /\ FeedOK)' /\ [Chase!Next]_(Chase!vars)
    OBVIOUS
  <2>1. [Next]_vars /\ FeedOK'
    BY FeedIsChase, FeedStep
  <2>2. Same
    BY <2>1 DEF FeedOK, Same
  <2>. QED
    BY <2>1, <2>2, TypeStep, ChaseStep
<1>. QED
  BY <1>1, <1>2, PTL DEF FeedSpec, ImplementsChase, Chase!Spec
=============================================================================
