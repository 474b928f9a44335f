------------------------- MODULE SnapshotStore_proof -------------------------
(***************************************************************************)
(* The store for any number of goroutines, ticks, plans, errors and        *)
(* crashes: Store.mu keeps the temporary file to one writer, the window    *)
(* keeps what is recent, and the whole implements SnapshotRegister.        *)
(***************************************************************************)
EXTENDS SnapshotStore, LibraryLemmas, SequenceTheorems

-----------------------------------------------------------------------------
(* The window                                                              *)

LEMMA FirstKeptBounds ==
  ASSUME NEW h \in Seq(Nat), NEW cutoff \in Int
  PROVE  /\ FirstKept(h, cutoff) \in 1..(Len(h) + 1)
         /\ \A i \in 1..Len(h) : h[i] >= cutoff => FirstKept(h, cutoff) <= i
<1>. DEFINE young == {i \in 1..Len(h) : h[i] >= cutoff} \cup {Len(h) + 1}
<1>1. young \subseteq Nat /\ young # {} /\ young \subseteq 1..(Len(h) + 1)
  OBVIOUS
<1>2. Min(young) \in young /\ \A i \in young : Min(young) <= i
  BY <1>1, MinimumOfNaturals
<1>. QED
  BY <1>1, <1>2 DEF FirstKept

LEMMA DropOldType ==
  ASSUME NEW h \in Seq(Nat), NEW cutoff \in Int
  PROVE  LET m == FirstKept(h, cutoff)
             kept == DropOld(h, cutoff)
         IN /\ kept \in Seq(Nat)
            /\ Len(kept) = Len(h) - m + 1
            /\ \A i \in 1..Len(kept) : kept[i] = h[m + i - 1]
<1>. DEFINE m == FirstKept(h, cutoff)
<1>1. m \in 1..(Len(h) + 1) /\ Len(h) \in Nat
  BY FirstKeptBounds
<1>. HIDE DEF m
<1>2. \A i \in m..Len(h) : h[i] \in Nat
  BY <1>1
<1>3. /\ SubSeq(h, m, Len(h)) \in Seq(Nat)
      /\ Len(SubSeq(h, m, Len(h))) = IF m <= Len(h) THEN Len(h) - m + 1 ELSE 0
      /\ \A i \in 1..(Len(h) - m + 1) : SubSeq(h, m, Len(h))[i] = h[m + i - 1]
  BY <1>1, <1>2, SubSeqProperties
<1>. QED
  BY <1>1, <1>3 DEF DropOld, m

LEMMA KeepLastType ==
  ASSUME NEW h \in Seq(Nat)
  PROVE  LET kept == KeepLast(h)
         IN /\ kept \in Seq(Nat)
            /\ Len(kept) = IF Len(h) > WindowMaxTicks THEN WindowMaxTicks
                           ELSE Len(h)
            /\ \A i \in 1..Len(kept) : kept[i] = h[Len(h) - Len(kept) + i]
<1>1. CASE Len(h) > WindowMaxTicks
  <2>. DEFINE m == Len(h) - WindowMaxTicks + 1
  <2>1. m \in 1..(Len(h) + 1) /\ Len(h) \in Nat /\ WindowMaxTicks \in Nat
    BY <1>1, WindowAssumption
  <2>2. \A i \in m..Len(h) : h[i] \in Nat
    BY <2>1
  <2>3. /\ SubSeq(h, m, Len(h)) \in Seq(Nat)
        /\ Len(SubSeq(h, m, Len(h))) = IF m <= Len(h) THEN Len(h) - m + 1 ELSE 0
        /\ \A i \in 1..(Len(h) - m + 1) : SubSeq(h, m, Len(h))[i] = h[m + i - 1]
    BY <2>1, <2>2, SubSeqProperties
  <2>. QED
    BY <1>1, <2>1, <2>3 DEF KeepLast
<1>2. CASE ~(Len(h) > WindowMaxTicks)
  BY <1>2, WindowAssumption DEF KeepLast
<1>. QED
  BY <1>1, <1>2

LEMMA AppendTickType ==
  ASSUME NEW h \in Seq(Nat), NEW t \in Nat
  PROVE  AppendTick(h, t) \in Seq(Nat)
<1>1. Append(h, t) \in Seq(Nat) /\ t - WindowDuration \in Int
  BY WindowAssumption
<1>2. DropOld(Append(h, t), t - WindowDuration) \in Seq(Nat)
  BY <1>1, DropOldType
<1>. QED
  BY <1>2, KeepLastType DEF AppendTick

\* The i-th tick of a is where it was, counted from the end, in the last ticks
\* w of its last ticks d.
LEMMA PlaceInSuffix ==
  ASSUME NEW la \in Nat, NEW ld \in Nat, NEW lw \in Nat, NEW max \in Nat,
         NEW i \in 1..la, NEW m \in 1..i, la - i < max, ld = la - m + 1,
         lw = IF ld > max THEN max ELSE ld
  PROVE  /\ la - i < lw /\ lw <= max
         /\ i - m + 1 \in 1..ld /\ m + (i - m + 1) - 1 = i
         /\ lw - (la - i) \in 1..lw
         /\ ld - lw + (lw - (la - i)) = i - m + 1
<1>1. CASE ld > max
  BY <1>1
<1>2. CASE ~(ld > max)
  BY <1>2
<1>. QED
  BY <1>1, <1>2

LEMMA SuffixOfSuffix ==
  ASSUME NEW a \in Seq(Nat), NEW d \in Seq(Nat), NEW w \in Seq(Nat),
         NEW i \in 1..Len(a), NEW m \in 1..i, Len(a) - i < WindowMaxTicks,
         Len(d) = Len(a) - m + 1,
         Len(w) = IF Len(d) > WindowMaxTicks THEN WindowMaxTicks ELSE Len(d),
         \A k \in 1..Len(d) : d[k] = a[m + k - 1],
         \A k \in 1..Len(w) : w[k] = d[Len(d) - Len(w) + k]
  PROVE  /\ Len(a) - i < Len(w) /\ Len(w) <= WindowMaxTicks
         /\ w[Len(w) - (Len(a) - i)] = a[i]
<1>1. Len(a) \in Nat /\ Len(d) \in Nat /\ Len(w) \in Nat
  OBVIOUS
<1>2. /\ Len(a) - i < Len(w) /\ Len(w) <= WindowMaxTicks
      /\ i - m + 1 \in 1..Len(d) /\ m + (i - m + 1) - 1 = i
      /\ Len(w) - (Len(a) - i) \in 1..Len(w)
      /\ Len(d) - Len(w) + (Len(w) - (Len(a) - i)) = i - m + 1
  <2>1. PICK la \in Nat, ld \in Nat, lw \in Nat :
          la = Len(a) /\ ld = Len(d) /\ lw = Len(w)
    BY <1>1
  <2>2. /\ WindowMaxTicks \in Nat /\ la \in Nat /\ ld \in Nat /\ lw \in Nat
        /\ i \in 1..la /\ m \in 1..i /\ la - i < WindowMaxTicks
        /\ ld = la - m + 1
        /\ lw = IF ld > WindowMaxTicks THEN WindowMaxTicks ELSE ld
    BY <2>1, WindowAssumption
  <2>3. /\ la - i < lw /\ lw <= WindowMaxTicks
        /\ i - m + 1 \in 1..ld /\ m + (i - m + 1) - 1 = i
        /\ lw - (la - i) \in 1..lw
        /\ ld - lw + (lw - (la - i)) = i - m + 1
    BY ONLY <2>2, PlaceInSuffix
  <2>. QED
    BY <2>1, <2>3
<1>3. w[Len(w) - (Len(a) - i)] = d[Len(d) - Len(w) + (Len(w) - (Len(a) - i))]
  BY <1>2
<1>4. d[i - m + 1] = a[m + (i - m + 1) - 1]
  BY <1>2
<1>. QED
  BY <1>2, <1>3, <1>4

\* A tick that is younger than WindowDuration, and has fewer than
\* WindowMaxTicks newer ones, is in the window, in its place, whatever the
\* times of the ticks around it are (appendTickLocked).
THEOREM WindowKeepsRecent ==
  ASSUME NEW h \in Seq(Nat), NEW t \in Nat, NEW i \in 1..(Len(h) + 1),
         Append(h, t)[i] >= t - WindowDuration,
         Len(h) + 1 - i < WindowMaxTicks
  PROVE  LET w == AppendTick(h, t)
             newer == Len(h) + 1 - i
         IN /\ newer < Len(w) /\ Len(w) <= WindowMaxTicks
            /\ w[Len(w) - newer] = Append(h, t)[i]
<1>. DEFINE a == Append(h, t)
            m == FirstKept(a, t - WindowDuration)
            d == DropOld(a, t - WindowDuration)
            w == KeepLast(d)
<1>1. a \in Seq(Nat) /\ Len(a) = Len(h) + 1 /\ t - WindowDuration \in Int
  BY WindowAssumption
<1>2. m \in 1..(Len(a) + 1) /\ m <= i
  BY <1>1, FirstKeptBounds
<1>3. /\ d \in Seq(Nat) /\ Len(d) = Len(a) - m + 1
      /\ \A k \in 1..Len(d) : d[k] = a[m + k - 1]
  BY <1>1, DropOldType
<1>4. /\ w \in Seq(Nat)
      /\ Len(w) = IF Len(d) > WindowMaxTicks THEN WindowMaxTicks ELSE Len(d)
      /\ \A k \in 1..Len(w) : w[k] = d[Len(d) - Len(w) + k]
  BY <1>3, KeepLastType
<1>5. w = AppendTick(h, t) /\ Len(h) \in Nat /\ WindowMaxTicks \in Nat
  BY WindowAssumption DEF AppendTick
<1>. HIDE DEF a, m, d, w
<1>6. i \in 1..Len(a) /\ m \in 1..i /\ Len(a) - i < WindowMaxTicks
  BY <1>1, <1>2, <1>5
<1>7. /\ Len(a) - i < Len(w) /\ Len(w) <= WindowMaxTicks
      /\ w[Len(w) - (Len(a) - i)] = a[i]
  BY <1>1, <1>3, <1>4, <1>6, SuffixOfSuffix
<1>. QED
  BY <1>1, <1>5, <1>7 DEF a

-----------------------------------------------------------------------------
(* Store.mu and the temporary file                                         *)

Saving == {"write", "fill", "rename"}

USE DEF clock, planVars, fileVars, counts

\* A step that leaves the files and the lock alone, of a writer outside Save.
LEMMA OutsideSave ==
  ASSUME StoreOK, NEW w \in Writers, NEW step \in {"idle", "append", "clone", "save"},
         at[w] \notin Saving, at' = [at EXCEPT ![w] = step],
         NEW image \in Image, held' = [held EXCEPT ![w] = image],
         step # "save" => image = Nothing,
         UNCHANGED <<clock, lock, fileVars>>,
         plans' \subseteq Nat, nPlans' \in Nat, errors' \in Nat, crashes' \in Nat
  PROVE  StoreOK'
<1>1. /\ at' \in [Writers -> {"idle", "append", "clone", "save", "write", "fill",
                             "rename"}]
      /\ held' \in [Writers -> Image]
  BY DEF StoreOK
<1>2. ASSUME NEW v \in Writers
      PROVE  /\ at'[v] \in Saving <=> lock' = v
             /\ at'[v] = "rename" => tmp' = held'[v]
             /\ at'[v] \notin {"save", "write", "fill", "rename"} => held'[v] = Nothing
  BY DEF StoreOK, Saving
<1>. QED
  BY <1>1, <1>2 DEF StoreOK, Saving

\* A step of the writer that holds Store.mu, or takes it, or gives it back.
LEMMA InsideSave ==
  ASSUME StoreOK, NEW w \in Writers, lock \in {Free, w},
         NEW step \in {"idle", "write", "fill", "rename"},
         at' = [at EXCEPT ![w] = step],
         NEW image \in Image, held' = [held EXCEPT ![w] = image],
         step = "idle" => image = Nothing,
         step = "rename" => tmp' = image,
         lock' = IF step = "idle" THEN Free ELSE w,
         UNCHANGED <<clock, planVars, crashes>>,
         tmp' \in Image \cup {Torn}, disk' \in Image, errors' \in Nat
  PROVE  StoreOK'
<1>1. /\ at' \in [Writers -> {"idle", "append", "clone", "save", "write", "fill",
                             "rename"}]
      /\ held' \in [Writers -> Image] /\ w # Free
  BY SaversAssumption DEF StoreOK, Writers, User, Free
<1>2. ASSUME NEW v \in Writers
      PROVE  /\ at'[v] \in Saving <=> lock' = v
             /\ at'[v] = "rename" => tmp' = held'[v]
             /\ at'[v] \notin {"save", "write", "fill", "rename"} => held'[v] = Nothing
  <2>1. CASE v = w
    BY <1>1, <2>1 DEF StoreOK, Saving
  <2>2. CASE v # w
    <3>1. v # Free /\ lock # v
      BY <2>2, SaversAssumption DEF Writers, User, Free
    <3>2. at[v] \notin Saving /\ at'[v] = at[v] /\ held'[v] = held[v] /\ lock' # v
      BY <2>2, <3>1 DEF StoreOK, Saving
    <3>. QED
      BY <3>2 DEF StoreOK, Saving
  <2>. QED
    BY <2>1, <2>2
<1>. QED
  BY <1>1, <1>2 DEF StoreOK, Saving

LEMMA NothingIsImage == Nothing \in Image /\ Free \notin Writers
<1>1. <<>> \in Seq(Nat)
  OBVIOUS
<1>. QED
  BY <1>1, SaversAssumption DEF Nothing, Image, Writers, User, Free

LEMMA StoreInit == Init => StoreOK
BY NothingIsImage, StoreBounds DEF Init, StoreOK, Image, Nothing

LEMMA MemoryIsImage == StoreOK => Memory \in Image
BY DEF StoreOK, Memory, Image

\* The steps of persist before Save.
LEMMA BeforeSave ==
  ASSUME StoreOK, NEW w \in Writers,
         StartPersist(w) \/ AppendEvent(w) \/ AppendFails(w) \/ Clone(w)
  PROVE  StoreOK'
<1>1. CASE StartPersist(w) \/ AppendEvent(w) \/ AppendFails(w)
  <2>1. PICK step \in {"idle", "append", "clone"} : at' = [at EXCEPT ![w] = step]
    BY <1>1 DEF StartPersist, AppendEvent, AppendFails, Goto
  <2>2. /\ at[w] \in {"idle", "append"} /\ errors' \in Nat
        /\ UNCHANGED <<clock, planVars, lock, held, fileVars, crashes>>
    BY <1>1 DEF StartPersist, AppendEvent, AppendFails, At, Error, StoreOK
  <2>3. held[w] = Nothing /\ held' = [held EXCEPT ![w] = Nothing]
    BY <2>2 DEF StoreOK
  <2>4. /\ at[w] \notin Saving
        /\ plans' \subseteq Nat /\ nPlans' \in Nat /\ crashes' \in Nat
    BY <2>2 DEF StoreOK, Saving
  <2>. QED
    BY <2>1, <2>2, <2>3, <2>4, NothingIsImage, OutsideSave
<1>2. CASE Clone(w)
  <2>1. /\ at[w] \notin Saving /\ at' = [at EXCEPT ![w] = "save"]
        /\ held' = [held EXCEPT ![w] = Memory]
        /\ UNCHANGED <<clock, planVars, lock, fileVars, counts>>
    BY <1>2 DEF Clone, At, Goto, Saving
  <2>2. /\ plans' \subseteq Nat /\ nPlans' \in Nat /\ errors' \in Nat
        /\ crashes' \in Nat
    BY <2>1 DEF StoreOK
  <2>. QED
    BY <2>1, <2>2, MemoryIsImage, OutsideSave
<1>. QED
  BY <1>1, <1>2

LEMMA DuringSave ==
  ASSUME StoreOK, NEW w \in Writers,
         BeginSave(w) \/ Truncate(w) \/ Fill(w) \/ Rename(w) \/ SaveFails(w)
  PROVE  StoreOK'
<1>1. /\ held[w] \in Image /\ tmp \in Image \cup {Torn} /\ disk \in Image
      /\ errors \in Nat /\ held \in [Writers -> Image]
      /\ at[w] \in Saving => lock = w
      /\ at[w] = "rename" => tmp = held[w]
  BY DEF StoreOK, Saving
<1>2. CASE BeginSave(w) \/ Truncate(w) \/ Fill(w)
  <2>1. PICK step \in {"write", "fill", "rename"} :
          /\ at' = [at EXCEPT ![w] = step]
          /\ step = "rename" => tmp' = held[w]
    BY <1>2 DEF BeginSave, Truncate, Fill, Goto
  <2>2. /\ lock \in {Free, w} /\ lock' = w
        /\ tmp' \in {tmp, Torn, held[w]}
        /\ UNCHANGED <<clock, planVars, held, disk, counts>>
    BY <1>1, <1>2 DEF BeginSave, Truncate, Fill, At, Saving
  <2>3. /\ held' = [held EXCEPT ![w] = held[w]] /\ tmp' \in Image \cup {Torn}
        /\ disk' \in Image /\ errors' \in Nat
    BY <1>1, <2>2
  <2>. QED
    BY <1>1, <2>1, <2>2, <2>3, InsideSave
<1>3. CASE Rename(w) \/ SaveFails(w)
  <2>1. /\ lock = w /\ lock' = Free
        /\ at' = [at EXCEPT ![w] = "idle"]
        /\ held' = [held EXCEPT ![w] = Nothing]
        /\ UNCHANGED <<clock, planVars, crashes>>
    BY <1>1, <1>3 DEF Rename, SaveFails, At, Saving, Return, Goto
  <2>2. /\ disk' \in Image /\ tmp' \in Image \cup {Torn} /\ errors' \in Nat
    BY <1>1, <1>3, NothingIsImage DEF Rename, SaveFails, At, Error
  <2>. QED
    BY <2>1, <2>2, NothingIsImage, InsideSave
<1>. QED
  BY <1>2, <1>3

LEMMA DaemonWorks ==
  ASSUME StoreOK, AddPlan \/ \E t \in now..MaxTime : OnMarket(t)
  PROVE  StoreOK'
<1>1. CASE AddPlan
  <2>1. /\ User \in Writers /\ at[User] \notin Saving
        /\ at' = [at EXCEPT ![User] = "append"]
        /\ UNCHANGED <<clock, held, lock, fileVars, counts>>
    BY <1>1 DEF AddPlan, At, Goto, Writers, Saving
  <2>2. /\ plans' \subseteq Nat /\ nPlans' \in Nat /\ errors' \in Nat
        /\ crashes' \in Nat
    BY <1>1, <2>1 DEF AddPlan, StoreOK
  <2>3. held' = [held EXCEPT ![User] = Nothing]
    BY <1>1, <2>1 DEF AddPlan, At, StoreOK
  <2>. QED
    BY <2>1, <2>2, <2>3, NothingIsImage, OutsideSave
<1>2. ASSUME NEW t \in now..MaxTime, OnMarket(t)
      PROVE  StoreOK'
  <2>1. t \in Nat
    BY StoreBounds DEF StoreOK
  <2>2. window' \in Seq(Nat) /\ heard' \in Seq(Nat) /\ now' \in Nat
    BY <1>2, <2>1, AppendTickType DEF OnMarket, StoreOK
  <2>3. UNCHANGED <<planVars, at, held, lock, fileVars, counts>>
    BY <1>2 DEF OnMarket
  <2>. QED
    BY <2>2, <2>3 DEF StoreOK
<1>. QED
  BY <1>1, <1>2

LEMMA StoreCrash == StoreOK /\ Crash => StoreOK'
<1>. SUFFICES ASSUME StoreOK, Crash PROVE StoreOK'
  OBVIOUS
<1>1. /\ window' \in Seq(Nat) /\ plans' \subseteq Nat /\ heard' \in Seq(Nat)
      /\ crashes' \in Nat /\ now' \in Nat
      /\ UNCHANGED <<nPlans, tmp, disk, errors>>
  BY DEF Crash, StoreOK, Image
<1>2. /\ at' = [w \in Writers |-> "idle"] /\ held' = [w \in Writers |-> Nothing]
      /\ lock' = Free
  BY DEF Crash
<1>3. \A w \in Writers : at'[w] = "idle" /\ held'[w] = Nothing /\ lock' # w
  BY <1>2, NothingIsImage
<1>4. /\ at' \in [Writers -> {"idle", "append", "clone", "save", "write", "fill",
                             "rename"}]
      /\ held' \in [Writers -> Image]
  BY <1>2, NothingIsImage
<1>. QED
  BY <1>1, <1>2, <1>3, <1>4 DEF StoreOK

LEMMA StoreStep == StoreOK /\ [Next]_storeVars => StoreOK'
<1>. SUFFICES ASSUME StoreOK, [Next]_storeVars PROVE StoreOK'
  OBVIOUS
<1>1. ASSUME NEW w \in Writers, Persist(w) \/ AppendFails(w) \/ SaveFails(w)
      PROVE  StoreOK'
  BY <1>1, BeforeSave, DuringSave DEF Persist
<1>2. CASE UNCHANGED storeVars
  BY <1>2 DEF storeVars, StoreOK
<1>. QED
  BY <1>1, <1>2, DaemonWorks, StoreCrash DEF Next

\* Only the writer that holds Store.mu is between the opening of the temporary
\* file and its rename, and what it renames is its own clone, complete: the
\* snapshot is never torn and never a mixture of two (Store.Save, persist).
THEOREM StoreCorrect == Spec => []StoreOK
<1>. QED
  BY StoreInit, StoreStep, PTL DEF Spec

-----------------------------------------------------------------------------
(* The window of a run of the daemon                                       *)

\* The clock stands where the last tick put it, which is what makes a tick
\* that is recent now one that was recent when the last one came.
LastIsNow == heard # <<>> => now = heard[Len(heard)]

WindowOK == LastIsNow /\ EndsWithRecent(window, heard, now)

\* What was in its place before a tick is in its place after it, if it is
\* still recent, and so is the tick.
LEMMA TickKeepsPlace ==
  ASSUME NEW h \in Seq(Nat), NEW ticks \in Seq(Nat), NEW last \in Nat,
         NEW t \in Nat, last <= t, EndsWithRecent(h, ticks, last)
  PROVE  EndsWithRecent(AppendTick(h, t), Append(ticks, t), t)
<1>. DEFINE all == Append(ticks, t)
            w == AppendTick(h, t)
<1>1. /\ all \in Seq(Nat) /\ Len(all) = Len(ticks) + 1 /\ all[Len(all)] = t
      /\ \A i \in 1..Len(ticks) : all[i] = ticks[i]
      /\ Append(h, t)[Len(h) + 1] = t
      /\ \A j \in 1..Len(h) : Append(h, t)[j] = h[j]
      /\ Len(h) \in Nat /\ Len(ticks) \in Nat
      /\ WindowDuration \in Nat /\ WindowMaxTicks \in Nat
  BY WindowAssumption
<1>. HIDE DEF all, w
<1>n. /\ Len(all) = Len(ticks) + 1 /\ Len(h) \in Nat /\ Len(ticks) \in Nat
      /\ WindowDuration \in Nat /\ WindowMaxTicks \in Nat
  BY <1>1
<1>t. \A k \in 1..Len(ticks) : all[k] = ticks[k] /\ ticks[k] \in Nat
  BY <1>1
<1>h. \A k \in 1..Len(h) : Append(h, t)[k] = h[k]
  BY <1>1
<1>. SUFFICES ASSUME NEW i \in 1..Len(all), all[i] >= t - WindowDuration,
                     Len(all) - i < WindowMaxTicks
              PROVE  /\ Len(all) - i < Len(w)
                     /\ w[Len(w) - (Len(all) - i)] = all[i]
  BY DEF EndsWithRecent, all, w
<1>2. PICK j \in 1..(Len(h) + 1) :
        /\ Append(h, t)[j] = all[i]
        /\ Len(h) + 1 - j = Len(all) - i
  <2>1. CASE i = Len(all)
    <3>1. Len(h) + 1 \in 1..(Len(h) + 1) /\ Len(h) + 1 - (Len(h) + 1) = Len(all) - i
      BY <1>1, <2>1
    <3>. QED
      BY <1>1, <2>1, <3>1
  <2>2. CASE i # Len(all)
    <3>0. i \in 1..Len(ticks)
      BY <1>n, <2>2
    <3>1. i \in 1..Len(ticks) /\ ticks[i] = all[i] /\ ticks[i] \in Nat
      BY <1>t, <3>0
    <3>2. ticks[i] >= last - WindowDuration /\ Len(ticks) - i < WindowMaxTicks
      <4>1. ticks[i] >= t - WindowDuration
        BY <3>1
      <4>. QED
        BY <1>n, <3>1, <4>1
    <3>3. Len(ticks) - i < Len(h) /\ h[Len(h) - (Len(ticks) - i)] = ticks[i]
      BY <3>1, <3>2 DEF EndsWithRecent
    <3>4. /\ Len(h) - (Len(ticks) - i) \in 1..Len(h)
          /\ Len(h) + 1 - (Len(h) - (Len(ticks) - i)) = Len(all) - i
      BY <1>n, <3>0, <3>3
    <3>5. /\ Len(h) - (Len(ticks) - i) \in 1..(Len(h) + 1)
          /\ Append(h, t)[Len(h) - (Len(ticks) - i)] = all[i]
      <4>1. Append(h, t)[Len(h) - (Len(ticks) - i)] = h[Len(h) - (Len(ticks) - i)]
        BY <1>h, <3>4
      <4>. QED
        BY <1>n, <3>1, <3>3, <3>4, <4>1
    <3>. QED
      BY <3>4, <3>5
  <2>. QED
    BY <2>1, <2>2
<1>3. /\ Append(h, t)[j] >= t - WindowDuration
      /\ Len(h) + 1 - j < WindowMaxTicks
  BY <1>2
<1>. QED
  BY <1>2, <1>3, WindowKeepsRecent DEF w

LEMMA WindowInit == Init => WindowOK
BY DEF Init, WindowOK, LastIsNow, EndsWithRecent

LEMMA WindowStep == StoreOK /\ WindowOK /\ [Next]_storeVars => WindowOK'
<1>. SUFFICES ASSUME StoreOK, WindowOK, [Next]_storeVars PROVE WindowOK'
  OBVIOUS
<1>1. ASSUME NEW t \in now..MaxTime, OnMarket(t)
      PROVE  WindowOK'
  <2>1. /\ t \in Nat /\ now \in Nat /\ now <= t
        /\ window \in Seq(Nat) /\ heard \in Seq(Nat)
    BY StoreBounds DEF StoreOK
  <2>2. /\ now' = t /\ window' = AppendTick(window, t)
        /\ heard' = Append(heard, t)
    BY <1>1 DEF OnMarket
  <2>3. EndsWithRecent(window', heard', now')
    BY <2>1, <2>2, TickKeepsPlace DEF WindowOK
  <2>4. heard'[Len(heard')] = t
    BY <2>1, <2>2
  <2>. QED
    BY <2>2, <2>3, <2>4 DEF WindowOK, LastIsNow
<1>2. CASE Crash
  BY <1>2 DEF Crash, WindowOK, LastIsNow, EndsWithRecent
<1>3. CASE UNCHANGED <<clock>>
  BY <1>3 DEF WindowOK, LastIsNow, EndsWithRecent
<1>4. ASSUME NEW w \in Writers, Persist(w) \/ AppendFails(w) \/ SaveFails(w)
      PROVE  UNCHANGED <<clock>>
  BY <1>4 DEF Persist, StartPersist, AppendEvent, AppendFails, Clone, BeginSave,
     Truncate, Fill, Rename, SaveFails
<1>5. AddPlan => UNCHANGED <<clock>>
  BY DEF AddPlan
<1>6. UNCHANGED storeVars => UNCHANGED <<clock>>
  BY DEF storeVars
<1>. QED
  BY <1>1, <1>2, <1>3, <1>4, <1>5, <1>6 DEF Next

LEMMA WindowOKImplies == WindowOK => WindowEndsWithRecent
BY DEF WindowOK, LastIsNow, WindowEndsWithRecent

\* In a run of the daemon no tick that is younger than WindowDuration is
\* missing from the window while fewer than WindowMaxTicks newer ones are
\* there, whatever the window it started with was saved as (appendTickLocked,
\* Load).
THEOREM WindowIsRecent == Spec => []WindowEndsWithRecent
<1>. QED
  BY WindowInit, WindowStep, WindowOKImplies, StoreCorrect, PTL DEF Spec

-----------------------------------------------------------------------------
(* The register                                                            *)

LEMMA StoreWorks ==
  ASSUME UNCHANGED <<held, disk>>
  PROVE  [Register!Next]_(Register!registerVars)
BY DEF Register!Next, Register!Change, Register!registerVars

\* The rename is the step at which an image is written.
LEMMA RenameReleases ==
  ASSUME StoreOK, NEW w \in Writers, Rename(w)
  PROVE  Register!Release(w)
<1>1. tmp = held[w] /\ UNCHANGED <<clock, planVars>>
  BY DEF Rename, At, StoreOK
<1>. QED
  BY <1>1 DEF Rename, Return, Register!Release, Memory

\* Nothing is given up when Append fails: the writer has no clone yet.
LEMMA RegisterStep ==
  StoreOK /\ [Next]_storeVars => [Register!Next]_(Register!registerVars)
<1>. SUFFICES ASSUME StoreOK, [Next]_storeVars
              PROVE  [Register!Next]_(Register!registerVars)
  OBVIOUS
<1>1. ASSUME NEW w \in Writers, Clone(w)
      PROVE  Register!Take(w)
  BY <1>1 DEF Clone, Register!Take, Memory
<1>2. ASSUME NEW w \in Writers, SaveFails(w)
      PROVE  Register!Release(w)
  BY <1>2 DEF SaveFails, Return, Register!Release, Memory
<1>3. ASSUME NEW w \in Writers, \/ StartPersist(w) \/ AppendEvent(w)
                                \/ AppendFails(w) \/ BeginSave(w)
                                \/ Truncate(w) \/ Fill(w)
      PROVE  UNCHANGED <<held, disk>>
  BY <1>3 DEF StartPersist, AppendEvent, AppendFails, BeginSave, Truncate, Fill
<1>4. ASSUME AddPlan \/ \E t \in now..MaxTime : OnMarket(t)
      PROVE  UNCHANGED <<held, disk>>
  BY <1>4 DEF AddPlan, OnMarket
<1>5. CASE Crash
  <2>1. Memory' = disk
    BY <1>5 DEF Crash, Memory, StoreOK, Image
  <2>2. Register!Restart
    BY <1>5, <2>1 DEF Crash, Register!Restart, Register!NoneHeld
  <2>. QED
    BY <2>2 DEF Register!Next
<1>6. CASE UNCHANGED storeVars
  BY <1>6, StoreWorks DEF storeVars
<1>. QED
  BY <1>1, <1>2, <1>3, <1>4, <1>5, <1>6, RenameReleases, StoreWorks
     DEF Next, Persist, Register!Next

\* Whatever fails, whoever writes and whenever the daemon crashes, the disk
\* changes from one whole clone of the memory to another, and a restart starts
\* from the whole of it (Save, persist, Load).
THEOREM StoreImplementsRegister == Spec => ImplementsRegister
<1>1. Init => Register!Init
  BY DEF Init, Register!Init, Register!NoneHeld, Memory, Nothing
<1>. QED
  BY <1>1, RegisterStep, StoreCorrect, PTL
     DEF Spec, ImplementsRegister, Register!Spec
=============================================================================
