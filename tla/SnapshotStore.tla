--------------------------- MODULE SnapshotStore ---------------------------
(***************************************************************************)
(* persist and the Store in full: the event log, the clone under           *)
(* Service.mu, the temporary file and its rename under Store.mu, each of   *)
(* which may fail, a crash between any two steps, and Load.                *)
(*                                                                         *)
(* Of the memory there is the window of one symbol, which changes without  *)
(* a save, and the set of plans, which the user stream saves at once.      *)
(***************************************************************************)
EXTENDS MarketWindow, FiniteSets

CONSTANTS
  Savers,      \* goroutines that call persist again and again
  MaxTime,     \* bound on the clock
  MaxHeard,    \* bound on the ticks of one run of the daemon
  MaxPlans,    \* bound on the plans ever added
  MaxErrors,   \* bound on the errors of the file system
  MaxCrashes   \* bound on the crashes

User    == "user"
Writers == Savers \cup {User}
Free    == "free"

ASSUME SaversAssumption == Savers \cap {User, Free} = {}
ASSUME StoreBounds ==
  /\ MaxTime \in Nat /\ MaxHeard \in Nat /\ MaxPlans \in Nat
  /\ MaxErrors \in Nat /\ MaxCrashes \in Nat

VARIABLES
  now,      \* the clock at the last tick
  window,   \* Service.history of the symbol
  plans,    \* ids of Service.plans
  nPlans,   \* ids handed out so far
  at,       \* writer -> its next step of persist
  held,     \* writer -> its clone
  lock,     \* the writer that holds Store.mu, or Free
  tmp,      \* snapshot.json.tmp
  disk,     \* snapshot.json
  heard,    \* history: the ticks of this run of the daemon
  errors, crashes

clock     == <<now, window, heard>>
planVars  == <<plans, nPlans>>
fileVars  == <<tmp, disk>>
counts    == <<errors, crashes>>
storeVars == <<clock, planVars, at, held, lock, fileVars, counts>>

Memory  == [window |-> window, plans |-> plans]
\* Load finds no file, and makes empty maps.
Nothing == [window |-> <<>>, plans |-> {}]
\* A file that was opened and not written to the end.
Torn    == [torn |-> TRUE]

At(w, step) == at[w] = step
Goto(w, step) == at' = [at EXCEPT ![w] = step]
Return(w) == /\ Goto(w, "idle")
             /\ held' = [held EXCEPT ![w] = Nothing]

Init ==
  /\ now = 0 /\ window = <<>> /\ plans = {} /\ nPlans = 0
  /\ at = [w \in Writers |-> "idle"]
  /\ held = [w \in Writers |-> Nothing]
  /\ lock = Free /\ tmp = Nothing /\ disk = Nothing
  /\ heard = <<>> /\ errors = 0 /\ crashes = 0

-----------------------------------------------------------------------------
(* The daemon                                                              *)

\* A tick is received at time t; nobody else looks at the clock.
OnMarket(t) ==
  /\ Len(heard) < MaxHeard
  /\ now' = t
  /\ window' = AppendTick(window, t) /\ heard' = Append(heard, t)
  /\ UNCHANGED <<planVars, at, held, lock, fileVars, counts>>

\* OnOrderUpdate has a new plan, and persists.
AddPlan ==
  /\ At(User, "idle") /\ nPlans < MaxPlans
  /\ nPlans' = nPlans + 1 /\ plans' = plans \cup {nPlans + 1}
  /\ Goto(User, "append")
  /\ UNCHANGED <<clock, held, lock, fileVars, counts>>

\* The ticker, after a round of reconcile, or a control connection.
StartPersist(w) ==
  /\ w \in Savers /\ At(w, "idle")
  /\ Goto(w, "append")
  /\ UNCHANGED <<clock, planVars, held, lock, fileVars, counts>>

-----------------------------------------------------------------------------
(* persist                                                                 *)

\* Append under Store.mu.  Nobody ever reads events.jsonl: all that counts is
\* that its failure ends persist before there is a snapshot.
AppendEvent(w) ==
  /\ At(w, "append") /\ lock = Free
  /\ Goto(w, "clone")
  /\ UNCHANGED <<clock, planVars, held, lock, fileVars, counts>>

Error == errors < MaxErrors /\ errors' = errors + 1

AppendFails(w) ==
  /\ At(w, "append") /\ lock = Free /\ Error
  /\ Goto(w, "idle")
  /\ UNCHANGED <<clock, planVars, held, lock, fileVars, crashes>>

Clone(w) ==
  /\ At(w, "clone")
  /\ held' = [held EXCEPT ![w] = Memory] /\ Goto(w, "save")
  /\ UNCHANGED <<clock, planVars, lock, fileVars, counts>>

BeginUnlocked(w) ==   \* mutant: Save does not take Store.mu
  /\ At(w, "save") /\ Goto(w, "write")
  /\ UNCHANGED <<clock, planVars, held, lock, fileVars, counts>>

\* Save: Store.mu is taken.
BeginSave(w) ==
  /\ At(w, "save") /\ lock = Free
  /\ lock' = w /\ Goto(w, "write")
  /\ UNCHANGED <<clock, planVars, held, fileVars, counts>>

\* WriteFile empties the temporary file first,
Truncate(w) ==
  /\ At(w, "write")
  /\ tmp' = Torn /\ Goto(w, "fill")
  /\ UNCHANGED <<clock, planVars, held, lock, disk, counts>>

\* and then writes all of it.
Fill(w) ==
  /\ At(w, "fill")
  /\ tmp' = held[w] /\ Goto(w, "rename")
  /\ UNCHANGED <<clock, planVars, held, lock, disk, counts>>

\* The snapshot is replaced.
Rename(w) ==
  /\ At(w, "rename")
  /\ disk' = tmp /\ tmp' = Nothing
  /\ lock' = Free /\ Return(w)
  /\ UNCHANGED <<clock, planVars, counts>>

SaveFailsLocked(w) ==   \* mutant: Store.mu stays locked after an error
  /\ at[w] \in {"write", "fill", "rename"} /\ Error
  /\ Return(w)
  /\ UNCHANGED <<clock, planVars, lock, fileVars, crashes>>

\* Ensure, WriteFile or Rename fails: the temporary file stays as it is, and
\* persist returns the error, which its callers only log.
SaveFails(w) ==
  /\ at[w] \in {"write", "fill", "rename"} /\ Error
  /\ lock' = Free /\ Return(w)
  /\ UNCHANGED <<clock, planVars, fileVars, crashes>>

-----------------------------------------------------------------------------
(* A crash, and Load in the next New.  The clock of a process only goes    *)
(* forward, but the one the ticks were saved with may have been set back,  *)
(* so that the first tick may have any time.                               *)

Crash ==
  /\ crashes < MaxCrashes /\ crashes' = crashes + 1
  /\ window' = disk.window /\ plans' = disk.plans
  /\ at' = [w \in Writers |-> "idle"]
  /\ held' = [w \in Writers |-> Nothing]
  /\ lock' = Free /\ heard' = <<>>
  /\ now' = 0
  /\ UNCHANGED <<nPlans, fileVars, errors>>

-----------------------------------------------------------------------------
(* The whole                                                               *)

\* What persist does when nothing fails.
Persist(w) ==
  \/ StartPersist(w)
  \/ AppendEvent(w)
  \/ Clone(w)
  \/ BeginSave(w)
  \/ Truncate(w)
  \/ Fill(w)
  \/ Rename(w)

Next ==
  \/ \E t \in now..MaxTime : OnMarket(t)
  \/ AddPlan
  \/ \E w \in Writers : Persist(w) \/ AppendFails(w) \/ SaveFails(w)
  \/ Crash

Spec == Init /\ [][Next]_storeVars

\* The ticker ticks, every goroutine runs, and sync.Mutex lets each of them
\* in after a while, although the others take the lock again and again.
Fairness == \A w \in Writers : SF_storeVars(Persist(w))

FairSpec == Spec /\ Fairness

-----------------------------------------------------------------------------
(* Properties *)

Image == [window : Seq(Nat), plans : SUBSET Nat]

\* Type invariant, with what Store.mu is for: only the writer that holds it is
\* between the opening of the temporary file and its rename, and what it is
\* about to rename is its own clone, complete.
StoreOK ==
  /\ now \in Nat /\ window \in Seq(Nat) /\ plans \subseteq Nat /\ nPlans \in Nat
  /\ at \in [Writers -> {"idle", "append", "clone", "save", "write", "fill",
                        "rename"}]
  /\ held \in [Writers -> Image] /\ disk \in Image /\ tmp \in Image \cup {Torn}
  /\ lock \in Writers \cup {Free} /\ heard \in Seq(Nat)
  /\ errors \in Nat /\ crashes \in Nat
  /\ \A w \in Writers :
       /\ at[w] \in {"write", "fill", "rename"} <=> lock = w
       /\ at[w] = "rename" => tmp = held[w]
       /\ at[w] \notin {"save", "write", "fill", "rename"} => held[w] = Nothing

\* The disk is replaced as a whole by a clone of the memory, whatever fails,
\* whoever writes and whenever the daemon crashes; a restart finds no torn
\* file (Save, persist and Load implement the register).
Register == INSTANCE SnapshotRegister WITH mem <- Memory
ImplementsRegister == Register!Spec

\* No tick that is younger than WindowDuration is missing from the window
\* while fewer than WindowMaxTicks newer ones are there, with the ticks of an
\* earlier run before it whose times may lie in the future (appendTickLocked,
\* cloneHistory, Load).
WindowEndsWithRecent ==
  heard # <<>> => EndsWithRecent(window, heard, heard[Len(heard)])

\* A plan reaches the disk and stays there, or was lost in a crash: errors of
\* persist, which are only logged, and older clones that are written over
\* newer ones are made good by the save of a later round of reconcile.
PlansReachDisk ==
  \A n \in 1..MaxPlans : <>[](n \in plans => n \in disk.plans)
=============================================================================
