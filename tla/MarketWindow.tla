---------------------------- MODULE MarketWindow ----------------------------
(***************************************************************************)
(* The history of a symbol: the ticks of the last WindowDuration, at most  *)
(* WindowMaxTicks of them.  A tick is the time it was received at; what it *)
(* carries does not matter here.                                           *)
(***************************************************************************)
EXTENDS Integers, Sequences, FiniteSetsExt

CONSTANTS
  WindowDuration,   \* cfg.WindowDuration, in units of the clock
  WindowMaxTicks    \* cfg.WindowMaxTicks

ASSUME WindowAssumption == WindowDuration \in Nat /\ WindowMaxTicks \in Nat

-----------------------------------------------------------------------------
(* appendTickLocked                                                        *)

\* The first tick that is not before the cutoff; those ahead of it are
\* dropped, and no tick behind it is looked at.
FirstKept(h, cutoff) ==
  Min({i \in 1..Len(h) : h[i] >= cutoff} \cup {Len(h) + 1})

DropOld(h, cutoff) == SubSeq(h, FirstKept(h, cutoff), Len(h))

KeepFirst(h) ==   \* mutant: a full window takes no more ticks
  IF Len(h) > WindowMaxTicks THEN SubSeq(h, 1, WindowMaxTicks) ELSE h
KeepLast(h) ==
  IF Len(h) > WindowMaxTicks
  THEN SubSeq(h, Len(h) - WindowMaxTicks + 1, Len(h)) ELSE h

AppendTick(h, now) == KeepLast(DropOld(Append(h, now), now - WindowDuration))

-----------------------------------------------------------------------------
(* What a window should be, given every tick that was received              *)

\* Every one of ticks that is recent, and among the last WindowMaxTicks, is in
\* the window, as far from its end as it is from the end of ticks.
EndsWithRecent(h, ticks, now) ==
  \A i \in 1..Len(ticks) :
    LET newer == Len(ticks) - i
    IN ticks[i] >= now - WindowDuration /\ newer < WindowMaxTicks =>
         newer < Len(h) /\ h[Len(h) - newer] = ticks[i]
=============================================================================
