-------------------------- MODULE SnapshotRegister --------------------------
(***************************************************************************)
(* What the snapshot promises a restart: the disk holds one image of the   *)
(* whole memory as it was at one moment, never a part of one and never a   *)
(* mixture of two.  It does not promise that it is the latest image.       *)
(***************************************************************************)
CONSTANTS
  Writers,   \* goroutines that may persist
  Nothing    \* the image of a daemon that has done nothing yet

VARIABLES
  mem,    \* the image of the memory
  held,   \* writer -> the image it has taken and not yet written
  disk    \* the image a restart loads

registerVars == <<mem, held, disk>>

NoneHeld == [w \in Writers |-> Nothing]

Init == mem = Nothing /\ held = NoneHeld /\ disk = Nothing

\* The daemon works.
Change == mem' # mem /\ UNCHANGED <<held, disk>>

Take(w) == held' = [held EXCEPT ![w] = mem] /\ UNCHANGED <<mem, disk>>

\* An image is written, or given up; in whatever order they were taken.
Release(w) ==
  /\ held' = [held EXCEPT ![w] = Nothing]
  /\ disk' \in {disk, held[w]}
  /\ UNCHANGED mem

\* A restart has the disk only.
Restart == mem' = disk /\ held' = NoneHeld /\ UNCHANGED disk

Next == \/ Change
        \/ \E w \in Writers : Take(w) \/ Release(w)
        \/ Restart

Spec == Init /\ [][Next]_registerVars
=============================================================================
