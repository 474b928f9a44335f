------------------------------- MODULE MCStore -------------------------------
(***************************************************************************)
(* The instance of SnapshotStore for TLC: the user stream and the ticker   *)
(* persist, and a window of two units of time and two ticks.               *)
(***************************************************************************)
EXTENDS SnapshotStore, TLC

CONSTANT ticker
=============================================================================
