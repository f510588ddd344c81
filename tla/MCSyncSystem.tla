---------------------------- MODULE MCSyncSystem -----------------------------
(***************************************************************************)
(* Instances of SyncSystem for TLC. Key 1 is a heartbeat key, key 2 is not. *)
(***************************************************************************)
EXTENDS SyncSystem, TLC

MCKeys == {1, 2}
MCHeartbeatKeys == {1}
MCCallers == 0..MaxConnects
TaskSymmetry == Permutations(Tasks)
=============================================================================
