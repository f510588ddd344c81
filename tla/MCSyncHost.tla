----------------------------- MODULE MCSyncHost ------------------------------
(***************************************************************************)
(* Instances of SyncHost for TLC. Key 1 is a heartbeat key, key 2 is not.  *)
(***************************************************************************)
EXTENDS SyncHost, TLC

MCKeys == {1, 2}
MCHeartbeatKeys == {1}

\* Tasks are interchangeable; only the runs without liveness use this.
TaskSymmetry == Permutations(Tasks)
=============================================================================
