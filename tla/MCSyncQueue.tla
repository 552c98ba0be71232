---------------------------- MODULE MCSyncQueue ----------------------------
(* Model values for SyncQueue.  Calls are interchangeable, and so are workers;
   the runs that check liveness do not use the symmetry. *)
EXTENDS SyncQueue, TLC

SyncSymmetry == Permutations(Triggers) \cup Permutations(Workers)
=============================================================================
