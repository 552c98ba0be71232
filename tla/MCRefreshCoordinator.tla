------------------------ MODULE MCRefreshCoordinator ------------------------
(* Model values for RefreshCoordinator.  Requests are interchangeable, and so
   are callbacks; the runs that check liveness do not use the symmetry. *)
EXTENDS RefreshCoordinator, TLC

TaskSymmetry == Permutations(Calls) \cup Permutations(Callbacks)
=============================================================================
