-------------------------- MODULE MCWatcherLeases --------------------------
(* Model values for WatcherLeases.  Leases are interchangeable, and so are
   entries; the runs that check liveness do not use the symmetry. *)
EXTENDS WatcherLeases, TLC

LeaseSymmetry == Permutations(Leases) \cup Permutations(Entries)
=============================================================================
