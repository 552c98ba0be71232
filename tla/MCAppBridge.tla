----------------------------- MODULE MCAppBridge -----------------------------
(* Model values for AppBridge.  Requests are interchangeable in AppOpenSpec and in
   the safety properties, so their permutations are a symmetry; the runs that
   check liveness do not use it. *)
EXTENDS AppBridgeOpen, TLC

RequestSymmetry == Permutations(Requests)
=============================================================================
