--------------------------- MODULE MCCommandBridge ---------------------------
(* Model values for CommandBridge.  The main-lane calls are
   interchangeable. *)
EXTENDS CommandBridge, TLC

CallSymmetry == Permutations(Requests \ ReadRequests)
=============================================================================
