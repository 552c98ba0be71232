--------------------------- MODULE AtMostOnceCall ---------------------------
(***************************************************************************)
(* What the command bridge promises its callers, without messages,         *)
(* connections, queues or tokens: a remote call with at-most-once          *)
(* semantics.  A call is closed once.  Closing it with "ok" means the      *)
(* command has run to completion; closing it with an error says nothing    *)
(* about the command, which may not have started, may be running, or may   *)
(* start later.  A command runs at most once, and only for a call that was *)
(* issued.                                                                 *)
(***************************************************************************)
CONSTANT Requests

VARIABLES
  caller,   (* what the caller knows: new, refused, open, ok, error         *)
  effect    (* what the agent did: none, running, done, aborted             *)

vars == <<caller, effect>>

Init ==
  /\ caller = [r \in Requests |-> "new"]
  /\ effect = [r \in Requests |-> "none"]

Move(f, r, from, to) == f[r] = from /\ f' = [f EXCEPT ![r] = to]

Refuse(r) == Move(caller, r, "new", "refused") /\ UNCHANGED effect
Issue(r)  == Move(caller, r, "new", "open") /\ UNCHANGED effect

Start(r) ==
  /\ caller[r] \notin {"new", "refused"}
  /\ Move(effect, r, "none", "running")
  /\ UNCHANGED caller

Complete(r) == Move(effect, r, "running", "done") /\ UNCHANGED caller

(* One command fails, or all the running ones die with the agent process. *)
Abort(S) ==
  /\ \A r \in S : effect[r] = "running"
  /\ effect' = [r \in Requests |-> IF r \in S THEN "aborted" ELSE effect[r]]
  /\ UNCHANGED caller

CloseOk(r) ==
  /\ effect[r] = "done"
  /\ Move(caller, r, "open", "ok")
  /\ UNCHANGED effect

CloseError(r) == Move(caller, r, "open", "error") /\ UNCHANGED effect

Next ==
  \/ \E r \in Requests :
       \/ Refuse(r) \/ Issue(r) \/ Start(r) \/ Complete(r)
       \/ CloseOk(r) \/ CloseError(r)
  \/ \E S \in SUBSET Requests : Abort(S)

Spec == Init /\ [][Next]_vars
=============================================================================
