---------------------------- MODULE CommandBridge ----------------------------
(***************************************************************************)
(* The command bridge end to end: the App side (AppBridge) and the agent   *)
(* side (AgentJobs) joined by the SignalR connections (AgentWire).  The    *)
(* agent can lose its connection, reconnect, crash and restart at any      *)
(* step; callers can cancel and time out at any step.                      *)
(***************************************************************************)
EXTENDS AppBridge, AgentJobs

vars == <<wireVars, appVars, agentVars>>

Init == WireInit /\ AppInit /\ AgentInit

Next ==
  \/ AppNext /\ UNCHANGED agentVars
  \/ AgentNext /\ UNCHANGED appVars

Spec == Init /\ [][Next]_vars

TypeOK == WireTypeOK /\ AppTypeOK /\ AgentTypeOK

-----------------------------------------------------------------------------
(* The bridge is a remote call with at-most-once semantics. *)
CallerView ==
  [r \in Requests |->
     IF call[r] = "new" THEN "new"
     ELSE IF call[r] # "returned" THEN "open"
     ELSE IF outcome[r] = "notConnected" THEN "refused"
     ELSE IF outcome[r] = "ok" THEN "ok" ELSE "error"]

AMO == INSTANCE AtMostOnceCall WITH caller <- CallerView

(* A caller that got "ok" got it for a command that ran to completion, no
   command runs twice or for a call that was refused - across cancellations,
   timeouts, retried and duplicated replies, reconnects and agent crashes. *)
ImplementsAtMostOnceCall == AMO!Spec

(* Nobody forgets work whose caller gave up (timed out or cancelled): while it runs
   on an agent that kept the connection of the call, its CancelCommand is on that
   connection or the agent has cancelled its token - whatever the agent has handled
   of the two messages, and whoever settled the request.  (From there
   CancelStopsCommand goes on.) *)
AbandonedWorkIsCancelled ==
  \A r \in Requests :
    outcome[r] \in {"timedOut", "threw"} /\ effect[r] = "running" /\ link = target[r]
      => \/ reg[r] = "cancelled"
         \/ \E i \in 1 .. Len(toAgent[link]) :
              toAgent[link][i] = [kind |-> "CancelCommand", req |-> r]
=============================================================================
