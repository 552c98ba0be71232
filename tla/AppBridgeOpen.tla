--------------------------- MODULE AppBridgeOpen ---------------------------
(***************************************************************************)
(* AppBridge against an agent about which nothing is known, and what the   *)
(* App side guarantees whatever the agent and the network do.              *)
(***************************************************************************)
EXTENDS AppBridge

CONSTANT MaxReplies   (* bound: replies in flight per connection (AgentReplies) *)

ASSUME MaxRepliesAssumption == MaxReplies \in Nat

(* The agent takes messages and sends any reply, also for requests it was
   never sent and more than once. *)
AgentTakes ==
  /\ \E msg \in ToAgentMsg : TakeFromApp(msg)
  /\ UNCHANGED <<opened, link, toApp, appVars>>

AgentReplies(r, reply) ==
  /\ link # NoConn
  /\ Len(toApp[link]) < MaxReplies
  /\ PushToApp([req |-> r, reply |-> reply])
  /\ UNCHANGED <<opened, link, toAgent, appVars>>

WireChanges == (Connect \/ Drop) /\ UNCHANGED appVars

AppOpenInit == WireInit /\ AppInit

AppOpenNext ==
  \/ AppNext
  \/ WireChanges
  \/ AgentTakes
  \/ \E r \in Requests, reply \in Reply : AgentReplies(r, reply)

AppOpenSpec == AppOpenInit /\ [][AppOpenNext]_appWire /\ AppFairness

AppOpenTypeOK == WireTypeOK /\ AppTypeOK

-----------------------------------------------------------------------------
(* The strengthening that is inductive.  Per request: no entry and an open
   completion until TryAdd; an entry's completion is open; from TryAdd until
   the caller returns one of the two holds; a token that fires in that time
   settles the request unless it fired before TryAdd; and the outcome is the
   one the winner left. *)
WaitInv(r) ==
  /\ call[r] \in {"new", "registered"} => r \notin pending /\ tcs[r] = "open"
  /\ r \in pending => tcs[r] = "open"
  /\ call[r] \in {"sending", "awaiting"} /\ tcs[r] = "open" => r \in pending
  /\ call[r] \in {"sending", "awaiting"} /\ fired[r] # {} /\ ~early[r] => tcs[r] # "open"
  /\ call[r] = "registered" /\ fired[r] # {} => early[r]
  /\ call[r] = "returned" /\ r \in pending => early[r]
  /\ call[r] # "returned" => outcome[r] = "none"
  /\ tcs[r] = "canceled" => fired[r] # {}
  /\ outcome[r] = "timedOut" => fired[r] = {"timeout"} /\ tcs[r] = "canceled"
  /\ outcome[r] = "threw" => "caller" \in fired[r]
  /\ outcome[r] \in Reply \cup {"disconnected"} => tcs[r] = outcome[r]

AppInv == AppOpenTypeOK /\ \A r \in Requests : WaitInv(r)

(* A caller blocked in "await task" whose completion is still open has an
   entry in Pending: some reply, cancellation or disconnect can still find it.
   Every path that removes an entry (Complete, Fail, FailAll, the callback)
   must therefore also complete it. *)
NoLostWaiter ==
  \A r \in Requests :
    call[r] = "awaiting" /\ tcs[r] = "open" => r \in pending

(* A cancellation or timeout that fired after WaitAsync returned has always
   released the caller; only one that fired inside WaitAsync, before
   Pending.TryAdd, can be missed. *)
CancelReleasesCaller ==
  \A r \in Requests :
    fired[r] # {} /\ ~early[r] /\ call[r] \in {"sending", "awaiting"} => tcs[r] # "open"

(* The static registry does not outlive its callers: an entry whose caller has
   gone can only come from a cancellation inside WaitAsync. *)
NoLeakedEntry ==
  \A r \in pending : call[r] = "returned" => early[r]

(* The error a caller sees names what really happened: "timed out" is never
   reported to a caller who cancelled, OperationCanceledException is only
   thrown at one who did, a reply is only returned when the agent sent it
   before anything else settled the request. *)
OutcomeExplained ==
  \A r \in Requests :
    /\ outcome[r] = "timedOut" => fired[r] = {"timeout"} /\ tcs[r] = "canceled"
    /\ outcome[r] = "threw" => "caller" \in fired[r]
    /\ outcome[r] \in Reply \cup {"disconnected"} => tcs[r] = outcome[r]

(* A request is settled once: a late reply, a second reply, a disconnect or a
   cancellation that loses the race changes nothing. *)
SettledOnce ==
  [][\A r \in Requests : tcs[r] # "open" => tcs'[r] = tcs[r]]_tcs

(* Every call returns, whatever the agent and the network do, unless its token
   fired inside WaitAsync. *)
CallsReturn ==
  \A r \in Requests :
    call[r] = "registered" ~> (call[r] = "returned" \/ early[r])

(* What AgentResponseDelivery.cs:21-26 promises of WaitAsync: it "never blocks
   forever even if the Agent never responds". *)
NeverBlocksForever ==
  \A r \in Requests : call[r] = "awaiting" ~> call[r] = "returned"

(* What AgentHub.cs:44-46 promises: a request still in flight to a connection
   whose OnDisconnectedAsync has run is failed immediately rather than left to
   wait out its timeout. *)
DisconnectFailsInFlight ==
  \A r \in Requests, c \in Conns :
    hub[c] = "gone" /\ target[r] = c /\ call[r] = "awaiting" /\ ~early[r]
      => tcs[r] # "open"

(* The part of that promise the code keeps: an entry that is in Pending when the
   hub has taken the connection out of the tracker is settled by the time
   OnDisconnectedAsync is done, whatever FailAll races with - so a call that is
   left to its timeout can only have added its entry later. *)
DisconnectFailsPending ==
  \A r \in Requests, c \in Conns :
    [](hub[c] = "removed" /\ r \in pending => [](hub[c] = "gone" => tcs[r] # "open"))

(* What AgentHub.cs:44-46 and AgentResponseDelivery.cs:82-83 assume: "there is
   only ever one agent connection". *)
OneAgentConnection == Len(tracker) <= 1
=============================================================================
