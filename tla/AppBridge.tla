------------------------------ MODULE AppBridge ------------------------------
(***************************************************************************)
(* The App side of the command bridge: AgentBridge.SendCommandAsync, the   *)
(* static registry AgentResponseDelivery, AgentCommandCancelSender,        *)
(* AgentConnectionTracker and the hub callbacks of AgentHub.               *)
(*                                                                         *)
(* One request id is one call of SendCommandAsync.  Module AppBridgeOpen   *)
(* runs this component against an arbitrary agent, module CommandBridge    *)
(* against the agent of module AgentJobs.                                  *)
(***************************************************************************)
EXTENDS AgentWire

(* The tokens of one call: the caller's, and timeoutCts. *)
Causes == {"caller", "timeout"}

VARIABLES
  call,        (* where SendCommandAsync stands for a request               *)
  target,      (* the connection id it read from the tracker                *)
  fired,       (* which of its two tokens have been cancelled               *)
  early,       (* TRUE when the linked token fired before Pending.TryAdd    *)
  pending,     (* the keys of AgentResponseDelivery.Pending                 *)
  tcs,         (* the TaskCompletionSource of a request                     *)
  outcome,     (* what the caller of SendCommandAsync got                   *)
  tracker,     (* AgentConnectionTracker._connectionIds, in order           *)
  hub,         (* how far the hub callbacks of a connection have come       *)
  failing      (* the keys FailAll has copied and not yet visited, per conn *)

callVars == <<call, target, fired, early, pending, tcs, outcome>>
hubVars  == <<tracker, hub, failing>>
appVars  == <<callVars, hubVars>>
appWire  == <<wireVars, appVars>>

CallStep == {"new", "registered", "sending", "awaiting", "returned"}
Settled  == Reply \cup {"disconnected", "canceled", "faulted"}
Outcome  == Reply \cup {"disconnected", "notConnected", "timedOut", "threw", "sendError"}
HubStep  == {"none", "up", "removed", "failing", "gone"}

AppTypeOK ==
  /\ call \in [Requests -> CallStep]
  /\ target \in [Requests -> Conns \cup {NoConn}]
  /\ fired \in [Requests -> SUBSET Causes]
  /\ early \in [Requests -> BOOLEAN]
  /\ pending \subseteq Requests
  /\ tcs \in [Requests -> Settled \cup {"open"}]
  /\ outcome \in [Requests -> Outcome \cup {"none"}]
  /\ tracker \in Seq(Conns)
  /\ hub \in [Conns -> HubStep]
  /\ failing \in [Conns -> SUBSET Requests]

AppInit ==
  /\ call = [r \in Requests |-> "new"]
  /\ target = [r \in Requests |-> NoConn]
  /\ fired = [r \in Requests |-> {}]
  /\ early = [r \in Requests |-> FALSE]
  /\ pending = {}
  /\ tcs = [r \in Requests |-> "open"]
  /\ outcome = [r \in Requests |-> "none"]
  /\ tracker = <<>>
  /\ hub = [c \in Conns |-> "none"]
  /\ failing = [c \in Conns |-> {}]

-----------------------------------------------------------------------------
(* AgentConnectionTracker.GetAgentConnectionId: the FIRST id in the list. *)
FirstConn == IF tracker = <<>> THEN NoConn ELSE Head(tracker)

(* Mutant: the send is given the token that has just fired, and never happens. *)
NotifyCancelUnderToken(r) == UNCHANGED toAgent

(* AgentCommandCancelSender.NotifyCancel, fire and forget. *)
NotifyCancel(r) ==
  PushToAgent(FirstConn, [kind |-> "CancelCommand", req |-> r])

(* Mutant: completes without having won TryRemove. *)
SettleAlways(r, how) ==
  /\ pending' = pending \ {r}
  /\ tcs' = [tcs EXCEPT ![r] = how]

(* Whoever wins TryRemove settles the completion; everyone else returns. *)
SettleIfPending(r, how) ==
  /\ pending' = pending \ {r}
  /\ tcs' = IF r \in pending THEN [tcs EXCEPT ![r] = how] ELSE tcs

Return(r, how) ==
  /\ call' = [call EXCEPT ![r] = "returned"]
  /\ outcome' = [outcome EXCEPT ![r] = how]

-----------------------------------------------------------------------------
(* SendCommandAsync up to the point where WaitAsync has registered its
   cancellation callback (but not yet added the entry). *)
BeginCall(r) ==
  /\ call[r] = "new"
  /\ \/ /\ FirstConn = NoConn
        /\ Return(r, "notConnected")
        /\ UNCHANGED <<target, early>>
     \/ /\ FirstConn # NoConn
        /\ target' = [target EXCEPT ![r] = FirstConn]
        /\ call' = [call EXCEPT ![r] = "registered"]
        (* Register on a token that is already cancelled runs the callback
           at once; there is no entry yet, so it returns *)
        /\ early' = [early EXCEPT ![r] = fired[r] # {}]
        /\ UNCHANGED outcome
  /\ UNCHANGED <<fired, pending, tcs, hubVars, wireVars>>

(* Pending.TryAdd *)
AddPending(r) ==
  /\ call[r] = "registered"
  /\ call' = [call EXCEPT ![r] = "sending"]
  /\ pending' = pending \cup {r}
  /\ UNCHANGED <<target, fired, early, tcs, outcome, hubVars, wireVars>>

(* Mutant: the wait is registered on the caller's token only. *)
FireNotLinked(r, why) ==
  /\ why \notin fired[r]
  /\ call[r] # "returned"
  /\ why = "timeout" => call[r] # "new"
  /\ fired' = [fired EXCEPT ![r] = @ \cup {why}]
  /\ early' = [early EXCEPT ![r] = @ \/ (fired[r] = {} /\ call[r] = "registered")]
  /\ IF why = "caller" /\ r \in pending
       THEN SettleIfPending(r, "canceled") /\ NotifyCancel(r)
       ELSE UNCHANGED <<pending, tcs, toAgent>>
  /\ UNCHANGED <<call, target, outcome, hubVars, opened, link, toApp>>

(* The caller cancels (job aborted, page disposed, circuit gone) or the
   command timeout elapses.  The linked token runs the callback once, on the
   first of the two. *)
Fire(r, why) ==
  /\ why \notin fired[r]
  /\ call[r] # "returned"
  /\ why = "timeout" => call[r] # "new"
  /\ fired' = [fired EXCEPT ![r] = @ \cup {why}]
  /\ early' = [early EXCEPT ![r] = @ \/ (fired[r] = {} /\ call[r] = "registered")]
  /\ IF fired[r] = {} /\ r \in pending
       THEN SettleIfPending(r, "canceled") /\ NotifyCancel(r)
       ELSE UNCHANGED <<pending, tcs, toAgent>>
  /\ UNCHANGED <<call, target, outcome, hubVars, opened, link, toApp>>

(* SendAsync(RequestCommand) completes. *)
SendRequest(r) ==
  /\ call[r] = "sending"
  /\ call' = [call EXCEPT ![r] = "awaiting"]
  /\ PushToAgent(target[r], [kind |-> "RequestCommand", req |-> r])
  /\ UNCHANGED <<target, fired, early, pending, tcs, outcome, hubVars, opened, link, toApp>>

(* SendAsync observes the caller's cancellation: the second catch clause. *)
SendCancelled(r) ==
  /\ call[r] = "sending"
  /\ "caller" \in fired[r]
  /\ NotifyCancel(r)
  /\ Return(r, "threw")
  /\ UNCHANGED <<target, fired, early, pending, tcs, hubVars, opened, link, toApp>>

(* Mutant: the last catch clause forgets AgentResponseDelivery.Fail. *)
SendThrowsNoFail(r) ==
  /\ call[r] = "sending"
  /\ Return(r, "sendError")
  /\ UNCHANGED <<target, fired, early, pending, tcs, hubVars, wireVars>>

(* SendAsync throws anything else: AgentResponseDelivery.Fail. *)
SendThrows(r) ==
  /\ call[r] = "sending"
  /\ SettleIfPending(r, "faulted")
  /\ Return(r, "sendError")
  /\ UNCHANGED <<target, fired, early, hubVars, wireVars>>

(* Mutant: no catch clause for the cancelled task. *)
AwaitResultUncaught(r) ==
  /\ call[r] = "awaiting"
  /\ tcs[r] # "open"
  /\ Return(r, tcs[r])
  /\ UNCHANGED <<target, fired, early, pending, tcs, hubVars, wireVars>>

(* Mutant: the timeout clause does not look at the caller's token. *)
AwaitResultTimeoutFirst(r) ==
  /\ call[r] = "awaiting"
  /\ tcs[r] # "open"
  /\ \/ /\ tcs[r] # "canceled"
        /\ Return(r, tcs[r])
        /\ UNCHANGED toAgent
     \/ /\ tcs[r] = "canceled"
        /\ NotifyCancel(r)
        /\ Return(r, IF "timeout" \in fired[r] THEN "timedOut" ELSE "threw")
  /\ UNCHANGED <<target, fired, early, pending, tcs, hubVars, opened, link, toApp>>

(* await task: a reply is returned; a cancellation is a timeout only when the
   caller's own token is still live. *)
AwaitResult(r) ==
  /\ call[r] = "awaiting"
  /\ tcs[r] # "open"
  /\ \/ /\ tcs[r] # "canceled"
        /\ Return(r, IF tcs[r] = "faulted" THEN "sendError" ELSE tcs[r])
        /\ UNCHANGED toAgent
     \/ /\ tcs[r] = "canceled"
        /\ NotifyCancel(r)
        /\ Return(r, IF "caller" \in fired[r] THEN "threw" ELSE "timedOut")
  /\ UNCHANGED <<target, fired, early, pending, tcs, hubVars, opened, link, toApp>>

-----------------------------------------------------------------------------
(* AgentHub.OnConnectedAsync *)
OnConnected(c) ==
  /\ hub[c] = "none"
  /\ c <= opened
  /\ hub' = [hub EXCEPT ![c] = "up"]
  /\ tracker' = Append(tracker, c)
  /\ UNCHANGED <<failing, callVars, wireVars>>

(* AgentHub.ResponseCommand -> AgentResponseDelivery.Complete *)
ResponseCommand(c) ==
  /\ hub[c] = "up"
  /\ toApp[c] # <<>>
  /\ SettleIfPending(Head(toApp[c]).req, Head(toApp[c]).reply)
  /\ toApp' = [toApp EXCEPT ![c] = Tail(@)]
  /\ UNCHANGED <<call, target, fired, early, outcome, hubVars, opened, link, toAgent>>

(* AgentHub.OnDisconnectedAsync, which is not atomic: the tracker forgets the
   connection, then FailAll copies the keys, then visits them one by one. It
   runs once the hub has handled what the connection had delivered. *)
OnDisconnected(c) ==
  /\ hub[c] = "up"
  /\ c # link
  /\ toApp[c] = <<>>
  /\ hub' = [hub EXCEPT ![c] = "removed"]
  /\ \E i \in 1 .. Len(tracker) :
       /\ tracker[i] = c
       /\ tracker' = SubSeq(tracker, 1, i - 1) \o SubSeq(tracker, i + 1, Len(tracker))
  /\ UNCHANGED <<failing, callVars, wireVars>>

FailAllBegin(c) ==
  /\ hub[c] = "removed"
  /\ hub' = [hub EXCEPT ![c] = "failing"]
  /\ failing' = [failing EXCEPT ![c] = pending]
  /\ UNCHANGED <<tracker, callVars, wireVars>>

(* Mutant: removes the entry without completing it. *)
FailOneDrops(c, r) ==
  /\ hub[c] = "failing"
  /\ r \in failing[c]
  /\ failing' = [failing EXCEPT ![c] = @ \ {r}]
  /\ pending' = pending \ {r}
  /\ UNCHANGED <<call, target, fired, early, tcs, outcome, tracker, hub, wireVars>>

FailOne(c, r) ==
  /\ hub[c] = "failing"
  /\ r \in failing[c]
  /\ failing' = [failing EXCEPT ![c] = @ \ {r}]
  /\ SettleIfPending(r, "disconnected")
  /\ UNCHANGED <<call, target, fired, early, outcome, tracker, hub, wireVars>>

FailAllEnd(c) ==
  /\ hub[c] = "failing"
  /\ failing[c] = {}
  /\ hub' = [hub EXCEPT ![c] = "gone"]
  /\ UNCHANGED <<tracker, failing, callVars, wireVars>>

-----------------------------------------------------------------------------
CallNext(r) ==
  \/ BeginCall(r) \/ AddPending(r)
  \/ SendRequest(r) \/ SendCancelled(r) \/ SendThrows(r)
  \/ AwaitResult(r)
  \/ \E why \in Causes : Fire(r, why)

HubNext(c) ==
  \/ OnConnected(c) \/ ResponseCommand(c)
  \/ OnDisconnected(c) \/ FailAllBegin(c) \/ FailAllEnd(c)
  \/ \E r \in Requests : FailOne(c, r)

AppNext ==
  \/ \E r \in Requests : CallNext(r)
  \/ \E c \in Conns : HubNext(c)

(* Fairness: the App's own threads run (a started call proceeds, hub
   callbacks are dispatched) and timeoutCts fires.  Nothing is assumed of the
   agent, the network or the caller's token. *)
AppFairness ==
  /\ \A r \in Requests :
       /\ WF_appWire(AddPending(r))
       /\ WF_appWire(SendRequest(r) \/ SendCancelled(r) \/ SendThrows(r))
       /\ WF_appWire(AwaitResult(r))
       /\ WF_appWire(Fire(r, "timeout"))
  /\ \A c \in Conns : WF_appWire(HubNext(c))
=============================================================================
