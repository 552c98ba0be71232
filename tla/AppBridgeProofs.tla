-------------------------- MODULE AppBridgeProofs --------------------------
(***************************************************************************)
(* Proofs about AppBridgeOpen for every set of requests and every number   *)
(* of connections: the inductive invariant AppInv (type correctness and      *)
(* WaitInv of every request), and the safety properties that follow.       *)
(***************************************************************************)
EXTENDS AppBridgeOpen, SequenceTheorems, TLAPS

(* The request lives in one lane of state; these are the facts about
   sequences of messages that type correctness needs. *)
LEMMA AppendTyped ==
  ASSUME NEW S, NEW s \in Seq(S), NEW e \in S
  PROVE  Append(s, e) \in Seq(S)
BY AppendProperties

(* Taking the oldest message of a channel gives a message and a channel. *)
LEMMA TailTyped ==
  ASSUME NEW S, NEW s \in Seq(S), s # <<>>
  PROVE  Head(s) \in S /\ Tail(s) \in Seq(S)
BY HeadTailProperties

(* What survives of a channel when the connection drops is a channel. *)
LEMMA PrefixTyped ==
  ASSUME NEW S, NEW s \in Seq(S), NEW n \in 0 .. Len(s)
  PROVE  SubSeq(s, 1, n) \in Seq(S)
<1>1. \A i \in 1 .. n : s[i] \in S
  BY ElementOfSeq
<1>2. QED
  BY <1>1, SubSeqProperties

(* AgentConnectionTracker's list without one of its ids is such a list. *)
LEMMA WithoutTyped ==
  ASSUME NEW S, NEW s \in Seq(S), NEW i \in 1 .. Len(s)
  PROVE  SubSeq(s, 1, i - 1) \o SubSeq(s, i + 1, Len(s)) \in Seq(S)
<1>1. SubSeq(s, 1, i - 1) \in Seq(S)
  BY PrefixTyped
<1>2. \A j \in i + 1 .. Len(s) : s[j] \in S
  BY ElementOfSeq
<1>3. SubSeq(s, i + 1, Len(s)) \in Seq(S)
  BY <1>2, SubSeqProperties
<1>4. QED
  BY <1>1, <1>3, ConcatProperties

(* A message put on the wire keeps the wire well typed. *)
LEMMA PushToAgentTyped ==
  ASSUME WireTypeOK, NEW c \in Conns \cup {NoConn}, NEW msg \in ToAgentMsg,
         PushToAgent(c, msg)
  PROVE  toAgent' \in [Conns -> Seq(ToAgentMsg)]
<1>1. CASE c = link /\ c # NoConn
  <2>1. c \in Conns /\ toAgent[c] \in Seq(ToAgentMsg)
    BY <1>1 DEF WireTypeOK
  <2>2. Append(toAgent[c], msg) \in Seq(ToAgentMsg)
    BY <2>1, AppendTyped
  <2>3. QED
    BY <1>1, <2>1, <2>2 DEF PushToAgent, WireTypeOK
<1>2. CASE ~(c = link /\ c # NoConn)
  BY <1>2 DEF PushToAgent, WireTypeOK
<1>3. QED
  BY <1>1, <1>2

(* GetAgentConnectionId returns an id of the tracker, or none. *)
LEMMA FirstConnTyped ==
  ASSUME AppTypeOK
  PROVE  FirstConn \in Conns \cup {NoConn}
<1>1. CASE tracker = <<>>
  BY <1>1 DEF FirstConn
<1>2. CASE tracker # <<>>
  BY <1>2, TailTyped DEF FirstConn, AppTypeOK
<1>3. QED
  BY <1>1, <1>2

(* A CancelCommand keeps the wire well typed. *)
LEMMA NotifyCancelTyped ==
  ASSUME WireTypeOK, AppTypeOK, NEW r \in Requests, NotifyCancel(r)
  PROVE  toAgent' \in [Conns -> Seq(ToAgentMsg)]
<1>1. [kind |-> "CancelCommand", req |-> r] \in ToAgentMsg
  BY DEF ToAgentMsg
<1>2. QED
  BY <1>1, FirstConnTyped, PushToAgentTyped DEF NotifyCancel

-----------------------------------------------------------------------------
(* Before the first call and the first connection the invariant holds. *)
LEMMA InitAppInv == AppOpenInit => AppInv
<1>1. SUFFICES ASSUME AppOpenInit PROVE AppInv
  OBVIOUS
<1>2. WireTypeOK
  BY <1>1, EmptySeq, MaxConnsAssumption DEF AppOpenInit, WireInit, WireTypeOK, Conns, NoConn
<1>3. AppTypeOK
  BY <1>1, EmptySeq DEF AppOpenInit, AppInit, AppTypeOK, CallStep, HubStep
<1>4. \A r \in Requests : WaitInv(r)
  BY <1>1 DEF AppOpenInit, AppInit, WaitInv, Reply
<1>5. QED
  BY <1>2, <1>3, <1>4 DEF AppInv, AppOpenTypeOK

(* The steps of one call, one lemma per action: the request that moves gets
   its new state from the action, every other request keeps what WaitInv
   looks at. *)
LEMMA BeginCallStep ==
  ASSUME AppInv, NEW r \in Requests, BeginCall(r)
  PROVE  AppInv'
<1>1. AppOpenTypeOK'
  <2>1. WireTypeOK'
    BY DEF AppInv, AppOpenTypeOK, BeginCall, WireTypeOK, wireVars
  <2>2. FirstConn \in Conns \cup {NoConn}
    BY FirstConnTyped DEF AppInv, AppOpenTypeOK
  <2>3. early' \in [Requests -> BOOLEAN]
    <3>1. (fired[r] # {}) \in BOOLEAN
      OBVIOUS
    <3>2. early \in [Requests -> BOOLEAN]
      BY DEF AppInv, AppOpenTypeOK, AppTypeOK
    <3>3. early' = early \/ early' = [early EXCEPT ![r] = fired[r] # {}]
      BY DEF BeginCall
    <3>4. QED
      BY <3>1, <3>2, <3>3, Zenon
  <2>4. AppTypeOK'
    BY <2>2, <2>3 DEF AppInv, AppOpenTypeOK, BeginCall, AppTypeOK, Return, hubVars, CallStep, Outcome
  <2>5. QED
    BY <2>1, <2>4 DEF AppOpenTypeOK
<1>2. ASSUME NEW s \in Requests, s # r PROVE WaitInv(s)'
  <2>1. call'[s] = call[s] /\ early'[s] = early[s] /\ outcome'[s] = outcome[s]
    BY <1>2 DEF AppInv, AppOpenTypeOK, AppTypeOK, BeginCall, Return
  <2>2. UNCHANGED <<fired, pending, tcs>>
    BY DEF BeginCall
  <2>3. QED
    BY <2>1, <2>2 DEF AppInv, WaitInv
<1>3. WaitInv(r)'
  <2>1. call[r] = "new" /\ UNCHANGED <<fired, pending, tcs>>
    BY DEF BeginCall
  <2>2. r \notin pending /\ tcs[r] = "open" /\ outcome[r] = "none"
    BY <2>1 DEF AppInv, WaitInv
  <2>3. CASE FirstConn = NoConn
    <3>1. call'[r] = "returned" /\ outcome'[r] = "notConnected"
      BY <2>3 DEF AppInv, AppOpenTypeOK, AppTypeOK, BeginCall, Return
    <3>2. QED
      BY <2>1, <2>2, <3>1 DEF WaitInv, Reply
  <2>4. CASE FirstConn # NoConn
    <3>1. call'[r] = "registered" /\ outcome'[r] = "none" /\ early'[r] = (fired[r] # {})
      BY <2>2, <2>4 DEF AppInv, AppOpenTypeOK, AppTypeOK, BeginCall
    <3>2. QED
      BY <2>1, <2>2, <3>1 DEF WaitInv, Reply
  <2>5. QED
    BY <2>3, <2>4
<1>4. QED
  BY <1>1, <1>2, <1>3 DEF AppInv

(* Pending.TryAdd: from here the call has an entry or a settled completion. *)
LEMMA AddPendingStep ==
  ASSUME AppInv, NEW r \in Requests, AddPending(r)
  PROVE  AppInv'
<1>1. AppOpenTypeOK'
  BY DEF AppInv, AppOpenTypeOK, AddPending, WireTypeOK, AppTypeOK, wireVars, hubVars, CallStep
<1>2. ASSUME NEW s \in Requests PROVE WaitInv(s)'
  BY DEF AppInv, AppOpenTypeOK, AppTypeOK, AddPending, WaitInv, CallStep, Reply
<1>3. QED
  BY <1>1, <1>2 DEF AppInv

(* A caller's cancellation or a timeout: the callback settles what it finds. *)
LEMMA FireStep ==
  ASSUME AppInv, NEW r \in Requests, NEW why \in Causes, Fire(r, why)
  PROVE  AppInv'
<1>1. CASE fired[r] = {} /\ r \in pending
  <2>1. toAgent' \in [Conns -> Seq(ToAgentMsg)]
    BY <1>1, NotifyCancelTyped DEF AppInv, AppOpenTypeOK, Fire
  <2>2. AppOpenTypeOK'
    BY <1>1, <2>1
    DEF AppInv, AppOpenTypeOK, Fire, WireTypeOK, AppTypeOK, SettleIfPending, Settled, hubVars
  <2>3. UNCHANGED <<call, outcome>> /\ pending' = pending \ {r} /\ tcs[r] = "open"
    BY <1>1 DEF AppInv, WaitInv, Fire, SettleIfPending
  <2>4. ASSUME NEW s \in Requests, s # r PROVE WaitInv(s)'
    <3>1. fired'[s] = fired[s] /\ early'[s] = early[s] /\ tcs'[s] = tcs[s]
      BY <1>1, <2>4 DEF AppInv, AppOpenTypeOK, AppTypeOK, Fire, SettleIfPending
    <3>2. QED
      BY <2>3, <2>4, <3>1 DEF AppInv, WaitInv
  <2>5. WaitInv(r)'
    <3>1. fired'[r] = {why} /\ tcs'[r] = "canceled"
      BY <1>1 DEF AppInv, AppOpenTypeOK, AppTypeOK, Fire, SettleIfPending
    <3>2. call[r] \notin {"new", "registered"} /\ (early[r] => early'[r])
      BY <1>1 DEF AppInv, AppOpenTypeOK, AppTypeOK, WaitInv, Fire
    <3>3. call[r] # "returned" /\ outcome[r] = "none"
      BY DEF AppInv, WaitInv, Fire
    <3>4. QED
      BY <2>3, <3>1, <3>2, <3>3 DEF AppInv, WaitInv, Reply
  <2>6. QED
    BY <2>2, <2>4, <2>5 DEF AppInv
<1>2. CASE ~(fired[r] = {} /\ r \in pending)
  <2>1. AppOpenTypeOK'
    BY <1>2 DEF AppInv, AppOpenTypeOK, Fire, WireTypeOK, AppTypeOK, hubVars
  <2>2. ASSUME NEW s \in Requests PROVE WaitInv(s)'
    BY <1>2 DEF AppInv, AppOpenTypeOK, AppTypeOK, Fire, WaitInv, CallStep, Reply, Causes
  <2>3. QED
    BY <2>1, <2>2 DEF AppInv
<1>3. QED
  BY <1>1, <1>2

(* SendAsync completes: the wait begins with the entry still there. *)
LEMMA SendRequestStep ==
  ASSUME AppInv, NEW r \in Requests, SendRequest(r)
  PROVE  AppInv'
<1>1. [kind |-> "RequestCommand", req |-> r] \in ToAgentMsg
  BY DEF ToAgentMsg
<1>2. toAgent' \in [Conns -> Seq(ToAgentMsg)]
  BY <1>1, PushToAgentTyped DEF AppInv, AppOpenTypeOK, AppTypeOK, SendRequest
<1>3. AppOpenTypeOK'
  BY <1>2 DEF AppInv, AppOpenTypeOK, SendRequest, WireTypeOK, AppTypeOK, hubVars, CallStep
<1>4. ASSUME NEW s \in Requests PROVE WaitInv(s)'
  BY DEF AppInv, AppOpenTypeOK, AppTypeOK, SendRequest, WaitInv, CallStep, Reply
<1>5. QED
  BY <1>3, <1>4 DEF AppInv

(* SendAsync sees the cancellation: the caller returns, and its token has
   fired. *)
LEMMA SendCancelledStep ==
  ASSUME AppInv, NEW r \in Requests, SendCancelled(r)
  PROVE  AppInv'
<1>1. toAgent' \in [Conns -> Seq(ToAgentMsg)]
  BY NotifyCancelTyped DEF AppInv, AppOpenTypeOK, SendCancelled
<1>2. AppOpenTypeOK'
  BY <1>1
  DEF AppInv, AppOpenTypeOK, SendCancelled, Return, WireTypeOK, AppTypeOK, hubVars, CallStep, Outcome
<1>3. ASSUME NEW s \in Requests PROVE WaitInv(s)'
  BY DEF AppInv, AppOpenTypeOK, AppTypeOK, SendCancelled, Return, WaitInv, CallStep, Reply
<1>4. QED
  BY <1>2, <1>3 DEF AppInv

(* SendAsync throws: Fail takes the entry before the caller returns. *)
LEMMA SendThrowsStep ==
  ASSUME AppInv, NEW r \in Requests, SendThrows(r)
  PROVE  AppInv'
<1>1. AppOpenTypeOK'
  BY DEF AppInv, AppOpenTypeOK, SendThrows, Return, SettleIfPending, WireTypeOK, AppTypeOK,
         wireVars, hubVars, CallStep, Outcome, Settled
<1>2. ASSUME NEW s \in Requests PROVE WaitInv(s)'
  BY DEF AppInv, AppOpenTypeOK, AppTypeOK, SendThrows, Return, SettleIfPending, WaitInv,
         CallStep, Reply, Settled
<1>3. QED
  BY <1>1, <1>2 DEF AppInv

(* The wait ends: the caller returns what the completion holds. *)
LEMMA AwaitResultStep ==
  ASSUME AppInv, NEW r \in Requests, AwaitResult(r)
  PROVE  AppInv'
<1>1. CASE tcs[r] # "canceled"
  <2>1. AppOpenTypeOK'
    BY <1>1 DEF AppInv, AppOpenTypeOK, AwaitResult, Return, WireTypeOK, AppTypeOK, hubVars,
                CallStep, Outcome, Settled
  <2>2. ASSUME NEW s \in Requests PROVE WaitInv(s)'
    BY <1>1 DEF AppInv, AppOpenTypeOK, AppTypeOK, AwaitResult, Return, WaitInv, CallStep, Reply, Settled
  <2>3. QED
    BY <2>1, <2>2 DEF AppInv
<1>2. CASE tcs[r] = "canceled"
  <2>1. toAgent' \in [Conns -> Seq(ToAgentMsg)]
    BY <1>2, NotifyCancelTyped DEF AppInv, AppOpenTypeOK, AwaitResult
  <2>2. AppOpenTypeOK'
    BY <1>2, <2>1
    DEF AppInv, AppOpenTypeOK, AwaitResult, Return, WireTypeOK, AppTypeOK, hubVars, CallStep, Outcome
  <2>3. ASSUME NEW s \in Requests PROVE WaitInv(s)'
    BY <1>2
    DEF AppInv, AppOpenTypeOK, AppTypeOK, AwaitResult, Return, WaitInv, CallStep, Reply, Settled, Causes
  <2>4. QED
    BY <2>2, <2>3 DEF AppInv
<1>3. QED
  BY <1>1, <1>2

-----------------------------------------------------------------------------
(* The hub callbacks. *)
LEMMA OnConnectedStep ==
  ASSUME AppInv, NEW c \in Conns, OnConnected(c)
  PROVE  AppInv'
<1>1. tracker' \in Seq(Conns)
  BY AppendTyped DEF AppInv, AppOpenTypeOK, AppTypeOK, OnConnected
<1>2. AppOpenTypeOK'
  BY <1>1 DEF AppInv, AppOpenTypeOK, OnConnected, WireTypeOK, AppTypeOK, wireVars, callVars, HubStep
<1>3. \A s \in Requests : WaitInv(s)'
  BY DEF AppInv, OnConnected, WaitInv, callVars
<1>4. QED
  BY <1>2, <1>3 DEF AppInv

(* A response settles the request it names, if that still waits. *)
LEMMA ResponseCommandStep ==
  ASSUME AppInv, NEW c \in Conns, ResponseCommand(c)
  PROVE  AppInv'
<1> DEFINE msg == Head(toApp[c])
<1>1. msg \in ToAppMsg /\ Tail(toApp[c]) \in Seq(ToAppMsg)
  BY TailTyped DEF AppInv, AppOpenTypeOK, WireTypeOK, ResponseCommand
<1>2. msg.req \in Requests /\ msg.reply \in Reply
  BY <1>1 DEF ToAppMsg
<1>3. AppOpenTypeOK'
  BY <1>1, <1>2
  DEF AppInv, AppOpenTypeOK, ResponseCommand, SettleIfPending, WireTypeOK, AppTypeOK, hubVars, Settled
<1>4. ASSUME NEW s \in Requests PROVE WaitInv(s)'
  BY <1>2 DEF AppInv, AppOpenTypeOK, AppTypeOK, ResponseCommand, SettleIfPending, WaitInv, CallStep, Reply, Settled
<1>5. QED
  BY <1>3, <1>4 DEF AppInv

(* The tracker forgets a connection; no request changes. *)
LEMMA OnDisconnectedStep ==
  ASSUME AppInv, NEW c \in Conns, OnDisconnected(c)
  PROVE  AppInv'
<1>1. tracker' \in Seq(Conns)
  BY WithoutTyped DEF AppInv, AppOpenTypeOK, AppTypeOK, OnDisconnected
<1>2. AppOpenTypeOK'
  BY <1>1 DEF AppInv, AppOpenTypeOK, OnDisconnected, WireTypeOK, AppTypeOK, wireVars, callVars, HubStep
<1>3. \A s \in Requests : WaitInv(s)'
  BY DEF AppInv, OnDisconnected, WaitInv, callVars
<1>4. QED
  BY <1>2, <1>3 DEF AppInv

(* FailAll copies the keys, and ends when it has visited them all. *)
LEMMA FailAllStep ==
  ASSUME AppInv, NEW c \in Conns, FailAllBegin(c) \/ FailAllEnd(c)
  PROVE  AppInv'
<1>1. AppOpenTypeOK'
  BY DEF AppInv, AppOpenTypeOK, FailAllBegin, FailAllEnd, WireTypeOK, AppTypeOK, wireVars, callVars, HubStep
<1>2. \A s \in Requests : WaitInv(s)'
  BY DEF AppInv, FailAllBegin, FailAllEnd, WaitInv, callVars
<1>3. QED
  BY <1>1, <1>2 DEF AppInv

(* FailAll visits one key: the request is settled or was already. *)
LEMMA FailOneStep ==
  ASSUME AppInv, NEW c \in Conns, NEW r \in Requests, FailOne(c, r)
  PROVE  AppInv'
<1>1. AppOpenTypeOK'
  BY DEF AppInv, AppOpenTypeOK, FailOne, SettleIfPending, WireTypeOK, AppTypeOK, wireVars, Settled
<1>2. ASSUME NEW s \in Requests PROVE WaitInv(s)'
  BY DEF AppInv, AppOpenTypeOK, AppTypeOK, FailOne, SettleIfPending, WaitInv, CallStep, Reply, Settled
<1>3. QED
  BY <1>1, <1>2 DEF AppInv

-----------------------------------------------------------------------------
(* The wire and the environment touch no variable of the App. *)
LEMMA AgentStep ==
  ASSUME AppInv, WireTypeOK', UNCHANGED appVars
  PROVE  AppInv'
BY DEF AppInv, AppOpenTypeOK, AppTypeOK, WaitInv, appVars, callVars, hubVars

(* Connecting and dropping a connection keep the wire well typed. *)
LEMMA OpenWireTyped ==
  ASSUME AppInv,
         \/ WireChanges
         \/ AgentTakes
         \/ \E r \in Requests, reply \in Reply : AgentReplies(r, reply)
  PROVE  WireTypeOK' /\ UNCHANGED appVars
<1>0. WireTypeOK
  BY DEF AppInv, AppOpenTypeOK
<1>1. CASE Connect /\ UNCHANGED appVars
  <2>1. opened + 1 \in Conns
    BY <1>0, <1>1, MaxConnsAssumption DEF Connect, WireTypeOK, Conns
  <2>2. QED
    BY <1>0, <1>1, <2>1, MaxConnsAssumption DEF Connect, WireTypeOK, Conns
<1>2. CASE Drop /\ UNCHANGED appVars
  <2>1. link \in Conns /\ toAgent[link] \in Seq(ToAgentMsg) /\ toApp[link] \in Seq(ToAppMsg)
    BY <1>0, <1>2 DEF Drop, WireTypeOK
  <2>2. \A n \in 0 .. Len(toAgent[link]) : SubSeq(toAgent[link], 1, n) \in Seq(ToAgentMsg)
    BY <2>1, PrefixTyped
  <2>3. \A n \in 0 .. Len(toApp[link]) : SubSeq(toApp[link], 1, n) \in Seq(ToAppMsg)
    BY <2>1, PrefixTyped
  <2>4. QED
    BY <1>0, <1>2, <2>1, <2>2, <2>3 DEF Drop, WireTypeOK
<1>3. CASE AgentTakes
  <2>1. PICK msg \in ToAgentMsg : TakeFromApp(msg)
    BY <1>3 DEF AgentTakes
  <2>2. opened \in Conns
    BY <1>0, <2>1, MaxConnsAssumption DEF TakeFromApp, WireTypeOK, Conns
  <2>3. Tail(toAgent[opened]) \in Seq(ToAgentMsg)
    BY <1>0, <2>1, <2>2, TailTyped DEF TakeFromApp, WireTypeOK
  <2>4. QED
    BY <1>0, <1>3, <2>1, <2>2, <2>3 DEF AgentTakes, TakeFromApp, WireTypeOK
<1>4. CASE \E r \in Requests, reply \in Reply : AgentReplies(r, reply)
  <2>1. PICK r \in Requests, reply \in Reply : AgentReplies(r, reply)
    BY <1>4
  <2>2. link \in Conns /\ [req |-> r, reply |-> reply] \in ToAppMsg
    BY <1>0, <2>1 DEF AgentReplies, WireTypeOK, ToAppMsg
  <2>3. Append(toApp[link], [req |-> r, reply |-> reply]) \in Seq(ToAppMsg)
    BY <1>0, <2>2, AppendTyped DEF WireTypeOK
  <2>4. QED
    BY <1>0, <2>1, <2>2, <2>3 DEF AgentReplies, PushToApp, WireTypeOK
<1>5. QED
  BY <1>1, <1>2, <1>3, <1>4 DEF WireChanges

(* Every step of the App keeps the invariant; module BridgeProofs uses this
   for the App with the agent of the code. *)
LEMMA AppNextStep ==
  ASSUME AppInv, AppNext
  PROVE  AppInv'
<1>1. CASE \E r \in Requests : CallNext(r)
  BY <1>1, BeginCallStep, AddPendingStep, FireStep, SendRequestStep,
     SendCancelledStep, SendThrowsStep, AwaitResultStep DEF CallNext
<1>2. CASE \E c \in Conns : HubNext(c)
  BY <1>2, OnConnectedStep, ResponseCommandStep, OnDisconnectedStep,
     FailAllStep, FailOneStep DEF HubNext
<1>3. QED
  BY <1>1, <1>2 DEF AppNext

(* So does every step of the network and of an arbitrary agent. *)
LEMMA NextAppInv == AppInv /\ [AppOpenNext]_appWire => AppInv'
<1>1. SUFFICES ASSUME AppInv, [AppOpenNext]_appWire PROVE AppInv'
  OBVIOUS
<1>2. CASE AppNext
  BY <1>1, <1>2, AppNextStep
<1>3. CASE \/ WireChanges
           \/ AgentTakes
           \/ \E r \in Requests, reply \in Reply : AgentReplies(r, reply)
  BY <1>1, <1>3, OpenWireTyped, AgentStep
<1>4. CASE UNCHANGED appWire
  <2>1. WireTypeOK' /\ UNCHANGED appVars
    BY <1>1, <1>4 DEF AppInv, AppOpenTypeOK, WireTypeOK, appWire, wireVars
  <2>2. QED
    BY <1>1, <2>1, AgentStep
<1>5. QED
  BY <1>1, <1>2, <1>3, <1>4 DEF AppOpenNext

(* The inductive invariant holds in every reachable state, whatever the agent
   replies and however often the connection is lost. *)
THEOREM Invariance == AppOpenSpec => []AppInv
BY InitAppInv, NextAppInv, PTL DEF AppOpenSpec

(* Every variable of the App side and of the wire keeps its type. *)
THEOREM TypeCorrect == AppOpenSpec => []AppOpenTypeOK
<1>1. AppInv => AppOpenTypeOK
  BY DEF AppInv
<1>2. QED
  BY <1>1, Invariance, PTL

(* No caller waits for a completion that nothing can complete any more. *)
THEOREM WaitersCanBeReleased == AppOpenSpec => []NoLostWaiter
<1>1. AppInv => NoLostWaiter
  BY DEF AppInv, WaitInv, NoLostWaiter
<1>2. QED
  BY <1>1, Invariance, PTL

(* A cancellation or timeout after TryAdd has released the caller. *)
THEOREM CancellationReleases == AppOpenSpec => []CancelReleasesCaller
<1>1. AppInv => CancelReleasesCaller
  BY DEF AppInv, WaitInv, CancelReleasesCaller
<1>2. QED
  BY <1>1, Invariance, PTL

(* Pending holds no entry of a caller that has returned, except those whose
   token fired inside WaitAsync. *)
THEOREM RegistryDoesNotLeak == AppOpenSpec => []NoLeakedEntry
<1>1. AppInv => NoLeakedEntry
  BY DEF AppInv, AppOpenTypeOK, AppTypeOK, WaitInv, NoLeakedEntry
<1>2. QED
  BY <1>1, Invariance, PTL

(* The caller's outcome is the one the first settlement left. *)
THEOREM OutcomesAreExplained == AppOpenSpec => []OutcomeExplained
<1>1. AppInv => OutcomeExplained
  BY DEF AppInv, WaitInv, OutcomeExplained
<1>2. QED
  BY <1>1, Invariance, PTL

(* Only SettleIfPending changes a completion, and only an open one. *)
LEMMA SettleKeeps ==
  ASSUME AppInv, NEW r \in Requests, NEW how, SettleIfPending(r, how),
         NEW s \in Requests, tcs[s] # "open"
  PROVE  tcs'[s] = tcs[s]
BY DEF AppInv, AppOpenTypeOK, AppTypeOK, WaitInv, SettleIfPending

(* No step of the App changes how a request was settled. *)
LEMMA AppSettlesOnce ==
  ASSUME AppInv, AppNext, NEW s \in Requests, tcs[s] # "open"
  PROVE  tcs'[s] = tcs[s]
<1>1. CASE \E r \in Requests : CallNext(r)
  <2>1. PICK r \in Requests : CallNext(r)
    BY <1>1
  <2>2. CASE SendThrows(r)
    BY <2>2, SettleKeeps DEF SendThrows
  <2>3. ASSUME NEW why \in Causes, Fire(r, why) PROVE tcs'[s] = tcs[s]
    BY <2>3, SettleKeeps DEF Fire
  <2>4. CASE BeginCall(r) \/ AddPending(r) \/ SendRequest(r) \/ SendCancelled(r) \/ AwaitResult(r)
    BY <2>4 DEF BeginCall, AddPending, SendRequest, SendCancelled, AwaitResult
  <2>5. QED
    BY <2>1, <2>2, <2>3, <2>4 DEF CallNext
<1>2. CASE \E c \in Conns : HubNext(c)
  <2>1. PICK c \in Conns : HubNext(c)
    BY <1>2
  <2>2. CASE ResponseCommand(c)
    <3>1. Head(toApp[c]) \in ToAppMsg
      BY <2>2, TailTyped DEF AppInv, AppOpenTypeOK, WireTypeOK, ResponseCommand
    <3>2. QED
      BY <2>2, <3>1, SettleKeeps DEF ResponseCommand, ToAppMsg
  <2>3. ASSUME NEW r \in Requests, FailOne(c, r) PROVE tcs'[s] = tcs[s]
    BY <2>3, SettleKeeps DEF FailOne
  <2>4. CASE OnConnected(c) \/ OnDisconnected(c) \/ FailAllBegin(c) \/ FailAllEnd(c)
    BY <2>4 DEF OnConnected, OnDisconnected, FailAllBegin, FailAllEnd, callVars
  <2>5. QED
    BY <2>1, <2>2, <2>3, <2>4 DEF HubNext
<1>3. QED
  BY <1>1, <1>2 DEF AppNext

(* No late reply, duplicate reply, disconnect, timeout or cancellation ever
   changes how a request was settled. *)
THEOREM SettlementIsFinal == AppOpenSpec => SettledOnce
<1>1. AppInv /\ [AppOpenNext]_appWire => [\A r \in Requests : tcs[r] # "open" => tcs'[r] = tcs[r]]_tcs
  <2>1. SUFFICES ASSUME AppInv, [AppOpenNext]_appWire, NEW s \in Requests, tcs[s] # "open"
                 PROVE  tcs'[s] = tcs[s]
    OBVIOUS
  <2>2. CASE AppNext
    BY <2>1, <2>2, AppSettlesOnce
  <2>3. CASE UNCHANGED appVars
    BY <2>3 DEF appVars, callVars
  <2>4. QED
    BY <2>1, <2>2, <2>3, OpenWireTyped DEF AppOpenNext, appWire
<1>2. QED
  BY <1>1, Invariance, PTL DEF AppOpenSpec, SettledOnce

-----------------------------------------------------------------------------
(* An entry that FailAll is bound to find, or a request that is settled. *)
Doomed(r, c) ==
  \/ tcs[r] # "open"
  \/ r \in pending /\ (hub[c] = "removed" \/ (hub[c] = "failing" /\ r \in failing[c]))

(* Whoever takes an entry out of Pending settles the request. *)
LEMMA SettleSettles ==
  ASSUME AppInv, NEW r \in Requests, NEW how \in Settled, SettleIfPending(r, how),
         NEW s \in pending
  PROVE  s \in pending' \/ tcs'[s] # "open"
BY DEF AppInv, AppOpenTypeOK, AppTypeOK, SettleIfPending, Settled, Reply

LEMMA EntriesStayOrSettle ==
  ASSUME AppInv, AppNext, NEW s \in pending
  PROVE  s \in pending' \/ tcs'[s] # "open"
<1> USE DEF Settled
<1>1. ASSUME NEW r \in Requests, CallNext(r) PROVE s \in pending' \/ tcs'[s] # "open"
  <2>1. CASE SendThrows(r)
    BY <2>1, SettleSettles DEF SendThrows
  <2>2. ASSUME NEW why \in Causes, Fire(r, why) PROVE s \in pending' \/ tcs'[s] # "open"
    <3>1. CASE SettleIfPending(r, "canceled")
      BY <3>1, SettleSettles
    <3>2. CASE pending' = pending
      BY <3>2
    <3> QED BY <2>2, <3>1, <3>2 DEF Fire
  <2>3. CASE BeginCall(r) \/ AddPending(r) \/ SendRequest(r) \/ SendCancelled(r) \/ AwaitResult(r)
    BY <2>3 DEF BeginCall, AddPending, SendRequest, SendCancelled, AwaitResult
  <2> QED BY <1>1, <2>1, <2>2, <2>3 DEF CallNext
<1>2. ASSUME NEW c \in Conns, HubNext(c) PROVE s \in pending' \/ tcs'[s] # "open"
  <2>1. CASE ResponseCommand(c)
    <3>1. Head(toApp[c]) \in ToAppMsg
      BY <2>1, TailTyped DEF AppInv, AppOpenTypeOK, WireTypeOK, ResponseCommand
    <3> QED BY <2>1, <3>1, SettleSettles DEF ResponseCommand, ToAppMsg
  <2>2. ASSUME NEW r \in Requests, FailOne(c, r) PROVE s \in pending' \/ tcs'[s] # "open"
    BY <2>2, SettleSettles DEF FailOne
  <2>3. CASE OnConnected(c) \/ OnDisconnected(c) \/ FailAllBegin(c) \/ FailAllEnd(c)
    BY <2>3 DEF OnConnected, OnDisconnected, FailAllBegin, FailAllEnd, callVars
  <2> QED BY <1>2, <2>1, <2>2, <2>3 DEF HubNext
<1> QED BY <1>1, <1>2 DEF AppNext

(* The keys FailAll has copied are visited: no other step takes one away, and it
   does not end before. *)
LEMMA DoomedStays ==
  ASSUME AppInv, AppNext, NEW r \in Requests, NEW c \in Conns, Doomed(r, c)
  PROVE  Doomed(r, c)'
<1>1. CASE tcs[r] # "open"
  BY <1>1, AppSettlesOnce DEF Doomed
<1>2. CASE tcs[r] = "open"
  <2>1. r \in pending /\ (r \in pending' \/ tcs'[r] # "open")
    BY <1>2, EntriesStayOrSettle DEF Doomed
  <2>2. hub \in [Conns -> HubStep] /\ failing \in [Conns -> SUBSET Requests]
    BY DEF AppInv, AppOpenTypeOK, AppTypeOK
  <2>3. CASE UNCHANGED <<hub, failing>>
    BY <1>2, <2>1, <2>3 DEF Doomed
  <2>4. ASSUME NEW d \in Conns, OnConnected(d) \/ OnDisconnected(d) PROVE Doomed(r, c)'
    <3>1. hub[d] \in {"none", "up"} /\ failing' = failing
      BY <2>4 DEF OnConnected, OnDisconnected
    <3>2. \E step \in HubStep : hub' = [hub EXCEPT ![d] = step]
      BY <2>4 DEF OnConnected, OnDisconnected, HubStep
    <3>3. d # c
      BY <1>2, <3>1 DEF Doomed
    <3>4. hub'[c] = hub[c]
      BY <2>2, <3>2, <3>3
    <3> QED BY <1>2, <2>1, <3>1, <3>4 DEF Doomed
  <2>5. ASSUME NEW d \in Conns, FailAllBegin(d) PROVE Doomed(r, c)'
    <3>1. CASE d = c
      BY <1>2, <2>1, <2>2, <2>5, <3>1 DEF Doomed, FailAllBegin, callVars
    <3>2. CASE d # c
      BY <1>2, <2>1, <2>2, <2>5, <3>2 DEF Doomed, FailAllBegin, callVars
    <3> QED BY <3>1, <3>2
  <2>6. ASSUME NEW d \in Conns, FailAllEnd(d) PROVE Doomed(r, c)'
    BY <1>2, <2>1, <2>2, <2>6 DEF Doomed, FailAllEnd
  <2>7. ASSUME NEW d \in Conns, NEW q \in Requests, FailOne(d, q) PROVE Doomed(r, c)'
    <3>1. CASE q = r
      <4>1. tcs'[r] = "disconnected"
        BY <2>1, <2>7, <3>1
        DEF FailOne, SettleIfPending, AppInv, AppOpenTypeOK, AppTypeOK
      <4> QED BY <4>1 DEF Doomed
    <3>2. CASE q # r
      <4>1. hub' = hub /\ (r \in failing[c] => r \in failing'[c])
        BY <2>2, <2>7, <3>2 DEF FailOne
      <4> QED BY <1>2, <2>1, <4>1 DEF Doomed
    <3> QED BY <3>1, <3>2
  <2>8. \/ UNCHANGED <<hub, failing>>
        \/ \E d \in Conns : OnConnected(d) \/ OnDisconnected(d) \/ FailAllBegin(d) \/ FailAllEnd(d)
        \/ \E d \in Conns, q \in Requests : FailOne(d, q)
    <3>1. ASSUME NEW q \in Requests, CallNext(q) PROVE UNCHANGED <<hub, failing>>
      BY <3>1 DEF CallNext, BeginCall, AddPending, SendRequest, SendCancelled, SendThrows,
                  AwaitResult, Fire, hubVars
    <3>2. ASSUME NEW d \in Conns, ResponseCommand(d) PROVE UNCHANGED <<hub, failing>>
      BY <3>2 DEF ResponseCommand, hubVars
    <3> QED BY <3>1, <3>2 DEF AppNext, HubNext
  <2> QED BY <2>3, <2>4, <2>5, <2>6, <2>7, <2>8
<1> QED BY <1>1, <1>2

(* What AgentHub.OnDisconnectedAsync promises, as far as it is kept: whatever was
   in Pending when the connection was taken out of the tracker is settled when
   FailAll is done, with any agent. *)
THEOREM DisconnectSettles == AppOpenSpec => DisconnectFailsPending
<1>1. ASSUME NEW r \in Requests, NEW c \in Conns
      PROVE  AppOpenSpec =>
               [](hub[c] = "removed" /\ r \in pending => [](hub[c] = "gone" => tcs[r] # "open"))
  <2>1. hub[c] = "removed" /\ r \in pending => Doomed(r, c)
    BY DEF Doomed
  <2>2. Doomed(r, c) => (hub[c] = "gone" => tcs[r] # "open")
    BY DEF Doomed
  <2>3. AppInv /\ [AppOpenNext]_appWire /\ Doomed(r, c) => Doomed(r, c)'
    <3> SUFFICES ASSUME AppInv, [AppOpenNext]_appWire, Doomed(r, c) PROVE Doomed(r, c)'
      OBVIOUS
    <3>1. CASE AppNext
      BY <3>1, DoomedStays
    <3>2. CASE UNCHANGED appVars
      BY <3>2 DEF appVars, callVars, hubVars, Doomed
    <3> QED BY <3>1, <3>2, OpenWireTyped DEF AppOpenNext, appWire
  <2> QED BY <2>1, <2>2, <2>3, Invariance, PTL DEF AppOpenSpec
<1> QED BY <1>1 DEF DisconnectFailsPending
=============================================================================
