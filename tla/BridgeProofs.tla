---------------------------- MODULE BridgeProofs ----------------------------
(***************************************************************************)
(* CommandBridge implements AtMostOnceCall, for every set of calls, of     *)
(* workers and of connections and every capacity of the queues; and what   *)
(* the agent guarantees to an arbitrary App (AgentJobsOpen).  A request is *)
(* asked of the agent once; from then on it is in at most one place: on    *)
(* the wire, in the hands of the receive loop, in a queue, or at a worker. *)
(* AgentInv says so, and every step of the agent keeps it, whatever the    *)
(* App is; the two compositions add what they know of the App.  Likewise   *)
(* AppInv (AppBridgeOpen), kept by every step of the App whatever the      *)
(* agent does, holds with the agent of the code.                           *)
(***************************************************************************)
EXTENDS CommandBridge, AgentJobsOpen, AppBridgeProofs

(* Sequences, by what they hold. *)
In(s, e) == \E i \in 1 .. Len(s) : s[i] = e
Once(s, e) == \A i, j \in 1 .. Len(s) : s[i] = e /\ s[j] = e => i = j

Ask(r) == [kind |-> "RequestCommand", req |-> r]

(* The places a request can be in. *)
OnWire(r, c) == In(toAgent[c], Ask(r))
Waits(r, lane) == In(queue[lane], r)
Has(w, r) == worker[w].req = r

AtAgent(r) ==
  \/ handler = r
  \/ \E lane \in Lanes : Waits(r, lane)
  \/ \E w \in Workers : Has(w, r)

(* A request is in one place, and there once. *)
OnePlace(r) ==
  /\ \A c \in Conns : Once(toAgent[c], Ask(r))
  /\ \A c, d \in Conns : OnWire(r, c) /\ OnWire(r, d) => c = d
  /\ \A c \in Conns : OnWire(r, c) => ~AtAgent(r)
  /\ \A lane \in Lanes : Once(queue[lane], r)
  /\ \A k, l \in Lanes : Waits(r, k) /\ Waits(r, l) => k = l
  /\ \A v, w \in Workers : Has(v, r) /\ Has(w, r) => v = w
  /\ handler = r => \A lane \in Lanes : ~Waits(r, lane)
  /\ handler = r => \A w \in Workers : ~Has(w, r)
  /\ \A lane \in Lanes, w \in Workers : ~(Waits(r, lane) /\ Has(w, r))

(* A request that is in none of them. *)
Away(r) == ~AtAgent(r) /\ \A c \in Conns : ~OnWire(r, c)

(* ... and has not run. *)
Nowhere(r) == Away(r) /\ effect[r] = "none"

(* The effect of a request that waits, and of one that a worker has. *)
EffectFits(r) ==
  /\ \A c \in Conns : OnWire(r, c) => effect[r] = "none"
  /\ handler = r => effect[r] = "none"
  /\ \A lane \in Lanes : Waits(r, lane) => effect[r] = "none"
  /\ \A w \in Workers : Has(w, r) =>
       /\ worker[w].step = "check" => effect[r] = "none"
       /\ worker[w].step = "run" => effect[r] = "running"

(* The registry holds the tokens of the jobs at the agent. *)
TokenFits(r) ==
  /\ AtAgent(r) => reg[r] # "none"
  /\ reg[r] = "live" => AtAgent(r)

(* "ok" is said only of a command that has completed. *)
OkIsDone(r) ==
  /\ \A w \in Workers : Has(w, r) /\ worker[w].reply = "ok" => effect[r] = "done"
  /\ \A c \in Conns : In(toApp[c], [req |-> r, reply |-> "ok"]) => effect[r] = "done"

Idle(w) ==
  /\ worker[w].step = "idle" => worker[w] = IdleWorker
  /\ worker[w].req = NoReq => worker[w].step = "idle"

JobInv(r) == OnePlace(r) /\ EffectFits(r) /\ TokenFits(r) /\ OkIsDone(r)

(* The wire and the agent, with any App. *)
AgentInv ==
  /\ WireTypeOK /\ AgentTypeOK
  /\ \A w \in Workers : Idle(w)
  /\ \A r \in Requests : JobInv(r)

(* The App of CommandBridge: what it has not sent is nowhere, and "ok" is in a
   completion only for a command that has completed. *)
Unsent(r) == call[r] \in {"new", "registered", "sending"} \/ outcome[r] = "notConnected"

CallTypes ==
  /\ call \in [Requests -> CallStep]
  /\ tcs \in [Requests -> Settled \cup {"open"}]
  /\ outcome \in [Requests -> Outcome \cup {"none"}]

CallInv(r) ==
  /\ Unsent(r) => Nowhere(r)
  /\ tcs[r] = "ok" => effect[r] = "done"
  /\ call[r] # "returned" => outcome[r] = "none"

IInv == AgentInv /\ CallTypes /\ \A r \in Requests : CallInv(r)

(* The App of AgentJobsOpen. *)
OpenInv ==
  /\ AgentInv
  /\ sent \subseteq Requests
  /\ \A r \in Requests \ sent : Nowhere(r)

-----------------------------------------------------------------------------
(* Sequences. *)

LEMMA InEmpty == \A e : ~In(<<>>, e) /\ Once(<<>>, e)
BY EmptySeq DEF In, Once

LEMMA InAppend ==
  ASSUME NEW S, NEW s \in Seq(S), NEW e \in S
  PROVE  /\ Append(s, e) \in Seq(S)
         /\ \A x : In(Append(s, e), x) <=> In(s, x) \/ x = e
         /\ \A x : Once(s, x) /\ (x = e => ~In(s, x)) => Once(Append(s, e), x)
<1>1. /\ Append(s, e) \in Seq(S)
      /\ Len(Append(s, e)) = Len(s) + 1
      /\ \A i \in 1 .. Len(s) : Append(s, e)[i] = s[i]
      /\ Append(s, e)[Len(s) + 1] = e
      /\ Len(s) \in Nat
  BY AppendProperties, LenProperties
<1>2. \A i \in 1 .. Len(s) + 1 : i \in 1 .. Len(s) \/ i = Len(s) + 1
  BY <1>1
<1>3. 1 .. Len(s) \subseteq 1 .. Len(s) + 1 /\ Len(s) + 1 \in 1 .. Len(s) + 1
  BY <1>1
<1>4. ASSUME NEW x PROVE In(Append(s, e), x) <=> In(s, x) \/ x = e
  BY <1>1, <1>2, <1>3 DEF In
<1>5. ASSUME NEW x, Once(s, x), x = e => ~In(s, x) PROVE Once(Append(s, e), x)
  BY <1>1, <1>2, <1>5 DEF In, Once
<1> QED BY <1>1, <1>4, <1>5

LEMMA InTail ==
  ASSUME NEW S, NEW s \in Seq(S), s # <<>>
  PROVE  /\ Head(s) \in S /\ Tail(s) \in Seq(S)
         /\ In(s, Head(s))
         /\ \A x : In(Tail(s), x) => In(s, x)
         /\ \A x : In(s, x) => x = Head(s) \/ In(Tail(s), x)
         /\ \A x : Once(s, x) => Once(Tail(s), x)
         /\ Once(s, Head(s)) => ~In(Tail(s), Head(s))
<1>1. /\ Head(s) \in S /\ Head(s) = s[1]
      /\ Tail(s) \in Seq(S)
      /\ Len(Tail(s)) = Len(s) - 1
      /\ \A i \in 1 .. Len(s) - 1 : Tail(s)[i] = s[i + 1]
      /\ Len(s) \in Nat \ {0}
  BY HeadTailProperties, EmptySeq, LenProperties
<1>2. /\ \A i \in 1 .. Len(s) - 1 : i + 1 \in 1 .. Len(s) /\ i + 1 # 1
      /\ \A i \in 1 .. Len(s) : i = 1 \/ (i - 1 \in 1 .. Len(s) - 1 /\ (i - 1) + 1 = i)
      /\ \A i, k \in 1 .. Len(s) - 1 : i + 1 = k + 1 => i = k
      /\ 1 \in 1 .. Len(s)
  BY <1>1
<1>3. In(s, Head(s)) BY <1>1, <1>2 DEF In
<1>4. ASSUME NEW x, In(Tail(s), x) PROVE In(s, x)
  BY <1>1, <1>2, <1>4 DEF In
<1>5. ASSUME NEW x, In(s, x), x # Head(s) PROVE In(Tail(s), x)
  <2> PICK i \in 1 .. Len(s) : s[i] = x BY <1>5 DEF In
  <2> i # 1 BY <1>1, <1>5
  <2> i - 1 \in 1 .. Len(s) - 1 /\ Tail(s)[i - 1] = x BY <1>1, <1>2
  <2> QED BY <1>1 DEF In
<1>6. ASSUME NEW x, Once(s, x) PROVE Once(Tail(s), x)
  <2> SUFFICES ASSUME NEW i \in 1 .. Len(s) - 1, NEW k \in 1 .. Len(s) - 1, Tail(s)[i] = x, Tail(s)[k] = x
               PROVE  i = k
    BY <1>1 DEF Once
  <2>1. s[i + 1] = x /\ s[k + 1] = x /\ i + 1 \in 1 .. Len(s) /\ k + 1 \in 1 .. Len(s)
    BY <1>1, <1>2
  <2>2. i + 1 = k + 1 BY <1>6, <2>1 DEF Once
  <2> QED BY <1>2, <2>2
<1>7. ASSUME Once(s, Head(s)), In(Tail(s), Head(s)) PROVE FALSE
  <2> PICK i \in 1 .. Len(s) - 1 : Tail(s)[i] = Head(s) BY <1>1, <1>7 DEF In
  <2>1. s[i + 1] = Head(s) /\ i + 1 \in 1 .. Len(s) /\ i + 1 # 1 BY <1>1, <1>2
  <2> QED BY <1>1, <1>2, <1>7, <2>1 DEF Once
<1> QED BY <1>1, <1>3, <1>4, <1>5, <1>6, <1>7

LEMMA InPrefix ==
  ASSUME NEW S, NEW s \in Seq(S), NEW n \in 0 .. Len(s)
  PROVE  /\ SubSeq(s, 1, n) \in Seq(S)
         /\ \A x : In(SubSeq(s, 1, n), x) => In(s, x)
         /\ \A x : Once(s, x) => Once(SubSeq(s, 1, n), x)
<1>1. Len(s) \in Nat BY LenProperties
<1>2. /\ 1 .. n \subseteq 1 .. Len(s)
      /\ \A i \in 1 .. n : i \in 1 .. Len(s) /\ s[i] \in S
  BY <1>1, ElementOfSeq
<1>3. /\ SubSeq(s, 1, n) \in Seq(S)
      /\ Len(SubSeq(s, 1, n)) = n
      /\ \A i \in 1 .. n : SubSeq(s, 1, n)[i] = s[i]
  <2>1. SubSeq(s, 1, n) = [i \in 1 .. n |-> s[i]]
    BY <1>1
  <2>2. n \in Nat BY <1>1
  <2>3. SubSeq(s, 1, n) \in Seq(S)
    BY <1>2, <2>1, <2>2, IsASeq
  <2> QED BY <2>1, <2>2, <2>3, LenProperties
<1> QED BY <1>2, <1>3 DEF In, Once

-----------------------------------------------------------------------------
(* What a step leaves of a request. *)

WireStill(r) == \A c \in Conns :
  /\ In(toAgent'[c], Ask(r)) => OnWire(r, c)
  /\ Once(toAgent[c], Ask(r)) => Once(toAgent'[c], Ask(r))

QueueStill(r) == \A lane \in Lanes :
  /\ In(queue'[lane], r) <=> Waits(r, lane)
  /\ Once(queue[lane], r) => Once(queue'[lane], r)

WorkerStill(r) == \A w \in Workers :
  /\ worker'[w].req = r <=> Has(w, r)
  /\ Has(w, r) =>
       /\ worker'[w].step = "check" => worker[w].step = "check"
       /\ worker'[w].step = "run" => worker[w].step = "run"
       /\ worker'[w].reply = "ok" => worker[w].reply = "ok"

RegStill(r) == reg'[r] = reg[r] \/ reg'[r] = "cancelled"

ToAppStill(r) == \A c \in Conns :
  In(toApp'[c], [req |-> r, reply |-> "ok"]) =>
    In(toApp[c], [req |-> r, reply |-> "ok"]) \/ effect[r] = "done"

JobStill(r) ==
  /\ WireStill(r) /\ QueueStill(r) /\ WorkerStill(r)
  /\ handler' = r <=> handler = r
  /\ RegStill(r)
  /\ effect'[r] = effect[r]
  /\ ToAppStill(r)

LEMMA AtAgentStill ==
  ASSUME NEW r \in Requests, QueueStill(r), WorkerStill(r), handler' = r <=> handler = r
  PROVE  AtAgent(r)' <=> AtAgent(r)
BY DEF QueueStill, WorkerStill, AtAgent, Waits, Has

(* A request that a step leaves as it is keeps its invariant. *)
LEMMA StillKeeps ==
  ASSUME NEW r \in Requests, JobInv(r), JobStill(r)
  PROVE  JobInv(r)'
<1>1. AtAgent(r)' <=> AtAgent(r)
  BY AtAgentStill DEF JobStill
<1>2. /\ \A c \in Conns : OnWire(r, c)' => OnWire(r, c)
      /\ \A lane \in Lanes : Waits(r, lane)' <=> Waits(r, lane)
      /\ \A w \in Workers : Has(w, r)' <=> Has(w, r)
  BY DEF JobStill, WireStill, QueueStill, WorkerStill, OnWire, Waits, Has
<1>3. OnePlace(r)'
  <2>1. OnePlace(r) BY DEF JobInv
  <2>2. \A c \in Conns : Once(toAgent'[c], Ask(r)) BY <2>1 DEF OnePlace, JobStill, WireStill
  <2>3. \A lane \in Lanes : Once(queue'[lane], r) BY <2>1 DEF OnePlace, JobStill, QueueStill
  <2> QED BY <1>1, <1>2, <2>1, <2>2, <2>3 DEF OnePlace, JobStill
<1>4. EffectFits(r)'
  BY <1>2 DEF EffectFits, JobStill, WorkerStill, JobInv
<1>5. TokenFits(r)'
  BY <1>1 DEF TokenFits, JobStill, RegStill, JobInv
<1>6. OkIsDone(r)'
  BY <1>2 DEF OkIsDone, JobStill, WorkerStill, ToAppStill, JobInv
<1> QED BY <1>3, <1>4, <1>5, <1>6 DEF JobInv

(* A request that is away, or nowhere, stays there unless a step brings it. *)
LEMMA AwayStill ==
  ASSUME NEW r \in Requests, Away(r),
         \A c \in Conns : In(toAgent'[c], Ask(r)) => OnWire(r, c),
         handler' = r => handler = r,
         \A lane \in Lanes : In(queue'[lane], r) => Waits(r, lane),
         \A w \in Workers : worker'[w].req = r => Has(w, r)
  PROVE  Away(r)'
BY DEF Away, AtAgent, OnWire, Waits, Has

LEMMA NowhereStill ==
  ASSUME NEW r \in Requests, Nowhere(r), effect'[r] = effect[r],
         \A c \in Conns : In(toAgent'[c], Ask(r)) => OnWire(r, c),
         handler' = r => handler = r,
         \A lane \in Lanes : In(queue'[lane], r) => Waits(r, lane),
         \A w \in Workers : worker'[w].req = r => Has(w, r)
  PROVE  Nowhere(r)'
BY AwayStill DEF Nowhere

LEMMA UnchangedStill ==
  ASSUME NEW r \in Requests
  PROVE  /\ toAgent' = toAgent => WireStill(r)
         /\ queue' = queue => QueueStill(r)
         /\ worker' = worker => WorkerStill(r)
         /\ reg' = reg => RegStill(r)
         /\ toApp' = toApp => ToAppStill(r)
         /\ UNCHANGED agentVars =>
              /\ QueueStill(r) /\ WorkerStill(r) /\ RegStill(r)
              /\ handler' = handler /\ effect' = effect
BY DEF WireStill, QueueStill, WorkerStill, RegStill, ToAppStill, OnWire, Waits, Has, agentVars

-----------------------------------------------------------------------------
(* Messages. *)

LEMMA LinkIsConn ==
  ASSUME WireTypeOK
  PROVE  /\ link # NoConn => link \in Conns
         /\ opened > 0 => opened \in Conns
         /\ \A c \in Conns : c # NoConn
         /\ \A r \in Requests : Ask(r) \in ToAgentMsg
         /\ \A r \in Requests : [kind |-> "CancelCommand", req |-> r] \in ToAgentMsg
         /\ \A r, s \in Requests : Ask(r) = Ask(s) => r = s
         /\ \A r, s \in Requests : Ask(r) # [kind |-> "CancelCommand", req |-> s]
BY MaxConnsAssumption DEF WireTypeOK, Conns, NoConn, ToAgentMsg, Ask

LEMMA AfterPush ==
  ASSUME WireTypeOK, NEW c, NEW m \in ToAgentMsg, PushToAgent(c, m)
  PROVE  /\ toAgent' \in [Conns -> Seq(ToAgentMsg)]
         /\ \A d \in Conns : \A x : In(toAgent'[d], x) => In(toAgent[d], x) \/ (x = m /\ d = link)
         /\ \A d \in Conns : \A x : Once(toAgent[d], x) /\ (x = m => ~In(toAgent[d], x)) => Once(toAgent'[d], x)
<1>1. CASE ~(c = link /\ c # NoConn)
  BY <1>1 DEF PushToAgent, WireTypeOK
<1>2. CASE c = link /\ c # NoConn
  <2>1. c \in Conns /\ toAgent[c] \in Seq(ToAgentMsg) BY <1>2, LinkIsConn DEF WireTypeOK
  <2>2. toAgent' = [toAgent EXCEPT ![c] = Append(toAgent[c], m)] BY <1>2 DEF PushToAgent
  <2>3. /\ Append(toAgent[c], m) \in Seq(ToAgentMsg)
        /\ \A x : In(Append(toAgent[c], m), x) <=> In(toAgent[c], x) \/ x = m
        /\ \A x : Once(toAgent[c], x) /\ (x = m => ~In(toAgent[c], x)) => Once(Append(toAgent[c], m), x)
    BY <2>1, InAppend
  <2>4. toAgent'[c] = Append(toAgent[c], m) /\ \A d \in Conns \ {c} : toAgent'[d] = toAgent[d]
    BY <2>1, <2>2 DEF WireTypeOK
  <2>5. toAgent' \in [Conns -> Seq(ToAgentMsg)]
    BY <2>1, <2>2, <2>3 DEF WireTypeOK
  <2> QED BY <1>2, <2>1, <2>3, <2>4, <2>5
<1> QED BY <1>1, <1>2

LEMMA CancelStill ==
  ASSUME WireTypeOK, NEW r \in Requests, NEW c, PushToAgent(c, [kind |-> "CancelCommand", req |-> r])
  PROVE  /\ toAgent' \in [Conns -> Seq(ToAgentMsg)]
         /\ \A s \in Requests : WireStill(s)
<1> DEFINE m == [kind |-> "CancelCommand", req |-> r]
<1>1. m \in ToAgentMsg /\ \A s \in Requests : Ask(s) # m
  BY LinkIsConn
<1>2. PushToAgent(c, m) OBVIOUS
<1> HIDE DEF m
<1> QED BY <1>1, <1>2, AfterPush DEF WireStill, OnWire

LEMMA AfterTake ==
  ASSUME WireTypeOK, NEW m, TakeFromApp(m)
  PROVE  /\ toAgent' \in [Conns -> Seq(ToAgentMsg)]
         /\ opened \in Conns
         /\ In(toAgent[opened], m)
         /\ \A d \in Conns : \A x : In(toAgent'[d], x) => In(toAgent[d], x)
         /\ \A d \in Conns : \A x : Once(toAgent[d], x) => Once(toAgent'[d], x)
         /\ Once(toAgent[opened], m) => ~In(toAgent'[opened], m)
<1>1. opened \in Conns /\ toAgent[opened] \in Seq(ToAgentMsg) /\ toAgent[opened] # <<>> /\ m = Head(toAgent[opened])
  BY LinkIsConn DEF TakeFromApp, WireTypeOK
<1>2. toAgent' = [toAgent EXCEPT ![opened] = Tail(toAgent[opened])] BY DEF TakeFromApp
<1>3. /\ Tail(toAgent[opened]) \in Seq(ToAgentMsg)
      /\ In(toAgent[opened], m)
      /\ \A x : In(Tail(toAgent[opened]), x) => In(toAgent[opened], x)
      /\ \A x : Once(toAgent[opened], x) => Once(Tail(toAgent[opened]), x)
      /\ Once(toAgent[opened], m) => ~In(Tail(toAgent[opened]), m)
  BY <1>1, InTail
<1>4. /\ toAgent'[opened] = Tail(toAgent[opened])
      /\ \A d \in Conns \ {opened} : toAgent'[d] = toAgent[d]
      /\ toAgent' \in [Conns -> Seq(ToAgentMsg)]
  BY <1>1, <1>2, <1>3 DEF WireTypeOK
<1> QED BY <1>1, <1>3, <1>4

LEMMA AfterReply ==
  ASSUME WireTypeOK, NEW m \in ToAppMsg, PushToApp(m)
  PROVE  /\ toApp' \in [Conns -> Seq(ToAppMsg)]
         /\ \A d \in Conns : \A x : In(toApp'[d], x) => In(toApp[d], x) \/ x = m
<1>1. link \in Conns /\ toApp[link] \in Seq(ToAppMsg) BY LinkIsConn DEF PushToApp, WireTypeOK
<1>2. toApp' = [toApp EXCEPT ![link] = Append(toApp[link], m)] BY DEF PushToApp
<1>3. /\ Append(toApp[link], m) \in Seq(ToAppMsg)
      /\ \A x : In(Append(toApp[link], m), x) <=> In(toApp[link], x) \/ x = m
  BY <1>1, InAppend
<1>4. /\ toApp'[link] = Append(toApp[link], m)
      /\ \A d \in Conns \ {link} : toApp'[d] = toApp[d]
      /\ toApp' \in [Conns -> Seq(ToAppMsg)]
  BY <1>1, <1>2, <1>3 DEF WireTypeOK
<1> QED BY <1>3, <1>4

LEMMA RespondStill ==
  ASSUME WireTypeOK, NEW r \in Requests, NEW reply \in Reply \ {"ok"}, TryRespond(r, reply)
  PROVE  /\ toApp' \in [Conns -> Seq(ToAppMsg)]
         /\ \A s \in Requests : ToAppStill(s)
<1> DEFINE m == [req |-> r, reply |-> reply]
<1>1. m \in ToAppMsg /\ \A s \in Requests : [req |-> s, reply |-> "ok"] # m
  BY DEF ToAppMsg
<1>2. UNCHANGED toApp \/ PushToApp(m) BY DEF TryRespond
<1> HIDE DEF m
<1> QED BY <1>1, <1>2, AfterReply DEF ToAppStill, WireTypeOK

-----------------------------------------------------------------------------
(* The agent. *)

(* A step of the agent that leaves every request as it is. *)
LEMMA AgentStill ==
  ASSUME AgentInv, WireTypeOK', AgentTypeOK',
         \A w \in Workers : Idle(w)',
         \A r \in Requests :
           /\ WireStill(r) /\ QueueStill(r) /\ WorkerStill(r) /\ RegStill(r) /\ ToAppStill(r)
           /\ handler' = r <=> handler = r
           /\ effect'[r] = effect[r]
  PROVE  AgentInv'
<1> SUFFICES ASSUME NEW r \in Requests PROVE JobInv(r)'
  BY DEF AgentInv
<1>1. JobStill(r) BY DEF JobStill
<1> QED BY <1>1, StillKeeps DEF AgentInv

(* The App asks for a request: it was nowhere. *)
LEMMA AskKeeps ==
  ASSUME AgentInv, NEW r \in Requests, Nowhere(r), NEW c, PushToAgent(c, Ask(r)),
         UNCHANGED <<opened, link, toApp, agentVars>>
  PROVE  /\ AgentInv'
         /\ \A s \in Requests \ {r} : Nowhere(s) => Nowhere(s)'
<1>1. /\ toAgent' \in [Conns -> Seq(ToAgentMsg)]
      /\ \A d \in Conns : \A x : In(toAgent'[d], x) => In(toAgent[d], x) \/ (x = Ask(r) /\ d = link)
      /\ \A d \in Conns : \A x : Once(toAgent[d], x) /\ (x = Ask(r) => ~In(toAgent[d], x)) => Once(toAgent'[d], x)
  <2>1. Ask(r) \in ToAgentMsg BY LinkIsConn DEF AgentInv
  <2> QED BY <2>1, AfterPush DEF AgentInv
<1>2. WireTypeOK' /\ AgentTypeOK'
  BY <1>1 DEF AgentInv, WireTypeOK, AgentTypeOK, agentVars
<1>3. \A w \in Workers : Idle(w)'
  BY DEF AgentInv, Idle, agentVars
<1>4. ASSUME NEW s \in Requests \ {r} PROVE JobStill(s)
  <2>1. Ask(s) # Ask(r) BY LinkIsConn DEF AgentInv
  <2>2. WireStill(s) BY <1>1, <2>1 DEF WireStill, OnWire
  <2> QED BY <2>2, UnchangedStill DEF JobStill
<1>5. \A s \in Requests \ {r} : JobInv(s)' /\ (Nowhere(s) => Nowhere(s)')
  BY <1>4, StillKeeps, NowhereStill DEF AgentInv, JobStill, WireStill, QueueStill, WorkerStill
<1>6. JobInv(r)'
  <2>1. /\ \A d \in Conns : ~OnWire(r, d)
        /\ ~AtAgent(r) /\ effect[r] = "none" /\ OnePlace(r) /\ TokenFits(r) /\ OkIsDone(r)
    BY DEF AgentInv, JobInv, Nowhere, Away
  <2>2. AtAgent(r)' <=> AtAgent(r)
    BY AtAgentStill, UnchangedStill DEF agentVars
  <2>3. /\ \A d \in Conns : OnWire(r, d)' => d = link
        /\ \A d \in Conns : Once(toAgent'[d], Ask(r))
    BY <1>1, <2>1 DEF OnWire, OnePlace
  <2>4. OnePlace(r)'
    BY <2>1, <2>2, <2>3 DEF OnePlace, Waits, Has, agentVars
  <2>5. EffectFits(r)' BY <2>1, <2>2 DEF EffectFits, AtAgent, agentVars
  <2>6. TokenFits(r)' BY <2>1, <2>2 DEF TokenFits, agentVars
  <2>7. OkIsDone(r)' BY <2>1 DEF OkIsDone, Has, agentVars
  <2> QED BY <2>4, <2>5, <2>6, <2>7 DEF JobInv
<1> QED BY <1>2, <1>3, <1>5, <1>6 DEF AgentInv

(* The connection. *)

LEMMA ConnectKeeps == ASSUME AgentInv, AgentConnect PROVE AgentInv'
<1>1. WireTypeOK' /\ AgentTypeOK'
  BY MaxConnsAssumption DEF AgentInv, WireTypeOK, AgentTypeOK, AgentConnect, Connect, agentVars, Conns
<1>2. \A w \in Workers : Idle(w)'
  BY DEF AgentInv, Idle, AgentConnect, agentVars
<1> QED BY <1>1, <1>2, AgentStill, UnchangedStill DEF AgentConnect, Connect

LEMMA CutStill ==
  ASSUME WireTypeOK, link # NoConn
  PROVE  /\ \A n \in 0 .. Len(toAgent[link]) : toAgent' = [toAgent EXCEPT ![link] = SubSeq(@, 1, n)] =>
              toAgent' \in [Conns -> Seq(ToAgentMsg)] /\ \A r \in Requests : WireStill(r)
         /\ \A n \in 0 .. Len(toApp[link]) : toApp' = [toApp EXCEPT ![link] = SubSeq(@, 1, n)] =>
              toApp' \in [Conns -> Seq(ToAppMsg)] /\ \A r \in Requests : ToAppStill(r)
<1>1. link \in Conns /\ toAgent[link] \in Seq(ToAgentMsg) /\ toApp[link] \in Seq(ToAppMsg)
  BY LinkIsConn DEF WireTypeOK
<1>2. ASSUME NEW n \in 0 .. Len(toAgent[link]), toAgent' = [toAgent EXCEPT ![link] = SubSeq(@, 1, n)]
      PROVE  toAgent' \in [Conns -> Seq(ToAgentMsg)] /\ \A r \in Requests : WireStill(r)
  <2> DEFINE s == SubSeq(toAgent[link], 1, n)
  <2>1. /\ s \in Seq(ToAgentMsg)
        /\ \A x : In(s, x) => In(toAgent[link], x)
        /\ \A x : Once(toAgent[link], x) => Once(s, x)
    BY <1>1, InPrefix
  <2>2. toAgent' = [toAgent EXCEPT ![link] = s] BY <1>2
  <2> HIDE DEF s
  <2> QED BY <1>1, <2>1, <2>2 DEF WireTypeOK, WireStill, OnWire
<1>3. ASSUME NEW n \in 0 .. Len(toApp[link]), toApp' = [toApp EXCEPT ![link] = SubSeq(@, 1, n)]
      PROVE  toApp' \in [Conns -> Seq(ToAppMsg)] /\ \A r \in Requests : ToAppStill(r)
  <2> DEFINE s == SubSeq(toApp[link], 1, n)
  <2>1. /\ s \in Seq(ToAppMsg)
        /\ \A x : In(s, x) => In(toApp[link], x)
    BY <1>1, InPrefix
  <2>2. toApp' = [toApp EXCEPT ![link] = s] BY <1>3
  <2> HIDE DEF s
  <2> QED BY <1>1, <2>1, <2>2 DEF WireTypeOK, ToAppStill
<1> QED BY <1>2, <1>3

LEMMA DropKeeps == ASSUME AgentInv, LinkDrop PROVE AgentInv'
<1>1. /\ toAgent' \in [Conns -> Seq(ToAgentMsg)] /\ \A r \in Requests : WireStill(r)
      /\ toApp' \in [Conns -> Seq(ToAppMsg)] /\ \A r \in Requests : ToAppStill(r)
  BY CutStill DEF AgentInv, LinkDrop, Drop
<1>2. WireTypeOK' /\ AgentTypeOK'
  BY <1>1 DEF AgentInv, WireTypeOK, AgentTypeOK, LinkDrop, Drop, agentVars
<1>3. \A w \in Workers : Idle(w)'
  BY DEF AgentInv, Idle, LinkDrop, agentVars
<1> QED BY <1>1, <1>2, <1>3, AgentStill, UnchangedStill DEF LinkDrop

LEMMA CrashKeeps == ASSUME AgentInv, AgentCrash PROVE AgentInv'
<1>1. toApp' \in [Conns -> Seq(ToAppMsg)] /\ \A r \in Requests : ToAppStill(r)
  BY CutStill, UnchangedStill DEF AgentInv, WireTypeOK, AgentCrash
<1>2. IdleWorker \in WorkerState /\ IdleWorker.step = "idle" /\ IdleWorker.req = NoReq /\ IdleWorker.reply = "failed"
  BY DEF IdleWorker, WorkerState, Step, Reply
<1>3. /\ \A c \in Conns : toAgent'[c] = <<>>
      /\ toAgent' \in [Conns -> Seq(ToAgentMsg)]
  BY EmptySeq DEF AgentCrash
<1>4. /\ \A lane \in Lanes : queue'[lane] = <<>> /\ Len(queue'[lane]) <= Cap(lane)
      /\ queue' \in [Lanes -> Seq(Requests)]
  BY EmptySeq, AgentAssumption DEF AgentCrash, Cap
<1>5. \A w \in Workers : worker'[w] = IdleWorker BY DEF AgentCrash
<1>6. effect' \in [Requests -> Effect] /\ reg' \in [Requests -> Token] /\ worker' \in [Workers -> WorkerState]
  BY <1>2 DEF AgentCrash, AgentInv, AgentTypeOK, Effect, Token
<1>7. WireTypeOK' /\ AgentTypeOK'
  BY <1>1, <1>3, <1>4, <1>6
  DEF AgentInv, WireTypeOK, AgentTypeOK, AgentCrash
<1>8. \A w \in Workers : Idle(w)' BY <1>2, <1>5 DEF Idle
<1>9. ASSUME NEW r \in Requests PROVE JobInv(r)'
  <2>1. /\ \A c \in Conns : ~OnWire(r, c)' /\ Once(toAgent'[c], Ask(r))
        /\ \A lane \in Lanes : ~Waits(r, lane)' /\ Once(queue'[lane], r)
        /\ \A w \in Workers : ~Has(w, r)'
        /\ handler' # r
    BY <1>2, <1>3, <1>4, <1>5, InEmpty, AgentAssumption DEF OnWire, Waits, Has, AgentCrash
  <2>2. ~AtAgent(r)' BY <2>1 DEF AtAgent
  <2>3. OnePlace(r)' BY <2>1, <2>2 DEF OnePlace
  <2>4. reg'[r] = "none" /\ (effect[r] \in {"none", "done"} => effect'[r] = effect[r])
    BY DEF AgentCrash
  <2>5. EffectFits(r)' /\ TokenFits(r)' BY <2>1, <2>2, <2>4 DEF EffectFits, TokenFits
  <2>6. OkIsDone(r)'
    BY <1>1, <2>1, <2>4 DEF OkIsDone, ToAppStill, AgentInv, JobInv
  <2> QED BY <2>3, <2>5, <2>6 DEF JobInv
<1> QED BY <1>7, <1>8, <1>9 DEF AgentInv

(* The handlers. *)

LEMMA ReceiveCancelKeeps ==
  ASSUME AgentInv, NEW r \in Requests, ReceiveCancel(r) PROVE AgentInv'
<1>1. /\ toAgent' \in [Conns -> Seq(ToAgentMsg)]
      /\ \A d \in Conns : \A x : In(toAgent'[d], x) => In(toAgent[d], x)
      /\ \A d \in Conns : \A x : Once(toAgent[d], x) => Once(toAgent'[d], x)
  BY AfterTake DEF ReceiveCancel, AgentInv
<1>2. \A s \in Requests : WireStill(s) /\ RegStill(s)
  BY <1>1 DEF WireStill, OnWire, RegStill, ReceiveCancel, AgentInv, AgentTypeOK
<1>3. WireTypeOK' /\ AgentTypeOK'
  BY <1>1 DEF AgentInv, WireTypeOK, AgentTypeOK, ReceiveCancel, Token
<1>4. \A w \in Workers : Idle(w)'
  BY DEF AgentInv, Idle, ReceiveCancel
<1> QED BY <1>2, <1>3, <1>4, AgentStill, UnchangedStill DEF ReceiveCancel

LEMMA ReceiveRequestKeeps ==
  ASSUME AgentInv, NEW r \in Requests, ReceiveRequest(r) \/ RefuseRequest(r)
  PROVE  AgentInv'
<1>1. /\ toAgent' \in [Conns -> Seq(ToAgentMsg)]
      /\ opened \in Conns
      /\ In(toAgent[opened], Ask(r))
      /\ \A d \in Conns : \A x : In(toAgent'[d], x) => In(toAgent[d], x)
      /\ \A d \in Conns : \A x : Once(toAgent[d], x) => Once(toAgent'[d], x)
      /\ Once(toAgent[opened], Ask(r)) => ~In(toAgent'[opened], Ask(r))
  BY AfterTake DEF ReceiveRequest, RefuseRequest, AgentInv, Ask
<1>2. \A s \in Requests : WireStill(s)
  BY <1>1 DEF WireStill, OnWire
<1>3. toApp' \in [Conns -> Seq(ToAppMsg)] /\ \A s \in Requests : ToAppStill(s)
  BY RespondStill, UnchangedStill DEF ReceiveRequest, RefuseRequest, AgentInv, WireTypeOK, Reply
<1>4. WireTypeOK' /\ AgentTypeOK'
  BY <1>1, <1>3 DEF AgentInv, WireTypeOK, AgentTypeOK, ReceiveRequest, RefuseRequest, Token
<1>5. \A w \in Workers : Idle(w)'
  BY DEF AgentInv, Idle, ReceiveRequest, RefuseRequest
<1>6. ASSUME NEW s \in Requests \ {r} PROVE JobInv(s)'
  <2>1. reg'[s] = reg[s] /\ (handler' = s <=> handler = s)
    BY AgentAssumption DEF ReceiveRequest, RefuseRequest, AgentInv, AgentTypeOK
  <2>2. JobStill(s)
    BY <1>2, <1>3, <2>1, UnchangedStill DEF JobStill, RegStill, ReceiveRequest, RefuseRequest
  <2> QED BY <2>2, StillKeeps DEF AgentInv
<1>7. JobInv(r)'
  <2>1. OnWire(r, opened) /\ OnePlace(r) /\ EffectFits(r) /\ OkIsDone(r)
    BY <1>1 DEF OnWire, AgentInv, JobInv
  <2>2. ~AtAgent(r) /\ effect[r] = "none" BY <1>1, <2>1 DEF OnePlace, EffectFits
  <2>3. \A c \in Conns : ~OnWire(r, c)' /\ Once(toAgent'[c], Ask(r))
    BY <1>1, <2>1 DEF OnWire, OnePlace
  <2>4. /\ \A lane \in Lanes : ~Waits(r, lane)' /\ Once(queue'[lane], r)
        /\ \A w \in Workers : ~Has(w, r)'
    BY <2>1, <2>2 DEF OnePlace, AtAgent, ReceiveRequest, RefuseRequest, Waits, Has
  <2>5. AtAgent(r)' <=> handler' = r BY <2>4 DEF AtAgent
  <2>6. OnePlace(r)' BY <2>3, <2>4 DEF OnePlace
  <2>7. EffectFits(r)' BY <2>2, <2>4 DEF EffectFits, ReceiveRequest, RefuseRequest
  <2>8. TokenFits(r)'
    <3>1. handler # r /\ reg \in [Requests -> Token] BY <2>2 DEF AtAgent, AgentInv, AgentTypeOK
    <3> QED BY <2>5, <3>1 DEF TokenFits, ReceiveRequest, RefuseRequest
  <2>9. OkIsDone(r)'
    BY <1>3, <2>1, <2>4 DEF OkIsDone, ToAppStill, ReceiveRequest, RefuseRequest
  <2> QED BY <2>6, <2>7, <2>8, <2>9 DEF JobInv
<1> QED BY <1>4, <1>5, <1>6, <1>7 DEF AgentInv

LEMMA AfterEnqueue ==
  ASSUME AgentTypeOK, NEW r \in Requests, NEW lane \in Lanes,
         Len(queue[lane]) < Cap(lane),
         queue' = [queue EXCEPT ![lane] = Append(@, r)]
  PROVE  /\ queue' \in [Lanes -> Seq(Requests)]
         /\ \A l \in Lanes : Len(queue'[l]) <= Cap(l)
         /\ \A l \in Lanes : \A x : In(queue'[l], x) <=> In(queue[l], x) \/ (x = r /\ l = lane)
         /\ \A l \in Lanes : \A x : Once(queue[l], x) /\ (x = r => ~In(queue[l], x)) => Once(queue'[l], x)
<1> DEFINE s == Append(queue[lane], r)
<1>1. queue[lane] \in Seq(Requests) BY DEF AgentTypeOK
<1>2. /\ s \in Seq(Requests)
      /\ \A x : In(s, x) <=> In(queue[lane], x) \/ x = r
      /\ \A x : Once(queue[lane], x) /\ (x = r => ~In(queue[lane], x)) => Once(s, x)
  BY <1>1, InAppend
<1>3. Len(s) <= Cap(lane)
  <2>1. Cap(lane) \in Nat BY AgentAssumption DEF Cap
  <2>2. Len(s) = Len(queue[lane]) + 1 /\ Len(queue[lane]) \in Nat
    BY <1>1, AppendProperties, LenProperties
  <2> QED BY <2>1, <2>2
<1>4. queue' = [queue EXCEPT ![lane] = s] OBVIOUS
<1> HIDE DEF s
<1> QED BY <1>2, <1>3, <1>4 DEF AgentTypeOK

LEMMA EnqueueKeeps ==
  ASSUME AgentInv, NEW r \in Requests, handler = r, Enqueue PROVE AgentInv'
<1>1. Lane(r) \in Lanes
  BY DEF Lane, Lanes
<1>2. /\ queue' \in [Lanes -> Seq(Requests)]
      /\ \A l \in Lanes : Len(queue'[l]) <= Cap(l)
      /\ \A l \in Lanes : \A x : In(queue'[l], x) <=> In(queue[l], x) \/ (x = r /\ l = Lane(r))
      /\ \A l \in Lanes : \A x : Once(queue[l], x) /\ (x = r => ~In(queue[l], x)) => Once(queue'[l], x)
  BY <1>1, AfterEnqueue DEF Enqueue, AgentInv
<1>3. /\ handler' = NoReq /\ NoReq \notin Requests
      /\ UNCHANGED <<reg, worker, effect, opened, link, toAgent, toApp>>
  BY AgentAssumption DEF Enqueue, wireVars
<1>4. WireTypeOK' /\ AgentTypeOK'
  BY <1>2, <1>3 DEF AgentInv, WireTypeOK, AgentTypeOK
<1>5. \A w \in Workers : Idle(w)'
  BY <1>3 DEF AgentInv, Idle
<1>6. ASSUME NEW s \in Requests \ {r} PROVE JobInv(s)'
  <2>1. QueueStill(s) BY <1>2 DEF QueueStill, Waits
  <2>2. JobStill(s)
    BY <1>3, <2>1, UnchangedStill DEF JobStill
  <2> QED BY <2>2, StillKeeps DEF AgentInv
<1>7. JobInv(r)'
  <2>1. OnePlace(r) /\ EffectFits(r) /\ OkIsDone(r) /\ TokenFits(r)
    BY <1>1 DEF AgentInv, JobInv
  <2>2. AtAgent(r) BY DEF AtAgent
  <2>3. /\ \A c \in Conns : ~OnWire(r, c)
        /\ \A lane \in Lanes : ~Waits(r, lane) /\ Once(queue[lane], r)
        /\ \A w \in Workers : ~Has(w, r)
        /\ \A c \in Conns : Once(toAgent[c], Ask(r))
        /\ effect[r] = "none"
    BY <2>1, <2>2 DEF OnePlace, EffectFits
  <2>4. /\ \A lane \in Lanes : (Waits(r, lane)' <=> lane = Lane(r)) /\ Once(queue'[lane], r)
        /\ \A w \in Workers : ~Has(w, r)'
        /\ \A c \in Conns : ~OnWire(r, c)' /\ Once(toAgent'[c], Ask(r))
        /\ handler' # r
    BY <1>1, <1>2, <1>3, <2>3 DEF Waits, Has, OnWire
  <2>5. AtAgent(r)' BY <1>1, <2>4 DEF AtAgent
  <2>6. OnePlace(r)' BY <2>1, <2>4 DEF OnePlace
  <2>7. EffectFits(r)' BY <1>3, <2>3, <2>4 DEF EffectFits
  <2>8. TokenFits(r)' BY <1>3, <2>1, <2>2, <2>5 DEF TokenFits
  <2>9. OkIsDone(r)'
    BY <1>3, <2>1, <2>4 DEF OkIsDone
  <2> QED BY <2>6, <2>7, <2>8, <2>9 DEF JobInv
<1> QED BY <1>4, <1>5, <1>6, <1>7 DEF AgentInv

LEMMA HandlerKeeps == AgentInv /\ HandlerNext => AgentInv'
<1> SUFFICES ASSUME AgentInv, HandlerNext PROVE AgentInv'
  OBVIOUS
<1>1. Enqueue => handler \in Requests
  BY DEF Enqueue, AgentInv, AgentTypeOK
<1> QED BY <1>1, ReceiveRequestKeeps, ReceiveCancelKeeps, EnqueueKeeps DEF HandlerNext

(* The workers. *)

SameOthers(w) == \A v \in Workers \ {w} : worker'[v] = worker[v]

LEMMA AfterMove ==
  ASSUME AgentTypeOK, NEW w \in Workers, NEW step \in Step, Move(w, step)
  PROVE  /\ worker' \in [Workers -> WorkerState] /\ SameOthers(w)
         /\ worker'[w].step = step
         /\ worker'[w].req = worker[w].req /\ worker'[w].reply = worker[w].reply
<1>1. worker[w] \in WorkerState BY DEF AgentTypeOK
<1>2. worker' = [worker EXCEPT ![w] = [worker[w] EXCEPT !.step = step]] BY DEF Move
<1>3. [worker[w] EXCEPT !.step = step] \in WorkerState BY <1>1 DEF WorkerState
<1>4. worker'[w] = [worker[w] EXCEPT !.step = step] BY <1>2 DEF AgentTypeOK
<1>5. SameOthers(w) /\ worker' \in [Workers -> WorkerState]
  BY <1>2, <1>3 DEF AgentTypeOK, SameOthers
<1> QED BY <1>1, <1>4, <1>5 DEF WorkerState

LEMMA AfterAnswer ==
  ASSUME AgentTypeOK, NEW w \in Workers, NEW reply \in Reply, NEW last \in BOOLEAN, Answer(w, reply, last)
  PROVE  /\ worker' \in [Workers -> WorkerState] /\ SameOthers(w)
         /\ worker'[w].step = "send"
         /\ worker'[w].req = worker[w].req /\ worker'[w].reply = reply
<1> DEFINE u == [worker[w] EXCEPT !.step = "send", !.reply = reply, !.last = last]
<1>1. worker[w] \in WorkerState BY DEF AgentTypeOK
<1>2. worker' = [worker EXCEPT ![w] = u] BY DEF Answer, AgentTypeOK
<1>3. u \in WorkerState /\ u.step = "send" /\ u.req = worker[w].req /\ u.reply = reply
  BY <1>1 DEF WorkerState, Step
<1> HIDE DEF u
<1> QED BY <1>2, <1>3 DEF AgentTypeOK, SameOthers

LEMMA BusyWorker ==
  ASSUME AgentInv, NEW w \in Workers, ~At(w, "idle")
  PROVE  JobOf(w) \in Requests
BY DEF AgentInv, AgentTypeOK, WorkerState, Idle, At, JobOf

(* A step of a worker that only goes on to its next step. *)
LEMMA SendKeeps ==
  ASSUME AgentInv, NEW w \in Workers, NEW step \in {"send", "ack", "finally"},
         ~At(w, "idle"),
         worker' \in [Workers -> WorkerState], SameOthers(w),
         worker'[w].step = step, worker'[w].req = worker[w].req,
         worker'[w].reply = "ok" => worker[w].reply = "ok",
         UNCHANGED <<reg, handler, queue, effect, opened, link, toAgent>>,
         toApp' \in [Conns -> Seq(ToAppMsg)], \A r \in Requests : ToAppStill(r)
  PROVE  AgentInv'
<1>1. WireTypeOK' /\ AgentTypeOK'
  BY DEF AgentInv, WireTypeOK, AgentTypeOK
<1>2. \A v \in Workers : Idle(v)'
  BY BusyWorker, AgentAssumption DEF AgentInv, Idle, SameOthers, JobOf
<1>3. \A r \in Requests : WorkerStill(r)
  BY DEF WorkerStill, Has, SameOthers
<1> QED BY <1>1, <1>2, <1>3, AgentStill, UnchangedStill

LEMMA SkipCancelledKeeps ==
  ASSUME AgentInv, NEW w \in Workers, SkipCancelled(w) PROVE AgentInv'
BY AfterAnswer, SendKeeps, UnchangedStill
DEF SkipCancelled, At, AgentInv, WireTypeOK, Reply, wireVars

LEMMA SendReplyFailsKeeps ==
  ASSUME AgentInv, NEW w \in Workers, SendReplyFails(w) PROVE AgentInv'
<1>1. CASE Move(w, "finally")
  BY <1>1, AfterMove, SendKeeps, UnchangedStill
  DEF SendReplyFails, At, AgentInv, WireTypeOK, Step, wireVars
<1>2. CASE Answer(w, "failed", TRUE)
  BY <1>2, AfterAnswer, SendKeeps, UnchangedStill
  DEF SendReplyFails, At, AgentInv, WireTypeOK, Reply, wireVars
<1> QED BY <1>1, <1>2 DEF SendReplyFails

LEMMA CancelDuringSendKeeps ==
  ASSUME AgentInv, NEW w \in Workers, CancelDuringSend(w) PROVE AgentInv'
BY AfterAnswer, SendKeeps, UnchangedStill
DEF CancelDuringSend, At, AgentInv, WireTypeOK, Reply, wireVars

LEMMA ReplyAckedKeeps ==
  ASSUME AgentInv, NEW w \in Workers, ReplyAcked(w) PROVE AgentInv'
BY AfterMove, SendKeeps, UnchangedStill
DEF ReplyAcked, At, AgentInv, WireTypeOK, Step, wireVars

LEMMA AckLostKeeps ==
  ASSUME AgentInv, NEW w \in Workers, AckLost(w) PROVE AgentInv'
<1>1. CASE Move(w, "send") \/ Move(w, "finally")
  BY <1>1, AfterMove, SendKeeps, UnchangedStill
  DEF AckLost, At, AgentInv, WireTypeOK, Step, wireVars
<1>2. ASSUME NEW reply \in {"failed", "cancelled"}, Answer(w, reply, TRUE) PROVE AgentInv'
  BY <1>2, AfterAnswer, SendKeeps, UnchangedStill
  DEF AckLost, At, AgentInv, WireTypeOK, Reply, wireVars
<1> QED BY <1>1, <1>2 DEF AckLost

LEMMA SendReplyKeeps ==
  ASSUME AgentInv, NEW w \in Workers, SendReply(w) PROVE AgentInv'
<1> DEFINE m == [req |-> JobOf(w), reply |-> worker[w].reply]
           u == [worker[w] EXCEPT !.step = "ack", !.conn = link]
<1>1. JobOf(w) \in Requests BY BusyWorker DEF SendReply, At
<1>2. worker[w] \in WorkerState BY DEF AgentInv, AgentTypeOK
<1>3. m \in ToAppMsg BY <1>1, <1>2 DEF ToAppMsg, WorkerState
<1>4. \A r \in Requests : [req |-> r, reply |-> "ok"] = m => effect[r] = "done"
  BY <1>1 DEF AgentInv, JobInv, OkIsDone, Has, JobOf
<1>5. PushToApp(m) BY DEF SendReply
<1>6. u \in WorkerState /\ u.step = "ack" /\ u.req = worker[w].req /\ u.reply = worker[w].reply
  BY <1>2 DEF WorkerState, Step, AgentInv, WireTypeOK
<1>7. worker' = [worker EXCEPT ![w] = u] BY DEF SendReply, AgentInv, AgentTypeOK
<1> HIDE DEF m, u
<1>8. toApp' \in [Conns -> Seq(ToAppMsg)] /\ \A r \in Requests : ToAppStill(r)
  BY <1>3, <1>4, <1>5, AfterReply DEF ToAppStill, AgentInv
<1>9. /\ worker' \in [Workers -> WorkerState] /\ SameOthers(w)
      /\ worker'[w].step = "ack" /\ worker'[w].req = worker[w].req /\ worker'[w].reply = worker[w].reply
  BY <1>6, <1>7 DEF AgentInv, AgentTypeOK, SameOthers
<1> QED BY <1>8, <1>9, SendKeeps DEF SendReply, At

(* A step of a worker that changes what has become of its command. *)
LEMMA CommandKeeps ==
  ASSUME AgentInv, NEW w \in Workers, NEW r \in Requests, JobOf(w) = r,
         At(w, "check") \/ At(w, "run"),
         worker' \in [Workers -> WorkerState], SameOthers(w),
         worker'[w].req = r, worker'[w].step \in {"run", "send"},
         effect' \in [Requests -> Effect], \A s \in Requests \ {r} : effect'[s] = effect[s],
         worker'[w].step = "run" => effect'[r] = "running",
         worker'[w].reply = "ok" => effect'[r] = "done" \/ worker[w].reply = "ok",
         UNCHANGED <<reg, handler, queue, wireVars>>
  PROVE  AgentInv'
<1>1. WireTypeOK' /\ AgentTypeOK'
  BY DEF AgentInv, WireTypeOK, AgentTypeOK, wireVars
<1>2. \A v \in Workers : Idle(v)'
  BY AgentAssumption DEF AgentInv, Idle, SameOthers
<1>3. ASSUME NEW s \in Requests \ {r} PROVE JobInv(s)'
  <2>1. WorkerStill(s) BY DEF WorkerStill, Has, SameOthers, JobOf
  <2>2. JobStill(s)
    BY <2>1, UnchangedStill DEF JobStill, wireVars
  <2> QED BY <2>2, StillKeeps DEF AgentInv
<1>4. JobInv(r)'
  <2>1. OnePlace(r) /\ EffectFits(r) /\ OkIsDone(r) /\ TokenFits(r)
    BY DEF AgentInv, JobInv
  <2>2. Has(w, r) /\ AtAgent(r) BY DEF AtAgent, Has, JobOf
  <2>3. effect[r] # "done" BY <2>1, <2>2 DEF EffectFits, At
  <2>4. /\ \A v \in Workers : Has(v, r)' <=> Has(v, r)
        /\ \A c \in Conns : OnWire(r, c)' <=> OnWire(r, c)
        /\ \A lane \in Lanes : Waits(r, lane)' <=> Waits(r, lane)
        /\ handler' = handler /\ reg' = reg /\ toAgent' = toAgent /\ toApp' = toApp /\ queue' = queue
    BY <2>2 DEF Has, OnWire, Waits, SameOthers, wireVars
  <2>5. AtAgent(r)' <=> AtAgent(r) BY <2>4 DEF AtAgent
  <2>6. OnePlace(r)' BY <2>1, <2>4, <2>5 DEF OnePlace
  <2>7. /\ \A c \in Conns : ~OnWire(r, c)
        /\ handler # r
        /\ \A lane \in Lanes : ~Waits(r, lane)
        /\ \A v \in Workers : Has(v, r) => v = w
    BY <2>1, <2>2 DEF OnePlace
  <2>8. EffectFits(r)'
    BY <2>4, <2>7 DEF EffectFits
  <2>9. TokenFits(r)' BY <2>1, <2>4, <2>5 DEF TokenFits
  <2>10. OkIsDone(r)'
    BY <2>1, <2>2, <2>3, <2>4, <2>7 DEF OkIsDone
  <2> QED BY <2>6, <2>8, <2>9, <2>10 DEF JobInv
<1> QED BY <1>1, <1>2, <1>3, <1>4 DEF AgentInv

LEMMA StartCommandKeeps ==
  ASSUME AgentInv, NEW w \in Workers, StartCommand(w) PROVE AgentInv'
<1> DEFINE r == JobOf(w)
<1>1. r \in Requests BY BusyWorker DEF StartCommand, At
<1>2. /\ worker' \in [Workers -> WorkerState] /\ SameOthers(w)
      /\ worker'[w].step = "run"
      /\ worker'[w].req = r /\ worker'[w].reply = worker[w].reply
  BY AfterMove DEF StartCommand, AgentInv, Step, JobOf
<1>3. /\ effect' \in [Requests -> Effect] /\ effect'[r] = "running"
      /\ \A s \in Requests \ {r} : effect'[s] = effect[s]
  BY <1>1 DEF StartCommand, AgentInv, AgentTypeOK, Effect
<1> QED BY <1>1, <1>2, <1>3, CommandKeeps DEF StartCommand

LEMMA FinishCommandKeeps ==
  ASSUME AgentInv, NEW w \in Workers, NEW reply \in Reply, FinishCommand(w, reply) PROVE AgentInv'
<1> DEFINE r == JobOf(w)
<1>1. r \in Requests BY BusyWorker DEF FinishCommand, At
<1>2. /\ worker' \in [Workers -> WorkerState] /\ SameOthers(w)
      /\ worker'[w].step = "send"
      /\ worker'[w].req = r /\ worker'[w].reply = reply
  BY AfterAnswer DEF FinishCommand, AgentInv, JobOf
<1>3. /\ effect' \in [Requests -> Effect] /\ (reply = "ok" => effect'[r] = "done")
      /\ \A s \in Requests \ {r} : effect'[s] = effect[s]
  BY <1>1 DEF FinishCommand, AgentInv, AgentTypeOK, Effect
<1> QED BY <1>1, <1>2, <1>3, CommandKeeps DEF FinishCommand

LEMMA AbortCommandKeeps ==
  ASSUME AgentInv, NEW w \in Workers, AbortCommand(w) PROVE AgentInv'
<1> DEFINE r == JobOf(w)
<1>1. r \in Requests BY BusyWorker DEF AbortCommand, At
<1>2. /\ worker' \in [Workers -> WorkerState] /\ SameOthers(w)
      /\ worker'[w].step = "send"
      /\ worker'[w].req = r /\ worker'[w].reply = "cancelled"
  BY AfterAnswer DEF AbortCommand, AgentInv, JobOf, Reply
<1>3. /\ effect' \in [Requests -> Effect]
      /\ \A s \in Requests \ {r} : effect'[s] = effect[s]
  BY <1>1 DEF AbortCommand, AgentInv, AgentTypeOK, Effect
<1> QED BY <1>1, <1>2, <1>3, CommandKeeps DEF AbortCommand

LEMMA TakeJobKeeps ==
  ASSUME AgentInv, NEW w \in Workers, TakeJob(w),
         NEW lane \in Lanes, lane = WorkerLane(w), NEW r, r = Head(queue[lane])
  PROVE  AgentInv'
<1> DEFINE rest == Tail(queue[lane])
           u == [worker[w] EXCEPT !.step = "check", !.req = r]
<1>1. lane \in Lanes OBVIOUS
<1>2. queue[lane] \in Seq(Requests) /\ queue[lane] # <<>> /\ Len(queue[lane]) <= Cap(lane)
  BY <1>1 DEF TakeJob, AgentInv, AgentTypeOK
<1>3. /\ r \in Requests /\ rest \in Seq(Requests)
      /\ In(queue[lane], r)
      /\ \A x : In(rest, x) => In(queue[lane], x)
      /\ \A x : In(queue[lane], x) => x = r \/ In(rest, x)
      /\ \A x : Once(queue[lane], x) => Once(rest, x)
      /\ Once(queue[lane], r) => ~In(rest, r)
      /\ Len(rest) <= Cap(lane)
  <2>1. Len(rest) = Len(queue[lane]) - 1 /\ Len(queue[lane]) \in Nat /\ Cap(lane) \in Nat
    BY <1>2, HeadTailProperties, LenProperties, AgentAssumption DEF Cap
  <2>2. Len(rest) <= Cap(lane) BY <1>2, <2>1
  <2> QED BY <1>2, <2>2, InTail
<1>4. queue' = [queue EXCEPT ![lane] = rest] /\ worker' = [worker EXCEPT ![w] = u]
  BY DEF TakeJob, AgentInv, AgentTypeOK
<1>5. worker[w] = IdleWorker BY DEF TakeJob, At, AgentInv, Idle
<1>6. u \in WorkerState /\ u.step = "check" /\ u.req = r /\ u.reply = "failed"
  <2>1. worker[w] \in WorkerState /\ worker[w].reply = "failed"
    <3>1. worker[w] \in WorkerState BY DEF AgentInv, AgentTypeOK
    <3> QED BY <1>5, <3>1 DEF IdleWorker
  <2> QED BY <1>3, <2>1 DEF WorkerState, Step
<1>7. UNCHANGED <<reg, handler, effect, wireVars>> BY DEF TakeJob
<1> HIDE DEF rest, u
<1>8. /\ queue' \in [Lanes -> Seq(Requests)]
      /\ \A l \in Lanes : Len(queue'[l]) <= Cap(l)
      /\ queue'[lane] = rest /\ \A l \in Lanes \ {lane} : queue'[l] = queue[l]
      /\ worker' \in [Workers -> WorkerState]
      /\ worker'[w] = u /\ SameOthers(w)
  BY <1>1, <1>3, <1>4, <1>6 DEF AgentInv, AgentTypeOK, SameOthers
<1>9. WireTypeOK' /\ AgentTypeOK'
  BY <1>7, <1>8 DEF AgentInv, WireTypeOK, AgentTypeOK, wireVars
<1>10. \A v \in Workers : Idle(v)'
  BY <1>3, <1>6, <1>8, AgentAssumption DEF AgentInv, Idle, SameOthers
<1>11. worker[w].req = NoReq /\ NoReq \notin Requests
  BY <1>5, AgentAssumption DEF IdleWorker
<1>12. ASSUME NEW s \in Requests \ {r} PROVE JobInv(s)'
  <2>1. WorkerStill(s) BY <1>6, <1>8, <1>11 DEF WorkerStill, Has, SameOthers
  <2>2. QueueStill(s) BY <1>3, <1>8 DEF QueueStill, Waits
  <2>3. JobStill(s)
    BY <1>7, <2>1, <2>2, UnchangedStill DEF JobStill, wireVars
  <2> QED BY <2>3, StillKeeps DEF AgentInv
<1>13. JobInv(r)'
  <2>1. OnePlace(r) /\ EffectFits(r) /\ OkIsDone(r) /\ TokenFits(r)
    BY <1>3 DEF AgentInv, JobInv
  <2>2. Waits(r, lane) /\ AtAgent(r) BY <1>1, <1>3 DEF Waits, AtAgent
  <2>3. /\ \A c \in Conns : ~OnWire(r, c)
        /\ handler # r
        /\ \A l \in Lanes : Waits(r, l) => l = lane
        /\ \A v \in Workers : ~Has(v, r)
        /\ effect[r] = "none"
    BY <1>1, <2>1, <2>2 DEF OnePlace, EffectFits
  <2>4. /\ \A v \in Workers : Has(v, r)' <=> v = w
        /\ \A c \in Conns : ~OnWire(r, c)' /\ Once(toAgent'[c], Ask(r))
        /\ \A l \in Lanes : ~Waits(r, l)' /\ Once(queue'[l], r)
        /\ handler' # r
    <3>1. \A v \in Workers : Has(v, r)' <=> v = w
      BY <1>6, <1>8, <2>3 DEF Has, SameOthers
    <3>2. \A c \in Conns : ~OnWire(r, c)' /\ Once(toAgent'[c], Ask(r))
      BY <1>7, <2>1, <2>3 DEF OnWire, OnePlace, wireVars
    <3>3. \A l \in Lanes : ~Waits(r, l)' /\ Once(queue'[l], r)
      BY <1>1, <1>3, <1>8, <2>1, <2>3 DEF Waits, OnePlace
    <3> QED BY <1>7, <2>3, <3>1, <3>2, <3>3
  <2>5. AtAgent(r)' BY <2>4 DEF AtAgent
  <2>6. OnePlace(r)' BY <2>4 DEF OnePlace
  <2>7. EffectFits(r)' BY <1>6, <1>7, <1>8, <2>3, <2>4 DEF EffectFits
  <2>8. TokenFits(r)' BY <1>7, <2>1, <2>2, <2>5 DEF TokenFits
  <2>9. OkIsDone(r)'
    BY <1>3, <1>6, <1>7, <1>8, <2>1, <2>4 DEF OkIsDone, wireVars
  <2> QED BY <2>6, <2>7, <2>8, <2>9 DEF JobInv
<1> QED BY <1>9, <1>10, <1>12, <1>13 DEF AgentInv

LEMMA UnregisterKeeps ==
  ASSUME AgentInv, NEW w \in Workers, NEW r \in Requests, JobOf(w) = r, Unregister(w)
  PROVE  AgentInv'
<1>1. IdleWorker \in WorkerState /\ IdleWorker.step = "idle" /\ IdleWorker.req = NoReq /\ IdleWorker.reply = "failed"
  BY DEF IdleWorker, WorkerState, Step, Reply
<1>2. /\ worker' \in [Workers -> WorkerState] /\ SameOthers(w) /\ worker'[w] = IdleWorker
      /\ reg' \in [Requests -> Token] /\ reg'[r] = "none" /\ \A s \in Requests \ {r} : reg'[s] = reg[s]
      /\ UNCHANGED <<handler, queue, effect, wireVars>>
  BY <1>1 DEF Unregister, SameOthers, AgentInv, AgentTypeOK, Token
<1>3. NoReq \notin Requests BY AgentAssumption
<1>4. WireTypeOK' /\ AgentTypeOK'
  BY <1>2 DEF AgentInv, WireTypeOK, AgentTypeOK, wireVars
<1>5. \A v \in Workers : Idle(v)'
  BY <1>1, <1>2 DEF AgentInv, Idle, SameOthers
<1>6. ASSUME NEW s \in Requests \ {r} PROVE JobInv(s)'
  <2>1. WorkerStill(s) BY <1>1, <1>2, <1>3 DEF WorkerStill, Has, SameOthers, JobOf
  <2>2. JobStill(s)
    BY <1>2, <2>1, UnchangedStill DEF JobStill, RegStill, wireVars
  <2> QED BY <2>2, StillKeeps DEF AgentInv
<1>7. JobInv(r)'
  <2>1. OnePlace(r) /\ OkIsDone(r)
    BY DEF AgentInv, JobInv
  <2>2. Has(w, r) /\ AtAgent(r) BY DEF Has, JobOf, AtAgent
  <2>3. /\ \A c \in Conns : ~OnWire(r, c)' /\ Once(toAgent'[c], Ask(r))
        /\ handler' # r
        /\ \A lane \in Lanes : ~Waits(r, lane)' /\ Once(queue'[lane], r)
    BY <1>2, <2>1, <2>2 DEF OnePlace, OnWire, Waits, wireVars
  <2>4. \A v \in Workers : ~Has(v, r)'
    <3>1. \A v \in Workers : Has(v, r) => v = w BY <2>1, <2>2 DEF OnePlace
    <3> QED BY <1>1, <1>2, <1>3, <3>1 DEF Has, SameOthers
  <2>5. ~AtAgent(r)' BY <2>3, <2>4 DEF AtAgent
  <2>6. OnePlace(r)' BY <2>3, <2>4 DEF OnePlace
  <2>7. EffectFits(r)' BY <2>3, <2>4 DEF EffectFits
  <2>8. TokenFits(r)' BY <1>2, <2>5 DEF TokenFits
  <2>9. OkIsDone(r)'
    BY <1>2, <2>1, <2>4 DEF OkIsDone, wireVars
  <2> QED BY <2>6, <2>7, <2>8, <2>9 DEF JobInv
<1> QED BY <1>4, <1>5, <1>6, <1>7 DEF AgentInv

LEMMA WorkerKeeps ==
  ASSUME AgentInv, NEW w \in Workers, WorkerNext(w) PROVE AgentInv'
<1>1. Unregister(w) => JobOf(w) \in Requests BY BusyWorker DEF Unregister, At
<1>2. CASE SendStep(w)
  BY <1>2, SendReplyKeeps, SendReplyFailsKeeps, CancelDuringSendKeeps, ReplyAckedKeeps, AckLostKeeps
  DEF SendStep
<1>3. WorkerLane(w) \in Lanes BY DEF WorkerLane, Lanes
<1> QED BY <1>1, <1>2, <1>3, TakeJobKeeps, SkipCancelledKeeps, StartCommandKeeps, AbortCommandKeeps,
           FinishCommandKeeps, UnregisterKeeps DEF WorkerNext, WorkerProceeds

LEMMA AgentKeeps == AgentInv /\ AgentNext => AgentInv'
BY HandlerKeeps, WorkerKeeps, ConnectKeeps, DropKeeps, CrashKeeps DEF AgentNext

(* What a step of the agent may make of a command. *)
EffectMoves(r) ==
  \/ effect'[r] = effect[r]
  \/ effect[r] = "none" /\ effect'[r] = "running" /\ AtAgent(r) /\ reg[r] # "cancelled"
  \/ effect[r] = "running" /\ effect'[r] \in {"done", "aborted"}

LEMMA AgentMoves ==
  ASSUME AgentInv, AgentNext, NEW r \in Requests PROVE EffectMoves(r)
<1>1. CASE AgentCrash BY <1>1 DEF AgentCrash, EffectMoves
<1>2. ASSUME NEW w \in Workers, WorkerNext(w) PROVE EffectMoves(r)
  <2>1. JobOf(w) = r =>
          /\ AtAgent(r)
          /\ At(w, "check") => effect[r] = "none"
          /\ At(w, "run") => effect[r] = "running"
    BY DEF AgentInv, JobInv, EffectFits, Has, AtAgent, JobOf, At
  <2>2. effect \in [Requests -> Effect] BY DEF AgentInv, AgentTypeOK
  <2>3. CASE StartCommand(w) BY <2>1, <2>2, <2>3 DEF StartCommand, EffectMoves
  <2>4. CASE AbortCommand(w) BY <2>1, <2>2, <2>4 DEF AbortCommand, EffectMoves
  <2>5. CASE \E reply \in Reply : FinishCommand(w, reply)
    BY <2>1, <2>2, <2>5 DEF FinishCommand, EffectMoves
  <2>6. CASE TakeJob(w) \/ SkipCancelled(w) \/ SendStep(w) \/ Unregister(w)
    BY <2>6 DEF TakeJob, SkipCancelled, SendStep, SendReply, SendReplyFails, CancelDuringSend,
       ReplyAcked, AckLost, Unregister, EffectMoves
  <2> QED BY <1>2, <2>3, <2>4, <2>5, <2>6 DEF WorkerNext, WorkerProceeds
<1>3. CASE HandlerNext \/ AgentConnect \/ LinkDrop
  BY <1>3 DEF HandlerNext, ReceiveRequest, RefuseRequest, ReceiveCancel, Enqueue, AgentConnect, LinkDrop,
     agentVars, EffectMoves
<1> QED BY <1>1, <1>2, <1>3 DEF AgentNext

(* The requests of the workers do not change while they work. *)
LEMMA JobsStay ==
  ASSUME AgentTypeOK, NEW w \in Workers, WorkerNext(w), ~TakeJob(w), ~Unregister(w)
  PROVE  \A v \in Workers : worker'[v].req = worker[v].req
<1>1. \A step \in Step : Move(w, step) => \A v \in Workers : worker'[v].req = worker[v].req
  BY AfterMove DEF SameOthers
<1>2. \A reply \in Reply, last \in BOOLEAN :
        Answer(w, reply, last) => \A v \in Workers : worker'[v].req = worker[v].req
  BY AfterAnswer DEF SameOthers
<1>3. SkipCancelled(w) \/ StartCommand(w) \/ AbortCommand(w) => \A v \in Workers : worker'[v].req = worker[v].req
  BY <1>1, <1>2 DEF SkipCancelled, StartCommand, AbortCommand, Step, Reply
<1>4. ASSUME NEW reply \in Reply, FinishCommand(w, reply) PROVE \A v \in Workers : worker'[v].req = worker[v].req
  BY <1>2, <1>4 DEF FinishCommand
<1>5. ASSUME SendReply(w) PROVE \A v \in Workers : worker'[v].req = worker[v].req
  <2>1. worker[w] \in WorkerState BY DEF AgentTypeOK
  <2>2. worker' = [worker EXCEPT ![w] = [worker[w] EXCEPT !.step = "ack", !.conn = link]]
    BY <1>5 DEF SendReply, AgentTypeOK
  <2> QED BY <2>1, <2>2 DEF AgentTypeOK, WorkerState
<1>6. SendStep(w) => \A v \in Workers : worker'[v].req = worker[v].req
  BY <1>1, <1>2, <1>5 DEF SendStep, SendReplyFails, CancelDuringSend, ReplyAcked, AckLost, Step, Reply
<1> QED BY <1>3, <1>4, <1>6 DEF WorkerNext, WorkerProceeds

(* The agent runs nothing that it was not asked for. *)
LEMMA AwayStays ==
  ASSUME AgentInv, AgentNext, NEW r \in Requests, Away(r) PROVE Away(r)'
<1>1. WireTypeOK /\ AgentTypeOK /\ r # NoReq
  BY AgentAssumption DEF AgentInv
<1>2. ASSUME NEW q \in Requests, ReceiveRequest(q) \/ RefuseRequest(q) \/ ReceiveCancel(q)
      PROVE  Away(r)'
  <2>1. \A c \in Conns : In(toAgent'[c], Ask(r)) => OnWire(r, c)
    BY <1>1, <1>2, AfterTake DEF ReceiveRequest, RefuseRequest, ReceiveCancel, OnWire
  <2>2. ReceiveRequest(q) => q # r
    BY <1>1, AfterTake DEF ReceiveRequest, Away, OnWire, Ask
  <2> QED BY <1>2, <2>1, <2>2, AwayStill DEF ReceiveRequest, RefuseRequest, ReceiveCancel, Waits, Has
<1>3. CASE Enqueue
  <2>1. handler \in Requests /\ Lane(handler) \in Lanes
    BY <1>1, <1>3 DEF Enqueue, AgentTypeOK, Lane, Lanes
  <2>2. \A lane \in Lanes : In(queue'[lane], r) => Waits(r, lane) \/ r = handler
    BY <1>1, <1>3, <2>1, AfterEnqueue DEF Enqueue, Waits
  <2> QED BY <1>1, <1>3, <2>2, AwayStill DEF Enqueue, Away, AtAgent, OnWire, Has, wireVars
<1>4. ASSUME NEW w \in Workers, TakeJob(w) PROVE Away(r)'
  <2>1. PICK lane : lane = WorkerLane(w) OBVIOUS
  <2>2. lane \in Lanes /\ queue[lane] \in Seq(Requests) /\ queue[lane] # <<>>
    BY <1>1, <1>4, <2>1 DEF TakeJob, WorkerLane, Lanes, AgentTypeOK
  <2>3. In(queue[lane], Head(queue[lane])) /\ \A x : In(Tail(queue[lane]), x) => In(queue[lane], x)
    BY <2>2, InTail
  <2>4. queue' = [queue EXCEPT ![lane] = Tail(queue[lane])]
    BY <1>4, <2>1 DEF TakeJob
  <2>5. \A l \in Lanes : In(queue'[l], r) => Waits(r, l)
    BY <1>1, <2>2, <2>3, <2>4 DEF AgentTypeOK, Waits
  <2>6. Head(queue[lane]) # r
    BY <2>2, <2>3 DEF Away, AtAgent, Waits
  <2>7. worker' = [worker EXCEPT ![w] = [worker[w] EXCEPT !.step = "check", !.req = Head(queue[lane])]]
    BY <1>1, <1>4, <2>1 DEF TakeJob, AgentTypeOK
  <2>8. \A v \in Workers : worker'[v].req = r => Has(v, r)
    <3>1. worker[w] \in WorkerState BY <1>1 DEF AgentTypeOK
    <3> QED BY <1>1, <2>6, <2>7, <3>1 DEF AgentTypeOK, WorkerState, Has
  <2> QED BY <1>4, <2>5, <2>8, AwayStill DEF TakeJob, OnWire, wireVars
<1>5. ASSUME NEW w \in Workers, Unregister(w) PROVE Away(r)'
  <2>1. \A v \in Workers : worker'[v].req = r => Has(v, r)
    BY <1>1, <1>5 DEF Unregister, AgentTypeOK, IdleWorker, Has
  <2> QED BY <1>5, <2>1, AwayStill DEF Unregister, OnWire, Waits, wireVars
<1>6. ASSUME NEW w \in Workers, WorkerNext(w), ~TakeJob(w), ~Unregister(w) PROVE Away(r)'
  <2>1. \A v \in Workers : worker'[v].req = worker[v].req
    BY <1>1, <1>6, JobsStay
  <2>2. UNCHANGED <<handler, queue, toAgent>>
    BY <1>6 DEF WorkerNext, WorkerProceeds, SkipCancelled, StartCommand, AbortCommand,
       FinishCommand, SendStep, SendReply,
       SendReplyFails, CancelDuringSend, ReplyAcked, AckLost, wireVars
  <2> QED BY <2>1, <2>2, AwayStill DEF OnWire, Waits, Has
<1>7. CASE AgentConnect
  BY <1>7, AwayStill DEF AgentConnect, Connect, agentVars, OnWire, Waits, Has
<1>8. CASE LinkDrop
  <2>1. WireStill(r) BY <1>1, <1>8, CutStill DEF LinkDrop, Drop
  <2> QED BY <1>8, <2>1, AwayStill DEF WireStill, LinkDrop, agentVars, Waits, Has
<1>9. CASE AgentCrash
  <2>1. /\ \A c \in Conns : ~In(toAgent'[c], Ask(r))
        /\ \A lane \in Lanes : ~In(queue'[lane], r)
        /\ \A w \in Workers : worker'[w].req # r
    BY <1>1, <1>9, InEmpty DEF AgentCrash, IdleWorker
  <2> QED BY <1>1, <1>9, <2>1, AwayStill DEF AgentCrash
<1> QED BY <1>2, <1>3, <1>4, <1>5, <1>6, <1>7, <1>8, <1>9
        DEF AgentNext, HandlerNext, WorkerNext

LEMMA NowhereStays ==
  ASSUME AgentInv, AgentNext, NEW r \in Requests, Nowhere(r) PROVE Nowhere(r)'
BY AwayStays, AgentMoves DEF Nowhere, Away, EffectMoves

(* A cancelled token stays until the command is answered for ... *)
LEMMA TokenStays ==
  ASSUME AgentInv, AgentNext, NEW r \in Requests, reg[r] = "cancelled"
  PROVE  reg'[r] = "cancelled" \/ Away(r)'
<1>1. reg'[r] = "none" => ~AtAgent(r)'
  BY AgentKeeps DEF AgentInv, JobInv, TokenFits
<1>2. WireTypeOK /\ AgentTypeOK /\ OnePlace(r)
  BY DEF AgentInv, JobInv
<1>3. \/ reg'[r] = "cancelled"
      \/ reg'[r] = "none" /\ \A c \in Conns : ~OnWire(r, c)'
  <2>1. ASSUME NEW q \in Requests, ReceiveRequest(q), q = r
        PROVE  reg'[r] = "none" /\ \A c \in Conns : ~OnWire(r, c)'
    <3>1. TakeFromApp(Ask(r)) BY <2>1 DEF ReceiveRequest, Ask
    <3>2. \A c \in Conns : ~OnWire(r, c)'
      BY <1>2, <3>1, AfterTake DEF OnePlace, OnWire
    <3> QED BY <1>2, <2>1, <3>2 DEF ReceiveRequest, AgentTypeOK
  <2>2. ASSUME NEW q \in Requests, ReceiveRequest(q), q # r PROVE reg'[r] = reg[r]
    BY <1>2, <2>2 DEF ReceiveRequest, AgentTypeOK
  <2>3. ASSUME NEW q \in Requests, ReceiveCancel(q) PROVE reg'[r] = "cancelled"
    BY <1>2, <2>3 DEF ReceiveCancel, AgentTypeOK
  <2>4. ASSUME AtAgent(r), toAgent' = toAgent PROVE \A c \in Conns : ~OnWire(r, c)'
    BY <1>2, <2>4 DEF OnePlace, OnWire
  <2>5. ASSUME NEW q \in Requests, RefuseRequest(q) PROVE reg'[r] = reg[r]
    BY <1>2, <2>5 DEF RefuseRequest, AgentTypeOK
  <2>6. ASSUME NEW w \in Workers, Unregister(w)
        PROVE  reg'[r] = reg[r] \/ (reg'[r] = "none" /\ AtAgent(r) /\ toAgent' = toAgent)
    BY <1>2, <2>6 DEF Unregister, AgentTypeOK, AtAgent, Has, JobOf, wireVars
  <2>7. ASSUME AgentCrash PROVE reg'[r] = "none" /\ \A c \in Conns : ~OnWire(r, c)'
    BY <2>7, InEmpty DEF AgentCrash, OnWire
  <2>8. ASSUME NEW w \in Workers, WorkerNext(w), ~Unregister(w) PROVE reg' = reg
    BY <2>8 DEF WorkerNext, WorkerProceeds, TakeJob, SkipCancelled, StartCommand, AbortCommand,
       FinishCommand, SendStep,
       SendReply, SendReplyFails, CancelDuringSend, ReplyAcked, AckLost
  <2>9. Enqueue \/ AgentConnect \/ LinkDrop => reg' = reg
    BY DEF Enqueue, AgentConnect, LinkDrop, agentVars
  <2> QED BY <2>1, <2>2, <2>3, <2>4, <2>5, <2>6, <2>7, <2>8, <2>9 DEF AgentNext, HandlerNext
<1> QED BY <1>1, <1>3 DEF Away

(* ... unrun, when it has not begun. *)
LEMMA CancelledStays ==
  ASSUME AgentInv, AgentNext, NEW r \in Requests, reg[r] = "cancelled", effect[r] = "none"
  PROVE  effect'[r] = "none" /\ (reg'[r] = "cancelled" \/ Nowhere(r)')
<1>1. effect'[r] = "none"
  BY AgentMoves DEF EffectMoves
<1> QED BY <1>1, TokenStays DEF Nowhere

LEMMA AgentInitially == WireInit /\ AgentInit => AgentInv /\ \A r \in Requests : Nowhere(r)
<1> SUFFICES ASSUME WireInit, AgentInit PROVE AgentInv /\ \A r \in Requests : Nowhere(r)
  OBVIOUS
<1>1. IdleWorker \in WorkerState /\ IdleWorker.req = NoReq /\ IdleWorker.step = "idle"
  BY DEF IdleWorker, WorkerState, Step, Reply
<1>2. WireTypeOK BY EmptySeq, MaxConnsAssumption DEF WireInit, WireTypeOK
<1>3. AgentTypeOK
  BY <1>1, EmptySeq, AgentAssumption DEF AgentInit, AgentTypeOK, Token, Effect, Cap
<1>4. \A w \in Workers : Idle(w) BY <1>1 DEF AgentInit, Idle
<1>5. ASSUME NEW r \in Requests PROVE JobInv(r) /\ Nowhere(r)
  <2>1. /\ \A c \in Conns : ~OnWire(r, c) /\ Once(toAgent[c], Ask(r)) /\ \A x : ~In(toApp[c], x)
        /\ \A lane \in Lanes : ~Waits(r, lane) /\ Once(queue[lane], r)
        /\ \A w \in Workers : ~Has(w, r)
        /\ handler # r
    BY <1>1, InEmpty, AgentAssumption DEF WireInit, AgentInit, OnWire, Waits, Has
  <2>2. ~AtAgent(r) BY <2>1 DEF AtAgent
  <2>3. effect[r] = "none" /\ reg[r] = "none"
    BY DEF AgentInit
  <2> QED BY <2>1, <2>2, <2>3 DEF JobInv, Nowhere, Away, OnePlace, EffectFits, TokenFits, OkIsDone
<1> QED BY <1>2, <1>3, <1>4, <1>5 DEF AgentInv

-----------------------------------------------------------------------------
(* The App of CommandBridge. *)

CallStill(r) ==
  /\ Unsent(r)' => Unsent(r)
  /\ call'[r] # "returned" => outcome'[r] = "none"

TcsStill(r) == tcs'[r] = "ok" => effect[r] = "done"

LEMMA AppUnchangedStill ==
  ASSUME NEW r \in Requests, CallInv(r), UNCHANGED callVars
  PROVE  CallStill(r) /\ TcsStill(r)
BY DEF CallInv, CallStill, TcsStill, callVars, Unsent

LEMMA AfterReturn ==
  ASSUME CallTypes, NEW r \in Requests, NEW how \in Outcome, Return(r, how),
         \A s \in Requests : CallInv(s), how = "notConnected" => Unsent(r)
  PROVE  /\ call' \in [Requests -> CallStep]
         /\ outcome' \in [Requests -> Outcome \cup {"none"}]
         /\ \A s \in Requests : CallStill(s)
<1>1. call' \in [Requests -> CallStep] /\ outcome' \in [Requests -> Outcome \cup {"none"}]
  BY DEF CallTypes, Return, CallStep
<1>2. ASSUME NEW s \in Requests \ {r} PROVE CallStill(s)
  <2>1. call'[s] = call[s] /\ outcome'[s] = outcome[s] BY DEF CallTypes, Return
  <2> QED BY <2>1 DEF CallStill, Unsent, CallInv
<1>3. CallStill(r)
  <2>1. call'[r] = "returned" /\ outcome'[r] = how BY DEF CallTypes, Return
  <2> QED BY <2>1 DEF CallStill, Unsent
<1> QED BY <1>1, <1>2, <1>3

LEMMA CallMoves ==
  ASSUME CallTypes, NEW r \in Requests, NEW step \in {"registered", "sending", "awaiting"},
         Unsent(r), call[r] # "returned",
         call' = [call EXCEPT ![r] = step], outcome' = outcome,
         \A s \in Requests : CallInv(s)
  PROVE  /\ call' \in [Requests -> CallStep]
         /\ \A s \in Requests : CallStill(s)
<1>1. call' \in [Requests -> CallStep]
  BY DEF CallTypes, CallStep
<1>2. ASSUME NEW s \in Requests \ {r} PROVE CallStill(s)
  <2>1. call'[s] = call[s] /\ outcome'[s] = outcome[s] BY DEF CallTypes
  <2> QED BY <2>1 DEF CallStill, Unsent, CallInv
<1>3. CallStill(r)
  BY DEF CallStill, Unsent, CallInv
<1> QED BY <1>1, <1>2, <1>3

LEMMA AfterSettle ==
  ASSUME CallTypes, NEW r \in Requests, NEW how \in Settled, SettleIfPending(r, how),
         \A s \in Requests : CallInv(s), how = "ok" => effect[r] = "done"
  PROVE  /\ tcs' \in [Requests -> Settled \cup {"open"}]
         /\ \A s \in Requests : TcsStill(s)
BY DEF CallTypes, SettleIfPending, TcsStill, CallInv

(* A step of the App that sends no request leaves every request as it is. *)
LEMMA AppStill ==
  ASSUME IInv, UNCHANGED agentVars, WireTypeOK', CallTypes',
         \A r \in Requests : WireStill(r) /\ ToAppStill(r) /\ CallStill(r) /\ TcsStill(r)
  PROVE  IInv'
<1>1. AgentTypeOK' /\ \A w \in Workers : Idle(w)'
  BY DEF IInv, AgentInv, AgentTypeOK, Idle, agentVars
<1>2. AgentInv'
  BY <1>1, AgentStill, UnchangedStill DEF IInv
<1>3. ASSUME NEW r \in Requests PROVE CallInv(r)'
  <2>1. Nowhere(r) => Nowhere(r)'
    BY NowhereStill, UnchangedStill DEF WireStill, QueueStill, WorkerStill
  <2>2. effect' = effect BY DEF agentVars
  <2> QED BY <2>1, <2>2 DEF IInv, CallInv, CallStill, TcsStill
<1> QED BY <1>2, <1>3 DEF IInv

LEMMA BeginCallKeeps ==
  ASSUME IInv, NEW r \in Requests, BeginCall(r), UNCHANGED agentVars PROVE IInv'
<1>1. Unsent(r) BY DEF BeginCall, Unsent
<1>2. /\ call' \in [Requests -> CallStep]
      /\ outcome' \in [Requests -> Outcome \cup {"none"}]
      /\ \A s \in Requests : CallStill(s)
  <2>1. CASE Return(r, "notConnected")
    BY <1>1, <2>1, AfterReturn DEF IInv, AgentInv, Outcome
  <2>2. CASE ~Return(r, "notConnected")
    BY <1>1, <2>2, CallMoves DEF IInv, AgentInv, BeginCall, CallTypes
  <2> QED BY <2>1, <2>2
<1>3. WireTypeOK' /\ CallTypes'
  BY <1>2 DEF IInv, AgentInv, WireTypeOK, CallTypes, BeginCall, wireVars
<1>4. ASSUME NEW s \in Requests PROVE WireStill(s) /\ ToAppStill(s) /\ TcsStill(s)
  BY UnchangedStill DEF BeginCall, wireVars, TcsStill, IInv, CallInv
<1> QED BY <1>2, <1>3, <1>4, AppStill

LEMMA AddPendingKeeps ==
  ASSUME IInv, NEW r \in Requests, AddPending(r), UNCHANGED agentVars PROVE IInv'
<1>1. Unsent(r) BY DEF AddPending, Unsent
<1>2. /\ call' \in [Requests -> CallStep]
      /\ \A s \in Requests : CallStill(s)
  BY <1>1, CallMoves DEF IInv, AgentInv, AddPending
<1>3. WireTypeOK' /\ CallTypes'
  BY <1>2 DEF IInv, AgentInv, WireTypeOK, CallTypes, AddPending, wireVars
<1>4. ASSUME NEW s \in Requests PROVE WireStill(s) /\ ToAppStill(s) /\ TcsStill(s)
  BY UnchangedStill DEF AddPending, wireVars, TcsStill, IInv, CallInv
<1> QED BY <1>2, <1>3, <1>4, AppStill

LEMMA FireKeeps ==
  ASSUME IInv, NEW r \in Requests, NEW why \in Causes, Fire(r, why), UNCHANGED agentVars PROVE IInv'
<1>1. /\ toAgent' \in [Conns -> Seq(ToAgentMsg)]
      /\ \A s \in Requests : WireStill(s)
      /\ tcs' \in [Requests -> Settled \cup {"open"}]
      /\ \A s \in Requests : TcsStill(s)
  <2>1. CASE SettleIfPending(r, "canceled") /\ NotifyCancel(r)
    BY <2>1, AfterSettle, CancelStill DEF IInv, AgentInv, Settled, NotifyCancel
  <2>2. CASE UNCHANGED <<tcs, toAgent>>
    BY <2>2, UnchangedStill DEF IInv, AgentInv, WireTypeOK, CallTypes, TcsStill, CallInv
  <2> QED BY <2>1, <2>2 DEF Fire
<1>2. WireTypeOK' /\ CallTypes'
  BY <1>1 DEF IInv, AgentInv, WireTypeOK, CallTypes, Fire
<1>3. ASSUME NEW s \in Requests PROVE ToAppStill(s) /\ CallStill(s)
  BY UnchangedStill DEF Fire, CallStill, Unsent, IInv, CallInv
<1> QED BY <1>1, <1>2, <1>3, AppStill

LEMMA SendCancelledKeeps ==
  ASSUME IInv, NEW r \in Requests, SendCancelled(r), UNCHANGED agentVars PROVE IInv'
<1>1. /\ toAgent' \in [Conns -> Seq(ToAgentMsg)]
      /\ \A s \in Requests : WireStill(s)
  BY CancelStill DEF SendCancelled, NotifyCancel, IInv, AgentInv
<1>2. /\ call' \in [Requests -> CallStep]
      /\ outcome' \in [Requests -> Outcome \cup {"none"}]
      /\ \A s \in Requests : CallStill(s)
  BY AfterReturn DEF SendCancelled, IInv, AgentInv, Outcome
<1>3. WireTypeOK' /\ CallTypes'
  BY <1>1, <1>2 DEF IInv, AgentInv, WireTypeOK, CallTypes, SendCancelled
<1>4. ASSUME NEW s \in Requests PROVE ToAppStill(s) /\ TcsStill(s)
  BY UnchangedStill DEF SendCancelled, TcsStill, IInv, CallInv
<1> QED BY <1>1, <1>2, <1>3, <1>4, AppStill

LEMMA SendThrowsKeeps ==
  ASSUME IInv, NEW r \in Requests, SendThrows(r), UNCHANGED agentVars PROVE IInv'
<1>1. /\ tcs' \in [Requests -> Settled \cup {"open"}]
      /\ \A s \in Requests : TcsStill(s)
  BY AfterSettle DEF SendThrows, IInv, AgentInv, Settled
<1>2. /\ call' \in [Requests -> CallStep]
      /\ outcome' \in [Requests -> Outcome \cup {"none"}]
      /\ \A s \in Requests : CallStill(s)
  BY AfterReturn DEF SendThrows, IInv, AgentInv, Outcome
<1>3. WireTypeOK' /\ CallTypes'
  BY <1>1, <1>2 DEF IInv, AgentInv, WireTypeOK, CallTypes, SendThrows, wireVars
<1>4. ASSUME NEW s \in Requests PROVE ToAppStill(s) /\ WireStill(s)
  BY UnchangedStill DEF SendThrows, wireVars
<1> QED BY <1>1, <1>2, <1>3, <1>4, AppStill

LEMMA AwaitResultKeeps ==
  ASSUME IInv, NEW r \in Requests, AwaitResult(r), UNCHANGED agentVars PROVE IInv'
<1>1. /\ toAgent' \in [Conns -> Seq(ToAgentMsg)]
      /\ \A s \in Requests : WireStill(s)
  BY CancelStill, UnchangedStill DEF AwaitResult, NotifyCancel, IInv, AgentInv, WireTypeOK
<1>2. PICK how \in Outcome \ {"notConnected"} : Return(r, how)
  <2>1. tcs[r] \in Settled BY DEF AwaitResult, IInv, AgentInv, CallTypes
  <2>2. CASE tcs[r] = "canceled"
    BY <2>2 DEF AwaitResult, Outcome
  <2>3. CASE tcs[r] # "canceled"
    BY <2>1, <2>3 DEF AwaitResult, Outcome, Settled, Reply
  <2> QED BY <2>2, <2>3
<1>3. /\ call' \in [Requests -> CallStep]
      /\ outcome' \in [Requests -> Outcome \cup {"none"}]
      /\ \A s \in Requests : CallStill(s)
  BY <1>2, AfterReturn DEF IInv, AgentInv
<1>4. WireTypeOK' /\ CallTypes'
  BY <1>1, <1>3 DEF IInv, AgentInv, WireTypeOK, CallTypes, AwaitResult
<1>5. ASSUME NEW s \in Requests PROVE ToAppStill(s) /\ TcsStill(s)
  BY UnchangedStill DEF AwaitResult, TcsStill, IInv, CallInv
<1> QED BY <1>1, <1>3, <1>4, <1>5, AppStill

(* The one step that puts a request on the wire: it was nowhere. *)
LEMMA SendRequestKeeps ==
  ASSUME IInv, NEW r \in Requests, SendRequest(r), UNCHANGED agentVars PROVE IInv'
<1>1. Unsent(r) /\ call[r] # "returned" BY DEF SendRequest, Unsent
<1>2. /\ AgentInv'
      /\ \A s \in Requests \ {r} : Nowhere(s) => Nowhere(s)'
  <2>1. Nowhere(r) BY <1>1 DEF IInv, CallInv
  <2>2. PushToAgent(target[r], Ask(r)) /\ UNCHANGED <<opened, link, toApp, agentVars>>
    BY DEF SendRequest, Ask
  <2> QED BY <2>1, <2>2, AskKeeps DEF IInv
<1>3. call' \in [Requests -> CallStep] /\ \A s \in Requests : CallStill(s)
  BY <1>1, CallMoves DEF IInv, SendRequest
<1>4. CallTypes' /\ effect' = effect
  BY <1>3 DEF IInv, CallTypes, SendRequest, agentVars
<1>5. ASSUME NEW s \in Requests PROVE CallInv(s)'
  <2>1. Unsent(s)' => s # r
    BY <1>1 DEF SendRequest, IInv, CallTypes, CallInv, Unsent
  <2> QED BY <1>2, <1>3, <1>4, <2>1 DEF CallInv, CallStill, SendRequest, IInv
<1> QED BY <1>2, <1>4, <1>5 DEF IInv

LEMMA ResponseCommandKeeps ==
  ASSUME IInv, NEW c \in Conns, ResponseCommand(c), UNCHANGED agentVars PROVE IInv'
<1> DEFINE m == Head(toApp[c])
<1>1. toApp[c] \in Seq(ToAppMsg) /\ toApp[c] # <<>>
  BY DEF ResponseCommand, IInv, AgentInv, WireTypeOK
<1>2. /\ m \in ToAppMsg /\ Tail(toApp[c]) \in Seq(ToAppMsg)
      /\ In(toApp[c], m)
      /\ \A x : In(Tail(toApp[c]), x) => In(toApp[c], x)
  BY <1>1, InTail
<1>3. m.req \in Requests /\ m.reply \in Settled /\ m = [req |-> m.req, reply |-> m.reply]
  BY <1>2 DEF ToAppMsg, Settled
<1>4. m.reply = "ok" => effect[m.req] = "done"
  BY <1>2, <1>3 DEF IInv, AgentInv, JobInv, OkIsDone
<1>5. SettleIfPending(m.req, m.reply) /\ toApp' = [toApp EXCEPT ![c] = Tail(toApp[c])]
  BY DEF ResponseCommand
<1> HIDE DEF m
<1>6. /\ tcs' \in [Requests -> Settled \cup {"open"}]
      /\ \A s \in Requests : TcsStill(s)
  BY <1>3, <1>4, <1>5, AfterSettle DEF IInv, AgentInv
<1>7. toApp' \in [Conns -> Seq(ToAppMsg)] /\ \A s \in Requests : ToAppStill(s)
  BY <1>2, <1>5 DEF IInv, AgentInv, WireTypeOK, ToAppStill
<1>8. WireTypeOK' /\ CallTypes'
  BY <1>6, <1>7 DEF IInv, AgentInv, WireTypeOK, CallTypes, ResponseCommand
<1>9. ASSUME NEW s \in Requests PROVE WireStill(s) /\ CallStill(s)
  BY UnchangedStill DEF ResponseCommand, CallStill, Unsent, IInv, CallInv
<1> QED BY <1>6, <1>7, <1>8, <1>9, AppStill

LEMMA FailOneKeeps ==
  ASSUME IInv, NEW c \in Conns, NEW r \in Requests, FailOne(c, r), UNCHANGED agentVars PROVE IInv'
<1>1. /\ tcs' \in [Requests -> Settled \cup {"open"}]
      /\ \A s \in Requests : TcsStill(s)
  BY AfterSettle DEF FailOne, IInv, AgentInv, Settled
<1>2. WireTypeOK' /\ CallTypes'
  BY <1>1 DEF IInv, AgentInv, WireTypeOK, CallTypes, FailOne, wireVars
<1>3. ASSUME NEW s \in Requests PROVE WireStill(s) /\ ToAppStill(s) /\ CallStill(s)
  BY UnchangedStill DEF FailOne, wireVars, CallStill, Unsent, IInv, CallInv
<1> QED BY <1>1, <1>2, <1>3, AppStill

(* The steps of the hub that move neither a message nor a call. *)
LEMMA HubKeeps ==
  ASSUME IInv, UNCHANGED <<wireVars, callVars, agentVars>> PROVE IInv'
<1>1. WireTypeOK' /\ CallTypes'
  BY DEF IInv, AgentInv, WireTypeOK, CallTypes, wireVars, callVars
<1>2. ASSUME NEW s \in Requests PROVE WireStill(s) /\ ToAppStill(s) /\ CallStill(s) /\ TcsStill(s)
  BY UnchangedStill, AppUnchangedStill DEF wireVars, IInv
<1> QED BY <1>1, <1>2, AppStill

LEMMA AppKeeps == IInv /\ AppNext /\ UNCHANGED agentVars => IInv'
<1> SUFFICES ASSUME IInv, AppNext, UNCHANGED agentVars PROVE IInv'
  OBVIOUS
<1>1. ASSUME NEW r \in Requests, CallNext(r) PROVE IInv'
  BY <1>1, BeginCallKeeps, AddPendingKeeps, SendRequestKeeps, SendCancelledKeeps, SendThrowsKeeps,
     AwaitResultKeeps, FireKeeps DEF CallNext
<1>2. ASSUME NEW c \in Conns, HubNext(c) PROVE IInv'
  <2>1. CASE ResponseCommand(c) BY <2>1, ResponseCommandKeeps
  <2>2. CASE \E r \in Requests : FailOne(c, r) BY <2>2, FailOneKeeps
  <2>3. CASE OnConnected(c) \/ OnDisconnected(c) \/ FailAllBegin(c) \/ FailAllEnd(c)
    BY <2>3, HubKeeps DEF OnConnected, OnDisconnected, FailAllBegin, FailAllEnd
  <2> QED BY <1>2, <2>1, <2>2, <2>3 DEF HubNext
<1> QED BY <1>1, <1>2 DEF AppNext

-----------------------------------------------------------------------------
(* The invariant. *)

LEMMA Initially == Init => IInv
<1> SUFFICES ASSUME Init PROVE IInv
  OBVIOUS
<1>1. AgentInv /\ \A r \in Requests : Nowhere(r) BY AgentInitially DEF Init
<1>2. CallTypes BY DEF Init, AppInit, CallTypes, CallStep
<1>3. \A r \in Requests : CallInv(r) BY <1>1 DEF Init, AppInit, CallInv
<1> QED BY <1>1, <1>2, <1>3 DEF IInv

LEMMA AgentSideKeeps == IInv /\ AgentNext /\ UNCHANGED appVars => IInv'
<1> SUFFICES ASSUME IInv, AgentNext, UNCHANGED appVars PROVE IInv'
  OBVIOUS
<1>1. AgentInv' BY AgentKeeps DEF IInv
<1>2. \A r \in Requests : (Nowhere(r) => Nowhere(r)') /\ (effect[r] = "done" => effect'[r] = "done")
  BY NowhereStays, AgentMoves DEF IInv, EffectMoves
<1>3. UNCHANGED <<call, tcs, outcome>> BY DEF appVars, callVars
<1>4. CallTypes' BY <1>3 DEF IInv, CallTypes
<1>5. \A r \in Requests : CallInv(r)'
  BY <1>2, <1>3 DEF IInv, CallInv, Unsent
<1> QED BY <1>1, <1>4, <1>5 DEF IInv

LEMMA Inductive == IInv /\ [Next]_vars => IInv'
<1> SUFFICES ASSUME IInv, [Next]_vars PROVE IInv'
  OBVIOUS
<1>1. CASE UNCHANGED vars
  BY <1>1, HubKeeps DEF vars, appVars
<1>2. CASE Next
  BY <1>2, AppKeeps, AgentSideKeeps DEF Next
<1> QED BY <1>1, <1>2

LEMMA Invariant == Spec => []IInv
BY Initially, Inductive, PTL DEF Spec

-----------------------------------------------------------------------------
(* Refinement: every step is a step of AtMostOnceCall, or none. *)

LEMMA ViewValues ==
  ASSUME NEW r \in Requests
  PROVE  /\ CallerView[r] = "new" <=> call[r] = "new"
         /\ CallerView[r] = "open" <=> call[r] \notin {"new", "returned"}
         /\ call[r] = "returned" =>
              /\ CallerView[r] = "refused" <=> outcome[r] = "notConnected"
              /\ CallerView[r] = "ok" <=> outcome[r] = "ok"
              /\ CallerView[r] = "error" <=> outcome[r] \notin {"notConnected", "ok"}
BY DEF CallerView

LEMMA ViewUnchanged ==
  ASSUME UNCHANGED <<call, outcome>> PROVE CallerView' = CallerView
BY DEF CallerView

LEMMA ViewReturns ==
  ASSUME CallTypes, NEW r \in Requests, NEW how, Return(r, how)
  PROVE  CallerView' = [CallerView EXCEPT ![r] =
           IF how = "notConnected" THEN "refused" ELSE IF how = "ok" THEN "ok" ELSE "error"]
BY DEF CallTypes, Return, CallerView

LEMMA ViewMoves ==
  ASSUME CallTypes, NEW r \in Requests, NEW step \in {"registered", "sending", "awaiting"},
         call[r] # "returned",
         call' = [call EXCEPT ![r] = step], outcome' = outcome
  PROVE  CallerView' = [CallerView EXCEPT ![r] = "open"]
BY DEF CallTypes, CallerView

LEMMA CallerStep ==
  ASSUME IInv, NEW r \in Requests, CallNext(r), UNCHANGED agentVars
  PROVE  [AMO!Next]_(AMO!vars)
<1>1. CallTypes /\ effect' = effect BY DEF IInv, agentVars
<1>2. CASE BeginCall(r)
  <2>1. CallerView[r] = "new" BY <1>2, ViewValues DEF BeginCall
  <2>2. CASE Return(r, "notConnected")
    <3>1. AMO!Refuse(r) BY <1>1, <2>1, <2>2, ViewReturns DEF AMO!Refuse, AMO!Move
    <3> QED BY <3>1 DEF AMO!Next
  <2>3. CASE ~Return(r, "notConnected")
    <3>1. CallerView' = [CallerView EXCEPT ![r] = "open"]
      BY <1>1, <1>2, <2>3, ViewMoves DEF BeginCall
    <3>2. AMO!Issue(r) BY <1>1, <2>1, <3>1 DEF AMO!Issue, AMO!Move
    <3> QED BY <3>2 DEF AMO!Next
  <2> QED BY <2>2, <2>3
<1>3. CASE AddPending(r) \/ SendRequest(r)
  <2>1. CallerView' = [CallerView EXCEPT ![r] = "open"]
    BY <1>1, <1>3, ViewMoves DEF AddPending, SendRequest
  <2>2. CallerView[r] = "open" BY <1>3, ViewValues DEF AddPending, SendRequest
  <2>3. CallerView' = CallerView BY <2>1, <2>2 DEF CallerView
  <2> QED BY <1>1, <2>3 DEF AMO!vars
<1>4. CASE SendCancelled(r) \/ SendThrows(r)
  <2>1. CallerView[r] = "open" BY <1>4, ViewValues DEF SendCancelled, SendThrows
  <2>2. CallerView' = [CallerView EXCEPT ![r] = "error"]
    BY <1>1, <1>4, ViewReturns DEF SendCancelled, SendThrows
  <2>3. AMO!CloseError(r) BY <1>1, <2>1, <2>2 DEF AMO!CloseError, AMO!Move
  <2> QED BY <2>3 DEF AMO!Next
<1>5. CASE AwaitResult(r)
  <2>1. CallerView[r] = "open" BY <1>5, ViewValues DEF AwaitResult
  <2>2. tcs[r] = "ok" => effect[r] = "done" BY DEF IInv, CallInv
  <2>3. tcs[r] \in Settled BY <1>1, <1>5 DEF AwaitResult, CallTypes
  <2>4. CASE tcs[r] = "ok"
    <3>1. CallerView' = [CallerView EXCEPT ![r] = "ok"]
      BY <1>1, <1>5, <2>4, ViewReturns DEF AwaitResult
    <3>2. AMO!CloseOk(r) BY <1>1, <2>1, <2>2, <2>4, <3>1 DEF AMO!CloseOk, AMO!Move
    <3> QED BY <3>2 DEF AMO!Next
  <2>5. CASE tcs[r] # "ok"
    <3>1. PICK how : Return(r, how) /\ how \notin {"notConnected", "ok"}
      BY <1>5, <2>3, <2>5 DEF AwaitResult, Settled, Reply
    <3>2. CallerView' = [CallerView EXCEPT ![r] = "error"]
      BY <1>1, <3>1, ViewReturns
    <3>3. AMO!CloseError(r) BY <1>1, <2>1, <3>2 DEF AMO!CloseError, AMO!Move
    <3> QED BY <3>3 DEF AMO!Next
  <2> QED BY <2>4, <2>5
<1>6. CASE \E why \in Causes : Fire(r, why)
  BY <1>1, <1>6, ViewUnchanged DEF Fire, AMO!vars
<1> QED BY <1>2, <1>3, <1>4, <1>5, <1>6 DEF CallNext

LEMMA WorkerStep ==
  ASSUME IInv, NEW w \in Workers, WorkerNext(w), UNCHANGED appVars
  PROVE  [AMO!Next]_(AMO!vars)
<1> DEFINE r == JobOf(w)
<1>1. CallerView' = CallerView /\ effect \in [Requests -> Effect]
  BY ViewUnchanged DEF appVars, callVars, IInv, AgentInv, AgentTypeOK
<1>2. ASSUME At(w, "check") \/ At(w, "run")
      PROVE  /\ r \in Requests
             /\ CallerView[r] \notin {"new", "refused"}
             /\ At(w, "check") => effect[r] = "none"
             /\ At(w, "run") => effect[r] = "running"
  <2>1. r \in Requests BY <1>2, BusyWorker DEF IInv, At
  <2>2. Has(w, r) /\ AtAgent(r) BY DEF Has, AtAgent, JobOf
  <2>3. JobInv(r) BY <2>1 DEF IInv, AgentInv
  <2>4. ~Unsent(r) BY <2>1, <2>2 DEF IInv, CallInv, Nowhere, Away
  <2>5. CallerView[r] \notin {"new", "refused"}
    BY <2>1, <2>4, ViewValues DEF Unsent, CallerView
  <2>6. /\ At(w, "check") => effect[r] = "none"
        /\ At(w, "run") => effect[r] = "running"
    BY <2>2, <2>3 DEF JobInv, EffectFits, At
  <2> QED BY <2>1, <2>5, <2>6
<1>3. CASE StartCommand(w)
  <2>1. AMO!Start(r) BY <1>1, <1>2, <1>3 DEF StartCommand, AMO!Start, AMO!Move
  <2> QED BY <1>2, <1>3, <2>1 DEF AMO!Next, StartCommand
<1>4. ASSUME At(w, "run"), effect' = [effect EXCEPT ![r] = "aborted"] PROVE AMO!Next
  <2>1. effect' = [s \in Requests |-> IF s \in {r} THEN "aborted" ELSE effect[s]]
    BY <1>1, <1>4
  <2>2. AMO!Abort({r}) BY <1>1, <1>2, <1>4, <2>1 DEF AMO!Abort
  <2> QED BY <1>2, <1>4, <2>2 DEF AMO!Next
<1>5. CASE AbortCommand(w)
  BY <1>4, <1>5 DEF AbortCommand
<1>6. ASSUME NEW reply \in Reply, FinishCommand(w, reply) PROVE AMO!Next
  <2>1. CASE reply = "ok"
    <3>1. AMO!Complete(r) BY <1>1, <1>2, <1>6, <2>1 DEF FinishCommand, AMO!Complete, AMO!Move
    <3> QED BY <1>2, <1>6, <3>1 DEF AMO!Next, FinishCommand
  <2>2. CASE reply # "ok"
    BY <1>4, <1>6, <2>2 DEF FinishCommand
  <2> QED BY <2>1, <2>2
<1>7. CASE TakeJob(w) \/ SkipCancelled(w) \/ SendStep(w) \/ Unregister(w)
  BY <1>1, <1>7 DEF TakeJob, SkipCancelled, SendStep, SendReply, SendReplyFails, CancelDuringSend,
     ReplyAcked, AckLost, Unregister, AMO!vars
<1> QED BY <1>3, <1>5, <1>6, <1>7 DEF WorkerNext, WorkerProceeds

LEMMA CrashStep ==
  ASSUME IInv, AgentCrash, UNCHANGED appVars
  PROVE  AMO!Next
<1> DEFINE S == {r \in Requests : effect[r] = "running"}
<1>1. CallerView' = CallerView BY ViewUnchanged DEF appVars, callVars
<1>2. AMO!Abort(S) BY <1>1 DEF AMO!Abort, AgentCrash
<1> QED BY <1>2 DEF AMO!Next

LEMMA StepRefines == IInv /\ [Next]_vars => [AMO!Next]_(AMO!vars)
<1> SUFFICES ASSUME IInv, [Next]_vars PROVE [AMO!Next]_(AMO!vars)
  OBVIOUS
<1>1. CASE UNCHANGED vars
  BY <1>1, ViewUnchanged DEF vars, appVars, callVars, agentVars, AMO!vars
<1>2. CASE AppNext /\ UNCHANGED agentVars
  <2>1. ASSUME NEW c \in Conns, HubNext(c) PROVE UNCHANGED <<call, outcome>>
    BY <2>1 DEF HubNext, OnConnected, ResponseCommand, OnDisconnected, FailAllBegin, FailAllEnd, FailOne, callVars
  <2>2. ASSUME UNCHANGED <<call, outcome>> PROVE UNCHANGED AMO!vars
    BY <1>2, <2>2, ViewUnchanged DEF agentVars, AMO!vars
  <2> QED BY <1>2, <2>1, <2>2, CallerStep DEF AppNext
<1>3. CASE AgentNext /\ UNCHANGED appVars
  <2>1. ASSUME effect' = effect PROVE UNCHANGED AMO!vars
    BY <1>3, <2>1, ViewUnchanged DEF appVars, callVars, AMO!vars
  <2>2. HandlerNext \/ AgentConnect \/ LinkDrop => effect' = effect
    BY DEF HandlerNext, ReceiveRequest, RefuseRequest, ReceiveCancel, Enqueue, AgentConnect, LinkDrop, agentVars
  <2> QED BY <1>3, <2>1, <2>2, WorkerStep, CrashStep DEF AgentNext
<1> QED BY <1>1, <1>2, <1>3 DEF Next

LEMMA InitRefines == Init => AMO!Init
<1> SUFFICES ASSUME Init PROVE AMO!Init
  OBVIOUS
<1>1. CallerView = [r \in Requests |-> "new"]
  BY DEF Init, AppInit, CallerView
<1> QED BY <1>1 DEF AMO!Init, Init, AgentInit

-----------------------------------------------------------------------------
(* The bridge is a remote call with at-most-once semantics: a caller gets
   "ok" only for a command that ran to completion, and no command runs twice
   or for a call that was refused, whatever is lost, cancelled, timed out or
   restarted (AgentBridge.SendCommandAsync to JobBackgroundService). *)
THEOREM BridgeIsAtMostOnce == Spec => ImplementsAtMostOnceCall
<1>1. Init => AMO!Init BY InitRefines
<1>2. IInv /\ [Next]_vars => [AMO!Next]_(AMO!vars) BY StepRefines
<1> QED BY <1>1, <1>2, Invariant, PTL DEF Spec, ImplementsAtMostOnceCall, AMO!Spec

-----------------------------------------------------------------------------
(* What the invariant of the agent says of its jobs. *)

LEMMA QueuedWaits ==
  ASSUME NEW r \in Requests PROVE Queued(r) <=> \E lane \in Lanes : Waits(r, lane)
BY DEF Queued, Waits, In

LEMMA AgentInvTokens == AgentInv => TokensMatchJobs
BY QueuedWaits DEF AgentInv, JobInv, TokenFits, AtAgent, Has, TokensMatchJobs,
   EveryJobCancellable, NoOrphanToken

LEMMA AgentInvOneWorker == AgentInv => OneWorkerPerJob
<1> SUFFICES ASSUME AgentInv, NEW v \in Workers, NEW w \in Workers,
                    worker[v].req = worker[w].req, worker[v].req # NoReq
             PROVE  v = w
  BY DEF OneWorkerPerJob
<1>1. worker[v].req \in Requests BY DEF AgentInv, AgentTypeOK, WorkerState
<1> QED BY <1>1 DEF AgentInv, JobInv, OnePlace, Has

LEMMA AgentInvariant == Spec => []AgentInv
<1>1. IInv => AgentInv BY DEF IInv
<1> QED BY <1>1, Invariant, PTL

(* The registry and the jobs agree (CommandJobCancellationRegistry): as long as a job
   waits or runs on the agent a CancelCommand finds its token, and no path forgets to
   unregister a job: a live token belongs to one that waits or runs. *)
THEOREM TokensFitJobs == Spec => []TokensMatchJobs
BY AgentInvTokens, AgentInvariant, PTL

(* No two workers of JobBackgroundService ever hold the same job. *)
THEOREM JobsHaveOneWorker == Spec => []OneWorkerPerJob
BY AgentInvOneWorker, AgentInvariant, PTL

-----------------------------------------------------------------------------
(* What the App promises with an arbitrary agent it promises with this one:
   of the agent's steps AppInv needs only that they keep the types of the wire
   and leave the App's variables alone. *)
LEMMA BridgeAppInv == Spec => []AppInv
<1>1. Init => AppInv
  BY InitAppInv DEF Init, AppOpenInit
<1>2. AppInv /\ IInv' /\ [Next]_vars => AppInv'
  <2> SUFFICES ASSUME AppInv, IInv', [Next]_vars PROVE AppInv'
    OBVIOUS
  <2>1. WireTypeOK' BY DEF IInv, AgentInv
  <2>2. CASE AppNext BY <2>2, AppNextStep
  <2>3. CASE UNCHANGED appVars BY <2>1, <2>3, AgentStep
  <2> QED BY <2>2, <2>3 DEF Next, vars
<1> QED BY <1>1, <1>2, Invariant, PTL DEF Spec

(* Every variable of the App, the wire and the agent keeps its type, with all
   three moving together. *)
THEOREM BridgeTypeCorrect == Spec => []TypeOK
<1>1. AppInv /\ AgentInv => TypeOK
  BY DEF AppInv, AppOpenTypeOK, AgentInv, TypeOK
<1> QED BY <1>1, BridgeAppInv, AgentInvariant, PTL

(* With the real agent too: a caller that waits can be released, and has been
   once its token has fired; Pending holds no entry of a caller that has gone;
   and the outcome a caller sees is what happened to its call. *)
THEOREM BridgeKeepsCallers ==
  Spec => [](NoLostWaiter /\ CancelReleasesCaller /\ NoLeakedEntry /\ OutcomeExplained)
<1>1. AppInv => NoLostWaiter /\ CancelReleasesCaller /\ NoLeakedEntry /\ OutcomeExplained
  BY DEF AppInv, AppOpenTypeOK, AppTypeOK, WaitInv, NoLostWaiter, CancelReleasesCaller,
         NoLeakedEntry, OutcomeExplained
<1> QED BY <1>1, BridgeAppInv, PTL

(* And a request is settled once, although the agent retries replies and a
   reply, the loss of the connection and a cancellation may meet. *)
THEOREM BridgeSettlesOnce == Spec => SettledOnce
<1>1. AppInv /\ [Next]_vars => [\A r \in Requests : tcs[r] # "open" => tcs'[r] = tcs[r]]_tcs
  <2> SUFFICES ASSUME AppInv, [Next]_vars, NEW r \in Requests, tcs[r] # "open"
               PROVE  tcs'[r] = tcs[r]
    OBVIOUS
  <2>1. CASE AppNext BY <2>1, AppSettlesOnce
  <2>2. CASE UNCHANGED appVars BY <2>2 DEF appVars, callVars
  <2> QED BY <2>1, <2>2 DEF Next, vars
<1> QED BY <1>1, BridgeAppInv, PTL DEF Spec, SettledOnce

(* And what was pending when the loss of a connection is noticed is settled when
   FailAll is done, while the agent may be reconnecting and replying again. *)
THEOREM BridgeDisconnectSettles == Spec => DisconnectFailsPending
<1>1. ASSUME NEW r \in Requests, NEW c \in Conns
      PROVE  Spec =>
               [](hub[c] = "removed" /\ r \in pending => [](hub[c] = "gone" => tcs[r] # "open"))
  <2>1. hub[c] = "removed" /\ r \in pending => Doomed(r, c)
    BY DEF Doomed
  <2>2. Doomed(r, c) => (hub[c] = "gone" => tcs[r] # "open")
    BY DEF Doomed
  <2>3. AppInv /\ [Next]_vars /\ Doomed(r, c) => Doomed(r, c)'
    <3>1. CASE UNCHANGED appVars
      BY <3>1 DEF appVars, callVars, hubVars, Doomed
    <3> QED BY <3>1, DoomedStays DEF Next, vars
  <2> QED BY <2>1, <2>2, <2>3, BridgeAppInv, PTL DEF Spec
<1> QED BY <1>1 DEF DisconnectFailsPending

-----------------------------------------------------------------------------
(* Abandoned work. *)

Cancel(r) == [kind |-> "CancelCommand", req |-> r]
Abandoned(r) == outcome[r] \in {"timedOut", "threw"}

(* The App knows a connection only when it has been opened, and as long as the
   agent is on the connection of a call that is where NotifyCancel sends to. *)
ConnInv ==
  /\ link \in {NoConn, opened}
  /\ \A i \in 1 .. Len(tracker) : tracker[i] <= opened
  /\ \A r \in Requests :
       /\ target[r] <= opened
       /\ target[r] = NoConn => call[r] = "new" \/ outcome[r] = "notConnected"
       /\ link # NoConn /\ target[r] = link => tracker # <<>> /\ Head(tracker) = link

(* A command runs at a worker only. *)
RunInv(r) == effect[r] = "running" => \E w \in Workers : Has(w, r) /\ At(w, "run")

(* Its caller has given up, and the agent will hear of it, has heard of it, or has
   nothing any more that could be cancelled. *)
ToldInv(r) ==
  Abandoned(r) /\ link = target[r] =>
    In(toAgent[link], Cancel(r)) \/ reg[r] = "cancelled" \/ Away(r)

GivenUpInv == ConnInv /\ \A r \in Requests : RunInv(r) /\ ToldInv(r)

(* A message that is sent is on the wire, and what was there stays. *)
LEMMA PushAdds ==
  ASSUME WireTypeOK, NEW c, NEW m \in ToAgentMsg, PushToAgent(c, m)
  PROVE  /\ \A d \in Conns : \A x : In(toAgent[d], x) => In(toAgent'[d], x)
         /\ c = link /\ c # NoConn => In(toAgent'[c], m)
<1>1. CASE ~(c = link /\ c # NoConn)
  BY <1>1 DEF PushToAgent
<1>2. CASE c = link /\ c # NoConn
  <2>1. c \in Conns /\ toAgent[c] \in Seq(ToAgentMsg) BY <1>2, LinkIsConn DEF WireTypeOK
  <2>2. toAgent' = [toAgent EXCEPT ![c] = Append(toAgent[c], m)] BY <1>2 DEF PushToAgent
  <2>3. \A x : In(Append(toAgent[c], m), x) <=> In(toAgent[c], x) \/ x = m
    BY <2>1, InAppend
  <2> QED BY <2>1, <2>2, <2>3 DEF WireTypeOK
<1> QED BY <1>1, <1>2

(* A message that is handled leaves the others on the wire. *)
LEMMA TakeLeaves ==
  ASSUME WireTypeOK, NEW m, TakeFromApp(m)
  PROVE  \A d \in Conns : \A x : In(toAgent[d], x) => x = m \/ In(toAgent'[d], x)
<1>1. opened \in Conns /\ toAgent[opened] \in Seq(ToAgentMsg) /\ toAgent[opened] # <<>> /\ m = Head(toAgent[opened])
  BY LinkIsConn DEF TakeFromApp, WireTypeOK
<1>2. toAgent' = [toAgent EXCEPT ![opened] = Tail(toAgent[opened])] BY DEF TakeFromApp
<1>3. \A x : In(toAgent[opened], x) => x = m \/ In(Tail(toAgent[opened]), x)
  BY <1>1, InTail
<1> QED BY <1>1, <1>2, <1>3 DEF WireTypeOK

LEMMA ConnsAreNumbers ==
  ASSUME WireTypeOK
  PROVE  opened \in Nat /\ NoConn = 0 /\ NoConn \in Nat /\ Conns \subseteq Nat
BY MaxConnsAssumption DEF WireTypeOK, Conns, NoConn

LEMMA GivenUpInitially == Init => GivenUpInv
<1> SUFFICES ASSUME Init PROVE GivenUpInv
  OBVIOUS
<1>1. /\ link = NoConn /\ opened = 0 /\ NoConn = 0 /\ tracker = <<>>
      /\ \A r \in Requests : target[r] = NoConn /\ call[r] = "new" /\ outcome[r] = "none" /\ effect[r] = "none"
  BY DEF Init, WireInit, AppInit, AgentInit, NoConn
<1>2. ConnInv BY <1>1, EmptySeq DEF ConnInv
<1> QED BY <1>1, <1>2 DEF GivenUpInv, RunInv, ToldInv, Abandoned

(* Where the call of a request stands, for ConnInv: a target is read once, and a
   call that has returned does not move. *)
TargetStill(r) ==
  /\ target'[r] = target[r]
  /\ call[r] = "new" => call'[r] = "new"
  /\ outcome[r] = "notConnected" => outcome'[r] = "notConnected"

LEMMA ConnStill ==
  ASSUME ConnInv, UNCHANGED <<opened, link, tracker>>, \A r \in Requests : TargetStill(r)
  PROVE  ConnInv'
BY DEF ConnInv, TargetStill

LEMMA CallKeepsConn ==
  ASSUME IInv, AppTypeOK, ConnInv, NEW r \in Requests, CallNext(r)
  PROVE  ConnInv'
<1>1. /\ call[r] # "returned" => outcome[r] = "none"
      /\ UNCHANGED <<opened, link, tracker>>
  BY DEF IInv, CallInv, CallNext, BeginCall, AddPending, SendRequest,
     SendCancelled, SendThrows, AwaitResult, Fire, wireVars, hubVars
<1>2. CASE ~BeginCall(r)
  <2>1. target' = target
    BY <1>2 DEF CallNext, AddPending, SendRequest, SendCancelled, SendThrows, AwaitResult, Fire
  <2>2. call[r] # "new" \/ call' = call
    BY <1>2 DEF CallNext, AddPending, SendRequest, SendCancelled, SendThrows, AwaitResult, Fire
  <2>3. outcome[r] # "notConnected" \/ outcome' = outcome
    BY <1>1, <1>2 DEF CallNext, AddPending, SendRequest, SendCancelled, SendThrows, AwaitResult, Fire
  <2>4. \A s \in Requests \ {r} : call'[s] = call[s] /\ outcome'[s] = outcome[s]
    BY <1>2 DEF AppTypeOK, CallNext, AddPending, SendRequest, SendCancelled, SendThrows, AwaitResult, Fire, Return
  <2> QED BY <1>1, <2>1, <2>2, <2>3, <2>4, ConnStill DEF TargetStill
<1>3. CASE BeginCall(r) /\ FirstConn = NoConn
  <2>1. target' = target /\ call' = [call EXCEPT ![r] = "returned"]
        /\ outcome' = [outcome EXCEPT ![r] = "notConnected"]
    BY <1>3 DEF BeginCall, Return
  <2> QED BY <1>1, <2>1 DEF ConnInv, AppTypeOK
<1>4. CASE BeginCall(r) /\ FirstConn # NoConn
  <2>1. target' = [target EXCEPT ![r] = FirstConn] /\ outcome' = outcome
        /\ call' = [call EXCEPT ![r] = "registered"]
    BY <1>4 DEF BeginCall
  <2>2. tracker # <<>> /\ FirstConn = Head(tracker)
    BY <1>4 DEF FirstConn
  <2>3. FirstConn <= opened
    <3>1. 1 \in 1 .. Len(tracker) /\ Head(tracker) = tracker[1]
      BY <2>2, HeadTailProperties, EmptySeq, LenProperties DEF AppTypeOK
    <3> QED BY <2>2, <3>1 DEF ConnInv
  <2> QED BY <1>1, <1>4, <2>1, <2>2, <2>3 DEF ConnInv, AppTypeOK
<1> QED BY <1>2, <1>3, <1>4

LEMMA HubKeepsConn ==
  ASSUME IInv, AppTypeOK, ConnInv, NEW c \in Conns, HubNext(c)
  PROVE  ConnInv'
<1>1. /\ UNCHANGED <<opened, link, target, call, outcome>>
      /\ OnConnected(c) \/ OnDisconnected(c) \/ tracker' = tracker
  BY DEF HubNext, OnConnected, ResponseCommand, OnDisconnected, FailAllBegin, FailAllEnd, FailOne,
     callVars, wireVars, hubVars
<1>2. tracker \in Seq(Conns) /\ Len(tracker) \in Nat
  BY LenProperties DEF AppTypeOK
<1>3. CASE tracker' = tracker
  BY <1>1, <1>3, ConnStill DEF TargetStill
<1>4. CASE OnConnected(c)
  <2>1. c <= opened /\ tracker' = Append(tracker, c) BY <1>4 DEF OnConnected
  <2>2. /\ Len(tracker') = Len(tracker) + 1
        /\ \A i \in 1 .. Len(tracker) : tracker'[i] = tracker[i]
        /\ tracker'[Len(tracker) + 1] = c
    BY <1>2, <2>1, AppendProperties
  <2>3. \A i \in 1 .. Len(tracker') : tracker'[i] <= opened
    BY <1>2, <2>1, <2>2 DEF ConnInv
  <2>4. ASSUME tracker # <<>> PROVE tracker' # <<>> /\ Head(tracker') = Head(tracker)
    BY <1>2, <2>1, <2>4
  <2> QED BY <1>1, <2>3, <2>4 DEF ConnInv
<1>5. CASE OnDisconnected(c)
  <2>1. PICK i \in 1 .. Len(tracker) :
          /\ tracker[i] = c
          /\ tracker' = SubSeq(tracker, 1, i - 1) \o SubSeq(tracker, i + 1, Len(tracker))
    BY <1>5 DEF OnDisconnected
  <2>2. /\ Len(tracker') = Len(tracker) - 1
        /\ \A k \in 1 .. Len(tracker) - 1 : tracker'[k] = IF k < i THEN tracker[k] ELSE tracker[k + 1]
    <3> DEFINE a == SubSeq(tracker, 1, i - 1)
               b == SubSeq(tracker, i + 1, Len(tracker))
    <3>1. /\ a \in Seq(Conns) /\ Len(a) = i - 1
          /\ \A k \in 1 .. i - 1 : a[k] = tracker[k]
      BY <1>2, SubSeqProperties
    <3>2. /\ b \in Seq(Conns) /\ Len(b) = Len(tracker) - i
          /\ \A k \in 1 .. Len(tracker) - i : b[k] = tracker[k + i]
      BY <1>2, SubSeqProperties
    <3>3. tracker' = a \o b BY <2>1
    <3> HIDE DEF a, b
    <3> QED BY <1>2, <3>1, <3>2, <3>3
  <2>3. \A k \in 1 .. Len(tracker') : tracker'[k] <= opened
    BY <1>2, <2>2 DEF ConnInv
  <2>4. ASSUME tracker # <<>>, Head(tracker) = link PROVE tracker' # <<>> /\ Head(tracker') = link
    <3>1. Head(tracker) = tracker[1] BY <1>2, <2>4
    <3>2. i > 1 BY <1>2, <1>5, <2>1, <2>4, <3>1 DEF OnDisconnected
    <3>3. Len(tracker') > 0 /\ tracker'[1] = tracker[1] BY <1>2, <2>2, <3>2
    <3>4. tracker' \in Seq(Conns) BY <1>2, <2>1
    <3> QED BY <2>4, <3>1, <3>3, <3>4
  <2> QED BY <1>1, <2>3, <2>4 DEF ConnInv
<1> QED BY <1>1, <1>3, <1>4, <1>5

(* What a step of the agent makes of its connection. *)
LEMMA LinkMoves ==
  ASSUME AgentNext
  PROVE  \/ UNCHANGED <<opened, link>>
         \/ link' = NoConn /\ opened' = opened
         \/ opened' = opened + 1 /\ link' = opened + 1
BY DEF AgentNext, HandlerNext, ReceiveRequest, RefuseRequest, ReceiveCancel, Enqueue,
   WorkerNext, WorkerProceeds, TakeJob, SkipCancelled, StartCommand, AbortCommand, FinishCommand,
   SendStep, SendReply, SendReplyFails, CancelDuringSend, ReplyAcked, AckLost, Unregister,
   AgentConnect, Connect, LinkDrop, Drop, AgentCrash, wireVars

LEMMA AgentKeepsConn ==
  ASSUME IInv, AppTypeOK, ConnInv, AgentNext, UNCHANGED appVars
  PROVE  ConnInv'
<1>1. /\ UNCHANGED <<target, call, outcome, tracker>>
      /\ opened \in Nat /\ NoConn = 0
      /\ \A i \in 1 .. Len(tracker) : tracker[i] \in Nat
      /\ \A r \in Requests : target[r] \in Nat
  <2>1. UNCHANGED <<target, call, outcome, tracker>> BY DEF appVars, callVars, hubVars
  <2>2. \A i \in 1 .. Len(tracker) : tracker[i] \in Conns
    BY ElementOfSeq DEF AppTypeOK
  <2> QED BY <2>1, <2>2, ConnsAreNumbers DEF IInv, AgentInv, AppTypeOK
<1>2. CASE UNCHANGED <<opened, link>>
  BY <1>1, <1>2, ConnStill DEF TargetStill
<1>3. CASE link' = NoConn /\ opened' = opened
  BY <1>1, <1>3 DEF ConnInv
<1>4. CASE opened' = opened + 1 /\ link' = opened + 1
  BY <1>1, <1>4 DEF ConnInv
<1> QED BY <1>2, <1>3, <1>4, LinkMoves

LEMMA RunKeeps ==
  ASSUME AgentInv, AgentNext, NEW r \in Requests, RunInv(r)
  PROVE  RunInv(r)'
<1> SUFFICES ASSUME effect'[r] = "running"
             PROVE  \E v \in Workers : worker'[v].req = r /\ worker'[v].step = "run"
  BY DEF RunInv, Has, At
<1>1. AgentTypeOK BY DEF AgentInv
<1>2. CASE AgentCrash
  BY <1>2 DEF AgentCrash
<1>3. CASE HandlerNext \/ AgentConnect \/ LinkDrop
  BY <1>3 DEF HandlerNext, ReceiveRequest, RefuseRequest, ReceiveCancel, Enqueue, AgentConnect, LinkDrop,
     agentVars, RunInv, Has, At
<1>4. ASSUME NEW w \in Workers, SameOthers(w), effect[r] = "running", ~(Has(w, r) /\ At(w, "run"))
      PROVE  \E v \in Workers : worker'[v].req = r /\ worker'[v].step = "run"
  BY <1>4 DEF RunInv, SameOthers, Has, At
<1>5. ASSUME NEW w \in Workers, StartCommand(w)
      PROVE  \E v \in Workers : worker'[v].req = r /\ worker'[v].step = "run"
  <2>1. SameOthers(w) /\ worker'[w].step = "run" /\ worker'[w].req = worker[w].req
    BY <1>1, <1>5, AfterMove DEF StartCommand, Step
  <2>2. CASE JobOf(w) = r BY <2>1, <2>2 DEF JobOf
  <2>3. CASE JobOf(w) # r
    BY <1>1, <1>4, <1>5, <2>1, <2>3 DEF StartCommand, AgentTypeOK, Has, JobOf
  <2> QED BY <2>2, <2>3
<1>6. ASSUME NEW w \in Workers, AbortCommand(w) \/ \E reply \in Reply : FinishCommand(w, reply)
      PROVE  \E v \in Workers : worker'[v].req = r /\ worker'[v].step = "run"
  <2>1. SameOthers(w)
    BY <1>1, <1>6, AfterAnswer DEF AbortCommand, FinishCommand, Reply
  <2>2. JobOf(w) # r /\ effect[r] = "running"
    BY <1>1, <1>6 DEF AbortCommand, FinishCommand, AgentTypeOK
  <2> QED BY <1>4, <2>1, <2>2 DEF Has, JobOf
<1>7. ASSUME NEW w \in Workers, TakeJob(w) \/ SkipCancelled(w) \/ SendStep(w) \/ Unregister(w)
      PROVE  \E v \in Workers : worker'[v].req = r /\ worker'[v].step = "run"
  <2>1. ~At(w, "run") /\ effect' = effect
    BY <1>7 DEF TakeJob, SkipCancelled, SendStep, SendReply, SendReplyFails, CancelDuringSend,
       ReplyAcked, AckLost, Unregister, At
  <2>2. SameOthers(w)
    BY <1>1, <1>7 DEF TakeJob, SkipCancelled, SendStep, SendReply, SendReplyFails, CancelDuringSend,
       ReplyAcked, AckLost, Unregister, Move, Answer, AgentTypeOK, SameOthers
  <2> QED BY <1>4, <2>1, <2>2
<1> QED BY <1>2, <1>3, <1>5, <1>6, <1>7 DEF AgentNext, WorkerNext, WorkerProceeds

(* A cancel on the connection stays there until the agent cancels the token. *)
LEMMA CancelArrives ==
  ASSUME AgentInv, AgentNext, NEW r \in Requests, link # NoConn, link' = link,
         In(toAgent[link], Cancel(r))
  PROVE  In(toAgent'[link], Cancel(r)) \/ reg'[r] = "cancelled"
<1>1. WireTypeOK /\ AgentTypeOK /\ link \in Conns BY LinkIsConn DEF AgentInv
<1>2. ASSUME NEW q \in Requests, ReceiveCancel(q)
      PROVE  In(toAgent'[link], Cancel(r)) \/ reg'[r] = "cancelled"
  <2>1. TakeFromApp(Cancel(q)) /\ reg' = [reg EXCEPT ![q] = "cancelled"]
    BY <1>2 DEF ReceiveCancel, Cancel
  <2>2. Cancel(q) = Cancel(r) => q = r BY DEF Cancel
  <2> QED BY <1>1, <2>1, <2>2, TakeLeaves DEF AgentTypeOK
<1>3. ASSUME NEW q \in Requests, ReceiveRequest(q) \/ RefuseRequest(q)
      PROVE  In(toAgent'[link], Cancel(r))
  <2>1. TakeFromApp(Ask(q)) BY <1>3 DEF ReceiveRequest, RefuseRequest, Ask
  <2>2. Ask(q) # Cancel(r) BY DEF Ask, Cancel
  <2> QED BY <1>1, <2>1, <2>2, TakeLeaves
<1>4. CASE LinkDrop \/ AgentCrash
  BY <1>4 DEF LinkDrop, Drop, AgentCrash
<1>5. ASSUME toAgent' = toAgent PROVE In(toAgent'[link], Cancel(r))
  BY <1>5
<1>6. Enqueue \/ AgentConnect \/ (\E w \in Workers : WorkerNext(w)) => toAgent' = toAgent
  BY DEF Enqueue, AgentConnect, Connect, WorkerNext, WorkerProceeds, TakeJob, SkipCancelled, StartCommand,
     AbortCommand, FinishCommand, SendStep, SendReply, SendReplyFails, CancelDuringSend, ReplyAcked,
     AckLost, Unregister, wireVars
<1> QED BY <1>2, <1>3, <1>4, <1>5, <1>6 DEF AgentNext, HandlerNext

LEMMA AgentKeepsTold ==
  ASSUME IInv, AppTypeOK, ConnInv, NEW r \in Requests, ToldInv(r), AgentNext, UNCHANGED appVars
  PROVE  ToldInv(r)'
<1> SUFFICES ASSUME Abandoned(r), link' = target[r]
             PROVE  In(toAgent'[link'], Cancel(r)) \/ reg'[r] = "cancelled" \/ Away(r)'
  BY DEF ToldInv, Abandoned, appVars, callVars, Cancel
<1>1. AgentInv /\ opened \in Nat /\ NoConn = 0 /\ target[r] \in Nat
  <2>1. AgentInv BY DEF IInv
  <2>2. WireTypeOK BY <2>1 DEF AgentInv
  <2> QED BY <2>1, <2>2, ConnsAreNumbers DEF AppTypeOK
<1>2. target[r] # NoConn /\ target[r] <= opened
  BY DEF ConnInv, Abandoned, IInv, CallInv
<1>3. link' = link BY <1>1, <1>2, LinkMoves
<1>4. CASE In(toAgent[link], Cancel(r)) BY <1>1, <1>2, <1>3, <1>4, CancelArrives
<1>5. CASE reg[r] = "cancelled" BY <1>1, <1>5, TokenStays
<1>6. CASE Away(r) BY <1>1, <1>6, AwayStays
<1> QED BY <1>3, <1>4, <1>5, <1>6 DEF ToldInv

(* What a step of the App leaves of the cancels on the wire, and adds to them. *)
LEMMA AppMessages ==
  ASSUME WireTypeOK, AppNext
  PROVE  \A d \in Conns : \A x : In(toAgent[d], x) => In(toAgent'[d], x)
<1>1. ASSUME toAgent' = toAgent
      PROVE  \A d \in Conns : \A x : In(toAgent[d], x) => In(toAgent'[d], x)
  BY <1>1
<1>2. ASSUME NEW r \in Requests, NotifyCancel(r) \/ SendRequest(r)
      PROVE  \A d \in Conns : \A x : In(toAgent[d], x) => In(toAgent'[d], x)
  BY <1>2, PushAdds DEF NotifyCancel, SendRequest, ToAgentMsg
<1>3. ASSUME NEW r \in Requests, CallNext(r)
      PROVE  toAgent' = toAgent \/ NotifyCancel(r) \/ SendRequest(r)
  BY <1>3 DEF CallNext, BeginCall, AddPending, SendCancelled, SendThrows, AwaitResult, Fire, wireVars
<1>4. ASSUME NEW c \in Conns, HubNext(c) PROVE toAgent' = toAgent
  BY <1>4 DEF HubNext, OnConnected, ResponseCommand, OnDisconnected, FailAllBegin, FailAllEnd, FailOne, wireVars
<1> QED BY <1>1, <1>2, <1>3, <1>4 DEF AppNext

(* A step of the App puts no request on the wire but the one it sends. *)
LEMMA AppAsks ==
  ASSUME IInv, NEW r \in Requests, AppNext, ~SendRequest(r)
  PROVE  \A c \in Conns : In(toAgent'[c], Ask(r)) => OnWire(r, c)
<1>1. WireTypeOK BY DEF IInv, AgentInv
<1>2. ASSUME toAgent' = toAgent PROVE \A c \in Conns : In(toAgent'[c], Ask(r)) => OnWire(r, c)
  BY <1>2 DEF OnWire
<1>3. ASSUME NEW s \in Requests, NotifyCancel(s)
      PROVE  \A c \in Conns : In(toAgent'[c], Ask(r)) => OnWire(r, c)
  BY <1>1, <1>3, CancelStill DEF NotifyCancel, WireStill
<1>4. ASSUME NEW s \in Requests, SendRequest(s), s # r
      PROVE  \A c \in Conns : In(toAgent'[c], Ask(r)) => OnWire(r, c)
  <2>1. PushToAgent(target[s], Ask(s)) /\ Ask(s) # Ask(r) /\ Ask(s) \in ToAgentMsg
    BY <1>1, <1>4, LinkIsConn DEF SendRequest, Ask
  <2> QED BY <1>1, <2>1, AfterPush DEF OnWire
<1>5. ASSUME NEW s \in Requests, CallNext(s)
      PROVE  toAgent' = toAgent \/ NotifyCancel(s) \/ SendRequest(s)
  BY <1>5 DEF CallNext, BeginCall, AddPending, SendCancelled, SendThrows, AwaitResult, Fire, wireVars
<1>6. ASSUME NEW c \in Conns, HubNext(c) PROVE toAgent' = toAgent
  BY <1>6 DEF HubNext, OnConnected, ResponseCommand, OnDisconnected, FailAllBegin, FailAllEnd, FailOne, wireVars
<1> QED BY <1>2, <1>3, <1>4, <1>5, <1>6 DEF AppNext

(* A caller gives up only with a cancel that it sends to the tracker's first
   connection; and once it has given up, its request is not sent. *)
LEMMA GivesUp ==
  ASSUME IInv, NEW r \in Requests, AppNext, Abandoned(r)'
  PROVE  \/ Abandoned(r) /\ ~SendRequest(r)
         \/ call[r] \in {"sending", "awaiting"} /\ NotifyCancel(r) /\ ~SendRequest(r) /\ UNCHANGED <<target, tracker>>
<1>1. CallTypes /\ (call[r] # "returned" => outcome[r] = "none") BY DEF IInv, CallInv
<1>2. outcome'[r] \in {"timedOut", "threw"} BY DEF Abandoned
<1>3. SendRequest(r) => outcome' = outcome /\ outcome[r] = "none" BY <1>1 DEF SendRequest
<1>4. CASE outcome'[r] = outcome[r] BY <1>2, <1>3, <1>4 DEF Abandoned
<1>5. CASE outcome'[r] # outcome[r]
  <2>1. ASSUME NEW c \in Conns, HubNext(c) PROVE outcome' = outcome
    BY <2>1 DEF HubNext, OnConnected, ResponseCommand, OnDisconnected, FailAllBegin, FailAllEnd, FailOne, callVars
  <2>2. ASSUME NEW s \in Requests, CallNext(s), s # r PROVE outcome'[r] = outcome[r]
    BY <1>1, <2>2 DEF CallTypes, CallNext, BeginCall, AddPending, SendRequest, SendCancelled, SendThrows,
       AwaitResult, Fire, Return
  <2>3. CallNext(r) BY <1>5, <2>1, <2>2 DEF AppNext
  <2>4. \A how : Return(r, how) => outcome'[r] = how
    BY <1>1 DEF CallTypes, Return
  <2>5. SendCancelled(r) \/ AwaitResult(r)
    BY <1>2, <1>5, <2>3, <2>4 DEF CallNext, BeginCall, AddPending, SendRequest, SendThrows, Fire
  <2>6. ASSUME AwaitResult(r) PROVE NotifyCancel(r)
    <3>1. tcs[r] \in Settled BY <1>1, <2>6 DEF CallTypes, AwaitResult
    <3> QED BY <1>2, <2>4, <2>6, <3>1 DEF AwaitResult, Settled, Reply
  <2> QED BY <1>3, <1>5, <2>5, <2>6 DEF SendCancelled, AwaitResult, hubVars
<1> QED BY <1>4, <1>5

LEMMA AppKeepsTold ==
  ASSUME IInv, AppTypeOK, ConnInv, NEW r \in Requests, ToldInv(r), AppNext, UNCHANGED agentVars
  PROVE  ToldInv(r)'
<1> SUFFICES ASSUME Abandoned(r)', link' = target'[r]
             PROVE  In(toAgent'[link'], Cancel(r)) \/ reg'[r] = "cancelled" \/ Away(r)'
  BY DEF ToldInv, Cancel
<1>1. WireTypeOK /\ link' = link /\ reg' = reg
  <2>1. WireTypeOK /\ reg' = reg BY DEF IInv, AgentInv, agentVars
  <2>2. ASSUME NEW s \in Requests, CallNext(s) PROVE link' = link
    BY <2>2 DEF CallNext, BeginCall, AddPending, SendRequest, SendCancelled, SendThrows, AwaitResult, Fire, wireVars
  <2>3. ASSUME NEW c \in Conns, HubNext(c) PROVE link' = link
    BY <2>3 DEF HubNext, OnConnected, ResponseCommand, OnDisconnected, FailAllBegin, FailAllEnd, FailOne, wireVars
  <2> QED BY <2>1, <2>2, <2>3 DEF AppNext
<1>2. CASE Abandoned(r) /\ ~SendRequest(r)
  <2>1. call[r] = "returned" /\ outcome[r] # "notConnected"
    BY <1>2 DEF Abandoned, IInv, CallInv
  <2>2. target[r] # NoConn BY <2>1 DEF ConnInv
  <2>3. target'[r] = target[r]
    <3>1. ASSUME NEW s \in Requests, CallNext(s) PROVE target'[r] = target[r]
      BY <2>1, <3>1 DEF AppTypeOK, CallNext, BeginCall, AddPending, SendRequest, SendCancelled, SendThrows, AwaitResult, Fire
    <3>2. ASSUME NEW c \in Conns, HubNext(c) PROVE target'[r] = target[r]
      BY <3>2 DEF HubNext, OnConnected, ResponseCommand, OnDisconnected, FailAllBegin, FailAllEnd, FailOne, callVars
    <3> QED BY <3>1, <3>2 DEF AppNext
  <2>4. link \in Conns BY <1>1, <2>2, <2>3, LinkIsConn
  <2>5. Away(r) => Away(r)'
    <3>1. \A c \in Conns : In(toAgent'[c], Ask(r)) => OnWire(r, c)
      BY <1>2, AppAsks
    <3> QED BY <3>1, AwayStill, UnchangedStill DEF QueueStill, WorkerStill
  <2> QED BY <1>1, <1>2, <2>3, <2>4, <2>5, AppMessages DEF ToldInv
<1>3. CASE call[r] \in {"sending", "awaiting"} /\ NotifyCancel(r) /\ UNCHANGED <<target, tracker>>
  <2>1. outcome[r] = "none" BY <1>3 DEF IInv, CallInv
  <2>2. target[r] # NoConn BY <1>3, <2>1 DEF ConnInv
  <2>3. link = target[r] /\ link # NoConn BY <1>1, <1>3, <2>2
  <2>4. FirstConn = link BY <2>3 DEF ConnInv, FirstConn
  <2>5. PushToAgent(link, Cancel(r)) /\ Cancel(r) \in ToAgentMsg
    BY <1>3, <2>4 DEF NotifyCancel, Cancel, ToAgentMsg
  <2> QED BY <1>1, <2>3, <2>5, PushAdds
<1> QED BY <1>2, <1>3, GivesUp

LEMMA GivenUpInductive == IInv /\ AppInv /\ GivenUpInv /\ [Next]_vars => GivenUpInv'
<1> SUFFICES ASSUME IInv, AppInv, GivenUpInv, [Next]_vars PROVE GivenUpInv'
  OBVIOUS
<1>1. AppTypeOK BY DEF AppInv, AppOpenTypeOK
<1>2. CASE AppNext /\ UNCHANGED agentVars
  <2>1. ConnInv' BY <1>1, <1>2, CallKeepsConn, HubKeepsConn DEF GivenUpInv, AppNext
  <2>2. \A r \in Requests : RunInv(r)'
    BY <1>2 DEF GivenUpInv, RunInv, Has, At, agentVars
  <2> QED BY <1>1, <1>2, <2>1, <2>2, AppKeepsTold DEF GivenUpInv
<1>3. CASE AgentNext /\ UNCHANGED appVars
  <2>1. ConnInv' BY <1>1, <1>3, AgentKeepsConn DEF GivenUpInv
  <2> QED BY <1>1, <1>3, <2>1, RunKeeps, AgentKeepsTold DEF GivenUpInv, IInv
<1>4. CASE UNCHANGED vars
  BY <1>4 DEF vars, wireVars, appVars, callVars, hubVars, agentVars, GivenUpInv, ConnInv, RunInv, ToldInv,
     Abandoned, Cancel, Away, AtAgent, OnWire, Waits, Has, At
<1> QED BY <1>2, <1>3, <1>4 DEF Next

(* Nobody forgets work whose caller has given up (AgentBridge.SendCommandAsync,
   AgentCommandCancelSender, the CancelCommand handler): while it runs on an agent
   that kept the connection of the call, its CancelCommand is on that connection or
   its token is cancelled. *)
THEOREM AbandonedIsCancelled == Spec => []AbandonedWorkIsCancelled
<1>1. AgentInv /\ GivenUpInv => AbandonedWorkIsCancelled
  <2> SUFFICES ASSUME AgentInv, GivenUpInv, NEW r \in Requests, Abandoned(r), effect[r] = "running", link = target[r]
               PROVE  reg[r] = "cancelled" \/ In(toAgent[link], Cancel(r))
    BY DEF AbandonedWorkIsCancelled, Abandoned, In, Cancel
  <2>1. ~Away(r) BY DEF GivenUpInv, RunInv, Away, AtAgent
  <2> QED BY <2>1 DEF GivenUpInv, ToldInv
<1>2. Spec => []GivenUpInv
  BY GivenUpInitially, GivenUpInductive, Invariant, BridgeAppInv, PTL DEF Spec
<1> QED BY <1>1, <1>2, AgentInvariant, PTL

-----------------------------------------------------------------------------
(* The agent against an arbitrary App (AgentJobsOpen). *)

(* A step of the App that sends no request. *)
LEMMA OpenAppStill ==
  ASSUME OpenInv, UNCHANGED <<agentVars, sent>>, WireTypeOK',
         \A r \in Requests : WireStill(r) /\ ToAppStill(r)
  PROVE  /\ OpenInv'
         /\ \A r \in Requests : Nowhere(r) => Nowhere(r)'
<1>1. AgentTypeOK' /\ \A w \in Workers : Idle(w)'
  BY DEF OpenInv, AgentInv, AgentTypeOK, Idle, agentVars
<1>2. AgentInv'
  BY <1>1, AgentStill, UnchangedStill DEF OpenInv
<1>3. \A r \in Requests : Nowhere(r) => Nowhere(r)'
  BY NowhereStill, UnchangedStill DEF WireStill, QueueStill, WorkerStill
<1> QED BY <1>2, <1>3 DEF OpenInv

LEMMA EnvRequestKeeps ==
  ASSUME OpenInv, NEW r \in Requests, EnvRequest(r)
  PROVE  /\ OpenInv'
         /\ \A s \in Requests \ {r} : Nowhere(s) => Nowhere(s)'
<1>1. AgentInv /\ Nowhere(r) /\ PushToAgent(link, Ask(r)) /\ UNCHANGED <<opened, link, toApp, agentVars>>
  BY DEF OpenInv, EnvRequest, EnvPush, Ask
<1>2. AgentInv' /\ \A s \in Requests \ {r} : Nowhere(s) => Nowhere(s)'
  BY <1>1, AskKeeps
<1> QED BY <1>2 DEF OpenInv, EnvRequest

LEMMA EnvCancelKeeps ==
  ASSUME OpenInv, NEW r \in Requests, EnvCancel(r)
  PROVE  /\ OpenInv'
         /\ \A s \in Requests : Nowhere(s) => Nowhere(s)'
<1>1. /\ toAgent' \in [Conns -> Seq(ToAgentMsg)]
      /\ \A s \in Requests : WireStill(s)
  BY CancelStill DEF EnvCancel, EnvPush, OpenInv, AgentInv
<1>2. WireTypeOK' BY <1>1 DEF EnvCancel, EnvPush, OpenInv, AgentInv, WireTypeOK
<1> QED BY <1>1, <1>2, OpenAppStill, UnchangedStill DEF EnvCancel, EnvPush

LEMMA EnvTakeKeeps ==
  ASSUME OpenInv, NEW c \in Conns, EnvTake(c)
  PROVE  /\ OpenInv'
         /\ \A s \in Requests : Nowhere(s) => Nowhere(s)'
<1>1. toApp[c] \in Seq(ToAppMsg) /\ toApp[c] # <<>>
  BY DEF EnvTake, OpenInv, AgentInv, WireTypeOK
<1>2. Tail(toApp[c]) \in Seq(ToAppMsg) /\ \A x : In(Tail(toApp[c]), x) => In(toApp[c], x)
  BY <1>1, InTail
<1>3. toApp' = [toApp EXCEPT ![c] = Tail(toApp[c])]
  BY DEF EnvTake
<1>4. WireTypeOK' /\ \A s \in Requests : ToAppStill(s)
  BY <1>2, <1>3 DEF EnvTake, OpenInv, AgentInv, WireTypeOK, ToAppStill
<1> QED BY <1>4, OpenAppStill, UnchangedStill DEF EnvTake

LEMMA OpenStutters ==
  ASSUME OpenInv, UNCHANGED openVars
  PROVE  /\ OpenInv'
         /\ \A s \in Requests : Nowhere(s) => Nowhere(s)'
<1>1. WireTypeOK' BY DEF OpenInv, AgentInv, WireTypeOK, openVars, wireVars
<1> QED BY <1>1, OpenAppStill, UnchangedStill DEF openVars, wireVars

LEMMA OpenInitially == OpenInit => OpenInv
BY AgentInitially DEF OpenInit, OpenInv

LEMMA OpenInductive == OpenInv /\ [OpenNext]_openVars => OpenInv'
<1> SUFFICES ASSUME OpenInv, [OpenNext]_openVars PROVE OpenInv'
  OBVIOUS
<1>1. CASE AgentNext /\ UNCHANGED sent
  BY <1>1, AgentKeeps, NowhereStays DEF OpenInv
<1> QED BY <1>1, EnvRequestKeeps, EnvCancelKeeps, EnvTakeKeeps, OpenStutters DEF OpenNext

LEMMA OpenInvariant == OpenSpec => []OpenInv
BY OpenInitially, OpenInductive, PTL DEF OpenSpec

LEMMA OpenAgentInvariant == OpenSpec => []AgentInv
<1>1. OpenInv => AgentInv BY DEF OpenInv
<1> QED BY <1>1, OpenInvariant, PTL

(* Whatever an App sends and cancels, the state of the agent has its types:
   the bounded queues (the capacities of TrackedJobQueue and ReadJobQueue)
   never hold more than they may. *)
THEOREM AgentTypeCorrect == OpenSpec => []OpenTypeOK
<1>1. OpenInv => OpenTypeOK BY DEF OpenInv, AgentInv, OpenTypeOK
<1> QED BY <1>1, OpenInvariant, PTL

(* With any App, a CancelCommand finds the token of every job that waits or runs, and
   no path of the agent forgets to unregister a job (CommandJobCancellationRegistry). *)
THEOREM AgentTokensFitJobs == OpenSpec => []TokensMatchJobs
BY AgentInvTokens, OpenAgentInvariant, PTL

(* A command that was cancelled before it started: its token is still there,
   or the agent has answered for it and no trace of it is left. *)
Void(r) ==
  /\ r \in sent /\ effect[r] = "none"
  /\ reg[r] = "cancelled" \/ Nowhere(r)

LEMMA VoidStays ==
  ASSUME OpenInv, [OpenNext]_openVars, NEW r \in Requests, Void(r) PROVE Void(r)'
<1>1. CASE AgentNext /\ UNCHANGED sent
  <2>1. CASE reg[r] = "cancelled" BY <1>1, <2>1, CancelledStays DEF OpenInv, Void
  <2>2. CASE Nowhere(r)
    <3>1. Nowhere(r)' BY <1>1, <2>2, NowhereStays DEF OpenInv
    <3> QED BY <1>1, <3>1 DEF Void, Nowhere
  <2> QED BY <2>1, <2>2 DEF Void
<1>2. ASSUME UNCHANGED <<reg, effect>>, sent \subseteq sent', Nowhere(r) => Nowhere(r)' PROVE Void(r)'
  BY <1>2 DEF Void
<1>3. ASSUME NEW q \in Requests, EnvRequest(q) PROVE Void(r)'
  <2>1. q # r BY <1>3 DEF EnvRequest, Void
  <2> QED BY <1>2, <1>3, <2>1, EnvRequestKeeps DEF EnvRequest, EnvPush, agentVars
<1>4. ASSUME NEW q \in Requests, EnvCancel(q) PROVE Void(r)'
  BY <1>2, <1>4, EnvCancelKeeps DEF EnvCancel, EnvPush, agentVars
<1>5. ASSUME NEW c \in Conns, EnvTake(c) PROVE Void(r)'
  BY <1>2, <1>5, EnvTakeKeeps DEF EnvTake, agentVars
<1>6. CASE UNCHANGED openVars
  BY <1>2, <1>6, OpenStutters DEF openVars, agentVars
<1> QED BY <1>1, <1>3, <1>4, <1>5, <1>6 DEF OpenNext

(* A CancelCommand that the agent handles before the command starts, even
   before the RequestCommand arrives, keeps it from ever starting: through the
   queue, the workers, reconnects and crashes (CommandJobCancellationRegistry,
   the RequestCommand handler and JobBackgroundService.ProcessAsync). *)
THEOREM CancelAlwaysWins == OpenSpec => CancelBeforeStartWins
<1>1. ASSUME NEW r \in Cancels
      PROVE  OpenSpec =>
               [](reg[r] = "cancelled" /\ effect[r] = "none" /\ r \in sent => [](effect[r] = "none"))
  <2>1. reg[r] = "cancelled" /\ effect[r] = "none" /\ r \in sent => Void(r)
    BY DEF Void
  <2>2. Void(r) => effect[r] = "none"
    BY DEF Void
  <2>3. OpenInv /\ [OpenNext]_openVars /\ Void(r) => Void(r)'
    BY VoidStays, OpenAssumption
  <2> QED BY <2>1, <2>2, <2>3, OpenInvariant, PTL DEF OpenSpec
<1> QED BY <1>1 DEF CancelBeforeStartWins

(* A command is started at most once, and only when the App sent it: neither a
   reply that is sent again nor a reconnect, a crash or a cancel runs it again. *)
THEOREM CommandsStartOnce == OpenSpec => StartedOnce
<1>1. OpenInv /\ [OpenNext]_openVars
        => [\A r \in Requests :
              effect[r] # "running" /\ effect'[r] = "running" => effect[r] = "none" /\ r \in sent]_effect
  <2> SUFFICES ASSUME OpenInv, [OpenNext]_openVars, NEW r \in Requests,
                      effect[r] # "running", effect'[r] = "running"
               PROVE  effect[r] = "none" /\ r \in sent
    OBVIOUS
  <2>1. AgentNext
    BY DEF OpenNext, EnvRequest, EnvCancel, EnvPush, EnvTake, openVars, agentVars
  <2> QED BY <2>1, AgentMoves DEF EffectMoves, OpenInv, Nowhere, Away
<1> QED BY <1>1, OpenInvariant, PTL DEF OpenSpec, StartedOnce
=============================================================================
