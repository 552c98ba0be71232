---------------------------- MODULE AgentJobsOpen ----------------------------
(***************************************************************************)
(* AgentJobs against an App about which little is known: it sends every    *)
(* request id at most once (they are fresh GUIDs, and SendCommandAsync     *)
(* sends once) and CancelCommands for any request at any time, also before *)
(* the request, after its answer and repeatedly.                           *)
(***************************************************************************)
EXTENDS AgentJobs

CONSTANTS
  MaxInFlight, (* bound: messages in flight to the agent                    *)
  Cancels      (* bound: the requests the App may cancel                    *)

ASSUME OpenAssumption ==
  /\ MaxInFlight \in Nat \ {0}
  /\ Cancels \subseteq Requests

VARIABLE sent          (* the requests the App has sent                     *)

openVars == <<wireVars, agentVars, sent>>

EnvPush(msg) ==
  /\ link # NoConn
  /\ Len(toAgent[link]) < MaxInFlight
  /\ PushToAgent(link, msg)
  /\ UNCHANGED <<opened, link, toApp, agentVars>>

EnvRequest(r) ==
  /\ r \notin sent
  /\ EnvPush([kind |-> "RequestCommand", req |-> r])
  /\ sent' = sent \cup {r}

EnvCancel(r) ==
  /\ r \in Cancels
  /\ EnvPush([kind |-> "CancelCommand", req |-> r])
  /\ UNCHANGED sent

(* The hub handles a reply. *)
EnvTake(c) ==
  /\ toApp[c] # <<>>
  /\ toApp' = [toApp EXCEPT ![c] = Tail(@)]
  /\ UNCHANGED <<opened, link, toAgent, agentVars, sent>>

OpenInit == WireInit /\ AgentInit /\ sent = {}

OpenNext ==
  \/ AgentNext /\ UNCHANGED sent
  \/ \E r \in Requests : EnvRequest(r) \/ EnvCancel(r)
  \/ \E c \in Conns : EnvTake(c)

OpenSpec == OpenInit /\ [][OpenNext]_openVars

OpenFairSpec == OpenSpec /\ AgentFairness /\ \A c \in Conns : WF_openVars(EnvTake(c))

OpenTypeOK == WireTypeOK /\ AgentTypeOK /\ sent \subseteq Requests

-----------------------------------------------------------------------------
(* A cancel that the agent handles before the command starts - even before
   the RequestCommand itself arrives - keeps it from ever starting, across
   reconnects and crashes.  The request is one the App has sent: an agent that
   dies between an earlier cancel and the sending forgets the cancel. *)
CancelBeforeStartWins ==
  \A r \in Cancels :
    [](reg[r] = "cancelled" /\ effect[r] = "none" /\ r \in sent => [](effect[r] = "none"))

(* A command is started at most once, and only when the App sent it: a reply
   that has to be sent again, a reconnect or a cancel never runs it again. *)
StartedOnce ==
  [][\A r \in Requests :
       effect[r] # "running" /\ effect'[r] = "running"
         => effect[r] = "none" /\ r \in sent]_effect

(* Every job the agent accepted is answered for: once its token is cancelled
   the job leaves the queue and the worker, and its token is removed. *)
CancelledJobsLeave ==
  \A w \in Workers :
    (worker[w].step = "run" /\ reg[worker[w].req] = "cancelled")
      ~> worker[w].step = "idle"

(* The receive loop awaits room in a full lane: nothing behind it is handled. *)
Blocked == handler # NoReq /\ Len(queue[Lane(handler)]) = Cap(Lane(handler))

CancelOnItsWay(r) ==
  /\ link # NoConn
  /\ \E i \in 1 .. Len(toAgent[link]) :
       toAgent[link][i] = [kind |-> "CancelCommand", req |-> r]

(* A cancel that is on a live connection stops the command it names, even one that
   would never finish by itself and whatever else is on the way - unless the
   connection is lost, or the receive loop is blocked for good: a request waits for
   room in a full lane, no command of the lane ever finishes, and the cancels that
   would make room are behind that request. *)
CancelStopsCommand ==
  \A r \in Cancels :
    (CancelOnItsWay(r) /\ effect[r] = "running")
      ~> (effect[r] # "running" \/ link = NoConn \/ []Blocked)

(* What IAgentBridge's callers count on: the cancel always gets through. It does
   not when the receive loop is blocked for good. *)
CancelAlwaysStops ==
  \A r \in Cancels :
    (CancelOnItsWay(r) /\ effect[r] = "running")
      ~> (effect[r] # "running" \/ link = NoConn)

(* What ReadJobQueue.cs:9-13 promises of the dedicated read queue: "reads stay
   responsive even when the main pool is saturated by long-running writes".
   A read command must not wait behind a command that waits for room in the
   main queue. *)
ReadsNotBehindWrites ==
  ~ /\ handler # NoReq
    /\ Lane(handler) = "main"
    /\ \A w \in Workers \ ReadWorkers : worker[w].step = "run"
    /\ Len(queue["main"]) = MainCap
    /\ \E i \in 1 .. Len(toAgent[opened]) :
         /\ toAgent[opened][i].kind = "RequestCommand"
         /\ toAgent[opened][i].req \in ReadRequests
=============================================================================
