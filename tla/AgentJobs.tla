------------------------------ MODULE AgentJobs ------------------------------
(***************************************************************************)
(* The agent side of the command bridge: the RequestCommand and            *)
(* CancelCommand handlers of SignalRConnectionHostedService, the           *)
(* CommandJobCancellationRegistry, the bounded job queues, the workers of  *)
(* JobBackgroundService and the retrying response send.                    *)
(*                                                                         *)
(* The client library calls the handlers one at a time, in order, so a     *)
(* RequestCommand handler that waits for room in a full queue holds up     *)
(* everything behind it.                                                   *)
(***************************************************************************)
EXTENDS AgentWire

CONSTANTS
  NoReq,         (* not a request                                           *)
  ReadRequests,  (* the requests whose command is in ReadOnlyCommands       *)
  Workers,       (* the competing consumers of both pools                   *)
  ReadWorkers,   (* those of the read pool                                  *)
  MainCap,       (* capacity of the main queue, max(2 * workers, 64)        *)
  ReadCap        (* capacity of the read queue, max(2 * workers, 8)         *)

ASSUME AgentAssumption ==
  /\ NoReq \notin Requests
  /\ ReadRequests \subseteq Requests
  /\ ReadWorkers \subseteq Workers
  /\ MainCap \in Nat \ {0}
  /\ ReadCap \in Nat \ {0}

(* DiffJobQueue is a third lane built like the read lane; one stands for both. *)
Lanes == {"main", "read"}
Lane(r) == IF r \in ReadRequests THEN "read" ELSE "main"
WorkerLane(w) == IF w \in ReadWorkers THEN "read" ELSE "main"
Cap(lane) == IF lane = "read" THEN ReadCap ELSE MainCap

VARIABLES
  reg,       (* CommandJobCancellationRegistry: the token of a request       *)
  handler,   (* the request whose EnqueueAsync the receive loop awaits       *)
  queue,     (* the bounded channel of each lane                             *)
  worker,    (* what each worker is doing                                    *)
  effect     (* what has become of the command itself (the git work)         *)

agentVars == <<reg, handler, queue, worker, effect>>
agentWire == <<wireVars, agentVars>>

Token  == {"none", "live", "cancelled"}
Effect == {"none", "running", "done", "aborted"}
Step   == {"idle", "check", "run", "send", "ack", "finally"}

(* last: the reply is sent from a catch block, whose own failure is only
   logged; conn: the connection the reply was sent on. *)
WorkerState ==
  [step : Step, req : Requests \cup {NoReq}, reply : Reply, last : BOOLEAN,
   conn : Conns \cup {NoConn}]

IdleWorker ==
  [step |-> "idle", req |-> NoReq, reply |-> "failed", last |-> FALSE, conn |-> NoConn]

AgentTypeOK ==
  /\ reg \in [Requests -> Token]
  /\ handler \in Requests \cup {NoReq}
  /\ queue \in [Lanes -> Seq(Requests)]
  /\ \A lane \in Lanes : Len(queue[lane]) <= Cap(lane)
  /\ worker \in [Workers -> WorkerState]
  /\ effect \in [Requests -> Effect]

AgentInit ==
  /\ reg = [r \in Requests |-> "none"]
  /\ handler = NoReq
  /\ queue = [lane \in Lanes |-> <<>>]
  /\ worker = [w \in Workers |-> IdleWorker]
  /\ effect = [r \in Requests |-> "none"]

-----------------------------------------------------------------------------
(* A response sent by a handler: skipped when the connection is down, a
   failure to send is only logged. *)
TryRespond(r, reply) ==
  IF link = NoConn
  THEN UNCHANGED toApp
  ELSE PushToApp([req |-> r, reply |-> reply])

(* Mutant: Register replaces the token that a CancelCommand left. *)
ReceiveRequestReplaces(r) ==
  /\ handler = NoReq
  /\ TakeFromApp([kind |-> "RequestCommand", req |-> r])
  /\ reg' = [reg EXCEPT ![r] = "live"]
  /\ handler' = r
  /\ UNCHANGED <<queue, worker, effect, opened, link, toApp>>

(* RequestCommand: Register, then wait to enqueue - or, when a CancelCommand
   came first and left a cancelled token, answer and unregister at once. *)
ReceiveRequest(r) ==
  /\ handler = NoReq
  /\ TakeFromApp([kind |-> "RequestCommand", req |-> r])
  /\ IF reg[r] = "cancelled"
       THEN /\ TryRespond(r, "cancelled")
            /\ reg' = [reg EXCEPT ![r] = "none"]
            /\ UNCHANGED handler
       ELSE /\ reg' = [reg EXCEPT ![r] = "live"]
            /\ handler' = r
            /\ UNCHANGED toApp
  /\ UNCHANGED <<queue, worker, effect, opened, link>>

(* RequestCommand of a job that cannot be created (unknown command, malformed
   arguments): CreateCommandJob throws after Register and before anything is
   awaited, and the catch block unregisters and answers. *)
RefuseRequest(r) ==
  /\ handler = NoReq
  /\ TakeFromApp([kind |-> "RequestCommand", req |-> r])
  /\ reg[r] # "cancelled"
  /\ TryRespond(r, "failed")
  /\ reg' = [reg EXCEPT ![r] = "none"]
  /\ UNCHANGED <<handler, queue, worker, effect, opened, link>>

(* Mutant: an unbounded channel. *)
EnqueueUnbounded ==
  /\ handler # NoReq
  /\ queue' = [queue EXCEPT ![Lane(handler)] = Append(@, handler)]
  /\ handler' = NoReq
  /\ UNCHANGED <<reg, worker, effect, wireVars>>

(* EnqueueAsync completes: there is room in the request's own lane.  Nothing else
   ends the wait while the agent lives: the job was created before it, and the
   CancelCommand that would cancel its token is behind it in the receive loop. *)
Enqueue ==
  /\ handler # NoReq
  /\ Len(queue[Lane(handler)]) < Cap(Lane(handler))
  /\ queue' = [queue EXCEPT ![Lane(handler)] = Append(@, handler)]
  /\ handler' = NoReq
  /\ UNCHANGED <<reg, worker, effect, wireVars>>

(* Mutant: a token that is already there is left alone (TryAdd only). *)
ReceiveCancelAddsOnly(r) ==
  /\ handler = NoReq
  /\ TakeFromApp([kind |-> "CancelCommand", req |-> r])
  /\ reg' = [reg EXCEPT ![r] = IF @ = "none" THEN "cancelled" ELSE @]
  /\ UNCHANGED <<handler, queue, worker, effect, opened, link, toApp>>

(* CancelCommand: cancels the token, or leaves a cancelled one for a request
   that is not there (not yet, or not any more). *)
ReceiveCancel(r) ==
  /\ handler = NoReq
  /\ TakeFromApp([kind |-> "CancelCommand", req |-> r])
  /\ reg' = [reg EXCEPT ![r] = "cancelled"]
  /\ UNCHANGED <<handler, queue, worker, effect, opened, link, toApp>>

-----------------------------------------------------------------------------
At(w, step) == worker[w].step = step
JobOf(w)    == worker[w].req
Move(w, step) == worker' = [worker EXCEPT ![w].step = step]

(* Go on to send a reply; last when a catch block sends it. *)
Answer(w, reply, last) ==
  worker' = [worker EXCEPT ![w].step = "send", ![w].reply = reply, ![w].last = last]

(* Mutant: peeks at the queue and leaves the job there. *)
TakeJobPeeks(w) ==
  /\ At(w, "idle")
  /\ queue[WorkerLane(w)] # <<>>
  /\ worker' = [worker EXCEPT ![w].step = "check", ![w].req = Head(queue[WorkerLane(w)])]
  /\ UNCHANGED <<reg, handler, queue, effect, wireVars>>

TakeJob(w) ==
  /\ At(w, "idle")
  /\ queue[WorkerLane(w)] # <<>>
  /\ worker' = [worker EXCEPT ![w].step = "check", ![w].req = Head(queue[WorkerLane(w)])]
  /\ queue' = [queue EXCEPT ![WorkerLane(w)] = Tail(@)]
  /\ UNCHANGED <<reg, handler, effect, wireVars>>

(* A command cancelled before it started is answered, not run. *)
SkipCancelled(w) ==
  /\ At(w, "check")
  /\ reg[JobOf(w)] = "cancelled"
  /\ Answer(w, "cancelled", TRUE)
  /\ UNCHANGED <<reg, handler, queue, effect, wireVars>>

StartCommand(w) ==
  /\ At(w, "check")
  /\ reg[JobOf(w)] # "cancelled"
  /\ Move(w, "run")
  /\ effect' = [effect EXCEPT ![JobOf(w)] = "running"]
  /\ UNCHANGED <<reg, handler, queue, wireVars>>

(* The dispatcher returns a result, or throws (then a catch block answers). *)
FinishCommand(w, reply) ==
  /\ At(w, "run")
  /\ reply \in {"ok", "failed"}
  /\ \E last \in BOOLEAN :
       /\ last => reply = "failed"
       /\ Answer(w, reply, last)
  /\ effect' = [effect EXCEPT ![JobOf(w)] = IF reply = "ok" THEN "done" ELSE "aborted"]
  /\ UNCHANGED <<reg, handler, queue, wireVars>>

(* OperationCanceledException out of the dispatcher. *)
AbortCommand(w) ==
  /\ At(w, "run")
  /\ reg[JobOf(w)] = "cancelled"
  /\ Answer(w, "cancelled", TRUE)
  /\ effect' = [effect EXCEPT ![JobOf(w)] = "aborted"]
  /\ UNCHANGED <<reg, handler, queue, wireVars>>

(* SendResponseAsync on a live connection: InvokeAsync puts the reply on the
   wire and waits for the hub method to complete. *)
SendReply(w) ==
  /\ At(w, "send")
  /\ PushToApp([req |-> JobOf(w), reply |-> worker[w].reply])
  /\ worker' = [worker EXCEPT ![w].step = "ack", ![w].conn = link]
  /\ UNCHANGED <<reg, handler, queue, effect, opened, link, toAgent>>

(* Mutant: a reply that cannot be sent is tried for ever. *)
SendReplyFailsLoops(w) ==
  /\ At(w, "send")
  /\ link = NoConn
  /\ Answer(w, "failed", TRUE)
  /\ UNCHANGED <<reg, handler, queue, effect, wireVars>>

(* SendResponseAsync without a connection throws: the catch block tries to
   report the error, and gives up when that throws too. *)
SendReplyFails(w) ==
  /\ At(w, "send")
  /\ link = NoConn
  /\ IF worker[w].last THEN Move(w, "finally") ELSE Answer(w, "failed", TRUE)
  /\ UNCHANGED <<reg, handler, queue, effect, wireVars>>

(* The first response is sent under the job's own token: a cancel that comes
   now turns it into a second, "cancelled" response. *)
CancelDuringSend(w) ==
  /\ worker[w].step \in {"send", "ack"}
  /\ ~worker[w].last
  /\ reg[JobOf(w)] = "cancelled"
  /\ Answer(w, "cancelled", TRUE)
  /\ UNCHANGED <<reg, handler, queue, effect, wireVars>>

(* The hub has handled the reply. *)
ReplyAcked(w) ==
  /\ At(w, "ack")
  /\ worker[w].conn = link
  /\ \A i \in 1 .. Len(toApp[link]) : toApp[link][i].req # JobOf(w)
  /\ Move(w, "finally")
  /\ UNCHANGED <<reg, handler, queue, effect, wireVars>>

(* Mutant: the whole job is retried, not only the send. *)
AckLostRestartsJob(w) ==
  /\ At(w, "ack")
  /\ worker[w].conn # link
  /\ Move(w, "check")
  /\ UNCHANGED <<reg, handler, queue, effect, wireVars>>

(* The connection went away before the acknowledgement: the retry pipeline
   sends again (ShouldRetry), or the invocation fails or is cancelled, and a
   catch block answers once more unless this was a catch block. *)
AckLost(w) ==
  /\ At(w, "ack")
  /\ worker[w].conn # link
  /\ \/ Move(w, "send")
     \/ /\ ~worker[w].last
        /\ \E reply \in {"failed", "cancelled"} : Answer(w, reply, TRUE)
     \/ worker[w].last /\ Move(w, "finally")
  /\ UNCHANGED <<reg, handler, queue, effect, wireVars>>

(* Mutant: the finally block clears the registry. *)
UnregisterClears(w) ==
  /\ At(w, "finally")
  /\ reg' = [r \in Requests |-> "none"]
  /\ worker' = [worker EXCEPT ![w] = IdleWorker]
  /\ UNCHANGED <<handler, queue, effect, wireVars>>

(* The finally block: Unregister, and the worker is free. *)
Unregister(w) ==
  /\ At(w, "finally")
  /\ reg' = [reg EXCEPT ![JobOf(w)] = "none"]
  /\ worker' = [worker EXCEPT ![w] = IdleWorker]
  /\ UNCHANGED <<handler, queue, effect, wireVars>>

-----------------------------------------------------------------------------
(* The agent opens a connection; the handlers of the last one are done. *)
AgentConnect == handler = NoReq /\ Connect /\ UNCHANGED agentVars

LinkDrop == Drop /\ UNCHANGED agentVars

(* The agent process dies and starts again: nothing of it is persisted. *)
AgentCrash ==
  /\ IF link = NoConn THEN UNCHANGED toApp
     ELSE \E n \in 0 .. Len(toApp[link]) :
            toApp' = [toApp EXCEPT ![link] = SubSeq(@, 1, n)]
  /\ toAgent' = [c \in Conns |-> <<>>]
  /\ link' = NoConn
  /\ reg' = [r \in Requests |-> "none"]
  /\ handler' = NoReq
  /\ queue' = [lane \in Lanes |-> <<>>]
  /\ worker' = [w \in Workers |-> IdleWorker]
  /\ effect' = [r \in Requests |-> IF effect[r] = "running" THEN "aborted" ELSE effect[r]]
  /\ UNCHANGED opened

HandlerNext ==
  \/ \E r \in Requests : ReceiveRequest(r) \/ RefuseRequest(r) \/ ReceiveCancel(r)
  \/ Enqueue

SendStep(w) ==
  \/ SendReply(w) \/ SendReplyFails(w) \/ CancelDuringSend(w)
  \/ ReplyAcked(w) \/ AckLost(w)

(* What a worker does of itself: all but the end of a command. *)
WorkerProceeds(w) ==
  \/ TakeJob(w) \/ SkipCancelled(w) \/ StartCommand(w) \/ AbortCommand(w)
  \/ SendStep(w) \/ Unregister(w)

WorkerNext(w) == WorkerProceeds(w) \/ \E reply \in Reply : FinishCommand(w, reply)

AgentNext ==
  \/ HandlerNext
  \/ \E w \in Workers : WorkerNext(w)
  \/ AgentConnect \/ LinkDrop \/ AgentCrash

(* Fairness: the receive loop and every worker run, one step at a time.  A command
   that is never cancelled is not assumed to finish; one whose token is cancelled
   does.  The wait for room in a full lane is not assumed to end. *)
AgentFairness ==
  /\ WF_agentWire(HandlerNext)
  /\ \A w \in Workers : WF_agentWire(WorkerProceeds(w))

-----------------------------------------------------------------------------
Queued(r) == \E lane \in Lanes : \E i \in 1 .. Len(queue[lane]) : queue[lane][i] = r

(* A command that a caller still counts on can be cancelled: as long as the
   job waits or runs, its token is in the registry, so a CancelCommand finds
   it. (Register, Unregister in three catch/finally blocks, and the leftover
   tokens of late cancels all touch the same dictionary.) *)
EveryJobCancellable ==
  \A r \in Requests :
    handler = r \/ Queued(r) \/ (\E w \in Workers : worker[w].req = r)
      => reg[r] # "none"

(* A live token belongs to a job that waits or runs: no path forgets to
   unregister a job. *)
NoOrphanToken ==
  \A r \in Requests :
    reg[r] = "live"
      => handler = r \/ Queued(r) \/ (\E w \in Workers : worker[w].req = r)

(* The registry and the jobs agree, in both directions. *)
TokensMatchJobs == EveryJobCancellable /\ NoOrphanToken

(* No two workers ever hold the same job. *)
OneWorkerPerJob ==
  \A v, w \in Workers :
    worker[v].req = worker[w].req /\ worker[v].req # NoReq => v = w
=============================================================================
