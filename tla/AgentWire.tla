------------------------------ MODULE AgentWire ------------------------------
(***************************************************************************)
(* The SignalR connections between GrayMoon.App (the hub server) and the   *)
(* one GrayMoon.Agent process (the hub client).                            *)
(*                                                                         *)
(* The agent holds one HubConnection; every (re)connect gives it a fresh   *)
(* connection id, here the next number.  Each connection has a FIFO        *)
(* channel in both directions.  The agent can lose its connection and open *)
(* a new one before the server notices that the old one is dead, so a      *)
(* message addressed to a dead connection disappears silently.             *)
(* SignalR itself is a library: this module states only what the code in   *)
(* src/ relies on.                                                         *)
(***************************************************************************)
EXTENDS Naturals, Sequences

CONSTANTS
  Requests,    (* the request ids (Guid.NewGuid() per SendCommandAsync)     *)
  MaxConns     (* bound: how many connections the agent opens in a behaviour *)

ASSUME MaxConnsAssumption == MaxConns \in Nat \ {0}

Conns  == 1 .. MaxConns
NoConn == 0

(* AgentCommandResponse, abstracted to what a caller distinguishes. *)
Reply == {"ok", "failed", "cancelled"}

ToAgentMsg == [kind : {"RequestCommand", "CancelCommand"}, req : Requests]
ToAppMsg   == [req : Requests, reply : Reply]

VARIABLES
  opened,      (* the number of connections opened so far                   *)
  link,        (* the connection the agent is on, NoConn when it has none   *)
  toAgent,     (* per connection, App -> agent messages in flight           *)
  toApp        (* per connection, agent -> App messages in flight           *)

wireVars == <<opened, link, toAgent, toApp>>

WireTypeOK ==
  /\ opened \in 0 .. MaxConns
  /\ link \in Conns \cup {NoConn}
  /\ toAgent \in [Conns -> Seq(ToAgentMsg)]
  /\ toApp \in [Conns -> Seq(ToAppMsg)]

WireInit ==
  /\ opened = 0
  /\ link = NoConn
  /\ toAgent = [c \in Conns |-> <<>>]
  /\ toApp = [c \in Conns |-> <<>>]

(* ConnectWithRetryAsync, ReconnectLoopAsync and the automatic reconnect all
   end in a fresh connection.  The client library opens it only after the
   messages it had received on the previous one have been handled. *)
Connect ==
  /\ link = NoConn
  /\ opened < MaxConns
  /\ opened > 0 => toAgent[opened] = <<>>
  /\ opened' = opened + 1
  /\ link' = opened + 1
  /\ UNCHANGED <<toAgent, toApp>>

(* The network fails: any suffix of what is in flight is lost, in each
   direction.  What has already been received is still handled. *)
Drop ==
  /\ link # NoConn
  /\ link' = NoConn
  /\ \E n \in 0 .. Len(toAgent[link]) :
       toAgent' = [toAgent EXCEPT ![link] = SubSeq(@, 1, n)]
  /\ \E n \in 0 .. Len(toApp[link]) :
       toApp' = [toApp EXCEPT ![link] = SubSeq(@, 1, n)]
  /\ UNCHANGED opened

(* hubContext.Clients.Client(c).SendAsync: completes without an error when
   connection c is already dead. *)
PushToAgent(c, msg) ==
  toAgent' = IF c = link /\ c # NoConn
               THEN [toAgent EXCEPT ![c] = Append(@, msg)]
               ELSE toAgent

(* The agent's receive loop hands over the oldest message of its latest
   connection, one at a time. *)
TakeFromApp(msg) ==
  /\ opened > 0
  /\ toAgent[opened] # <<>>
  /\ msg = Head(toAgent[opened])
  /\ toAgent' = [toAgent EXCEPT ![opened] = Tail(@)]

(* _connection.InvokeAsync on the agent's live connection. *)
PushToApp(msg) ==
  /\ link # NoConn
  /\ toApp' = [toApp EXCEPT ![link] = Append(@, msg)]
=============================================================================
