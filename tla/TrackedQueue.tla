---------------------------- MODULE TrackedQueue ----------------------------
(***************************************************************************)
(* TrackedJobQueue (agent): the main job queue with the counts the App     *)
(* shows, in total and per workspace, and AgentQueueStateService (App),    *)
(* which keeps the counts that were reported last.                         *)
(*                                                                         *)
(* Increment, Decrement and NotifyAppAsync run without a lock on whichever *)
(* thread enqueues a job or finishes one.  The atomic steps are the single *)
(* Interlocked and ConcurrentDictionary operations; a report reads both    *)
(* counts in one step, no property compares the two within a report.       *)
(***************************************************************************)
EXTENDS Integers, FiniteSets

CONSTANTS
  Jobs,
  Workspaces,
  Loops         (* number of worker loops                                   *)

VARIABLES
  enq,          (* where EnqueueAsync stands for a job                      *)
  work,         (* where the worker stands for a job                        *)
  ws,           (* TryGetWorkspaceId of a job                               *)
  total,        (* _totalPending                                            *)
  byWorkspace,  (* _byWorkspace                                             *)
  report,       (* reports read from the counts and not yet received        *)
  connected,
  app           (* AgentQueueStateService: what the App shows               *)

jobs   == <<enq, work, ws>>
counts == <<total, byWorkspace>>
queueVars   == <<jobs, counts, report, connected, app>>

Absent == -1                           (* the workspace has no entry        *)
Ends   == Jobs \X {"enqueued", "completed"}
Status == [total : Int, byWorkspace : [Workspaces -> Nat]]
Silent == [total |-> 0, byWorkspace |-> [w \in Workspaces |-> 0]]

Shown(n) == IF n > 0 THEN n ELSE 0
Current  == [total |-> total, byWorkspace |-> [w \in Workspaces |-> Shown(byWorkspace[w])]]

QueueTypeOK ==
  /\ enq \in [Jobs -> {"before", "written", "totalled", "counted"}]
  /\ work \in [Jobs -> {"waiting", "working", "totalled", "lowered", "removing", "finished"}]
  /\ ws \in [Jobs -> Workspaces]
  /\ total \in -Cardinality(Jobs) .. Cardinality(Jobs)
  /\ byWorkspace \in [Workspaces -> Absent .. Cardinality(Jobs)]
  /\ DOMAIN report = Ends
  /\ \A e \in Ends : \A s, t \in report[e] : s \in Status /\ s = t
  /\ connected \in BOOLEAN
  /\ app \in Status

QueueInit ==
  /\ enq = [j \in Jobs |-> "before"]
  /\ work = [j \in Jobs |-> "waiting"]
  /\ ws \in [Jobs -> Workspaces]
  /\ total = 0
  /\ byWorkspace = [w \in Workspaces |-> Absent]
  /\ report = [e \in Ends |-> {}]
  /\ connected = TRUE
  /\ app = Silent

(* NotifyAppAsync, up to the point where the message is on its way. *)
Notify(j, end, status) ==
  report' = [report EXCEPT ![<<j, end>>] = IF connected THEN {status} ELSE @]

-----------------------------------------------------------------------------
(* EnqueueAsync: write to the channel ... *)
Write(j) ==
  /\ enq[j] = "before"
  /\ enq' = [enq EXCEPT ![j] = "written"]
  /\ UNCHANGED <<work, ws, counts, report, connected, app>>

(* ... then Increment, in two steps ... *)
IncrementTotal(j) ==
  /\ enq[j] = "written"
  /\ enq' = [enq EXCEPT ![j] = "totalled"]
  /\ total' = total + 1
  /\ UNCHANGED <<work, ws, byWorkspace, report, connected, app>>

(* ... and a report, of the counts as they are after the second. *)
IncrementWorkspace(j) ==
  /\ enq[j] = "totalled"
  /\ enq' = [enq EXCEPT ![j] = "counted"]
  /\ byWorkspace' = [byWorkspace EXCEPT ![ws[j]] = Shown(@) + 1]
  /\ UNCHANGED <<work, ws, total, connected, app>>
  /\ Notify(j, "enqueued", Current')

(* A worker takes a job that has been written, whether it is counted or not. *)
Take(j) ==
  /\ enq[j] # "before"
  /\ work[j] = "waiting"
  /\ Cardinality({k \in Jobs : work[k] \notin {"waiting", "finished"}}) < Loops
  /\ work' = [work EXCEPT ![j] = "working"]
  /\ UNCHANGED <<enq, ws, counts, report, connected, app>>

(* Mutant: the total is kept from going below zero, as the other counts are. *)
DecrementTotalClamped(j) ==
  /\ work[j] = "working"
  /\ work' = [work EXCEPT ![j] = "totalled"]
  /\ total' = Shown(total - 1)
  /\ UNCHANGED <<enq, ws, byWorkspace, report, connected, app>>

(* ReportJobCompleted -> Decrement *)
DecrementTotal(j) ==
  /\ work[j] = "working"
  /\ work' = [work EXCEPT ![j] = "totalled"]
  /\ total' = total - 1
  /\ UNCHANGED <<enq, ws, byWorkspace, report, connected, app>>

(* AddOrUpdate: one less, or none. *)
DecrementWorkspace(j) ==
  /\ work[j] = "totalled"
  /\ work' = [work EXCEPT ![j] = "lowered"]
  /\ byWorkspace' = [byWorkspace EXCEPT ![ws[j]] = Shown(@ - 1)]
  /\ UNCHANGED <<enq, ws, total, report, connected, app>>

(* TryGetValue: an entry that has come down to none is going to be removed. *)
TestRemaining(j) ==
  /\ work[j] = "lowered"
  /\ \/ /\ byWorkspace[ws[j]] = 0
        /\ work' = [work EXCEPT ![j] = "removing"]
        /\ UNCHANGED report
     \/ /\ byWorkspace[ws[j]] # 0
        /\ work' = [work EXCEPT ![j] = "finished"]
        /\ Notify(j, "completed", Current)
  /\ UNCHANGED <<enq, ws, counts, connected, app>>

(* Mutant: the total is lowered once more with the entry. *)
RemoveEntryTotals(j) ==
  /\ work[j] = "removing"
  /\ work' = [work EXCEPT ![j] = "finished"]
  /\ total' = total - 1
  /\ byWorkspace' = [byWorkspace EXCEPT ![ws[j]] = Absent]
  /\ UNCHANGED <<enq, ws, connected, app>>
  /\ Notify(j, "completed", Current')

(* TryRemove takes the entry away, whatever it holds by now. *)
RemoveEntry(j) ==
  /\ work[j] = "removing"
  /\ work' = [work EXCEPT ![j] = "finished"]
  /\ byWorkspace' = [byWorkspace EXCEPT ![ws[j]] = Absent]
  /\ UNCHANGED <<enq, ws, total, connected, app>>
  /\ Notify(j, "completed", Current')

-----------------------------------------------------------------------------
(* ReportQueueStatus.  Two threads that report race for the connection, so
   reports arrive in any order. *)
Receive(e) ==
  /\ \E s \in report[e] : app' = s
  /\ report' = [report EXCEPT ![e] = {}]
  /\ UNCHANGED <<jobs, counts, connected>>

(* The connection is lost, with the reports on it, and OnDisconnectedAsync
   clears what the App shows.  A new connection reports nothing by itself. *)
Disconnect ==
  /\ connected
  /\ connected' = FALSE
  /\ report' = [e \in Ends |-> {}]
  /\ app' = Silent
  /\ UNCHANGED <<jobs, counts>>

Connect ==
  /\ ~connected
  /\ connected' = TRUE
  /\ UNCHANGED <<jobs, counts, report, app>>

Done ==                               (* every job has been dealt with      *)
  /\ \A j \in Jobs : enq[j] = "counted" /\ work[j] = "finished"
  /\ UNCHANGED queueVars

QueueNext ==
  \/ \E j \in Jobs :
       \/ Write(j) \/ IncrementTotal(j) \/ IncrementWorkspace(j) \/ Take(j)
       \/ DecrementTotal(j) \/ DecrementWorkspace(j) \/ TestRemaining(j) \/ RemoveEntry(j)
  \/ \E e \in Ends : Receive(e)
  \/ Disconnect \/ Connect \/ Done

QueueSpec == QueueInit /\ [][QueueNext]_queueVars
-----------------------------------------------------------------------------
(* No thread is between the steps of Increment or Decrement. *)
AtRest ==
  \A j \in Jobs :
    /\ enq[j] \in {"before", "counted"}
    /\ work[j] \in {"waiting", "working", "finished"}

Pending == {j \in Jobs : enq[j] = "counted" /\ work[j] # "finished"}

(* Whatever the interleaving, also when jobs finish before they are counted,
   the total comes back to the number of jobs queued or in progress. *)
TotalCountsWork ==
  AtRest => total = Cardinality(Pending)

(* What the class comment says of the counts (TrackedJobQueue.cs:13-16): they
   are "total + per-workspace", and go down "when jobs actually complete". *)
WorkspaceCountsWork ==
  AtRest => \A w \in Workspaces :
              Shown(byWorkspace[w]) = Cardinality({j \in Pending : ws[j] = w})
=============================================================================
