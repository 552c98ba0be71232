----------------------------- MODULE SyncQueue -----------------------------
(***************************************************************************)
(* SyncBackgroundService (App): sync requests of git hooks and of the API  *)
(* go through one queue with several workers.  A request for a repository  *)
(* that is already queued or being synced is not queued again              *)
(* (Sync:EnableDeduplication, on by default).                              *)
(*                                                                         *)
(* The queue is not the only one that stores what a repository is like:    *)
(* the page's own sync (WorkspaceGitService.SyncAsync), the jobs that sync *)
(* a repository of theirs, the notifications of git hooks and the answers  *)
(* of commands that change a branch write the same rows, and none of them  *)
(* asks what is in flight here.                                            *)
(*                                                                         *)
(* A key is a repository in a workspace; its state in git is a number that *)
(* only grows, so that a sync can be told to be older than another.        *)
(***************************************************************************)
EXTENDS Naturals, Sequences, SequencesExt

CONSTANTS
  Keys,
  Triggers,     (* the calls of EnqueueSync                                 *)
  Workers,      (* Sync:MaxConcurrency                                      *)
  Others,       (* bound: syncs outside the queue under way at a time       *)
  Outside,      (* bound: the repositories that are synced outside it       *)
  MaxChanges    (* bound: changes to a repository                           *)

ASSUME SyncAssumption == Keys # {} /\ Outside \subseteq Keys /\ MaxChanges \in Nat

VARIABLES
  repo,         (* the state of the repository in git                       *)
  stored,       (* the state the database shows                             *)
  storedBy,     (* who stored it                                            *)
  last,         (* how the last sync of the queue ended                     *)
  inFlight,     (* _inFlightRequests                                        *)
  queue,        (* _channel                                                 *)
  open,         (* the channel has not been completed                       *)
  worker,       (* what each worker is doing                                *)
  trigger,      (* where each call of EnqueueSync stands                    *)
  other         (* where each sync outside the queue stands                 *)

data  == <<repo, stored, storedBy, last>>
chan  == <<inFlight, queue, open>>
vars  == <<data, chan, worker, trigger, other>>

AnyKey == CHOOSE k \in Keys : TRUE
Idle == [step |-> "idle", key |-> AnyKey, seen |-> 0]

WorkerState ==
  [step : {"idle", "taken", "read", "ending", "dead"}, key : Keys, seen : 0 .. MaxChanges]
TriggerState ==
  [step : {"before", "added", "accepted", "refused"}, key : Keys, at : 0 .. MaxChanges]
OtherState ==
  [step : {"idle", "read"}, key : Keys, seen : 0 .. MaxChanges]

TypeOK ==
  /\ repo \in [Keys -> 0 .. MaxChanges]
  /\ stored \in [Keys -> 0 .. MaxChanges]
  /\ storedBy \in [Keys -> {"queue", "other"}]
  /\ last \in [Keys -> {"ok", "failed"}]
  /\ inFlight \subseteq Keys
  /\ queue \in Seq(Keys)
  /\ IsInjective(queue)
  /\ open \in BOOLEAN
  /\ worker \in [Workers -> WorkerState]
  /\ trigger \in [Triggers -> TriggerState]
  /\ other \in [Others -> OtherState]

Init ==
  /\ repo = [k \in Keys |-> 0]
  /\ stored = [k \in Keys |-> 0]
  /\ storedBy = [k \in Keys |-> "queue"]
  /\ last = [k \in Keys |-> "ok"]
  /\ inFlight = {}
  /\ queue = <<>>
  /\ open = TRUE
  /\ worker = [w \in Workers |-> Idle]
  /\ trigger = [t \in Triggers |-> [step |-> "before", key |-> AnyKey, at |-> 0]]
  /\ other = [o \in Others |-> Idle]

-----------------------------------------------------------------------------
(* A commit, a checkout, a merge. *)
Change(k) ==
  /\ repo[k] < MaxChanges
  /\ repo' = [repo EXCEPT ![k] = @ + 1]
  /\ UNCHANGED <<stored, storedBy, last, chan, worker, trigger, other>>

(* Mutant: looks whether the key is there, and adds it when it writes. *)
EnqueueSyncUnchecked(t, k) ==
  /\ trigger[t].step = "before"
  /\ trigger' = [trigger EXCEPT ![t] = [step |-> "added", key |-> k, at |-> repo[k]]]
  /\ inFlight' = inFlight \cup {k}
  /\ UNCHANGED <<data, queue, open, worker, other>>

(* EnqueueSync: a key that is in flight is skipped, and the caller told that
   the sync will happen. *)
EnqueueSync(t, k) ==
  /\ trigger[t].step = "before"
  /\ \/ /\ k \in inFlight
        /\ trigger' = [trigger EXCEPT ![t] = [step |-> "accepted", key |-> k, at |-> repo[k]]]
        /\ UNCHANGED inFlight
     \/ /\ k \notin inFlight
        /\ trigger' = [trigger EXCEPT ![t] = [step |-> "added", key |-> k, at |-> repo[k]]]
        /\ inFlight' = inFlight \cup {k}
  /\ UNCHANGED <<data, queue, open, worker, other>>

(* Mutant: a bounded channel that drops the oldest request for a new one. *)
WriteRequestDropsOldest(t) ==
  LET k == trigger[t].key IN
  /\ trigger[t].step = "added"
  /\ \/ /\ open
        /\ queue' = <<k>>
        /\ trigger' = [trigger EXCEPT ![t].step = "accepted"]
        /\ UNCHANGED inFlight
     \/ /\ ~open
        /\ inFlight' = inFlight \ {k}
        /\ trigger' = [trigger EXCEPT ![t].step = "refused"]
        /\ UNCHANGED queue
  /\ UNCHANGED <<data, open, worker, other>>

(* TryWrite; when the channel has been completed the key is taken back. *)
WriteRequest(t) ==
  LET k == trigger[t].key IN
  /\ trigger[t].step = "added"
  /\ \/ /\ open
        /\ queue' = Append(queue, k)
        /\ trigger' = [trigger EXCEPT ![t].step = "accepted"]
        /\ UNCHANGED inFlight
     \/ /\ ~open
        /\ inFlight' = inFlight \ {k}
        /\ trigger' = [trigger EXCEPT ![t].step = "refused"]
        /\ UNCHANGED queue
  /\ UNCHANGED <<data, open, worker, other>>

-----------------------------------------------------------------------------
(* Mutant: the key is free again as soon as a worker takes the request. *)
TakeRequestFrees(w) ==
  /\ worker[w].step = "idle"
  /\ queue # <<>>
  /\ worker' = [worker EXCEPT ![w] = [step |-> "taken", key |-> Head(queue), seen |-> 0]]
  /\ queue' = Tail(queue)
  /\ inFlight' = inFlight \ {Head(queue)}
  /\ UNCHANGED <<data, open, trigger, other>>

TakeRequest(w) ==
  /\ worker[w].step = "idle"
  /\ queue # <<>>
  /\ worker' = [worker EXCEPT ![w] = [step |-> "taken", key |-> Head(queue), seen |-> 0]]
  /\ queue' = Tail(queue)
  /\ UNCHANGED <<data, inFlight, open, trigger, other>>

(* SyncSingleRepositoryAsync: the agent reads the repository, or the sync fails
   or throws, which is logged. *)
ReadRepository(w) ==
  LET k == worker[w].key IN
  /\ worker[w].step = "taken"
  /\ \/ /\ worker' = [worker EXCEPT ![w].step = "read", ![w].seen = repo[k]]
        /\ UNCHANGED last
     \/ /\ worker' = [worker EXCEPT ![w].step = "ending"]
        /\ last' = [last EXCEPT ![k] = "failed"]
  /\ UNCHANGED <<repo, stored, storedBy, chan, trigger, other>>

(* PersistVersionsAsync *)
Persist(w) ==
  LET k == worker[w].key IN
  /\ worker[w].step = "read"
  /\ worker' = [worker EXCEPT ![w].step = "ending"]
  /\ stored' = [stored EXCEPT ![k] = worker[w].seen]
  /\ storedBy' = [storedBy EXCEPT ![k] = "queue"]
  /\ last' = [last EXCEPT ![k] = "ok"]
  /\ UNCHANGED <<repo, chan, trigger, other>>

(* Mutant: the key is released only when the sync went well. *)
ReleaseIfOk(w) ==
  /\ worker[w].step = "ending"
  /\ worker' = [worker EXCEPT ![w] = Idle]
  /\ inFlight' = IF last[worker[w].key] = "ok" THEN inFlight \ {worker[w].key} ELSE inFlight
  /\ UNCHANGED <<data, queue, open, trigger, other>>

(* finally: the key is no longer in flight. *)
Release(w) ==
  /\ worker[w].step = "ending"
  /\ worker' = [worker EXCEPT ![w] = Idle]
  /\ inFlight' = inFlight \ {worker[w].key}
  /\ UNCHANGED <<data, queue, open, trigger, other>>

(* StopAsync completes the channel; then the workers are cancelled. *)
Stop ==
  /\ open
  /\ open' = FALSE
  /\ UNCHANGED <<data, inFlight, queue, worker, trigger, other>>

CancelWorker(w) ==
  /\ ~open
  /\ worker[w].step # "dead"
  /\ worker' = [worker EXCEPT ![w] = [Idle EXCEPT !.step = "dead"]]
  /\ inFlight' = IF worker[w].step = "idle" THEN inFlight ELSE inFlight \ {worker[w].key}
  /\ UNCHANGED <<data, queue, open, trigger, other>>

-----------------------------------------------------------------------------
(* Outside the queue the agent reads the repository for a command, for a sync of
   the page or when a hook has run ... *)
ReadOutside(o, k) ==
  /\ other[o].step = "idle"
  /\ other' = [other EXCEPT ![o] = [step |-> "read", key |-> k, seen |-> repo[k]]]
  /\ UNCHANGED <<data, chan, worker, trigger>>

(* ... and what it read is stored when its answer or its notification has come,
   whatever has been stored meanwhile; or it never comes, and nothing is. *)
PersistOutside(o) ==
  LET k == other[o].key IN
  /\ other[o].step = "read"
  /\ other' = [other EXCEPT ![o] = Idle]
  /\ stored' = [stored EXCEPT ![k] = other[o].seen]
  /\ storedBy' = [storedBy EXCEPT ![k] = "other"]
  /\ UNCHANGED <<repo, last, chan, worker, trigger>>

-----------------------------------------------------------------------------
WorkerNext(w) == TakeRequest(w) \/ ReadRepository(w) \/ Persist(w) \/ Release(w)

Next ==
  \/ \E k \in Keys : Change(k) \/ \E t \in Triggers : EnqueueSync(t, k)
  \/ \E t \in Triggers : WriteRequest(t)
  \/ \E w \in Workers : WorkerNext(w) \/ CancelWorker(w)
  \/ \E o \in Others : PersistOutside(o) \/ \E k \in Outside : ReadOutside(o, k)
  \/ Stop

Spec == Init /\ [][Next]_vars

(* Fairness: a call that has begun goes on, and so do the workers; the agent
   answers or the command times out (CallsReturn of AppBridge). *)
FairSpec ==
  /\ Spec
  /\ \A t \in Triggers : WF_vars(WriteRequest(t))
  /\ \A w \in Workers : WF_vars(WorkerNext(w))
-----------------------------------------------------------------------------
Busy(w) == worker[w].step \in {"taken", "read", "ending"}
Queued(k) == k \in ToSet(queue)

(* Two workers never sync the same repository, and one that is being synced is
   not in the queue: a key is in exactly one place. *)
OneSyncPerKey ==
  \A w \in Workers : Busy(w) =>
    /\ ~Queued(worker[w].key)
    /\ \A v \in Workers \ {w} : Busy(v) => worker[v].key # worker[w].key

(* A key that is in flight is on its way to be released.  One that is not could
   never be synced again: every request for it would be skipped. *)
NoKeyStuck ==
  \A k \in inFlight :
    \/ Queued(k)
    \/ \E w \in Workers : Busy(w) /\ worker[w].key = k
    \/ \E t \in Triggers : trigger[t].step = "added" /\ trigger[t].key = k

(* Two syncs of the queue store in the order in which they read, though several
   workers store what they have read some time ago: what is stored goes back to an
   older state only where a sync outside the queue is one of the two that stored,
   the one before or the one now (NeverBackwards says that it does not even then). *)
QueueStoresInOrder ==
  [][\A k \in Keys : stored'[k] < stored[k] => "other" \in {storedBy[k], storedBy'[k]}]_stored

(* What one would like of the database, whoever stores: it does not, see above. *)
NeverBackwards == [][\A k \in Keys : stored'[k] >= stored[k]]_stored

Shows(t) == stored[trigger[t].key] >= trigger[t].at

(* A request that was accepted while its repository was still in the queue
   leads to a sync that stores the repository as it was then, or later. *)
QueuedTriggersAreSynced ==
  \A t \in Triggers :
    trigger[t].step = "accepted" /\ Queued(trigger[t].key)
      ~> Shows(t) \/ last[trigger[t].key] = "failed" \/ ~open

(* What the comment on the duplicate check says (SyncBackgroundService.cs:40) of
   a request that is skipped: "the sync will happen (just not a new one)". *)
TriggersAreSynced ==
  \A t \in Triggers :
    trigger[t].step = "accepted"
      ~> Shows(t) \/ last[trigger[t].key] = "failed" \/ ~open
=============================================================================
