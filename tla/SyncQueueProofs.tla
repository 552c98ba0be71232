-------------------------- MODULE SyncQueueProofs --------------------------
(***************************************************************************)
(* Proofs about the two queues whose bookkeeping is apart from the channel *)
(* itself.  SyncQueue, for every set of repositories, of requests and of   *)
(* workers: the key of a repository that is in flight is in exactly one    *)
(* place, a request that has still to write it, the queue, or a worker.    *)
(* TrackedQueue, for every finite set of jobs: the total is the difference *)
(* of what has been counted up and what has been counted down.             *)
(***************************************************************************)
EXTENDS SyncQueue, TrackedQueue, FiniteSetTheorems, SequenceTheorems, TLAPS

Added(t) == trigger[t].step = "added"

(* Whoever has the key of a repository has it for itself. *)
OnePlace ==
  /\ OneSyncPerKey
  /\ \A t \in Triggers : Added(t) =>
       /\ ~Queued(trigger[t].key)
       /\ \A w \in Workers : Busy(w) => worker[w].key # trigger[t].key
       /\ \A u \in Triggers \ {t} : Added(u) => trigger[u].key # trigger[t].key

(* Wherever a key is, it is in flight. *)
AllInFlight ==
  /\ ToSet(queue) \subseteq inFlight
  /\ \A w \in Workers : Busy(w) => worker[w].key \in inFlight
  /\ \A t \in Triggers : Added(t) => trigger[t].key \in inFlight

(* Nobody has read what has not been yet, and what a worker has read is at least as
   new as what another worker stored. *)
ReadIsNewer ==
  /\ \A k \in Keys : stored[k] <= repo[k]
  /\ \A w \in Workers : worker[w].step = "read" =>
       /\ storedBy[worker[w].key] = "queue" => stored[worker[w].key] <= worker[w].seen
       /\ worker[w].seen <= repo[worker[w].key]
  /\ \A o \in Others : other[o].step = "read" => other[o].seen <= repo[other[o].key]

IInv == TypeOK /\ OnePlace /\ AllInFlight /\ NoKeyStuck /\ ReadIsNewer

-----------------------------------------------------------------------------
(* The queue as a set: what a write adds and a read takes away. *)
LEMMA QueueAppend ==
  ASSUME NEW S, NEW s \in Seq(S), NEW e \in S, IsInjective(s), e \notin ToSet(s)
  PROVE  /\ Append(s, e) \in Seq(S)
         /\ IsInjective(Append(s, e))
         /\ ToSet(Append(s, e)) = ToSet(s) \cup {e}
<1>1. /\ Append(s, e) \in Seq(S)
      /\ DOMAIN s = 1 .. Len(s)
      /\ DOMAIN Append(s, e) = 1 .. Len(s) + 1
      /\ \A i \in 1 .. Len(s) : Append(s, e)[i] = s[i]
      /\ Append(s, e)[Len(s) + 1] = e
      /\ Len(s) \in Nat
  BY AppendProperties, LenProperties
<1>2. IsInjective(Append(s, e))
  BY <1>1 DEF IsInjective, ToSet
<1>3. ToSet(Append(s, e)) = ToSet(s) \cup {e}
  BY <1>1 DEF ToSet
<1>4. QED
  BY <1>1, <1>2, <1>3

LEMMA QueueTake ==
  ASSUME NEW S, NEW s \in Seq(S), IsInjective(s), s # <<>>
  PROVE  /\ Head(s) \in S /\ Head(s) \in ToSet(s)
         /\ Tail(s) \in Seq(S)
         /\ IsInjective(Tail(s))
         /\ ToSet(Tail(s)) = ToSet(s) \ {Head(s)}
<1>1. /\ Head(s) \in S
      /\ Head(s) = s[1]
      /\ Tail(s) \in Seq(S)
      /\ Len(s) \in Nat \ {0}
      /\ DOMAIN s = 1 .. Len(s)
      /\ DOMAIN Tail(s) = 1 .. Len(s) - 1
      /\ \A i \in 1 .. Len(s) - 1 : Tail(s)[i] = s[i + 1]
  BY HeadTailProperties, EmptySeq, LenProperties
<1>2. IsInjective(Tail(s))
  BY <1>1 DEF IsInjective
<1>3. ToSet(Tail(s)) \subseteq ToSet(s) \ {Head(s)}
  BY <1>1 DEF IsInjective, ToSet
<1>4. ASSUME NEW i \in DOMAIN s, s[i] # Head(s)
      PROVE  s[i] \in ToSet(Tail(s))
  <2>1. i - 1 \in DOMAIN Tail(s) /\ Tail(s)[i - 1] = s[i]
    BY <1>1, <1>4
  <2>2. QED
    BY <2>1 DEF ToSet
<1>5. Head(s) \in ToSet(s)
  BY <1>1 DEF ToSet
<1>6. QED
  <2>1. ToSet(s) \ {Head(s)} \subseteq ToSet(Tail(s))
    BY <1>4 DEF ToSet
  <2>2. QED
    BY <1>1, <1>2, <1>3, <1>5, <2>1

-----------------------------------------------------------------------------
(* Init: nothing has been asked for. *)
LEMMA Initially == Init => IInv
<1> SUFFICES ASSUME Init PROVE IInv
  OBVIOUS
<1>1. AnyKey \in Keys
  BY SyncAssumption DEF AnyKey
<1>2. TypeOK
  BY <1>1, SyncAssumption, EmptySeq
  DEF Init, TypeOK, Idle, IsInjective, WorkerState, TriggerState, OtherState
<1>3. ToSet(queue) = {}
  BY EmptySeq DEF Init, ToSet
<1>4. OnePlace /\ AllInFlight
  BY <1>3 DEF Init, OnePlace, OneSyncPerKey, AllInFlight, Added, Busy, Queued, Idle
<1>5. NoKeyStuck /\ ReadIsNewer
  BY <1>1, SyncAssumption DEF Init, NoKeyStuck, ReadIsNewer, Idle
<1>6. QED
  BY <1>2, <1>4, <1>5 DEF IInv

(* The repository moves on: what has been read may be older than it, not
   newer. *)
LEMMA ChangeKeeps ==
  ASSUME IInv, NEW k \in Keys, Change(k)
  PROVE  IInv'
<1>1. TypeOK'
  BY SyncAssumption DEF IInv, TypeOK, Change, chan
<1>2. ReadIsNewer'
  BY SyncAssumption DEF IInv, TypeOK, ReadIsNewer, Change, WorkerState, OtherState
<1>3. QED
  BY <1>1, <1>2 DEF IInv, Change, chan, OnePlace, OneSyncPerKey, AllInFlight, NoKeyStuck,
                    Added, Busy, Queued

(* A request adds its key when no one has it. *)
LEMMA EnqueueSyncKeeps ==
  ASSUME IInv, NEW t \in Triggers, NEW k \in Keys, EnqueueSync(t, k)
  PROVE  IInv'
<1>1. /\ trigger' \in [Triggers -> TriggerState]
      /\ \A u \in Triggers \ {t} : trigger'[u] = trigger[u]
      /\ trigger'[t].step = "added" => trigger'[t].key = k /\ k \notin inFlight
      /\ ~Added(t)
      /\ inFlight' = inFlight \cup {k}
      /\ k \in inFlight \/ trigger'[t].step = "added"
  <2> DEFINE new(step) == [step |-> step, key |-> k, at |-> repo[k]]
  <2>1. repo[k] \in 0 .. MaxChanges
    BY DEF IInv, TypeOK
  <2>2. new("accepted") \in TriggerState /\ new("added") \in TriggerState
    BY <2>1 DEF TriggerState
  <2>3. \/ /\ k \in inFlight /\ UNCHANGED inFlight
           /\ trigger' = [trigger EXCEPT ![t] = new("accepted")]
        \/ /\ k \notin inFlight /\ inFlight' = inFlight \cup {k}
           /\ trigger' = [trigger EXCEPT ![t] = new("added")]
    BY DEF EnqueueSync
  <2>4. trigger \in [Triggers -> TriggerState] /\ trigger[t].step = "before"
    BY DEF IInv, TypeOK, EnqueueSync
  <2>5. QED
    BY <2>2, <2>3, <2>4 DEF Added
<1>2. UNCHANGED <<data, queue, open, worker, other>>
  BY DEF EnqueueSync
<1>3. TypeOK'
  BY <1>1, <1>2 DEF IInv, TypeOK, data
<1>4. OnePlace' /\ AllInFlight'
  BY <1>1, <1>2 DEF IInv, OnePlace, OneSyncPerKey, AllInFlight, Added, Busy, Queued
<1>5. NoKeyStuck'
  BY <1>1, <1>2 DEF IInv, NoKeyStuck, Added, Busy, Queued
<1>6. QED
  BY <1>2, <1>3, <1>4, <1>5 DEF IInv, ReadIsNewer, data

(* The key goes from the request to the queue, or is given back. *)
LEMMA WriteRequestKeeps ==
  ASSUME IInv, NEW t \in Triggers, WriteRequest(t)
  PROVE  IInv'
<1> DEFINE k == trigger[t].key
<1>1. /\ trigger' \in [Triggers -> TriggerState]
      /\ \A u \in Triggers \ {t} : trigger'[u] = trigger[u]
      /\ Added(t)
      /\ trigger'[t].step # "added"
      /\ k \in Keys
  <2>1. trigger \in [Triggers -> TriggerState] /\ trigger[t].step = "added" /\ k \in Keys
    BY DEF IInv, TypeOK, TriggerState, WriteRequest
  <2>2. \/ trigger' = [trigger EXCEPT ![t].step = "accepted"]
        \/ trigger' = [trigger EXCEPT ![t].step = "refused"]
    BY DEF WriteRequest
  <2> HIDE DEF k
  <2>3. ASSUME NEW step \in {"accepted", "refused"}, trigger' = [trigger EXCEPT ![t].step = step]
        PROVE  /\ trigger' \in [Triggers -> TriggerState]
               /\ \A u \in Triggers \ {t} : trigger'[u] = trigger[u]
               /\ trigger'[t].step # "added"
    BY <2>1, <2>3 DEF TriggerState
  <2>4. QED
    BY <2>1, <2>2, <2>3 DEF Added
<1>2. UNCHANGED <<data, open, worker, other>>
  BY DEF WriteRequest
<1>3. k \notin ToSet(queue)
  BY <1>1 DEF IInv, OnePlace, Queued
<1>4. CASE open
  <2>1. queue' = Append(queue, k) /\ UNCHANGED inFlight
    BY <1>4 DEF WriteRequest
  <2>2. queue' \in Seq(Keys) /\ IsInjective(queue') /\ ToSet(queue') = ToSet(queue) \cup {k}
    BY <1>1, <1>3, <2>1, QueueAppend DEF IInv, TypeOK
  <2>3. TypeOK'
    BY <1>1, <1>2, <2>1, <2>2 DEF IInv, TypeOK, data
  <2>4. OnePlace' /\ AllInFlight'
    BY <1>1, <1>2, <2>1, <2>2 DEF IInv, OnePlace, OneSyncPerKey, AllInFlight, Added, Busy, Queued
  <2>5. NoKeyStuck'
    BY <1>1, <1>2, <2>1, <2>2 DEF IInv, NoKeyStuck, Added, Busy, Queued
  <2>6. QED
    BY <1>2, <2>3, <2>4, <2>5 DEF IInv, ReadIsNewer, data
<1>5. CASE ~open
  <2>1. UNCHANGED queue /\ inFlight' = inFlight \ {k}
    BY <1>5 DEF WriteRequest
  <2>2. TypeOK'
    BY <1>1, <1>2, <2>1 DEF IInv, TypeOK, data
  <2>3. OnePlace' /\ AllInFlight'
    BY <1>1, <1>2, <1>3, <2>1
    DEF IInv, OnePlace, OneSyncPerKey, AllInFlight, Added, Busy, Queued
  <2>4. NoKeyStuck'
    BY <1>1, <1>2, <2>1 DEF IInv, NoKeyStuck, Added, Busy, Queued
  <2>5. QED
    BY <1>2, <2>2, <2>3, <2>4 DEF IInv, ReadIsNewer, data
<1>6. QED
  BY <1>4, <1>5 DEF IInv, TypeOK

(* The key goes from the queue to the worker. *)
LEMMA TakeRequestKeeps ==
  ASSUME IInv, NEW w \in Workers, TakeRequest(w)
  PROVE  IInv'
<1> DEFINE k == Head(queue)
<1>1. /\ k \in Keys /\ k \in ToSet(queue)
      /\ queue' \in Seq(Keys)
      /\ IsInjective(queue')
      /\ ToSet(queue') = ToSet(queue) \ {k}
  BY QueueTake DEF IInv, TypeOK, TakeRequest
<1>2. /\ worker' \in [Workers -> WorkerState]
      /\ \A v \in Workers \ {w} : worker'[v] = worker[v]
      /\ worker'[w].step = "taken" /\ worker'[w].key = k
      /\ ~Busy(w)
  <2> DEFINE new == [step |-> "taken", key |-> k, seen |-> 0]
  <2>1. worker' = [worker EXCEPT ![w] = new]
    BY DEF TakeRequest
  <2>2. new \in WorkerState
    BY <1>1, SyncAssumption DEF WorkerState
  <2>3. worker \in [Workers -> WorkerState] /\ worker[w].step = "idle"
    BY DEF IInv, TypeOK, TakeRequest
  <2>4. QED
    BY <2>1, <2>2, <2>3 DEF Busy
<1>3. UNCHANGED <<data, inFlight, open, trigger, other>>
  BY DEF TakeRequest
<1>4. TypeOK'
  BY <1>1, <1>2, <1>3 DEF IInv, TypeOK, data
<1>5. OnePlace' /\ AllInFlight'
  BY <1>1, <1>2, <1>3 DEF IInv, OnePlace, OneSyncPerKey, AllInFlight, Added, Busy, Queued
<1>6. NoKeyStuck'
  BY <1>1, <1>2, <1>3 DEF IInv, NoKeyStuck, Added, Busy, Queued
<1>7. ReadIsNewer'
  BY <1>2, <1>3 DEF IInv, ReadIsNewer, data
<1>8. QED
  BY <1>4, <1>5, <1>6, <1>7 DEF IInv

(* The worker keeps its key; what it has read is what is there. *)
LEMMA ReadRepositoryKeeps ==
  ASSUME IInv, NEW w \in Workers, ReadRepository(w)
  PROVE  IInv'
<1> DEFINE k == worker[w].key
<1>1. k \in Keys /\ repo[k] \in 0 .. MaxChanges
  BY DEF IInv, TypeOK, WorkerState
<1>2. /\ worker' \in [Workers -> WorkerState]
      /\ \A v \in Workers : worker'[v].key = worker[v].key /\ (Busy(v)' <=> Busy(v))
      /\ \A v \in Workers \ {w} : worker'[v] = worker[v]
      /\ worker'[w].step = "read" => worker'[w].seen = repo[k]
  <2> DEFINE new(step, seen) == [worker[w] EXCEPT !.step = step, !.seen = seen]
  <2>1. worker \in [Workers -> WorkerState] /\ worker[w].step = "taken"
    BY DEF IInv, TypeOK, ReadRepository
  <2>2. /\ new("read", repo[k]) \in WorkerState
        /\ new("read", repo[k]).step = "read"
        /\ new("read", repo[k]).key = k
        /\ new("read", repo[k]).seen = repo[k]
    BY <1>1, <2>1 DEF WorkerState
  <2>3. /\ new("ending", worker[w].seen) \in WorkerState
        /\ new("ending", worker[w].seen).step = "ending"
        /\ new("ending", worker[w].seen).key = k
    BY <2>1 DEF WorkerState
  <2>4. \/ worker' = [worker EXCEPT ![w] = new("read", repo[k])]
        \/ worker' = [worker EXCEPT ![w] = new("ending", worker[w].seen)]
    BY <2>1 DEF ReadRepository, WorkerState
  <2>5. QED
    BY <2>1, <2>2, <2>3, <2>4 DEF Busy
<1>3. UNCHANGED <<repo, stored, storedBy, chan, trigger, other>>
  BY DEF ReadRepository
<1>4. last' \in [Keys -> {"ok", "failed"}]
  BY <1>1 DEF IInv, TypeOK, ReadRepository
<1>5. TypeOK'
  BY <1>2, <1>3, <1>4 DEF IInv, TypeOK, chan
<1>6. OnePlace' /\ AllInFlight' /\ NoKeyStuck'
  BY <1>2, <1>3
  DEF IInv, OnePlace, OneSyncPerKey, AllInFlight, NoKeyStuck, Added, Queued, chan
<1>7. ReadIsNewer'
  BY <1>1, <1>2, <1>3 DEF IInv, TypeOK, ReadIsNewer
<1>8. QED
  BY <1>5, <1>6, <1>7 DEF IInv

(* No other worker has read for this key. *)
LEMMA PersistKeeps ==
  ASSUME IInv, NEW w \in Workers, Persist(w)
  PROVE  IInv'
<1> DEFINE k == worker[w].key
<1>1. /\ k \in Keys /\ worker[w].seen \in 0 .. MaxChanges
      /\ worker[w].step = "read" /\ Busy(w)
  BY DEF IInv, TypeOK, WorkerState, Persist, Busy
<1>2. /\ worker' \in [Workers -> WorkerState]
      /\ \A v \in Workers : worker'[v].key = worker[v].key /\ (Busy(v)' <=> Busy(v))
      /\ \A v \in Workers \ {w} : worker'[v] = worker[v]
      /\ worker'[w].step = "ending"
  BY <1>1 DEF IInv, TypeOK, WorkerState, Persist, Busy
<1>3. /\ stored' = [stored EXCEPT ![k] = worker[w].seen]
      /\ storedBy' = [storedBy EXCEPT ![k] = "queue"]
      /\ last' = [last EXCEPT ![k] = "ok"]
      /\ UNCHANGED <<repo, chan, trigger, other>>
  BY DEF Persist
<1>4. TypeOK'
  BY <1>1, <1>2, <1>3 DEF IInv, TypeOK, chan
<1>5. OnePlace' /\ AllInFlight' /\ NoKeyStuck'
  BY <1>2, <1>3
  DEF IInv, OnePlace, OneSyncPerKey, AllInFlight, NoKeyStuck, Added, Queued, chan
<1>6. \A v \in Workers \ {w} : worker[v].step = "read" => worker[v].key # k
  BY <1>1 DEF IInv, OnePlace, OneSyncPerKey, Busy
<1>7. ReadIsNewer'
  <2>1. stored \in [Keys -> 0 .. MaxChanges] /\ storedBy \in [Keys -> {"queue", "other"}]
    BY DEF IInv, TypeOK
  <2>2. /\ stored'[k] = worker[w].seen
        /\ \A j \in Keys \ {k} : stored'[j] = stored[j] /\ storedBy'[j] = storedBy[j]
    BY <1>1, <1>3, <2>1
  <2>3. \A j \in Keys : stored'[j] <= repo'[j]
    BY <1>1, <1>3, <2>2 DEF IInv, ReadIsNewer
  <2>4. ASSUME NEW v \in Workers, worker'[v].step = "read"
        PROVE  /\ storedBy'[worker'[v].key] = "queue"
                    => stored'[worker'[v].key] <= worker'[v].seen
               /\ worker'[v].seen <= repo'[worker'[v].key]
    <3>1. v # w /\ worker'[v] = worker[v] /\ worker[v].key \in Keys \ {k}
      BY <1>2, <1>6, <2>4 DEF IInv, TypeOK, WorkerState
    <3>2. QED
      BY <1>3, <2>2, <2>4, <3>1 DEF IInv, ReadIsNewer
  <2>5. QED
    BY <1>3, <2>3, <2>4 DEF IInv, ReadIsNewer
<1>8. QED
  BY <1>4, <1>5, <1>7 DEF IInv

(* Giving a key back, at the end of a sync or when the worker is stopped. *)
LEMMA GiveBackKeeps ==
  ASSUME IInv, NEW w \in Workers, Busy(w),
         worker' \in [Workers -> WorkerState],
         \A v \in Workers \ {w} : worker'[v] = worker[v],
         worker'[w].step \in {"idle", "dead"},
         inFlight' = inFlight \ {worker[w].key},
         UNCHANGED <<data, queue, open, trigger, other>>
  PROVE  IInv'
<1>1. TypeOK'
  BY DEF IInv, TypeOK, data
<1>2. OnePlace' /\ AllInFlight'
  BY DEF IInv, OnePlace, OneSyncPerKey, AllInFlight, Added, Busy, Queued
<1>3. NoKeyStuck'
  BY DEF IInv, NoKeyStuck, Added, Busy, Queued
<1>4. ReadIsNewer'
  BY DEF IInv, ReadIsNewer, data
<1>5. QED
  BY <1>1, <1>2, <1>3, <1>4 DEF IInv

LEMMA ReleaseKeeps ==
  ASSUME IInv, NEW w \in Workers, Release(w)
  PROVE  IInv'
<1>1. AnyKey \in Keys
  BY SyncAssumption DEF AnyKey
<1>2. /\ Busy(w)
      /\ worker' \in [Workers -> WorkerState]
      /\ \A v \in Workers \ {w} : worker'[v] = worker[v]
      /\ worker'[w].step \in {"idle", "dead"}
      /\ inFlight' = inFlight \ {worker[w].key}
      /\ UNCHANGED <<data, queue, open, trigger, other>>
  BY <1>1, SyncAssumption DEF IInv, TypeOK, WorkerState, Release, Idle, Busy
<1>3. QED
  BY <1>2, GiveBackKeeps

LEMMA StopKeeps ==
  ASSUME IInv, Stop
  PROVE  IInv'
<1>1. open /\ open' = FALSE /\ UNCHANGED <<data, inFlight, queue, worker, trigger, other>>
  BY DEF Stop
<1>2. TypeOK'
  <2>1. UNCHANGED <<repo, stored, storedBy, last>>
    BY <1>1 DEF data
  <2>2. open' \in BOOLEAN
    BY <1>1
  <2>3. QED
    BY <1>1, <2>1, <2>2 DEF IInv, TypeOK
<1>3. OnePlace' /\ AllInFlight'
  BY <1>1 DEF IInv, OnePlace, OneSyncPerKey, AllInFlight, Added, Busy, Queued
<1>4. NoKeyStuck'
  BY <1>1 DEF IInv, NoKeyStuck, Added, Busy, Queued
<1>5. ReadIsNewer'
  BY <1>1 DEF IInv, ReadIsNewer, data
<1>6. QED
  BY <1>2, <1>3, <1>4, <1>5 DEF IInv

LEMMA CancelWorkerKeeps ==
  ASSUME IInv, NEW w \in Workers, CancelWorker(w)
  PROVE  IInv'
<1>1. AnyKey \in Keys
  BY SyncAssumption DEF AnyKey
<1>2. /\ worker' \in [Workers -> WorkerState]
      /\ \A v \in Workers \ {w} : worker'[v] = worker[v]
      /\ worker'[w].step = "dead"
      /\ UNCHANGED <<data, queue, open, trigger, other>>
      /\ worker[w].step # "dead" /\ worker[w].step \in {"idle", "taken", "read", "ending", "dead"}
  <2> DEFINE new == [step |-> "dead", key |-> AnyKey, seen |-> 0]
  <2>1. worker' = [worker EXCEPT ![w] = new]
    <3>1. [Idle EXCEPT !.step = "dead"] = new
      BY DEF Idle
    <3>2. QED
      BY <3>1 DEF CancelWorker
  <2>2. new \in WorkerState
    BY <1>1, SyncAssumption DEF WorkerState
  <2>3. worker \in [Workers -> WorkerState] /\ worker[w] \in WorkerState
    BY DEF IInv, TypeOK
  <2>4. worker[w].step # "dead" /\ UNCHANGED <<data, queue, open, trigger, other>>
    BY DEF CancelWorker
  <2>5. worker[w].step \in {"idle", "taken", "read", "ending", "dead"} /\ new.step = "dead"
    BY <2>3 DEF WorkerState
  <2> HIDE DEF new
  <2>6. /\ worker' \in [Workers -> WorkerState] /\ worker'[w] = new
        /\ \A v \in Workers \ {w} : worker'[v] = worker[v]
    BY <2>1, <2>2, <2>3
  <2>7. QED
    BY <2>4, <2>5, <2>6
<1>3. CASE worker[w].step = "idle"
  <2>1. UNCHANGED inFlight /\ ~Busy(w)
    BY <1>3 DEF CancelWorker, Busy
  <2>2. \A v \in Workers : Busy(v)' => Busy(v) /\ worker'[v] = worker[v]
    BY <1>2, <2>1 DEF Busy
  <2>3. \A v \in Workers : Busy(v) => worker'[v] = worker[v]
    BY <1>2, <2>1 DEF Busy
  <2>4. OnePlace' /\ AllInFlight'
    BY <1>2, <2>1, <2>2 DEF IInv, OnePlace, OneSyncPerKey, AllInFlight, Added, Queued
  <2>5. NoKeyStuck'
    BY <1>2, <2>1, <2>3 DEF IInv, NoKeyStuck, Busy, Queued
  <2>6. TypeOK'
    BY <1>2, <2>1 DEF IInv, TypeOK, data
  <2>7. ReadIsNewer'
    BY <1>2 DEF IInv, ReadIsNewer, data
  <2>8. QED
    BY <2>4, <2>5, <2>6, <2>7 DEF IInv
<1>4. CASE worker[w].step # "idle"
  <2>1. Busy(w) /\ inFlight' = inFlight \ {worker[w].key}
    BY <1>2, <1>4 DEF CancelWorker, Busy
  <2>2. QED
    BY <1>2, <2>1, GiveBackKeeps
<1>5. QED
  BY <1>3, <1>4

(* A sync outside the queue reads what there is. *)
LEMMA ReadOutsideKeeps ==
  ASSUME IInv, NEW o \in Others, NEW k \in Outside, ReadOutside(o, k)
  PROVE  IInv'
<1>1. UNCHANGED <<data, chan, worker, trigger>>
  BY DEF ReadOutside
<1>2. /\ other' \in [Others -> OtherState]
      /\ \A p \in Others : other'[p].step = "read" => other'[p].seen <= repo[other'[p].key]
  <2> DEFINE new == [step |-> "read", key |-> k, seen |-> repo[k]]
  <2>1. k \in Keys /\ repo[k] \in 0 .. MaxChanges
    BY SyncAssumption DEF IInv, TypeOK
  <2>2. new \in OtherState /\ new.seen <= repo[new.key]
    BY <2>1, SyncAssumption DEF OtherState
  <2>3. other' = [other EXCEPT ![o] = new] /\ other \in [Others -> OtherState]
    BY DEF ReadOutside, IInv, TypeOK
  <2> HIDE DEF new
  <2> QED BY <2>2, <2>3 DEF IInv, ReadIsNewer
<1>3. TypeOK' /\ ReadIsNewer'
  BY <1>1, <1>2 DEF IInv, TypeOK, ReadIsNewer, data, chan
<1> QED
  BY <1>1, <1>3 DEF IInv, OnePlace, OneSyncPerKey, AllInFlight, NoKeyStuck, Added, Busy, Queued,
                    chan

(* It stores what has been, and puts its mark on it. *)
LEMMA PersistOutsideKeeps ==
  ASSUME IInv, NEW o \in Others, PersistOutside(o)
  PROVE  IInv'
<1> DEFINE k == other[o].key
<1>1. UNCHANGED <<repo, last, chan, worker, trigger>>
  BY DEF PersistOutside
<1>2. k \in Keys /\ other[o].seen \in 0 .. MaxChanges /\ other[o].seen <= repo[k]
  BY DEF PersistOutside, IInv, TypeOK, OtherState, ReadIsNewer
<1>3. /\ stored' \in [Keys -> 0 .. MaxChanges] /\ storedBy' \in [Keys -> {"queue", "other"}]
      /\ stored'[k] = other[o].seen /\ storedBy'[k] = "other"
      /\ \A j \in Keys \ {k} : stored'[j] = stored[j] /\ storedBy'[j] = storedBy[j]
  BY <1>2 DEF PersistOutside, IInv, TypeOK
<1>4. /\ other' \in [Others -> OtherState]
      /\ \A p \in Others : other'[p].step = "read" => other'[p] = other[p]
  <2>1. AnyKey \in Keys
    BY SyncAssumption DEF AnyKey
  <2>2. Idle \in OtherState /\ Idle.step # "read"
    BY <2>1, SyncAssumption DEF Idle, OtherState
  <2> QED BY <2>2 DEF PersistOutside, IInv, TypeOK
<1>5. TypeOK'
  BY <1>1, <1>3, <1>4 DEF IInv, TypeOK, chan
<1>6. ReadIsNewer'
  <2>1. \A j \in Keys : stored'[j] <= repo'[j]
    BY <1>1, <1>2, <1>3 DEF IInv, ReadIsNewer
  <2>2. ASSUME NEW w \in Workers, worker'[w].step = "read", storedBy'[worker'[w].key] = "queue"
        PROVE  stored'[worker'[w].key] <= worker'[w].seen
    BY <1>1, <1>3, <2>2 DEF IInv, TypeOK, WorkerState, ReadIsNewer
  <2> QED BY <1>1, <1>4, <2>1, <2>2 DEF IInv, ReadIsNewer
<1> QED
  BY <1>1, <1>5, <1>6 DEF IInv, OnePlace, OneSyncPerKey, AllInFlight, NoKeyStuck, Added, Busy,
                          Queued, chan

LEMMA StutterKeeps ==
  ASSUME IInv, UNCHANGED vars
  PROVE  IInv'
BY DEF IInv, vars, data, chan, TypeOK, OnePlace, OneSyncPerKey, AllInFlight, NoKeyStuck,
       ReadIsNewer, Added, Busy, Queued

LEMMA NextKeeps ==
  ASSUME IInv, [Next]_vars
  PROVE  IInv'
<1>1. ASSUME NEW k \in Keys, Change(k) PROVE IInv'
  BY <1>1, ChangeKeeps
<1>2. ASSUME NEW k \in Keys, NEW t \in Triggers, EnqueueSync(t, k) PROVE IInv'
  BY <1>2, EnqueueSyncKeeps
<1>3. ASSUME NEW t \in Triggers, WriteRequest(t) PROVE IInv'
  BY <1>3, WriteRequestKeeps
<1>4. ASSUME NEW w \in Workers, WorkerNext(w) PROVE IInv'
  BY <1>4, TakeRequestKeeps, ReadRepositoryKeeps, PersistKeeps, ReleaseKeeps DEF WorkerNext
<1>5. ASSUME NEW w \in Workers, CancelWorker(w) PROVE IInv'
  BY <1>5, CancelWorkerKeeps
<1>6. CASE Stop
  BY <1>6, StopKeeps
<1>7. CASE UNCHANGED vars
  BY <1>7, StutterKeeps
<1>8. ASSUME NEW o \in Others, PersistOutside(o) \/ \E k \in Outside : ReadOutside(o, k) PROVE IInv'
  BY <1>8, ReadOutsideKeeps, PersistOutsideKeeps
<1>9. QED
  BY <1>1, <1>2, <1>3, <1>4, <1>5, <1>6, <1>7, <1>8 DEF Next

-----------------------------------------------------------------------------
(* The inductive invariant holds in every reachable state. *)
THEOREM Invariance == Spec => []IInv
<1>1. Init => IInv
  BY Initially
<1>2. IInv /\ [Next]_vars => IInv'
  BY NextKeeps
<1>3. QED
  BY <1>1, <1>2, PTL DEF Spec

(* The variables of SyncBackgroundService keep their types. *)
THEOREM TypeCorrect == Spec => []TypeOK
<1>1. IInv => TypeOK
  BY DEF IInv
<1>2. QED
  BY <1>1, Invariance, PTL

(* However many workers there are, a repository is synced by one of them, and
   is not waiting in the queue at the same time. *)
THEOREM SyncedByOne == Spec => []OneSyncPerKey
<1>1. IInv => OneSyncPerKey
  BY DEF IInv, OnePlace
<1>2. QED
  BY <1>1, Invariance, PTL

(* No failure, no refused write and no stop of the service leaves a key behind
   in _inFlightRequests. *)
THEOREM KeysAreReleased == Spec => []NoKeyStuck
<1>1. IInv => NoKeyStuck
  BY DEF IInv
<1>2. QED
  BY <1>1, Invariance, PTL

(* A sync of the queue never overwrites what a later read by the queue has stored,
   whatever else stores the same repository between them (PersistVersionsAsync). *)
THEOREM StoresInOrder == Spec => QueueStoresInOrder
<1> DEFINE InOrder == \A k \in Keys : stored'[k] < stored[k] => "other" \in {storedBy[k], storedBy'[k]}
<1>1. ASSUME IInv, [Next]_vars
      PROVE  [InOrder]_stored
  <2>1. ASSUME NEW w \in Workers, Persist(w) PROVE InOrder
    <3> SUFFICES ASSUME NEW k \in Keys, stored'[k] < stored[k] PROVE storedBy[k] = "other"
      OBVIOUS
    <3>1. /\ stored \in [Keys -> 0 .. MaxChanges] /\ storedBy \in [Keys -> {"queue", "other"}]
          /\ worker[w].seen \in 0 .. MaxChanges
      BY <1>1 DEF IInv, TypeOK, WorkerState
    <3>2. k = worker[w].key /\ stored'[k] = worker[w].seen
      BY <2>1, <3>1, SyncAssumption DEF Persist
    <3>3. storedBy[k] = "queue" => stored[k] <= worker[w].seen
      BY <1>1, <2>1, <3>2 DEF IInv, ReadIsNewer, Persist
    <3> QED BY <3>1, <3>2, <3>3, SyncAssumption
  <2>2. ASSUME NEW o \in Others, PersistOutside(o) PROVE InOrder
    <3> SUFFICES ASSUME NEW k \in Keys, stored'[k] < stored[k] PROVE storedBy'[k] = "other"
      OBVIOUS
    <3>1. stored \in [Keys -> 0 .. MaxChanges] /\ storedBy \in [Keys -> {"queue", "other"}]
      BY <1>1 DEF IInv, TypeOK
    <3>2. k = other[o].key
      BY <2>2, <3>1, SyncAssumption DEF PersistOutside
    <3> QED BY <2>2, <3>1, <3>2 DEF PersistOutside
  <2>3. \/ UNCHANGED stored
        \/ \E w \in Workers : Persist(w)
        \/ \E o \in Others : PersistOutside(o)
    BY <1>1 DEF Next, vars, data, Change, EnqueueSync, WriteRequest, WorkerNext, TakeRequest,
                ReadRepository, Release, Stop, CancelWorker, ReadOutside
  <2>4. QED
    BY <2>1, <2>2, <2>3
<1>2. QED
  BY <1>1, Invariance, PTL DEF Spec, QueueStoresInOrder

-----------------------------------------------------------------------------
(* The counts of TrackedQueue. *)
Raised  == {j \in Jobs : enq[j] \in {"totalled", "counted"}}
Lowered == {j \in Jobs : work[j] \in {"totalled", "lowered", "removing", "finished"}}
Counted == {j \in Jobs : enq[j] = "counted"}

(* A count of a workspace goes up once for each job that is counted. *)
CountsInv ==
  /\ total = Cardinality(Raised) - Cardinality(Lowered)
  /\ \A w \in Workspaces : byWorkspace[w] <= Cardinality(Counted)
  /\ \A j \in Jobs : enq[j] = "before" => work[j] = "waiting"

ReportsTyped ==
  /\ DOMAIN report = Ends
  /\ \A e \in Ends : \A s, t \in report[e] : s \in Status /\ s = t

StepsTyped ==
  /\ enq \in [Jobs -> {"before", "written", "totalled", "counted"}]
  /\ work \in [Jobs -> {"waiting", "working", "totalled", "lowered", "removing", "finished"}]
  /\ ws \in [Jobs -> Workspaces]

QueueInv ==
  /\ StepsTyped
  /\ byWorkspace \in [Workspaces -> Absent .. Cardinality(Jobs)]
  /\ ReportsTyped
  /\ connected \in BOOLEAN
  /\ app \in Status
  /\ CountsInv

(* A subset of the jobs has a number of members, and no more than there are. *)
LEMMA JobsCounted ==
  ASSUME IsFiniteSet(Jobs), NEW S \in SUBSET Jobs
  PROVE  IsFiniteSet(S) /\ Cardinality(S) \in Nat /\ Cardinality(S) <= Cardinality(Jobs)
BY FS_Subset, FS_CardinalityType

(* One job more in a set counts one more. *)
LEMMA OneMore ==
  ASSUME IsFiniteSet(Jobs), NEW S \in SUBSET Jobs, NEW j \in Jobs, j \notin S
  PROVE  Cardinality(S \cup {j}) = Cardinality(S) + 1
BY JobsCounted, FS_AddElement

(* What a report reads is a status. *)
LEMMA CurrentTyped ==
  ASSUME IsFiniteSet(Jobs), NEW n \in Int, NEW f \in [Workspaces -> Absent .. Cardinality(Jobs)]
  PROVE  [total |-> n, byWorkspace |-> [w \in Workspaces |-> Shown(f[w])]] \in Status
<1>1. Cardinality(Jobs) \in Nat BY FS_CardinalityType
<1>2. \A w \in Workspaces : Shown(f[w]) \in Nat BY <1>1 DEF Shown, Absent
<1>3. [w \in Workspaces |-> Shown(f[w])] \in [Workspaces -> Nat] BY <1>2
<1> QED BY <1>3 DEF Status

LEMMA NotifyTyped ==
  ASSUME ReportsTyped, NEW j \in Jobs, NEW end \in {"enqueued", "completed"}, NEW s \in Status,
         Notify(j, end, s)
  PROVE  ReportsTyped'
BY DEF ReportsTyped, Notify, Ends

LEMMA TotalTyped ==
  ASSUME IsFiniteSet(Jobs), CountsInv
  PROVE  total \in -Cardinality(Jobs) .. Cardinality(Jobs)
<1>1. Cardinality(Jobs) \in Nat BY FS_CardinalityType
<1>2. /\ Cardinality(Raised) \in Nat /\ Cardinality(Raised) <= Cardinality(Jobs)
      /\ Cardinality(Lowered) \in Nat /\ Cardinality(Lowered) <= Cardinality(Jobs)
  BY JobsCounted DEF Raised, Lowered
<1> QED BY <1>1, <1>2 DEF CountsInv

LEMMA InitQueueInv == IsFiniteSet(Jobs) /\ QueueInit => QueueInv
<1> SUFFICES ASSUME IsFiniteSet(Jobs), QueueInit PROVE QueueInv
  OBVIOUS
<1>1. Raised = {} /\ Lowered = {} /\ Counted = {} BY DEF QueueInit, Raised, Lowered, Counted
<1>2. Cardinality(Jobs) \in Nat BY FS_CardinalityType
<1>3. CountsInv BY <1>1, FS_EmptySet DEF QueueInit, CountsInv, Absent
<1>4. app \in Status BY DEF QueueInit, Silent, Status
<1> QED BY <1>2, <1>3, <1>4 DEF QueueInit, QueueInv, StepsTyped, ReportsTyped, Absent

(* A step that changes no job and no count. *)
LEMMA CountsStay == ASSUME CountsInv, UNCHANGED <<jobs, counts>> PROVE CountsInv'
BY DEF CountsInv, jobs, counts, Raised, Lowered, Counted

LEMMA WriteCounts == ASSUME QueueInv, NEW j \in Jobs, Write(j) PROVE QueueInv'
<1>1. Raised' = Raised /\ Lowered' = Lowered /\ Counted' = Counted
  BY DEF QueueInv, StepsTyped, Write, Raised, Lowered, Counted
<1> QED BY <1>1 DEF QueueInv, StepsTyped, Write, CountsInv, ReportsTyped, counts

LEMMA IncrementTotalCounts ==
  ASSUME IsFiniteSet(Jobs), QueueInv, NEW j \in Jobs, IncrementTotal(j) PROVE QueueInv'
<1>1. /\ Raised' = Raised \cup {j} /\ j \notin Raised
      /\ Lowered' = Lowered /\ Counted' = Counted
  BY DEF QueueInv, StepsTyped, IncrementTotal, Raised, Lowered, Counted
<1>2. Cardinality(Raised') = Cardinality(Raised) + 1 BY <1>1, OneMore DEF Raised
<1>3. Cardinality(Raised) \in Nat /\ Cardinality(Lowered) \in Nat BY JobsCounted DEF Raised, Lowered
<1>4. CountsInv' BY <1>1, <1>2, <1>3 DEF QueueInv, StepsTyped, CountsInv, IncrementTotal
<1> QED BY <1>4 DEF QueueInv, StepsTyped, IncrementTotal, ReportsTyped

LEMMA IncrementWorkspaceCounts ==
  ASSUME IsFiniteSet(Jobs), QueueInv, NEW j \in Jobs, IncrementWorkspace(j) PROVE QueueInv'
<1>1. /\ Raised' = Raised /\ Lowered' = Lowered
      /\ Counted' = Counted \cup {j} /\ j \notin Counted
  BY DEF QueueInv, StepsTyped, IncrementWorkspace, Raised, Lowered, Counted
<1>2. Cardinality(Counted') = Cardinality(Counted) + 1 BY <1>1, OneMore DEF Counted
<1>3. /\ Cardinality(Counted) \in Nat /\ Cardinality(Counted') <= Cardinality(Jobs)
      /\ Cardinality(Jobs) \in Nat
  BY JobsCounted, FS_CardinalityType DEF Counted
<1>4. \A w \in Workspaces :
        byWorkspace'[w] \in Absent .. Cardinality(Jobs) /\ byWorkspace'[w] <= Cardinality(Counted')
  BY <1>2, <1>3 DEF QueueInv, CountsInv, IncrementWorkspace, Shown, Absent
<1>5. byWorkspace' \in [Workspaces -> Absent .. Cardinality(Jobs)]
  BY <1>4 DEF QueueInv, IncrementWorkspace
<1>6. CountsInv' BY <1>1, <1>4 DEF QueueInv, StepsTyped, CountsInv, IncrementWorkspace
<1>7. total' \in Int
  BY TotalTyped, <1>3 DEF QueueInv, IncrementWorkspace
<1>8. Current' \in Status BY <1>5, <1>7, CurrentTyped DEF Current
<1>9. ReportsTyped' BY <1>8, NotifyTyped DEF QueueInv, IncrementWorkspace
<1> QED BY <1>5, <1>6, <1>9 DEF QueueInv, StepsTyped, IncrementWorkspace

LEMMA TakeCounts == ASSUME QueueInv, NEW j \in Jobs, Take(j) PROVE QueueInv'
<1>1. Raised' = Raised /\ Lowered' = Lowered /\ Counted' = Counted
  BY DEF QueueInv, StepsTyped, Take, Raised, Lowered, Counted
<1> QED BY <1>1 DEF QueueInv, StepsTyped, Take, CountsInv, ReportsTyped, counts

LEMMA DecrementTotalCounts ==
  ASSUME IsFiniteSet(Jobs), QueueInv, NEW j \in Jobs, DecrementTotal(j) PROVE QueueInv'
<1>1. /\ Lowered' = Lowered \cup {j} /\ j \notin Lowered
      /\ Raised' = Raised /\ Counted' = Counted
  BY DEF QueueInv, StepsTyped, DecrementTotal, Raised, Lowered, Counted
<1>2. Cardinality(Lowered') = Cardinality(Lowered) + 1 BY <1>1, OneMore DEF Lowered
<1>3. Cardinality(Raised) \in Nat /\ Cardinality(Lowered) \in Nat BY JobsCounted DEF Raised, Lowered
<1>4. CountsInv' BY <1>1, <1>2, <1>3 DEF QueueInv, StepsTyped, CountsInv, DecrementTotal
<1> QED BY <1>4 DEF QueueInv, StepsTyped, DecrementTotal, ReportsTyped

LEMMA DecrementWorkspaceCounts ==
  ASSUME IsFiniteSet(Jobs), QueueInv, NEW j \in Jobs, DecrementWorkspace(j) PROVE QueueInv'
<1>1. Raised' = Raised /\ Lowered' = Lowered /\ Counted' = Counted
  BY DEF QueueInv, StepsTyped, DecrementWorkspace, Raised, Lowered, Counted
<1>2. Cardinality(Counted) \in Nat /\ Cardinality(Jobs) \in Nat
  BY JobsCounted, FS_CardinalityType DEF Counted
<1>3. \A w \in Workspaces :
        byWorkspace'[w] \in Absent .. Cardinality(Jobs) /\ byWorkspace'[w] <= Cardinality(Counted)
  BY <1>2 DEF QueueInv, CountsInv, DecrementWorkspace, Shown, Absent
<1>4. byWorkspace' \in [Workspaces -> Absent .. Cardinality(Jobs)]
  BY <1>3 DEF QueueInv, DecrementWorkspace
<1>5. CountsInv' BY <1>1, <1>3 DEF QueueInv, StepsTyped, CountsInv, DecrementWorkspace
<1> QED BY <1>4, <1>5 DEF QueueInv, StepsTyped, DecrementWorkspace, ReportsTyped

LEMMA TestRemainingCounts ==
  ASSUME IsFiniteSet(Jobs), QueueInv, NEW j \in Jobs, TestRemaining(j) PROVE QueueInv'
<1>1. Raised' = Raised /\ Lowered' = Lowered /\ Counted' = Counted
  BY DEF QueueInv, StepsTyped, TestRemaining, Raised, Lowered, Counted
<1>2. CountsInv' BY <1>1 DEF QueueInv, StepsTyped, CountsInv, TestRemaining, counts
<1>3. Current \in Status
  BY TotalTyped, FS_CardinalityType, CurrentTyped DEF QueueInv, Current
<1>4. ReportsTyped'
  BY <1>3, NotifyTyped DEF QueueInv, TestRemaining, ReportsTyped
<1> QED BY <1>2, <1>4 DEF QueueInv, StepsTyped, TestRemaining, counts

LEMMA RemoveEntryCounts ==
  ASSUME IsFiniteSet(Jobs), QueueInv, NEW j \in Jobs, RemoveEntry(j) PROVE QueueInv'
<1>1. Raised' = Raised /\ Lowered' = Lowered /\ Counted' = Counted
  BY DEF QueueInv, StepsTyped, RemoveEntry, Raised, Lowered, Counted
<1>2. Cardinality(Counted) \in Nat /\ Cardinality(Jobs) \in Nat
  BY JobsCounted, FS_CardinalityType DEF Counted
<1>3. \A w \in Workspaces :
        byWorkspace'[w] \in Absent .. Cardinality(Jobs) /\ byWorkspace'[w] <= Cardinality(Counted)
  BY <1>2 DEF QueueInv, CountsInv, RemoveEntry, Absent
<1>4. byWorkspace' \in [Workspaces -> Absent .. Cardinality(Jobs)]
  BY <1>3 DEF QueueInv, RemoveEntry
<1>5. CountsInv' BY <1>1, <1>3 DEF QueueInv, StepsTyped, CountsInv, RemoveEntry
<1>6. total' \in Int BY TotalTyped, <1>2 DEF QueueInv, RemoveEntry
<1>7. Current' \in Status BY <1>4, <1>6, CurrentTyped DEF Current
<1>8. ReportsTyped' BY <1>7, NotifyTyped DEF QueueInv, RemoveEntry
<1> QED BY <1>4, <1>5, <1>8 DEF QueueInv, StepsTyped, RemoveEntry

LEMMA WireCounts ==
  ASSUME QueueInv, (\E e \in Ends : Receive(e)) \/ Disconnect \/ Connect \/ UNCHANGED queueVars
  PROVE  QueueInv'
<1>1. UNCHANGED <<jobs, counts>>
  BY DEF Receive, Disconnect, Connect, queueVars
<1>2. CountsInv' BY <1>1, CountsStay DEF QueueInv
<1>3. StepsTyped' /\ (byWorkspace \in [Workspaces -> Absent .. Cardinality(Jobs)])'
  BY <1>1 DEF QueueInv, StepsTyped, jobs, counts
<1>4. ASSUME NEW e \in Ends, Receive(e) PROVE ReportsTyped' /\ app' \in Status /\ connected' \in BOOLEAN
  BY <1>4 DEF QueueInv, ReportsTyped, Receive
<1>5. CASE Disconnect
  <2>1. Silent \in Status BY DEF Silent, Status
  <2> QED BY <1>2, <1>3, <1>5, <2>1 DEF QueueInv, ReportsTyped, Disconnect
<1>6. CASE Connect \/ UNCHANGED queueVars
  BY <1>2, <1>3, <1>6 DEF QueueInv, ReportsTyped, Connect, queueVars
<1> QED BY <1>2, <1>3, <1>4, <1>5, <1>6 DEF QueueInv

LEMMA QueueInvariant == ASSUME IsFiniteSet(Jobs) PROVE QueueSpec => []QueueInv
<1>1. QueueInit => QueueInv BY InitQueueInv
<1>2. QueueInv /\ [QueueNext]_queueVars => QueueInv'
  BY WriteCounts, IncrementTotalCounts, IncrementWorkspaceCounts, TakeCounts, DecrementTotalCounts,
     DecrementWorkspaceCounts, TestRemainingCounts, RemoveEntryCounts, WireCounts
     DEF QueueNext, Done
<1> QED BY <1>1, <1>2, PTL DEF QueueSpec

(* The counts of the agent's queue keep their types: the total goes no further
   from zero than there are jobs, and a workspace's count is never below the
   mark of an entry that was removed. *)
THEOREM TrackedTypeCorrect == ASSUME IsFiniteSet(Jobs) PROVE QueueSpec => []QueueTypeOK
<1>1. QueueInv => QueueTypeOK
  BY TotalTyped DEF QueueInv, StepsTyped, ReportsTyped, QueueTypeOK
<1> QED BY <1>1, QueueInvariant, PTL

(* Although a worker may take, finish and count down a job that has not been
   counted up yet, the total is the number of jobs queued or in progress
   whenever no thread is between its steps (TrackedJobQueue.Increment and
   Decrement): each job is added once and taken off once, in either order. *)
THEOREM TotalIsRight == ASSUME IsFiniteSet(Jobs) PROVE QueueSpec => []TotalCountsWork
<1>1. QueueInv => TotalCountsWork
  <2> SUFFICES ASSUME QueueInv, AtRest PROVE total = Cardinality(Pending)
    BY DEF TotalCountsWork
  <2>1. Raised = Counted /\ Lowered \subseteq Counted /\ Pending = Counted \ Lowered
    BY DEF QueueInv, StepsTyped, CountsInv, AtRest, Raised, Lowered, Counted, Pending
  <2>2. IsFiniteSet(Counted) BY JobsCounted DEF Counted
  <2>3. Cardinality(Counted \ Lowered) = Cardinality(Counted) - Cardinality(Counted \cap Lowered)
    BY <2>2, FS_Difference
  <2>4. Counted \cap Lowered = Lowered BY <2>1
  <2> QED BY <2>1, <2>3, <2>4 DEF QueueInv, CountsInv
<1> QED BY <1>1, QueueInvariant, PTL
=============================================================================
