--------------------------- MODULE GitChangesProofs ---------------------------
(***************************************************************************)
(* Proofs about the components of the Git Changes page that stand beside   *)
(* the refresh coordinator: the leases of watchers on the agent, the way   *)
(* of the snapshots to the database, and the diff pane.  For every number  *)
(* of leases, commands, versions, files and viewers.                       *)
(***************************************************************************)
EXTENDS WatcherLeases, SnapshotPipeline, DiffViewer,
        SequenceTheorems, FiniteSetTheorems, TLAPS

-----------------------------------------------------------------------------
(* WatcherLeases. *)

(* A count goes up and down once for each lease at most, though not always on
   the same entry. *)
Incremented ==
  {l \in Leases : lease[l] \in {"held", "releasing", "idle", "disarmed", "ended"}}
Decremented == {l \in Leases : lease[l] \in {"idle", "disarmed", "ended"}}

CountsBounded ==
  \A e \in Entries :
    /\ -Cardinality(Decremented) <= leaseCount[e]
    /\ leaseCount[e] <= Cardinality(Incremented)

(* Past GetOrAdd a thread holds an entry. *)
HasEntry ==
  \A l \in Leases : lease[l] \notin {"before", "ended"} => mine[l] \in Entries

RemovedIsOut == \A e \in Entries : callback[e] = "removed" => table # e

(* Nobody has got e from the table. *)
Unused(e) ==
  /\ leaseCount[e] = 0
  /\ ~idleTimer[e] /\ ~strayTimer[e] /\ callback[e] = "none"
  /\ \A l \in Leases : mine[l] = e => lease[l] = "created"
  /\ \A k, l \in Leases : mine[k] = e /\ mine[l] = e => k = l

(* A watcher that runs is in the table, is about to be disposed, or has never
   been of use to anyone but the thread that created it. *)
AliveIsKnown == \A e \in alive : e = table \/ callback[e] = "removed" \/ Unused(e)

CreatedIsNew ==
  \A l \in Leases : lease[l] = "created" =>
    mine[l] \in alive /\ mine[l] # table /\ callback[mine[l]] # "removed"

LeasesInv ==
  /\ LeasesTypeOK /\ CountsBounded /\ HasEntry
  /\ TableIsAlive /\ RemovedIsOut /\ AliveIsKnown /\ CreatedIsNew

(* The range of a count. *)
LEMMA CountsInRange ==
  ASSUME NEW S \in SUBSET Leases
  PROVE  IsFiniteSet(S) /\ Cardinality(S) \in Nat /\ Cardinality(S) <= Cardinality(Leases)
         /\ Cardinality(Leases) \in Nat
BY LeasesAssumption, FS_Subset, FS_CardinalityType

LEMMA LeasesInvInit == LeasesInit => LeasesInv
<1> SUFFICES ASSUME LeasesInit PROVE LeasesInv
  OBVIOUS
<1> USE DEF LeasesInit
<1>1. Incremented = {} /\ Decremented = {} /\ Cardinality({}) = 0
  BY FS_EmptySet DEF Incremented, Decremented
<1>2. LeasesTypeOK
  BY CountsInRange DEF LeasesTypeOK, LeaseStep
<1>3. CountsBounded
  BY <1>1 DEF CountsBounded
<1>4. HasEntry /\ TableIsAlive /\ RemovedIsOut /\ AliveIsKnown /\ CreatedIsNew
  BY DEF HasEntry, TableIsAlive, RemovedIsOut, AliveIsKnown, CreatedIsNew
<1> QED BY <1>2, <1>3, <1>4 DEF LeasesInv

(* Counts stay in their bounds when no count and no lease's part in one moves. *)
LEMMA CountsStay ==
  ASSUME LeasesTypeOK, CountsBounded, UNCHANGED leaseCount,
         Cardinality(Incremented) <= Cardinality(Incremented'),
         Cardinality(Decremented) <= Cardinality(Decremented')
  PROVE  CountsBounded'
<1>1. Incremented \subseteq Leases /\ Decremented \subseteq Leases
      /\ Incremented' \subseteq Leases /\ Decremented' \subseteq Leases
  BY DEF Incremented, Decremented
<1>2. Cardinality(Incremented) \in Nat /\ Cardinality(Incremented') \in Nat
      /\ Cardinality(Decremented) \in Nat /\ Cardinality(Decremented') \in Nat
  BY <1>1, CountsInRange
<1>3. \A e \in Entries : leaseCount[e] \in Int
  BY CountsInRange DEF LeasesTypeOK
<1> QED BY <1>2, <1>3 DEF CountsBounded

(* A thread that has got its entry from the table moves its timers: the entry is
   not one that is unused, and nobody's count changes. *)
LEMMA ThreadMovesTimers ==
  ASSUME LeasesInv, NEW l \in Leases,
         \/ Go(l, "got", "disposed") \/ Go(l, "disposed", "cleared")
         \/ Go(l, "idle", "disarmed") \/ Go(l, "disarmed", "ended"),
         UNCHANGED <<table, alive, leaseCount, callback, mine>>,
         idleTimer' \in [Entries -> BOOLEAN], strayTimer' \in [Entries -> BOOLEAN],
         \A e \in Entries \ {mine[l]} :
           idleTimer'[e] = idleTimer[e] /\ strayTimer'[e] = strayTimer[e]
  PROVE  LeasesInv'
<1> USE DEF LeasesInv, LeasesTypeOK, LeaseStep, Go
<1>1. LeasesTypeOK'
  OBVIOUS
<1>2. CountsBounded'
  <2>1. Incremented' = Incremented /\ Decremented' = Decremented
    BY DEF Incremented, Decremented
  <2>2. Incremented \subseteq Leases /\ Decremented \subseteq Leases
    BY DEF Incremented, Decremented
  <2> QED BY <2>1, <2>2, CountsInRange, CountsStay
<1>3. HasEntry'
  BY DEF HasEntry
<1>4. TableIsAlive' /\ RemovedIsOut'
  BY DEF TableIsAlive, RemovedIsOut
<1>5. AliveIsKnown'
  <2> SUFFICES ASSUME NEW e \in alive, e # table, callback[e] # "removed"
               PROVE  Unused(e)'
    BY DEF AliveIsKnown
  <2>1. e \in Entries /\ Unused(e) /\ mine[l] # e
    BY DEF AliveIsKnown, Unused
  <2> QED BY <2>1 DEF Unused
<1>6. CreatedIsNew'
  BY DEF CreatedIsNew
<1> QED BY <1>1, <1>2, <1>3, <1>4, <1>5, <1>6

LEMMA GetKeeps == ASSUME LeasesInv, NEW l \in Leases, GetEntry(l) PROVE LeasesInv'
<1> USE DEF LeasesInv, LeasesTypeOK, LeaseStep, GetEntry, Go, Hold, timers
<1>1. LeasesTypeOK'
  OBVIOUS
<1>2. CountsBounded'
  <2>1. Incremented' = Incremented /\ Decremented' = Decremented
    BY DEF Incremented, Decremented
  <2>2. Incremented \subseteq Leases /\ Decremented \subseteq Leases
    BY DEF Incremented, Decremented
  <2> QED BY <2>1, <2>2, CountsInRange, CountsStay
<1>3. HasEntry'
  BY DEF HasEntry
<1>4. TableIsAlive' /\ RemovedIsOut' /\ CreatedIsNew'
  BY DEF TableIsAlive, RemovedIsOut, CreatedIsNew
<1>5. AliveIsKnown'
  <2> SUFFICES ASSUME NEW e \in alive, e # table, callback[e] # "removed"
               PROVE  Unused(e)'
    BY DEF AliveIsKnown
  <2>1. Unused(e)
    BY DEF AliveIsKnown
  <2> QED BY <2>1 DEF Unused
<1> QED BY <1>1, <1>2, <1>3, <1>4, <1>5

LEMMA CreateKeeps == ASSUME LeasesInv, NEW l \in Leases, CreateEntry(l) PROVE LeasesInv'
<1> USE DEF LeasesInv, LeasesTypeOK, LeaseStep, Go, Hold, timers
<1>1. PICK n \in Entries :
        /\ New(n) /\ Hold(l, n)
        /\ alive' = alive \cup {n}
        /\ leaseCount' = [leaseCount EXCEPT ![n] = 0]
  BY DEF CreateEntry
<1>2. table = NoEntry /\ Go(l, "before", "created")
      /\ UNCHANGED <<table, idleTimer, strayTimer, callback>>
  BY DEF CreateEntry
<1>3. Incremented' = Incremented /\ Decremented' = Decremented
  BY <1>2 DEF Incremented, Decremented
<1>4. Incremented \subseteq Leases /\ Decremented \subseteq Leases
  BY DEF Incremented, Decremented
<1>5. Cardinality(Incremented) \in Nat /\ Cardinality(Decremented) \in Nat
      /\ Cardinality(Leases) \in Nat
  BY <1>4, CountsInRange
<1>6. LeasesTypeOK'
  BY <1>1, <1>2, <1>5
<1>7. CountsBounded'
  BY <1>1, <1>3, <1>5 DEF CountsBounded
<1>8. HasEntry' /\ TableIsAlive' /\ RemovedIsOut'
  BY <1>1, <1>2 DEF HasEntry, TableIsAlive, RemovedIsOut
<1>9. AliveIsKnown'
  <2> SUFFICES ASSUME NEW e \in alive \cup {n}, e # table, callback[e] # "removed"
               PROVE  Unused(e)'
    BY <1>1, <1>2 DEF AliveIsKnown
  <2>1. CASE e = n
    BY <1>1, <1>2, <2>1 DEF New, Unused
  <2>2. CASE e # n
    <3>1. Unused(e) /\ e \in Entries
      BY <2>2 DEF AliveIsKnown
    <3> QED BY <1>1, <1>2, <2>2, <3>1 DEF Unused
  <2> QED BY <2>1, <2>2
<1>10. CreatedIsNew'
  BY <1>1, <1>2, EntriesAssumption DEF CreatedIsNew, New
<1> QED BY <1>6, <1>7, <1>8, <1>9, <1>10

LEMMA AddKeeps == ASSUME LeasesInv, NEW l \in Leases, AddEntry(l) PROVE LeasesInv'
<1> USE DEF LeasesInv, LeasesTypeOK, LeaseStep, AddEntry, Go, Hold, timers
<1>1. mine[l] \in alive /\ mine[l] # table /\ callback[mine[l]] # "removed"
      /\ Unused(mine[l])
  BY DEF CreatedIsNew, AliveIsKnown
<1>2. LeasesTypeOK'
  BY <1>1
<1>3. CountsBounded'
  <2>1. Incremented' = Incremented /\ Decremented' = Decremented
    BY DEF Incremented, Decremented
  <2>2. Incremented \subseteq Leases /\ Decremented \subseteq Leases
    BY DEF Incremented, Decremented
  <2> QED BY <2>1, <2>2, CountsInRange, CountsStay
<1>4. HasEntry'
  BY <1>2 DEF HasEntry
<1>5. TableIsAlive' /\ RemovedIsOut'
  BY <1>1 DEF TableIsAlive, RemovedIsOut
<1>6. AliveIsKnown'
  <2> SUFFICES ASSUME NEW e \in alive, e # table', callback[e] # "removed"
               PROVE  Unused(e)'
    BY DEF AliveIsKnown
  <2>1. Unused(e)
    BY EntriesAssumption DEF AliveIsKnown
  <2>2. \A k \in Leases : mine'[k] = e => mine[k] = e /\ k # l
    OBVIOUS
  <2> QED BY <2>1, <2>2 DEF Unused
<1>7. CreatedIsNew'
  <2> SUFFICES ASSUME NEW k \in Leases, lease'[k] = "created"
               PROVE  mine'[k] \in alive /\ mine'[k] # table' /\ callback[mine'[k]] # "removed"
    BY DEF CreatedIsNew
  <2>1. k # l /\ mine'[k] = mine[k] /\ lease[k] = "created"
    OBVIOUS
  <2>2. mine[k] # mine[l]
    BY <1>1, <2>1 DEF Unused
  <2> QED BY <2>1, <2>2 DEF CreatedIsNew
<1> QED BY <1>2, <1>3, <1>4, <1>5, <1>6, <1>7

LEMMA IncrementKeeps == ASSUME LeasesInv, NEW l \in Leases, IncrementLease(l) PROVE LeasesInv'
<1> USE DEF LeasesInv, LeasesTypeOK, LeaseStep, IncrementLease, Go, timers
<1>1. mine[l] \in Entries
  BY DEF HasEntry
<1>2. Incremented' = Incremented \cup {l} /\ l \notin Incremented
      /\ Decremented' = Decremented
  BY DEF Incremented, Decremented
<1>3. Incremented \subseteq Leases /\ Incremented' \subseteq Leases /\ Decremented \subseteq Leases
  BY DEF Incremented, Decremented
<1>4. Cardinality(Incremented') = Cardinality(Incremented) + 1
  BY <1>2, <1>3, CountsInRange, FS_AddElement
<1>5. /\ Cardinality(Incremented) \in Nat /\ Cardinality(Decremented) \in Nat
      /\ Cardinality(Leases) \in Nat
      /\ Cardinality(Incremented') <= Cardinality(Leases)
      /\ Cardinality(Decremented) <= Cardinality(Leases)
  BY <1>3, CountsInRange
<1>6. \A e \in Entries : leaseCount[e] \in Int
  BY <1>5
<1>7. CountsBounded'
  BY <1>1, <1>2, <1>4, <1>5, <1>6 DEF CountsBounded
<1>8. leaseCount' \in [Entries -> -Cardinality(Leases) .. Cardinality(Leases)]
  BY <1>1, <1>2, <1>4, <1>5, <1>6 DEF CountsBounded
<1>9. LeasesTypeOK'
  BY <1>8
<1>10. HasEntry' /\ TableIsAlive' /\ RemovedIsOut' /\ CreatedIsNew'
  BY DEF HasEntry, TableIsAlive, RemovedIsOut, CreatedIsNew
<1>11. AliveIsKnown'
  <2> SUFFICES ASSUME NEW e \in alive, e # table, callback[e] # "removed"
               PROVE  Unused(e)'
    BY DEF AliveIsKnown
  <2>1. Unused(e) /\ e \in Entries
    BY DEF AliveIsKnown
  <2>2. mine[l] # e
    BY <2>1 DEF Unused
  <2> QED BY <1>1, <2>1, <2>2 DEF Unused
<1> QED BY <1>7, <1>9, <1>10, <1>11

LEMMA ReleaseKeeps == ASSUME LeasesInv, NEW l \in Leases, Release(l) PROVE LeasesInv'
<1> USE DEF LeasesInv, LeasesTypeOK, LeaseStep, Go, Hold, timers
<1>1. \/ table = NoEntry /\ Go(l, "held", "ended") /\ UNCHANGED mine
      \/ table # NoEntry /\ Go(l, "held", "releasing") /\ Hold(l, table)
  BY DEF Release
<1>2. UNCHANGED <<table, alive, leaseCount, idleTimer, strayTimer, callback>>
  BY DEF Release
<1>3. LeasesTypeOK'
  BY <1>1, <1>2
<1>4. CountsBounded'
  <2>1. Incremented' = Incremented /\ Decremented \subseteq Decremented'
    BY <1>1 DEF Incremented, Decremented
  <2>2. Incremented \subseteq Leases /\ Decremented \subseteq Leases /\ Decremented' \subseteq Leases
    BY DEF Incremented, Decremented
  <2>3. Cardinality(Decremented) <= Cardinality(Decremented')
    BY <2>1, <2>2, CountsInRange, FS_Subset
  <2> QED BY <1>2, <2>1, <2>2, <2>3, CountsInRange, CountsStay
<1>5. HasEntry'
  BY <1>1, <1>2 DEF HasEntry
<1>6. TableIsAlive' /\ RemovedIsOut' /\ CreatedIsNew'
  BY <1>1, <1>2 DEF TableIsAlive, RemovedIsOut, CreatedIsNew
<1>7. AliveIsKnown'
  <2> SUFFICES ASSUME NEW e \in alive, e # table, callback[e] # "removed"
               PROVE  Unused(e)'
    BY <1>2 DEF AliveIsKnown
  <2>1. Unused(e)
    BY DEF AliveIsKnown
  <2> QED BY <1>1, <1>2, <2>1 DEF Unused
<1> QED BY <1>3, <1>4, <1>5, <1>6, <1>7

LEMMA DecrementKeeps == ASSUME LeasesInv, NEW l \in Leases, DecrementLease(l) PROVE LeasesInv'
<1> USE DEF LeasesInv, LeasesTypeOK, LeaseStep, Go, timers
<1>1. /\ lease[l] = "releasing" /\ mine[l] \in Entries
      /\ leaseCount' = [leaseCount EXCEPT ![mine[l]] = @ - 1]
      /\ UNCHANGED <<table, alive, idleTimer, strayTimer, callback, mine>>
  BY DEF HasEntry, DecrementLease
<1>2. PICK to \in {"idle", "ended"} : lease' = [lease EXCEPT ![l] = to]
  BY DEF DecrementLease
<1>3. Decremented' = Decremented \cup {l} /\ l \notin Decremented
      /\ Incremented' = Incremented
  BY <1>1, <1>2 DEF Incremented, Decremented
<1>4. Incremented \subseteq Leases /\ Decremented' \subseteq Leases /\ Decremented \subseteq Leases
  BY DEF Incremented, Decremented
<1>5. Cardinality(Decremented') = Cardinality(Decremented) + 1
  BY <1>3, <1>4, CountsInRange, FS_AddElement
<1>6. /\ Cardinality(Incremented) \in Nat /\ Cardinality(Decremented) \in Nat
      /\ Cardinality(Leases) \in Nat
      /\ Cardinality(Incremented) <= Cardinality(Leases)
      /\ Cardinality(Decremented') <= Cardinality(Leases)
  BY <1>4, CountsInRange
<1>7. \A e \in Entries : leaseCount[e] \in Int
  BY <1>6
<1>8. CountsBounded'
  BY <1>1, <1>3, <1>5, <1>6, <1>7 DEF CountsBounded
<1>9. leaseCount' \in [Entries -> -Cardinality(Leases) .. Cardinality(Leases)]
  BY <1>1, <1>3, <1>5, <1>6, <1>7 DEF CountsBounded
<1>10. LeasesTypeOK'
  BY <1>1, <1>2, <1>9
<1>11. HasEntry' /\ TableIsAlive' /\ RemovedIsOut' /\ CreatedIsNew'
  BY <1>1, <1>2 DEF HasEntry, TableIsAlive, RemovedIsOut, CreatedIsNew
<1>12. AliveIsKnown'
  <2> SUFFICES ASSUME NEW e \in alive, e # table, callback[e] # "removed"
               PROVE  Unused(e)'
    BY <1>1 DEF AliveIsKnown
  <2>1. Unused(e) /\ e \in Entries
    BY DEF AliveIsKnown
  <2>2. mine[l] # e
    BY <1>1, <2>1 DEF Unused
  <2> QED BY <1>1, <1>2, <2>1, <2>2 DEF Unused
<1> QED BY <1>8, <1>10, <1>11, <1>12

(* The timers of an entry that is not unused. *)
LEMMA ElapseKeeps == ASSUME LeasesInv, NEW e \in Entries, Elapse(e) PROVE LeasesInv'
<1> USE DEF LeasesInv, LeasesTypeOK, Elapse, thread
<1>1. LeasesTypeOK'
  OBVIOUS
<1>2. CountsBounded' /\ HasEntry'
  BY DEF CountsBounded, HasEntry, Incremented, Decremented
<1>3. TableIsAlive' /\ RemovedIsOut' /\ CreatedIsNew'
  BY DEF TableIsAlive, RemovedIsOut, CreatedIsNew
<1>4. AliveIsKnown'
  <2> SUFFICES ASSUME NEW d \in alive, d # table, callback'[d] # "removed"
               PROVE  Unused(d)'
    BY DEF AliveIsKnown
  <2>1. callback[d] # "removed" /\ d \in Entries
    OBVIOUS
  <2>2. Unused(d)
    BY <2>1 DEF AliveIsKnown
  <2>3. d # e
    BY <2>2 DEF Unused
  <2> QED BY <2>1, <2>2, <2>3 DEF Unused
<1> QED BY <1>1, <1>2, <1>3, <1>4

LEMMA RemoveKeeps == ASSUME LeasesInv, NEW e \in Entries, RemoveEntry(e) PROVE LeasesInv'
<1> USE DEF LeasesInv, LeasesTypeOK, RemoveEntry, timers, thread
<1>1. LeasesTypeOK'
  OBVIOUS
<1>2. CountsBounded' /\ HasEntry'
  BY DEF CountsBounded, HasEntry, Incremented, Decremented
<1>3. TableIsAlive' /\ RemovedIsOut' /\ CreatedIsNew'
  BY EntriesAssumption DEF TableIsAlive, RemovedIsOut, CreatedIsNew
<1>4. AliveIsKnown'
  <2> SUFFICES ASSUME NEW d \in alive, d # table', callback'[d] # "removed"
               PROVE  Unused(d)'
    BY DEF AliveIsKnown
  <2>1. callback[d] # "removed" /\ d \in Entries /\ d # table
    OBVIOUS
  <2>2. Unused(d)
    BY <2>1 DEF AliveIsKnown
  <2>3. d # e
    BY <2>2 DEF Unused
  <2> QED BY <2>1, <2>2, <2>3 DEF Unused
<1> QED BY <1>1, <1>2, <1>3, <1>4

LEMMA DisposeKeeps == ASSUME LeasesInv, NEW e \in Entries, DisposeEntry(e) PROVE LeasesInv'
<1> USE DEF LeasesInv, LeasesTypeOK, DisposeEntry, thread
<1>1. LeasesTypeOK'
  OBVIOUS
<1>2. CountsBounded' /\ HasEntry'
  BY DEF CountsBounded, HasEntry, Incremented, Decremented
<1>3. TableIsAlive' /\ RemovedIsOut' /\ CreatedIsNew'
  BY DEF TableIsAlive, RemovedIsOut, CreatedIsNew
<1>4. AliveIsKnown'
  <2> SUFFICES ASSUME NEW d \in alive, d # e, d # table, callback[d] # "removed"
               PROVE  Unused(d)'
    BY DEF AliveIsKnown
  <2>1. Unused(d) /\ d \in Entries
    BY DEF AliveIsKnown
  <2> QED BY <2>1 DEF Unused
<1> QED BY <1>1, <1>2, <1>3, <1>4

LEMMA LeasesInvStep == LeasesInv /\ [LeasesNext]_leasesVars => LeasesInv'
<1> SUFFICES ASSUME LeasesInv, [LeasesNext]_leasesVars PROVE LeasesInv'
  OBVIOUS
<1>1. ASSUME NEW l \in Leases, LeaseNext(l) PROVE LeasesInv'
  <2>1. CASE GetEntry(l) \/ CreateEntry(l) \/ AddEntry(l)
    BY <2>1, GetKeeps, CreateKeeps, AddKeeps
  <2>2. CASE IncrementLease(l) \/ Release(l) \/ DecrementLease(l)
    BY <2>2, IncrementKeeps, ReleaseKeeps, DecrementKeeps
  <2>3. CASE CancelTimer(l)
    BY <2>3, ThreadMovesTimers DEF LeasesInv, LeasesTypeOK, CancelTimer
  <2>4. CASE ClearTimer(l)
    BY <2>4, ThreadMovesTimers DEF LeasesInv, LeasesTypeOK, ClearTimer
  <2>5. CASE DisposeTimer(l)
    BY <2>5, ThreadMovesTimers DEF LeasesInv, LeasesTypeOK, DisposeTimer
  <2>6. CASE ArmTimer(l)
    BY <2>6, ThreadMovesTimers DEF LeasesInv, LeasesTypeOK, ArmTimer
  <2> QED BY <1>1, <2>1, <2>2, <2>3, <2>4, <2>5, <2>6 DEF LeaseNext
<1>2. ASSUME NEW e \in Entries, TimerNext(e) PROVE LeasesInv'
  BY <1>2, ElapseKeeps, RemoveKeeps, DisposeKeeps DEF TimerNext
<1>3. CASE UNCHANGED leasesVars
  BY <1>3 DEF leasesVars, timers, thread, LeasesInv, LeasesTypeOK, CountsBounded, HasEntry,
       TableIsAlive, RemovedIsOut, AliveIsKnown, CreatedIsNew, Incremented, Decremented, Unused
<1> QED BY <1>1, <1>2, <1>3 DEF LeasesNext

LEMMA LeasesInvariant == LeasesSpec => []LeasesInv
BY LeasesInvInit, LeasesInvStep, PTL DEF LeasesSpec

(* GitRepositoryWatcherManager keeps its state in form, and no count ever leaves
   the range of the leases there have been, although Release may decrement the
   count of another entry than the one Acquire incremented. *)
THEOREM LeasesTypeCorrect == LeasesSpec => []LeasesTypeOK
<1>1. LeasesInv => LeasesTypeOK
  BY DEF LeasesInv
<1> QED BY <1>1, LeasesInvariant, PTL

(* What GetOrAdd of Acquire finds in _entries has not been disposed: for every
   number of threads, and with timers that nobody holds any more. *)
THEOREM TableAlwaysAlive == LeasesSpec => []TableIsAlive
<1>1. LeasesInv => TableIsAlive
  BY DEF LeasesInv
<1> QED BY <1>1, LeasesInvariant, PTL

(* A watcher that was in use and has left _entries is disposed by the callback
   that took it out; of the others nobody has made use. *)
THEOREM RemovedAlwaysDisposed == LeasesSpec => []RemovedIsDisposed
<1>1. LeasesInv => RemovedIsDisposed
  BY DEF LeasesInv, RemovedIsDisposed, AliveIsKnown, Unused
<1> QED BY <1>1, LeasesInvariant, PTL

(* Who has counted its lease for e and will take it off again, or has looked e up to
   take it off. *)
Holders(e) == {l \in Leases : mine[l] = e /\ lease[l] \in {"held", "releasing"}}

Timed(e) == idleTimer[e] \/ strayTimer[e] \/ callback[e] = "checked"
InUse(e) == \E l \in Leases : mine[l] = e /\ lease[l] \notin {"before", "ended"}

(* The count of the watcher in the table is no more than those who will still take
   from it, and as long as nobody has set its timer somebody will. *)
CountIsHeld  == table # NoEntry => leaseCount[table] <= Cardinality(Holders(table))
TimedOrInUse == table # NoEntry => Timed(table) \/ InUse(table)
LeftInv      == CountIsHeld /\ TimedOrInUse

LEMMA HoldersCounted ==
  ASSUME NEW S \in SUBSET Leases, NEW T \in SUBSET Leases
  PROVE  /\ Cardinality(S) \in Nat
         /\ S \subseteq T => Cardinality(S) <= Cardinality(T)
         /\ \A l \in Leases : l \notin S => Cardinality(S \cup {l}) = Cardinality(S) + 1
         /\ \A l \in S : Cardinality(S \ {l}) = Cardinality(S) - 1
         /\ Cardinality(S) > 0 => S # {}
<1>1. IsFiniteSet(S) /\ IsFiniteSet(T)
  BY CountsInRange
<1>2. Cardinality(S) \in Nat /\ (Cardinality(S) > 0 => S # {})
  BY <1>1, FS_CardinalityType, FS_EmptySet
<1>3. S \subseteq T => Cardinality(S) <= Cardinality(T)
  BY <1>1, FS_Subset
<1>4. \A l \in Leases : l \notin S => Cardinality(S \cup {l}) = Cardinality(S) + 1
  BY <1>1, FS_AddElement
<1>5. \A l \in S : Cardinality(S \ {l}) = Cardinality(S) - 1
  BY <1>1, FS_RemoveElement
<1> QED BY <1>2, <1>3, <1>4, <1>5

(* A count above zero means that there is somebody who holds it. *)
LEMMA CountedIsInUse ==
  ASSUME LeasesTypeOK, CountIsHeld, table # NoEntry, leaseCount[table] > 0
  PROVE  \E l \in Leases : mine[l] = table /\ lease[l] \in {"held", "releasing"}
<1>1. Holders(table) \in SUBSET Leases /\ leaseCount[table] \in Int
  BY CountsInRange DEF Holders, LeasesTypeOK
<1>2. Cardinality(Holders(table)) \in Nat /\ Cardinality(Holders(table)) > 0
  BY <1>1, HoldersCounted DEF CountIsHeld
<1> QED BY <1>1, <1>2, HoldersCounted DEF Holders

(* Nobody who holds the watcher lets go of it, and its count stands still. *)
LEMMA CountIsHeldStays ==
  ASSUME LeasesTypeOK, CountIsHeld, table' = table, UNCHANGED leaseCount,
         table # NoEntry => Holders(table) \subseteq Holders(table)'
  PROVE  CountIsHeld'
<1> SUFFICES ASSUME table # NoEntry
             PROVE  leaseCount[table] <= Cardinality(Holders(table)')
  BY DEF CountIsHeld, Holders
<1>1. Holders(table) \in SUBSET Leases /\ Holders(table)' \in SUBSET Leases
  BY DEF Holders
<1>2. leaseCount[table] \in Int
  BY CountsInRange DEF LeasesTypeOK
<1> QED BY <1>1, <1>2, HoldersCounted DEF CountIsHeld

(* A thread goes from one step to another that leave the holders as they are; when it
   has the watcher of the table and keeps it, the watcher stays in use. *)
LEMMA LeftKeptByThread ==
  ASSUME LeasesInv, LeftInv, NEW l \in Leases,
         UNCHANGED <<table, leaseCount, callback>>,
         \A k \in Leases \ {l} : lease'[k] = lease[k] /\ mine'[k] = mine[k],
         lease[l] \notin {"held", "releasing"},
         \A e \in Entries \ {mine[l]} :
           idleTimer'[e] = idleTimer[e] /\ strayTimer'[e] = strayTimer[e],
         mine[l] = table =>
           Timed(table)' \/ (mine'[l] = table /\ lease'[l] \notin {"before", "ended"})
  PROVE  LeftInv'
<1>1. CountIsHeld'
  BY CountIsHeldStays DEF LeasesInv, LeftInv, Holders
<1>2. TimedOrInUse'
  <2> SUFFICES ASSUME table # NoEntry PROVE Timed(table)' \/ InUse(table)'
    BY DEF TimedOrInUse, Timed, InUse
  <2>1. CASE mine[l] = table
    BY <2>1 DEF InUse
  <2>2. CASE mine[l] # table
    BY <2>2 DEF LeasesInv, LeasesTypeOK, LeftInv, TimedOrInUse, Timed, InUse
  <2> QED BY <2>1, <2>2
<1> QED BY <1>1, <1>2 DEF LeftInv

LEMMA LeftGet ==
  ASSUME LeasesInv, LeftInv, NEW l \in Leases, GetEntry(l) PROVE LeftInv'
<1> USE DEF LeasesInv, LeasesTypeOK, GetEntry, Go, Hold, timers
<1>1. CountIsHeld'
  BY CountIsHeldStays DEF LeftInv, Holders
<1>2. InUse(table)' /\ table' = table
  BY DEF InUse
<1> QED BY <1>1, <1>2 DEF LeftInv, TimedOrInUse, InUse

LEMMA LeftAdd ==
  ASSUME LeasesInv, LeftInv, NEW l \in Leases, AddEntry(l) PROVE LeftInv'
<1> USE DEF LeasesInv, LeasesTypeOK, AddEntry, Go, Hold, timers
<1>1. lease'[l] = "got" /\ mine'[l] = table'
  OBVIOUS
<1>2. TimedOrInUse'
  BY <1>1 DEF TimedOrInUse, InUse
<1>3. CASE table # NoEntry
  BY <1>2, <1>3, CountIsHeldStays DEF LeftInv, Holders
<1>4. CASE table = NoEntry
  <2>1. table' = mine[l] /\ leaseCount'[mine[l]] = 0
    BY <1>4 DEF CreatedIsNew, AliveIsKnown, Unused
  <2>2. Holders(table)' \in SUBSET Leases
    BY DEF Holders
  <2>3. leaseCount'[table'] <= Cardinality(Holders(table)')
    BY <2>1, <2>2, HoldersCounted
  <2> QED BY <1>2, <2>3 DEF LeftInv, CountIsHeld, Holders
<1> QED BY <1>3, <1>4

LEMMA LeftIncrement ==
  ASSUME LeasesInv, LeftInv, NEW l \in Leases, IncrementLease(l) PROVE LeftInv'
<1> USE DEF LeasesInv, LeasesTypeOK, IncrementLease, Go, timers
<1>1. TimedOrInUse'
  BY DEF LeftInv, TimedOrInUse, Timed, InUse
<1>2. CountIsHeld'
  <2> SUFFICES ASSUME table # NoEntry
               PROVE  leaseCount'[table] <= Cardinality(Holders(table)')
    BY DEF CountIsHeld, Holders
  <2>1. Holders(table) \in SUBSET Leases /\ Holders(table)' \in SUBSET Leases
    BY DEF Holders
  <2>2. leaseCount[table] \in Int /\ leaseCount[table] <= Cardinality(Holders(table))
        /\ Cardinality(Holders(table)) \in Nat
    BY <2>1, CountsInRange, HoldersCounted DEF LeftInv, CountIsHeld
  <2>3. CASE mine[l] = table
    <3>1. Holders(table)' = Holders(table) \cup {l} /\ l \notin Holders(table)
      BY <2>3 DEF Holders
    <3>2. leaseCount'[table] = leaseCount[table] + 1
      BY <2>3
    <3> QED BY <2>1, <2>2, <3>1, <3>2, HoldersCounted
  <2>4. CASE mine[l] # table
    <3>1. Holders(table)' = Holders(table)
      BY <2>4 DEF Holders
    <3>2. leaseCount'[table] = leaseCount[table]
      BY <2>4 DEF HasEntry
    <3> QED BY <2>2, <3>1, <3>2
  <2> QED BY <2>3, <2>4
<1> QED BY <1>1, <1>2 DEF LeftInv

LEMMA LeftRelease ==
  ASSUME LeasesInv, LeftInv, NEW l \in Leases, Release(l) PROVE LeftInv'
<1> USE DEF LeasesInv, LeasesTypeOK, Go, Hold, timers
<1>1. \/ table = NoEntry
      \/ table # NoEntry /\ Go(l, "held", "releasing") /\ Hold(l, table)
  BY DEF Release
<1>2. UNCHANGED <<table, leaseCount>>
  BY DEF Release
<1>3. CASE table = NoEntry
  BY <1>2, <1>3 DEF LeftInv, CountIsHeld, TimedOrInUse
<1>4. CASE table # NoEntry
  <2>1. lease'[l] = "releasing" /\ mine'[l] = table'
    BY <1>1, <1>2, <1>4
  <2>2. CountIsHeld'
    BY <1>1, <1>2, <1>4, CountIsHeldStays DEF LeftInv, Holders
  <2> QED BY <2>1, <2>2 DEF LeftInv, TimedOrInUse, InUse
<1> QED BY <1>3, <1>4

LEMMA LeftDecrement ==
  ASSUME LeasesInv, LeftInv, NEW l \in Leases, DecrementLease(l) PROVE LeftInv'
<1> USE DEF LeasesInv, LeasesTypeOK, LeaseStep, Go, timers
<1>1. /\ lease[l] = "releasing" /\ mine[l] \in Entries
      /\ leaseCount' = [leaseCount EXCEPT ![mine[l]] = @ - 1]
      /\ UNCHANGED <<table, idleTimer, strayTimer, callback, mine>>
  BY DEF HasEntry, DecrementLease
<1>2. PICK to \in {"idle", "ended"} :
        /\ lease' = [lease EXCEPT ![l] = to]
        /\ to = "ended" => leaseCount'[mine[l]] > 0
  BY DEF DecrementLease
<1>3. CountIsHeld'
  <2> SUFFICES ASSUME table # NoEntry
               PROVE  leaseCount'[table] <= Cardinality(Holders(table)')
    BY <1>1 DEF CountIsHeld, Holders
  <2>1. Holders(table) \in SUBSET Leases /\ Holders(table)' \in SUBSET Leases
    BY DEF Holders
  <2>2. leaseCount[table] \in Int /\ leaseCount[table] <= Cardinality(Holders(table))
        /\ Cardinality(Holders(table)) \in Nat
    BY <2>1, CountsInRange, HoldersCounted DEF LeftInv, CountIsHeld
  <2>3. CASE mine[l] = table
    <3>1. Holders(table)' = Holders(table) \ {l} /\ l \in Holders(table)
      BY <1>1, <1>2, <2>3 DEF Holders
    <3>2. leaseCount'[table] = leaseCount[table] - 1
      BY <1>1, <2>3
    <3> QED BY <2>1, <2>2, <3>1, <3>2, HoldersCounted
  <2>4. CASE mine[l] # table
    <3>1. Holders(table)' = Holders(table) /\ leaseCount'[table] = leaseCount[table]
      BY <1>1, <1>2, <2>4 DEF Holders
    <3> QED BY <2>2, <3>1
  <2> QED BY <2>3, <2>4
<1>4. TimedOrInUse'
  <2> SUFFICES ASSUME table # NoEntry PROVE Timed(table)' \/ InUse(table)'
    BY <1>1 DEF TimedOrInUse, Timed, InUse
  <2>1. CASE mine[l] # table
    BY <1>1, <1>2, <2>1 DEF LeftInv, TimedOrInUse, Timed, InUse
  <2>2. CASE mine[l] = table /\ to = "idle"
    BY <1>1, <1>2, <2>2 DEF InUse
  <2>3. CASE mine[l] = table /\ to = "ended"
    <3>1. table' # NoEntry /\ leaseCount'[table'] > 0
      BY <1>1, <1>2, <2>3
    <3>2. LeasesTypeOK'
      BY DecrementKeeps
    <3>3. Holders(table)' \in SUBSET Leases /\ leaseCount'[table'] \in Int
      BY <3>1, <3>2, CountsInRange DEF Holders
    <3>4. Cardinality(Holders(table)') \in Nat /\ Cardinality(Holders(table)') > 0
      BY <1>3, <3>1, <3>3, HoldersCounted DEF CountIsHeld, Holders
    <3>5. Holders(table)' # {}
      BY <3>3, <3>4, HoldersCounted
    <3> QED BY <1>1, <3>5 DEF Holders, InUse
  <2> QED BY <2>1, <2>2, <2>3
<1> QED BY <1>3, <1>4 DEF LeftInv

LEMMA LeftElapse ==
  ASSUME LeasesInv, LeftInv, NEW e \in Entries, Elapse(e) PROVE LeftInv'
<1> USE DEF LeasesInv, LeasesTypeOK, Elapse, thread
<1>1. CountIsHeld'
  BY DEF LeftInv, CountIsHeld, Holders
<1>2. TimedOrInUse'
  <2> SUFFICES ASSUME table # NoEntry PROVE Timed(table)' \/ InUse(table)'
    BY DEF TimedOrInUse, Timed, InUse
  <2>1. CASE table # e
    BY <2>1 DEF LeftInv, TimedOrInUse, Timed, InUse
  <2>2. CASE table = e /\ leaseCount[e] <= 0
    BY <2>2 DEF Timed
  <2>3. CASE table = e /\ leaseCount[e] > 0
    BY <2>3, CountedIsInUse DEF LeftInv, InUse
  <2>4. leaseCount[e] \in Int
    BY CountsInRange
  <2> QED BY <2>1, <2>2, <2>3, <2>4
<1> QED BY <1>1, <1>2 DEF LeftInv

LEMMA LeftStep == LeasesInv /\ LeftInv /\ [LeasesNext]_leasesVars => LeftInv'
<1> SUFFICES ASSUME LeasesInv, LeftInv, [LeasesNext]_leasesVars PROVE LeftInv'
  OBVIOUS
<1>1. ASSUME NEW l \in Leases, LeaseNext(l) PROVE LeftInv'
  <2>1. CASE GetEntry(l) \/ AddEntry(l)
    BY <2>1, LeftGet, LeftAdd
  <2>2. CASE IncrementLease(l) \/ Release(l) \/ DecrementLease(l)
    BY <2>2, LeftIncrement, LeftRelease, LeftDecrement
  <2>3. CASE CreateEntry(l)
    <3>1. table = NoEntry /\ table' = NoEntry
      BY <2>3 DEF CreateEntry
    <3> QED BY <3>1 DEF LeftInv, CountIsHeld, TimedOrInUse
  <2>4. CASE CancelTimer(l)
    BY <2>4, LeftKeptByThread DEF LeasesInv, LeasesTypeOK, CancelTimer, Go
  <2>5. CASE ClearTimer(l)
    BY <2>5, LeftKeptByThread DEF LeasesInv, LeasesTypeOK, ClearTimer, Go
  <2>6. CASE DisposeTimer(l)
    BY <2>6, LeftKeptByThread DEF LeasesInv, LeasesTypeOK, DisposeTimer, Go
  <2>7. CASE ArmTimer(l)
    <3>1. mine[l] = table => Timed(table)'
      BY <2>7 DEF LeasesInv, LeasesTypeOK, HasEntry, ArmTimer, Go, Timed
    <3> QED BY <2>7, <3>1, LeftKeptByThread DEF LeasesInv, LeasesTypeOK, ArmTimer, Go
  <2> QED BY <1>1, <2>1, <2>2, <2>3, <2>4, <2>5, <2>6, <2>7 DEF LeaseNext
<1>2. ASSUME NEW e \in Entries, TimerNext(e) PROVE LeftInv'
  <2>1. CASE Elapse(e)
    BY <2>1, LeftElapse
  <2>2. CASE RemoveEntry(e)
    BY <2>2 DEF LeasesInv, LeasesTypeOK, RemoveEntry, timers, thread, LeftInv,
         CountIsHeld, TimedOrInUse, Timed, InUse, Holders
  <2>3. CASE DisposeEntry(e)
    BY <2>3 DEF LeasesInv, LeasesTypeOK, RemovedIsOut, DisposeEntry, thread, LeftInv,
         CountIsHeld, TimedOrInUse, Timed, InUse, Holders
  <2> QED BY <1>2, <2>1, <2>2, <2>3 DEF TimerNext
<1>3. CASE UNCHANGED leasesVars
  BY <1>3 DEF leasesVars, timers, thread, LeftInv, CountIsHeld, TimedOrInUse, Timed, InUse, Holders
<1> QED BY <1>1, <1>2, <1>3 DEF LeasesNext

(* In every state a watcher that nobody is using is on its way out of _entries: its
   timer is armed or its callback has read the count, and the count lets it go -
   although Release may take from another entry than the one Acquire counted. *)
THEOREM WatchersLeave == LeasesSpec => []NoWatcherLeftBehind
<1>1. LeasesInit => LeftInv
  BY DEF LeasesInit, LeftInv, CountIsHeld, TimedOrInUse
<1>2. LeasesInv /\ LeftInv => NoWatcherLeftBehind
  <2> SUFFICES ASSUME LeasesInv, LeftInv, table # NoEntry,
                      \A l \in Leases : mine[l] = table => lease[l] = "ended"
               PROVE  leaseCount[table] <= 0 /\ Timed(table)
    BY DEF NoWatcherLeftBehind, Timed
  <2>1. leaseCount[table] \in Int
    BY CountsInRange DEF LeasesInv, LeasesTypeOK
  <2>2. leaseCount[table] <= 0
    BY <2>1, CountedIsInUse DEF LeasesInv, LeftInv
  <2>3. Timed(table)
    BY DEF LeftInv, TimedOrInUse, InUse
  <2> QED BY <2>2, <2>3
<1> QED BY <1>1, <1>2, LeftStep, LeasesInvariant, PTL DEF LeasesSpec
-----------------------------------------------------------------------------
(* SnapshotPipeline. *)

(* The snapshots there are, as what the database would show of them. *)
Shots == Coming \cup {shown}

(* A version that NextVersion is not going to give out again. *)
Used(v) == v < clock \/ v <= version

Active(r) == r.step \in {"versioned", "worked", "read"}
Unread(r) == r.step \in {"versioned", "worked"}

ScanSteps == scan.step \in {"idle", "versioned", "read"}

VersionsUsed ==
  /\ \A s \in Shots : Used(s.version)
  /\ Active(scan) => scan.version >= 1 /\ Used(scan.version)
  /\ \A m \in Mutations : Active(mutation[m]) =>
       mutation[m].version >= 1 /\ Used(mutation[m].version)

(* Who has not read the working tree yet has its version for itself. *)
UnreadIsFresh ==
  /\ Unread(scan) => \A s \in Shots : s.version # scan.version
  /\ \A m \in Mutations : Unread(mutation[m]) =>
       /\ \A s \in Shots : s.version # mutation[m].version
       /\ Unread(scan) => scan.version # mutation[m].version
       /\ \A n \in Mutations \ {m} :
            Unread(mutation[n]) => mutation[n].version # mutation[m].version

RightFrom(v) == \A s \in Shots : s.version >= v => s.content = disk

(* While a scan is about to read and nothing changed since it began, whatever
   got a later version has been read after it began. *)
NewerIsRight == scan.step = "versioned" /\ ~dirty /\ ~lost => RightFrom(scan.version)

(* The snapshots that get to the database, or count as missed when they do not;
   the reply of a mutation may fail and nobody notices. *)
Carried ==
  {Plain(s) : s \in wire} \cup {queue[i] : i \in DOMAIN queue}
  \cup {Plain(r) : r \in {q \in {scan} : q.step = "read"}} \cup {shown}

Quiet == ~dirty /\ ~lost /\ scan.step # "versioned"

(* When nothing is to be scanned, all that is new enough shows the working tree,
   and something that is new enough gets to the database or is there. *)
RightIsCarried ==
  Quiet => \E v \in 0 .. MaxVersion : RightFrom(v) /\ \E s \in Carried : s.version >= v

PipelineInv ==
  /\ PipelineTypeOK /\ ScanSteps
  /\ VersionsUsed /\ UnreadIsFresh /\ OneSnapshotPerVersion
  /\ NewerIsRight /\ RightIsCarried

LEMMA PipelineNumbers == MaxContent \in Nat /\ MaxVersion \in Nat /\ MaxVersion >= 1
BY PipelineAssumption

LEMMA ReadingType ==
  ASSUME PipelineTypeOK
  PROVE  /\ scan \in Reading /\ scan.version \in Nat
         /\ \A m \in Mutations : mutation[m] \in Reading /\ mutation[m].version \in Nat
BY PipelineNumbers DEF PipelineTypeOK, Reading

(* The larger of two numbers. *)
LEMMA MaxOfTwo ==
  ASSUME NEW a \in Nat, NEW b \in Nat
  PROVE  Max({a, b}) \in {a, b} /\ Max({a, b}) >= a /\ Max({a, b}) >= b
<1>1. \E x \in {a, b} : \A y \in {a, b} : x >= y
  <2>1. CASE a >= b
    BY <2>1
  <2>2. CASE b >= a
    BY <2>2
  <2> QED BY <2>1, <2>2
<1> QED BY <1>1 DEF Max

(* NextVersion is newer than every version that is in use. *)
LEMMA NextVersionIsNew ==
  ASSUME PipelineTypeOK
  PROVE  /\ NextVersion \in {clock, version + 1}
         /\ NextVersion >= clock /\ NextVersion >= version + 1
         /\ clock \in Nat /\ version \in Nat
BY PipelineAssumption, MaxOfTwo DEF PipelineTypeOK, NextVersion

LEMMA InShots ==
  ASSUME NEW c
  PROVE  c \in Shots <=>
           \/ \E s \in wire : c = Plain(s)
           \/ \E i \in DOMAIN queue : c = queue[i]
           \/ scan.step = "read" /\ c = Plain(scan)
           \/ \E m \in Mutations : mutation[m].step = "read" /\ c = Plain(mutation[m])
           \/ c = shown
BY DEF Shots, Coming

LEMMA InShotsNext ==
  ASSUME NEW c
  PROVE  c \in Shots' <=>
           \/ \E s \in wire' : c = Plain(s)
           \/ \E i \in DOMAIN queue' : c = queue'[i]
           \/ scan'.step = "read" /\ c = Plain(scan')
           \/ \E m \in Mutations : mutation'[m].step = "read" /\ c = Plain(mutation'[m])
           \/ c = shown'
BY DEF Shots, Coming

LEMMA InCarried ==
  ASSUME NEW c
  PROVE  c \in Carried <=>
           \/ \E s \in wire : c = Plain(s)
           \/ \E i \in DOMAIN queue : c = queue[i]
           \/ scan.step = "read" /\ c = Plain(scan)
           \/ c = shown
BY DEF Carried

LEMMA InCarriedNext ==
  ASSUME NEW c
  PROVE  c \in Carried' <=>
           \/ \E s \in wire' : c = Plain(s)
           \/ \E i \in DOMAIN queue' : c = queue'[i]
           \/ scan'.step = "read" /\ c = Plain(scan')
           \/ c = shown'
BY DEF Carried

LEMMA CarriedAreShots == Carried \subseteq Shots
BY InShots, InCarried

LEMMA ShotsType ==
  ASSUME PipelineTypeOK
  PROVE  Shots \subseteq [version : 0 .. MaxVersion, content : 0 .. MaxContent]
<1> SUFFICES ASSUME NEW c \in Shots
             PROVE  c \in [version : 0 .. MaxVersion, content : 0 .. MaxContent]
  OBVIOUS
<1> USE DEF PipelineTypeOK, Reading, Sent, Plain
<1>1. ASSUME NEW s \in wire, c = Plain(s)
      PROVE  c \in [version : 0 .. MaxVersion, content : 0 .. MaxContent]
  BY <1>1, PipelineAssumption
<1>2. ASSUME NEW i \in DOMAIN queue, c = queue[i]
      PROVE  c \in [version : 0 .. MaxVersion, content : 0 .. MaxContent]
  <2>1. queue[i] \in Snapshot
    BY <1>2, SeqDef
  <2> QED BY <1>2, <2>1, PipelineAssumption DEF Snapshot
<1>3. ASSUME scan.step = "read", c = Plain(scan)
      PROVE  c \in [version : 0 .. MaxVersion, content : 0 .. MaxContent]
  BY <1>3
<1>4. ASSUME NEW m \in Mutations, c = Plain(mutation[m])
      PROVE  c \in [version : 0 .. MaxVersion, content : 0 .. MaxContent]
  BY <1>4
<1>5. ASSUME c = shown
      PROVE  c \in [version : 0 .. MaxVersion, content : 0 .. MaxContent]
  BY <1>5
<1> QED BY <1>1, <1>2, <1>3, <1>4, <1>5, InShots

LEMMA PipelineInvInit == PipelineInit => PipelineInv
<1> SUFFICES ASSUME PipelineInit PROVE PipelineInv
  OBVIOUS
<1> USE DEF PipelineInit, Idle
<1>1. PipelineTypeOK
  <2>1. {dirty, lost} \subseteq BOOLEAN
    OBVIOUS
  <2>2. /\ disk \in 0 .. MaxContent
        /\ {clock, version} \subseteq 0 .. MaxVersion
        /\ wire \subseteq Sent
        /\ shown \in [version : 0 .. MaxVersion, content : 0 .. MaxContent]
    BY PipelineNumbers
  <2>3. scan \in Reading /\ mutation \in [Mutations -> Reading]
    BY PipelineNumbers DEF Reading
  <2>4. queue \in Seq(Snapshot)
    BY EmptySeq
  <2> QED BY <2>1, <2>2, <2>3, <2>4 DEF PipelineTypeOK
<1>2. Shots = {[version |-> 0, content |-> 0]} /\ shown \in Carried
  BY InShots, InCarried
<1>3. ScanSteps /\ UnreadIsFresh /\ NewerIsRight
  BY DEF ScanSteps, UnreadIsFresh, NewerIsRight, Unread
<1>4. VersionsUsed
  BY <1>2 DEF VersionsUsed, Used, Active
<1>5. OneSnapshotPerVersion
  BY <1>2 DEF OneSnapshotPerVersion, Shots
<1>6. RightIsCarried
  <2>1. RightFrom(0)
    BY <1>2 DEF RightFrom
  <2>2. 0 \in 0 .. MaxVersion /\ shown.version >= 0
    BY PipelineAssumption
  <2> QED BY <1>2, <2>1, <2>2 DEF RightIsCarried
<1> QED BY <1>1, <1>3, <1>4, <1>5, <1>6 DEF PipelineInv

(* A reading that goes on keeps its version, and what has been read stays read. *)
Follows(r, q) ==
  /\ Active(q) => Active(r) /\ q.version = r.version
  /\ Unread(q) => Unread(r)

LEMMA VersionsKeep ==
  ASSUME PipelineTypeOK, VersionsUsed, UnreadIsFresh, OneSnapshotPerVersion,
         \A v \in Nat : Used(v) => Used(v)',
         Shots' \subseteq Shots,
         Follows(scan, scan'), \A m \in Mutations : Follows(mutation[m], mutation'[m])
  PROVE  VersionsUsed' /\ UnreadIsFresh' /\ OneSnapshotPerVersion'
<1>1. /\ \A s \in Shots : s.version \in Nat
      /\ scan.version \in Nat /\ \A m \in Mutations : mutation[m].version \in Nat
  BY ShotsType, PipelineAssumption DEF PipelineTypeOK, Reading
<1>2. VersionsUsed'
  BY <1>1 DEF VersionsUsed, Follows
<1>3. UnreadIsFresh'
  BY DEF UnreadIsFresh, Follows, Active, Unread
<1>4. OneSnapshotPerVersion'
  BY DEF OneSnapshotPerVersion, Shots
<1> QED BY <1>2, <1>3, <1>4

(* The same when a snapshot is read whose version nobody else has. *)
LEMMA VersionsKeepRead ==
  ASSUME PipelineTypeOK, VersionsUsed, UnreadIsFresh, OneSnapshotPerVersion,
         \A v \in Nat : Used(v) => Used(v)',
         NEW n, n.version \in Nat, Used(n.version), \A s \in Shots : s.version # n.version,
         Shots' \subseteq Shots \cup {n},
         Follows(scan, scan'), \A m \in Mutations : Follows(mutation[m], mutation'[m]),
         Unread(scan') => scan'.version # n.version,
         \A m \in Mutations : Unread(mutation'[m]) => mutation'[m].version # n.version
  PROVE  VersionsUsed' /\ UnreadIsFresh' /\ OneSnapshotPerVersion'
<1>1. /\ \A s \in Shots : s.version \in Nat
      /\ scan.version \in Nat /\ \A m \in Mutations : mutation[m].version \in Nat
  BY ShotsType, PipelineAssumption DEF PipelineTypeOK, Reading
<1>2. VersionsUsed'
  BY <1>1 DEF VersionsUsed, Follows
<1>3. UnreadIsFresh'
  BY DEF UnreadIsFresh, Follows, Active, Unread
<1>4. OneSnapshotPerVersion'
  BY DEF OneSnapshotPerVersion, Shots
<1> QED BY <1>2, <1>3, <1>4

(* Nothing changed: what was right is right, and what was carried either still
   is or something newer is. *)
LEMMA RightKeeps ==
  ASSUME PipelineTypeOK, NewerIsRight, RightIsCarried,
         UNCHANGED disk,
         ~dirty' /\ ~lost' => ~dirty /\ ~lost,
         scan'.step = "versioned" <=> scan.step = "versioned",
         scan'.step = "versioned" => scan' = scan,
         \A s \in Shots' : s \in Shots \/ s.content = disk,
         ~lost' => \A s \in Carried : \E t \in Carried' :
                     t.version \in Nat /\ t.version >= s.version
  PROVE  NewerIsRight' /\ RightIsCarried'
<1>1. \A v : RightFrom(v) => RightFrom(v)'
  BY DEF RightFrom
<1>2. NewerIsRight'
  BY <1>1 DEF NewerIsRight
<1>3. RightIsCarried'
  <2> SUFFICES ASSUME Quiet'
               PROVE  \E v \in 0 .. MaxVersion :
                        RightFrom(v)' /\ \E t \in Carried' : t.version >= v
    BY DEF RightIsCarried
  <2>1. Quiet /\ ~lost'
    BY DEF Quiet
  <2>2. PICK v \in 0 .. MaxVersion, s \in Carried : RightFrom(v) /\ s.version >= v
    BY <2>1 DEF RightIsCarried
  <2>3. PICK t \in Carried' : t.version \in Nat /\ t.version >= s.version
    BY <2>1, <2>2
  <2>4. s.version \in Nat
    BY CarriedAreShots, ShotsType
  <2>5. t.version >= v
    BY <2>2, <2>3, <2>4
  <2> QED BY <1>1, <2>2, <2>3, <2>5
<1> QED BY <1>2, <1>3

(* Something was missed, or is going to be scanned. *)
LEMMA NothingPromised ==
  ASSUME dirty' \/ lost' PROVE NewerIsRight' /\ RightIsCarried'
BY DEF NewerIsRight, RightIsCarried, Quiet

LEMMA ShotsSame ==
  ASSUME UNCHANGED <<wire, queue, shown>>,
         scan'.step = "read" \/ scan.step = "read" => scan' = scan,
         \A m \in Mutations :
           mutation'[m].step = "read" \/ mutation[m].step = "read" => mutation'[m] = mutation[m]
  PROVE  Shots' = Shots /\ Carried' = Carried
<1>1. \A c : c \in Shots' <=> c \in Shots
  BY InShots, InShotsNext
<1>2. \A c : c \in Carried' <=> c \in Carried
  BY InCarried, InCarriedNext
<1> QED BY <1>1, <1>2

(* Records that differ from another in some fields. *)
LEMMA VersionedReading ==
  ASSUME NEW v
  PROVE  [Idle EXCEPT !.step = "versioned", !.version = v]
           = [step |-> "versioned", version |-> v, content |-> 0]
<1>1. [Idle EXCEPT !.step = "versioned"] = [step |-> "versioned", version |-> 0, content |-> 0]
  BY DEF Idle
<1>2. [[step |-> "versioned", version |-> 0, content |-> 0] EXCEPT !.version = v]
        = [step |-> "versioned", version |-> v, content |-> 0]
  OBVIOUS
<1>3. [Idle EXCEPT !.step = "versioned", !.version = v]
        = [[Idle EXCEPT !.step = "versioned"] EXCEPT !.version = v]
  OBVIOUS
<1> QED BY <1>1, <1>2, <1>3, Zenon

LEMMA DoneReading ==
  [Idle EXCEPT !.step = "done"] = [step |-> "done", version |-> 0, content |-> 0]
BY DEF Idle

LEMMA ReadReading ==
  ASSUME NEW f \in [Mutations -> Reading], NEW m \in Mutations, NEW d
  PROVE  [f EXCEPT ![m].step = "read", ![m].content = d]
           = [f EXCEPT ![m] = [step |-> "read", version |-> f[m].version, content |-> d]]
<1>1. f[m] \in Reading
  OBVIOUS
<1>2. [f[m] EXCEPT !.step = "read"]
        = [step |-> "read", version |-> f[m].version, content |-> f[m].content]
  BY <1>1 DEF Reading
<1>3. ASSUME NEW a, NEW b
      PROVE  [[step |-> "read", version |-> a, content |-> b] EXCEPT !.content = d]
               = [step |-> "read", version |-> a, content |-> d]
  OBVIOUS
<1>4. [f EXCEPT ![m].step = "read", ![m].content = d]
        = [f EXCEPT ![m] = [[f[m] EXCEPT !.step = "read"] EXCEPT !.content = d]]
  OBVIOUS
<1> QED BY <1>2, <1>3, <1>4

LEMMA TickKeeps == ASSUME PipelineInv, Tick PROVE PipelineInv'
<1> USE DEF PipelineInv, Tick, agent
<1>1. PipelineTypeOK'
  BY PipelineAssumption DEF PipelineTypeOK
<1>2. Shots' = Shots /\ Carried' = Carried
  BY ShotsSame
<1>3. \A v \in Nat : Used(v) => Used(v)'
  BY PipelineAssumption DEF PipelineTypeOK, Used
<1>4. VersionsUsed' /\ UnreadIsFresh' /\ OneSnapshotPerVersion'
  BY <1>2, <1>3, VersionsKeep DEF Follows
<1>5. \A s \in Carried : s.version \in Nat
  BY CarriedAreShots, ShotsType
<1>6. NewerIsRight' /\ RightIsCarried'
  BY <1>2, <1>5, RightKeeps
<1> QED BY <1>1, <1>4, <1>6 DEF ScanSteps

LEMMA ChangeType ==
  ASSUME PipelineTypeOK, Change
  PROVE  disk' \in 0 .. MaxContent /\ {dirty', lost'} \subseteq BOOLEAN /\ (dirty' \/ lost')
<1>1. disk' \in 0 .. MaxContent
  BY PipelineAssumption DEF PipelineTypeOK, Change
<1>2. {dirty', lost'} \subseteq BOOLEAN /\ (dirty' \/ lost')
  BY Zenon DEF PipelineTypeOK, Change
<1> QED BY <1>1, <1>2

LEMMA EditKeeps == ASSUME PipelineInv, Edit PROVE PipelineInv'
<1> USE DEF PipelineInv, Edit, agent
<1>1. PipelineTypeOK'
  BY ChangeType DEF PipelineTypeOK
<1>2. Shots' = Shots
  BY ShotsSame
<1>3. VersionsUsed' /\ UnreadIsFresh' /\ OneSnapshotPerVersion'
  BY <1>2, VersionsKeep DEF Follows, Used
<1>4. NewerIsRight' /\ RightIsCarried'
  BY ChangeType, NothingPromised
<1> QED BY <1>1, <1>3, <1>4 DEF ScanSteps

LEMMA StartScanKeeps == ASSUME PipelineInv, StartScan PROVE PipelineInv'
<1> USE DEF PipelineInv, StartScan
<1>new. PICK v : v = NextVersion
  OBVIOUS
<1>1. /\ v \in 1 .. MaxVersion /\ version' = v /\ clock' = clock
      /\ v >= clock /\ v >= version + 1 /\ clock \in Nat /\ version \in Nat
  BY <1>new, NextVersionIsNew, PipelineNumbers
<1>2. scan' = [step |-> "versioned", version |-> v, content |-> 0]
  BY <1>new, VersionedReading
<1>3. PipelineTypeOK'
  <2>1. scan' \in Reading
    BY <1>1, <1>2, PipelineNumbers DEF Reading
  <2>2. {dirty', lost'} \subseteq BOOLEAN
    OBVIOUS
  <2>3. {clock', version'} \subseteq 0 .. MaxVersion
    BY <1>1 DEF PipelineTypeOK
  <2> QED BY <2>1, <2>2, <2>3 DEF PipelineTypeOK
<1>4. Shots' = Shots
  BY <1>2, ShotsSame
<1>5. /\ \A s \in Shots : s.version \in Nat /\ s.version < v
      /\ \A m \in Mutations : Active(mutation[m]) => mutation[m].version < v
  BY <1>1, ShotsType, ReadingType, PipelineNumbers DEF VersionsUsed, Used
<1>6. VersionsUsed'
  <2>1. \A u \in Nat : Used(u) => Used(u)'
    BY <1>1 DEF Used
  <2>2. \A m \in Mutations : mutation[m].version \in Nat
    BY ReadingType
  <2>3. v \in Nat /\ Used(v)'
    BY <1>1 DEF Used
  <2> QED BY <1>1, <1>2, <1>4, <1>5, <2>1, <2>2, <2>3 DEF VersionsUsed
<1>7. UnreadIsFresh'
  <2>1. \A m \in Mutations : mutation[m].version \in Nat
    BY ReadingType
  <2> QED BY <1>1, <1>2, <1>4, <1>5, <2>1 DEF UnreadIsFresh, Unread, Active
<1>8. OneSnapshotPerVersion'
  BY <1>4 DEF OneSnapshotPerVersion, Shots
<1>9. NewerIsRight'
  BY <1>1, <1>2, <1>4, <1>5 DEF NewerIsRight, RightFrom
<1>10. RightIsCarried' /\ ScanSteps'
  BY <1>2 DEF RightIsCarried, Quiet, ScanSteps
<1> QED BY <1>3, <1>6, <1>7, <1>8, <1>9, <1>10

LEMMA ReadScanKeeps == ASSUME PipelineInv, ReadScan PROVE PipelineInv'
<1> USE DEF PipelineInv, ReadScan
<1>1. scan.step = "versioned" /\ scan \in Reading /\ scan.version \in Nat
  BY ReadingType
<1>2. CASE scan' = Idle /\ lost' = TRUE
  <2>1. PipelineTypeOK'
    BY <1>2, PipelineAssumption DEF PipelineTypeOK, Reading, Idle
  <2>2. Shots' = Shots
    BY <1>1, <1>2, ShotsSame DEF Idle
  <2>3. VersionsUsed' /\ UnreadIsFresh' /\ OneSnapshotPerVersion'
    BY <1>2, <2>2, VersionsKeep DEF Follows, Used, Active, Unread, Idle
  <2>4. NewerIsRight' /\ RightIsCarried'
    BY <1>2, NothingPromised
  <2> QED BY <1>2, <2>1, <2>3, <2>4 DEF ScanSteps, Idle
<1>3. CASE scan' = [scan EXCEPT !.step = "read", !.content = disk] /\ UNCHANGED lost
  <2>0. PICK n : n = [version |-> scan.version, content |-> disk]
    OBVIOUS
  <2>1. scan' = [step |-> "read", version |-> scan.version, content |-> disk]
    BY <1>1, <1>3 DEF Reading
  <2>2. PipelineTypeOK'
    BY <1>1, <1>3, <2>1 DEF PipelineTypeOK, Reading
  <2>3. Plain(scan') = n /\ n.content = disk /\ n.version = scan.version
    BY <2>0, <2>1 DEF Plain
  <2>4. Shots' \subseteq Shots \cup {n} /\ n \in Carried'
    BY <2>1, <2>3, InShots, InShotsNext, InCarriedNext
  <2>5. \A s \in Shots : s.version # n.version
    BY <1>1, <2>3 DEF UnreadIsFresh, Unread
  <2>6. n.version \in Nat /\ Used(n.version)
    BY <1>1, <2>3 DEF VersionsUsed, Active
  <2>7. \A m \in Mutations : Unread(mutation'[m]) => mutation'[m].version # n.version
    BY <1>1, <2>3 DEF UnreadIsFresh, Unread
  <2>8. Follows(scan, scan') /\ ~Unread(scan')
        /\ \A m \in Mutations : Follows(mutation[m], mutation'[m])
    BY <1>1, <2>1 DEF Follows, Active, Unread
  <2>10. VersionsUsed' /\ UnreadIsFresh' /\ OneSnapshotPerVersion'
    BY <2>4, <2>5, <2>6, <2>7, <2>8, VersionsKeepRead DEF Used
  <2>11. NewerIsRight' /\ ScanSteps'
    BY <2>1 DEF NewerIsRight, ScanSteps
  <2>12. RightIsCarried'
    <3>1. n.version \in 0 .. MaxVersion /\ n.version >= n.version
      BY <1>1, <2>3, PipelineNumbers DEF Reading
    <3> SUFFICES ASSUME Quiet' PROVE RightFrom(n.version)'
      BY <2>4, <3>1 DEF RightIsCarried
    <3>2. RightFrom(n.version)
      BY <1>1, <1>3, <2>3 DEF NewerIsRight, Quiet
    <3> QED BY <2>3, <2>4, <3>2 DEF RightFrom
  <2> QED BY <2>2, <2>10, <2>11, <2>12
<1> QED BY <1>2, <1>3

LEMMA StartMutationKeeps ==
  ASSUME PipelineInv, NEW m \in Mutations, StartMutation(m) PROVE PipelineInv'
<1> USE DEF PipelineInv, StartMutation
<1>new. PICK v : v = NextVersion
  OBVIOUS
<1>1. /\ v \in 1 .. MaxVersion /\ version' = v /\ clock' = clock
      /\ v >= clock /\ v >= version + 1 /\ clock \in Nat /\ version \in Nat
  BY <1>new, NextVersionIsNew, PipelineNumbers
<1>read. PICK r : r = [step |-> "versioned", version |-> v, content |-> 0]
  OBVIOUS
<1>2. mutation' = [mutation EXCEPT ![m] = r]
  BY <1>new, <1>read, VersionedReading
<1>3. r.step = "versioned" /\ r.version = v /\ r \in Reading
  BY <1>1, <1>read, PipelineNumbers DEF Reading
<1>4. mutation \in [Mutations -> Reading] /\ mutation[m].step = "idle"
  BY DEF PipelineTypeOK
<1>5. mutation'[m] = r /\ \A n \in Mutations \ {m} : mutation'[n] = mutation[n]
  BY <1>2, <1>4
<1>6. PipelineTypeOK'
  BY <1>1, <1>2, <1>3, <1>4 DEF PipelineTypeOK
<1>7. Shots' = Shots /\ Carried' = Carried
  BY <1>3, <1>4, <1>5, ShotsSame
<1>8. /\ \A s \in Shots : s.version \in Nat /\ s.version < v
      /\ \A n \in Mutations : Active(mutation[n]) => mutation[n].version < v
      /\ Active(scan) => scan.version < v
      /\ scan.version \in Nat /\ \A n \in Mutations : mutation[n].version \in Nat
  BY <1>1, ShotsType, ReadingType, PipelineNumbers DEF VersionsUsed, Used
<1>9. VersionsUsed'
  <2>1. \A u \in Nat : Used(u) => Used(u)'
    BY <1>1 DEF Used
  <2>2. v \in Nat /\ v >= 1 /\ Used(v)'
    BY <1>1 DEF Used
  <2> QED BY <1>3, <1>5, <1>7, <1>8, <2>1, <2>2 DEF VersionsUsed
<1>10. UnreadIsFresh'
  BY <1>1, <1>3, <1>5, <1>7, <1>8 DEF UnreadIsFresh, Unread, Active
<1>11. OneSnapshotPerVersion'
  BY <1>7 DEF OneSnapshotPerVersion, Shots
<1>12. \A s \in Carried : s.version \in Nat
  BY CarriedAreShots, ShotsType
<1>13. NewerIsRight' /\ RightIsCarried'
  BY <1>7, <1>12, RightKeeps
<1> QED BY <1>6, <1>9, <1>10, <1>11, <1>13 DEF ScanSteps

LEMMA RunKeeps == ASSUME PipelineInv, NEW m \in Mutations, RunMutation(m) PROVE PipelineInv'
<1> USE DEF PipelineInv, RunMutation
<1>1. mutation \in [Mutations -> Reading] /\ mutation[m].step = "versioned"
  BY DEF PipelineTypeOK
<1>2. PICK r : r = [mutation[m] EXCEPT !.step = "worked"]
  OBVIOUS
<1>3. r \in Reading /\ r.step = "worked" /\ r.version = mutation[m].version
      /\ mutation' = [mutation EXCEPT ![m] = r]
  BY <1>1, <1>2 DEF Reading
<1>4. mutation'[m] = r /\ \A n \in Mutations \ {m} : mutation'[n] = mutation[n]
  BY <1>1, <1>3
<1>5. /\ \/ UNCHANGED <<disk, dirty, lost>>
         \/ /\ disk' \in 0 .. MaxContent /\ {dirty', lost'} \subseteq BOOLEAN
            /\ dirty' \/ lost'
      /\ UNCHANGED <<clock, version, scan, wire, queue, shown>>
  BY ChangeType
<1>6. PipelineTypeOK'
  BY <1>1, <1>3, <1>5 DEF PipelineTypeOK
<1>7. Shots' = Shots /\ Carried' = Carried
  BY <1>1, <1>3, <1>4, <1>5, ShotsSame
<1>8. VersionsUsed' /\ UnreadIsFresh' /\ OneSnapshotPerVersion'
  <2>1. \A n \in Mutations : Follows(mutation[n], mutation'[n])
    BY <1>1, <1>3, <1>4 DEF Follows, Active, Unread
  <2> QED BY <1>5, <1>7, <2>1, VersionsKeep DEF Follows, Used
<1>9. \A s \in Carried : s.version \in Nat
  BY CarriedAreShots, ShotsType
<1>10. NewerIsRight' /\ RightIsCarried'
  BY <1>5, <1>7, <1>9, RightKeeps, NothingPromised
<1> QED BY <1>5, <1>6, <1>8, <1>10 DEF ScanSteps

LEMMA ReadMutationKeeps ==
  ASSUME PipelineInv, NEW m \in Mutations, ReadMutation(m) PROVE PipelineInv'
<1> USE DEF PipelineInv
<1>1. mutation \in [Mutations -> Reading] /\ mutation[m].step = "worked"
      /\ mutation[m].version \in Nat
      /\ UNCHANGED <<disk, dirty, clock, version, scan, wire, queue, shown, lost>>
  BY ReadingType DEF PipelineTypeOK, ReadMutation
<1>2. PICK r : r = [step |-> "read", version |-> mutation[m].version, content |-> disk]
  OBVIOUS
<1>3. mutation' = [mutation EXCEPT ![m] = r] /\ r \in Reading
  <2>1. mutation[m].version \in 0 .. MaxVersion /\ disk \in 0 .. MaxContent
    BY <1>1 DEF Reading, PipelineTypeOK
  <2>2. r \in Reading
    BY <1>2, <2>1 DEF Reading
  <2> QED BY <1>1, <1>2, <2>2, ReadReading DEF ReadMutation
<1>4. mutation'[m] = r /\ \A n \in Mutations \ {m} : mutation'[n] = mutation[n]
  BY <1>1, <1>3
<1>5. PICK n : n = [version |-> mutation[m].version, content |-> disk]
  OBVIOUS
<1>6. Plain(r) = n /\ n.content = disk /\ n.version = mutation[m].version
  BY <1>2, <1>5 DEF Plain
<1>7. PipelineTypeOK'
  <2>1. mutation' \in [Mutations -> Reading]
    BY <1>1, <1>3
  <2> QED BY <1>1, <2>1 DEF PipelineTypeOK
<1>8. Shots' \subseteq Shots \cup {n} /\ Carried' = Carried
  <2>1. ASSUME NEW c \in Shots' PROVE c \in Shots \/ c = n
    <3>1. ASSUME NEW k \in Mutations, mutation'[k].step = "read", c = Plain(mutation'[k])
          PROVE  c \in Shots \/ c = n
      BY <1>1, <1>4, <1>6, <3>1, InShots
    <3> QED BY <1>1, <3>1, InShots, InShotsNext
  <2>2. \A c : c \in Carried' <=> c \in Carried
    BY <1>1, InCarried, InCarriedNext
  <2> QED BY <2>1, <2>2
<1>9. VersionsUsed' /\ UnreadIsFresh' /\ OneSnapshotPerVersion'
  <2>1. n.version \in Nat /\ Used(n.version) /\ \A s \in Shots : s.version # n.version
    BY <1>1, <1>6 DEF VersionsUsed, UnreadIsFresh, Active, Unread
  <2>2. \A k \in Mutations : Follows(mutation[k], mutation'[k])
    BY <1>1, <1>2, <1>4 DEF Follows, Active, Unread
  <2>3. /\ Unread(scan') => scan'.version # n.version
        /\ \A k \in Mutations : Unread(mutation'[k]) => mutation'[k].version # n.version
    BY <1>1, <1>2, <1>4, <1>6 DEF UnreadIsFresh, Unread
  <2> QED BY <1>1, <1>8, <2>1, <2>2, <2>3, VersionsKeepRead DEF Used, Follows
<1>10. \A s \in Carried : s.version \in Nat
  BY CarriedAreShots, ShotsType
<1>11. NewerIsRight' /\ RightIsCarried'
  BY <1>1, <1>6, <1>8, <1>10, RightKeeps
<1> QED BY <1>1, <1>7, <1>9, <1>11 DEF ScanSteps

LEMMA ReplyKeeps == ASSUME PipelineInv, NEW m \in Mutations, ReplyMutation(m) PROVE PipelineInv'
<1> USE DEF PipelineInv, ReplyMutation
<1>1. mutation \in [Mutations -> Reading] /\ mutation[m].step = "read"
      /\ mutation[m] \in Reading
  BY DEF PipelineTypeOK
<1>2. PICK r : r = [step |-> "done", version |-> 0, content |-> 0]
  OBVIOUS
<1>3. mutation' = [mutation EXCEPT ![m] = r] /\ r \in Reading
  <2>1. r \in Reading
    BY <1>2, PipelineNumbers DEF Reading
  <2> QED BY <1>2, <2>1, DoneReading
<1>4. mutation'[m] = r /\ \A n \in Mutations \ {m} : mutation'[n] = mutation[n]
  BY <1>1, <1>3
<1>5. PICK s : s = [version |-> mutation[m].version, content |-> mutation[m].content,
                    as |-> "reply"]
  OBVIOUS
<1>6. s \in Sent /\ Plain(s) = Plain(mutation[m]) /\ wire' \subseteq wire \cup {s}
      /\ wire \subseteq wire'
  <2>1. mutation[m].version >= 1
    BY <1>1 DEF VersionsUsed, Active
  <2> QED BY <1>1, <1>5, <2>1, PipelineNumbers DEF Reading, Sent, Plain
<1>7. PipelineTypeOK'
  BY <1>1, <1>3, <1>6 DEF PipelineTypeOK
<1>8. Shots' \subseteq Shots /\ Carried \subseteq Carried'
  <2>1. \A c : c \in Shots' => c \in Shots
    BY <1>1, <1>2, <1>4, <1>6, InShots, InShotsNext
  <2>2. \A c : c \in Carried => c \in Carried'
    BY <1>6, InCarried, InCarriedNext
  <2> QED BY <2>1, <2>2
<1>9. VersionsUsed' /\ UnreadIsFresh' /\ OneSnapshotPerVersion'
  <2>1. \A k \in Mutations : Follows(mutation[k], mutation'[k])
    BY <1>2, <1>4 DEF Follows, Active, Unread
  <2> QED BY <1>8, <2>1, VersionsKeep DEF Follows, Used
<1>10. \A t \in Carried : t.version \in Nat
  BY CarriedAreShots, ShotsType
<1>11. NewerIsRight' /\ RightIsCarried'
  BY <1>8, <1>10, RightKeeps
<1> QED BY <1>7, <1>9, <1>11 DEF ScanSteps

LEMMA PublishShots == ASSUME PublishScan PROVE Shots' \subseteq Shots
<1> SUFFICES ASSUME NEW c \in Shots' PROVE c \in Shots
  OBVIOUS
<1>1. scan.step = "read" /\ scan' = Idle /\ UNCHANGED <<mutation, queue, shown>>
  BY DEF PublishScan
<1>2. \A s \in wire' : s \in wire \/ Plain(s) = Plain(scan)
  BY DEF PublishScan, Plain
<1> QED BY <1>1, <1>2, InShots, InShotsNext DEF Idle

LEMMA PublishKeeps == ASSUME PipelineInv, PublishScan PROVE PipelineInv'
<1> USE DEF PipelineInv
<1>1. scan.step = "read" /\ scan \in Reading /\ scan' = Idle
      /\ UNCHANGED <<disk, dirty, clock, version, mutation, queue, shown>>
  BY DEF PipelineTypeOK, PublishScan
<1>2. PICK copies \in SUBSET {"push", "reply"} :
        /\ wire' = wire \cup {[version |-> scan.version, content |-> scan.content, as |-> c]
                                : c \in copies}
        /\ lost' = (lost \/ copies = {})
  BY DEF PublishScan
<1>3. PICK r : r = scan
  OBVIOUS
<1>4. \A s \in wire' \ wire : s \in Sent /\ Plain(s) = Plain(r)
  <2>1. scan.version >= 1
    BY <1>1 DEF VersionsUsed, Active
  <2> QED BY <1>1, <1>2, <1>3, <2>1, PipelineNumbers DEF Reading, Sent, Plain
<1>5. wire \subseteq wire' /\ (copies # {} => \E s \in wire' : Plain(s) = Plain(r))
  <2>1. ASSUME copies # {} PROVE \E s \in wire' : Plain(s) = Plain(r)
    <3>1. PICK c \in copies : TRUE
      BY <2>1
    <3>2. [version |-> scan.version, content |-> scan.content, as |-> c] \in wire'
      BY <1>2
    <3> QED BY <1>3, <3>2 DEF Plain
  <2> QED BY <1>2, <2>1
<1>6. PipelineTypeOK'
  <2>1. lost' \in BOOLEAN
    BY <1>2
  <2>2. scan' \in Reading
    BY <1>1, PipelineNumbers DEF Reading, Idle
  <2>3. wire' \subseteq Sent
    BY <1>4 DEF PipelineTypeOK
  <2> QED BY <1>1, <2>1, <2>2, <2>3 DEF PipelineTypeOK
<1>7. Shots' \subseteq Shots
  BY PublishShots
<1>8. ~lost' => Carried \subseteq Carried'
  <2> SUFFICES ASSUME ~lost', NEW c \in Carried PROVE c \in Carried'
    OBVIOUS
  <2>1. \E s \in wire' : Plain(s) = Plain(scan)
    BY <1>2, <1>3, <1>5
  <2> QED BY <1>1, <1>5, <2>1, InCarried, InCarriedNext
<1>9. VersionsUsed' /\ UnreadIsFresh' /\ OneSnapshotPerVersion'
  <2>1. Follows(scan, scan') /\ \A k \in Mutations : Follows(mutation[k], mutation'[k])
    BY <1>1 DEF Follows, Active, Unread, Idle
  <2> QED BY <1>1, <1>7, <2>1, VersionsKeep DEF Used
<1>10. \A t \in Carried : t.version \in Nat
  BY CarriedAreShots, ShotsType
<1>11. NewerIsRight' /\ RightIsCarried'
  <2>1. ~lost' => ~lost
    BY <1>2
  <2> QED BY <1>1, <2>1, <1>7, <1>8, <1>10, RightKeeps DEF Idle
<1> QED BY <1>1, <1>6, <1>9, <1>11 DEF ScanSteps, Idle

(* What leaves the wire gets lost or into the queue. *)
LEMMA LoseKeeps == ASSUME PipelineInv, NEW s \in wire, Lose(s) PROVE PipelineInv'
<1> USE DEF PipelineInv, Lose, agent
<1>1. PipelineTypeOK'
  BY DEF PipelineTypeOK
<1>2. Shots' \subseteq Shots
  BY InShots, InShotsNext
<1>3. VersionsUsed' /\ UnreadIsFresh' /\ OneSnapshotPerVersion'
  BY <1>2, VersionsKeep DEF Used, Follows
<1>4. NewerIsRight' /\ RightIsCarried'
  BY NothingPromised
<1> QED BY <1>1, <1>3, <1>4 DEF ScanSteps

LEMMA QueueGrows ==
  ASSUME PipelineTypeOK, NEW s \in wire, Enqueue(s)
  PROVE  /\ Plain(s) \in Snapshot /\ queue \in Seq(Snapshot)
         /\ queue' = Append(queue, Plain(s))
         /\ \A i \in DOMAIN queue : i \in DOMAIN queue' /\ queue'[i] = queue[i]
         /\ \A i \in DOMAIN queue' :
              (i \in DOMAIN queue /\ queue'[i] = queue[i]) \/ queue'[i] = Plain(s)
         /\ \E i \in DOMAIN queue' : queue'[i] = Plain(s)
<1>1. PICK p : p = Plain(s)
  OBVIOUS
<1>2. p \in Snapshot /\ queue \in Seq(Snapshot) /\ queue' = Append(queue, p)
  BY <1>1 DEF PipelineTypeOK, Sent, Snapshot, Plain, Enqueue
<1>3. /\ Len(queue) \in Nat /\ Len(queue') = Len(queue) + 1
      /\ DOMAIN queue = 1 .. Len(queue) /\ DOMAIN queue' = 1 .. Len(queue')
      /\ \A i \in 1 .. Len(queue) : queue'[i] = queue[i]
      /\ queue'[Len(queue) + 1] = p
  BY <1>2
<1> QED BY <1>1, <1>2, <1>3

LEMMA EnqueueShots ==
  ASSUME PipelineTypeOK, NEW s \in wire, Enqueue(s) PROVE Shots' \subseteq Shots
<1> SUFFICES ASSUME NEW c \in Shots' PROVE c \in Shots
  OBVIOUS
<1>1. wire' \subseteq wire /\ UNCHANGED <<scan, mutation, shown>>
  BY DEF Enqueue, agent
<1> QED BY <1>1, QueueGrows, InShots, InShotsNext

LEMMA EnqueueKeeps == ASSUME PipelineInv, NEW s \in wire, Enqueue(s) PROVE PipelineInv'
<1> USE DEF PipelineInv, Enqueue, agent
<1>1. PICK p : p = Plain(s)
  OBVIOUS
<1>2. p \in Snapshot /\ queue \in Seq(Snapshot) /\ queue' = Append(queue, p)
  BY <1>1, QueueGrows
<1>3. PipelineTypeOK'
  BY <1>2 DEF PipelineTypeOK
<1>4. /\ \A i \in DOMAIN queue : i \in DOMAIN queue' /\ queue'[i] = queue[i]
      /\ \E i \in DOMAIN queue' : queue'[i] = p
  BY <1>1, QueueGrows
<1>5. Shots' \subseteq Shots
  BY EnqueueShots
<1>6. Carried \subseteq Carried'
  <2> SUFFICES ASSUME NEW c \in Carried PROVE c \in Carried'
    OBVIOUS
  <2> QED BY <1>1, <1>4, InCarried, InCarriedNext
<1>7. VersionsUsed' /\ UnreadIsFresh' /\ OneSnapshotPerVersion'
  BY <1>5, VersionsKeep DEF Used, Follows
<1>8. \A t \in Carried : t.version \in Nat
  BY CarriedAreShots, ShotsType
<1>9. NewerIsRight' /\ RightIsCarried'
  BY <1>5, <1>6, <1>8, RightKeeps
<1> QED BY <1>3, <1>7, <1>9 DEF ScanSteps

LEMMA QueueShrinks ==
  ASSUME PipelineTypeOK, Handle
  PROVE  LET h == Head(queue) IN
         /\ h \in Snapshot /\ queue' \in Seq(Snapshot)
         /\ \E i \in DOMAIN queue : queue[i] = h
         /\ \A i \in DOMAIN queue' : \E j \in DOMAIN queue : queue'[i] = queue[j]
         /\ \A i \in DOMAIN queue :
              queue[i] = h \/ \E j \in DOMAIN queue' : queue'[j] = queue[i]
<1>1. queue # <<>> /\ queue \in Seq(Snapshot) /\ queue' = Tail(queue)
  BY DEF Handle, PipelineTypeOK
<1>2. PICK h : h = Head(queue)
  OBVIOUS
<1>3. /\ Len(queue) \in Nat /\ Len(queue) >= 1 /\ Len(queue') = Len(queue) - 1
      /\ DOMAIN queue = 1 .. Len(queue) /\ DOMAIN queue' = 1 .. Len(queue')
      /\ queue[1] = h /\ h \in Snapshot /\ queue' \in Seq(Snapshot)
      /\ \A i \in 1 .. Len(queue') : queue'[i] = queue[i + 1]
  BY <1>1, <1>2
<1>4. \A i \in 2 .. Len(queue) : i - 1 \in DOMAIN queue' /\ queue'[i - 1] = queue[i]
  BY <1>3
<1>5. \A i \in DOMAIN queue' : i + 1 \in DOMAIN queue /\ queue'[i] = queue[i + 1]
  BY <1>3
<1>6. 1 \in DOMAIN queue /\ \A i \in DOMAIN queue : i = 1 \/ i \in 2 .. Len(queue)
  BY <1>3
<1> QED BY <1>2, <1>3, <1>4, <1>5, <1>6

LEMMA HandleShots == ASSUME PipelineTypeOK, Handle PROVE Shots' \subseteq Shots
<1> SUFFICES ASSUME NEW c \in Shots' PROVE c \in Shots
  OBVIOUS
<1>1. PICK h : h = Head(queue)
  OBVIOUS
<1>2. UNCHANGED <<scan, mutation, wire>> /\ shown' \in {shown, h}
  BY <1>1 DEF Handle, agent
<1>3. h \in Shots
  BY <1>1, QueueShrinks, InShots
<1> QED BY <1>2, <1>3, QueueShrinks, InShots, InShotsNext

(* What HandleAsync rejects is not newer than what the database shows already. *)
LEMMA HandleKeeps == ASSUME PipelineInv, Handle PROVE PipelineInv'
<1> USE DEF PipelineInv, agent
<1>1. /\ queue # <<>> /\ queue \in Seq(Snapshot) /\ queue' = Tail(queue)
      /\ UNCHANGED <<disk, dirty, clock, version, scan, mutation, wire>>
  BY DEF Handle, PipelineTypeOK
<1>2. PICK h : h = Head(queue)
  OBVIOUS
<1>3. /\ h \in Snapshot /\ queue' \in Seq(Snapshot)
      /\ \E i \in DOMAIN queue : queue[i] = h
      /\ \A i \in DOMAIN queue' : \E j \in DOMAIN queue : queue'[i] = queue[j]
      /\ \A i \in DOMAIN queue :
           queue[i] = h \/ \E j \in DOMAIN queue' : queue'[j] = queue[i]
  BY <1>2, QueueShrinks
<1>4. \/ /\ shown' = (IF h.version <= shown.version THEN shown ELSE h)
         /\ lost' = lost
      \/ lost' = TRUE /\ shown' = shown
  BY <1>2 DEF Handle
<1>5. h \in [version : 0 .. MaxVersion, content : 0 .. MaxContent]
      /\ h.version \in Nat /\ shown.version \in Nat
  BY <1>3, PipelineNumbers DEF Snapshot, PipelineTypeOK
<1>6. PipelineTypeOK'
  <2>1. {dirty', lost'} \subseteq BOOLEAN
    BY <1>1, <1>4 DEF PipelineTypeOK
  <2>2. shown' \in [version : 0 .. MaxVersion, content : 0 .. MaxContent]
    BY <1>4, <1>5 DEF PipelineTypeOK
  <2> QED BY <1>1, <1>3, <2>1, <2>2 DEF PipelineTypeOK
<1>7. Shots' \subseteq Shots
  BY HandleShots
<1>8. VersionsUsed' /\ UnreadIsFresh' /\ OneSnapshotPerVersion'
  BY <1>1, <1>7, VersionsKeep DEF Used, Follows
<1>9. CASE lost' = TRUE
  BY <1>1, <1>6, <1>8, <1>9, NothingPromised DEF ScanSteps
<1>10. CASE /\ shown' = (IF h.version <= shown.version THEN shown ELSE h)
            /\ lost' = lost
  <2>1. /\ shown' \in Carried' /\ shown'.version \in Nat
        /\ shown'.version >= h.version /\ shown'.version >= shown.version
    BY <1>5, <1>10, InCarriedNext
  <2>2. ASSUME NEW c \in Carried
        PROVE  \E t \in Carried' : t.version \in Nat /\ t.version >= c.version
    <3>1. c.version \in Nat
      BY CarriedAreShots, ShotsType
    <3>2. CASE c = h \/ c = shown
      BY <2>1, <3>2
    <3>3. CASE c # h /\ c # shown
      <4>1. c \in Carried'
        BY <1>1, <1>3, <3>3, InCarried, InCarriedNext
      <4> QED BY <3>1, <4>1
    <3> QED BY <3>2, <3>3
  <2>3. NewerIsRight' /\ RightIsCarried'
    BY <1>1, <1>7, <1>10, <2>2, RightKeeps
  <2> QED BY <1>1, <1>6, <1>8, <2>3 DEF ScanSteps
<1> QED BY <1>4, <1>9, <1>10

LEMMA AppRestartKeeps == ASSUME PipelineInv, AppRestart PROVE PipelineInv'
<1> USE DEF PipelineInv, AppRestart, agent
<1>1. PipelineTypeOK'
  BY EmptySeq DEF PipelineTypeOK
<1>2. Shots' \subseteq Shots
  BY InShots, InShotsNext
<1>3. VersionsUsed' /\ UnreadIsFresh' /\ OneSnapshotPerVersion'
  BY <1>2, VersionsKeep DEF Used, Follows
<1>4. NewerIsRight' /\ RightIsCarried'
  BY NothingPromised
<1> QED BY <1>1, <1>3, <1>4 DEF ScanSteps

(* The time has passed every version: what was used counts as used. *)
LEMMA AgentRestartKeeps == ASSUME PipelineInv, AgentRestart PROVE PipelineInv'
<1> USE DEF PipelineInv, AgentRestart
<1>1. /\ clock' \in {clock, version + 1} /\ clock' >= clock /\ clock' >= version + 1
      /\ clock \in 0 .. MaxVersion /\ version \in 0 .. MaxVersion
      /\ clock' \in 0 .. MaxVersion
  BY NextVersionIsNew, PipelineNumbers DEF NextVersion, PipelineTypeOK
<1>2. \A m \in Mutations : mutation'[m].step \in {"idle", "done"} /\ mutation'[m] \in Reading
  <2>1. Idle \in Reading /\ Idle.step = "idle"
    BY PipelineNumbers DEF Idle, Reading
  <2>2. [Idle EXCEPT !.step = "done"] \in Reading
        /\ [Idle EXCEPT !.step = "done"].step = "done"
    BY PipelineNumbers, DoneReading DEF Reading
  <2> QED BY <2>1, <2>2
<1>3. scan' = Idle /\ Idle.step = "idle" /\ Idle \in Reading
  BY PipelineNumbers DEF Idle, Reading
<1>4. PipelineTypeOK'
  <2>1. mutation' \in [Mutations -> Reading]
    BY <1>2
  <2>2. {dirty', lost'} \subseteq BOOLEAN
    OBVIOUS
  <2>3. {clock', version'} \subseteq 0 .. MaxVersion
    BY <1>1, PipelineNumbers
  <2> QED BY <1>3, <2>1, <2>2, <2>3 DEF PipelineTypeOK
<1>5. Shots' \subseteq Shots
  BY <1>2, <1>3, InShots, InShotsNext
<1>6. VersionsUsed' /\ UnreadIsFresh' /\ OneSnapshotPerVersion'
  <2>1. \A v \in Nat : Used(v) => Used(v)'
    BY <1>1 DEF Used
  <2>2. Follows(scan, scan') /\ \A m \in Mutations : Follows(mutation[m], mutation'[m])
    BY <1>2, <1>3 DEF Follows, Active, Unread
  <2> QED BY <1>5, <2>1, <2>2, VersionsKeep
<1>7. NewerIsRight' /\ RightIsCarried'
  BY NothingPromised
<1> QED BY <1>3, <1>4, <1>6, <1>7 DEF ScanSteps

LEMMA PipelineInvStep == PipelineInv /\ [PipelineNext]_pipelineVars => PipelineInv'
<1> SUFFICES ASSUME PipelineInv, [PipelineNext]_pipelineVars PROVE PipelineInv'
  OBVIOUS
<1>1. CASE Tick \/ Edit \/ StartScan \/ ReadScan \/ PublishScan
  BY <1>1, TickKeeps, EditKeeps, StartScanKeeps, ReadScanKeeps, PublishKeeps
<1>2. CASE \E m \in Mutations :
             StartMutation(m) \/ RunMutation(m) \/ ReadMutation(m) \/ ReplyMutation(m)
  BY <1>2, StartMutationKeeps, RunKeeps, ReadMutationKeeps, ReplyKeeps
<1>3. CASE \E s \in wire : Lose(s) \/ Enqueue(s)
  BY <1>3, LoseKeeps, EnqueueKeeps
<1>4. CASE Handle \/ AppRestart \/ AgentRestart
  BY <1>4, HandleKeeps, AppRestartKeeps, AgentRestartKeeps
<1>5. CASE UNCHANGED pipelineVars
  BY <1>5 DEF pipelineVars, agent, PipelineInv, PipelineTypeOK, ScanSteps, VersionsUsed,
       UnreadIsFresh, OneSnapshotPerVersion, NewerIsRight, RightIsCarried, RightFrom, Quiet,
       Carried, Shots, Coming, Used
<1> QED BY <1>1, <1>2, <1>3, <1>4, <1>5 DEF PipelineNext

LEMMA PipelineInvariant == PipelineSpec => []PipelineInv
BY PipelineInvInit, PipelineInvStep, PTL DEF PipelineSpec

(* Every snapshot GitChangesSnapshotCache versions, on the wire, in the write
   queue or in the database, has a version between 1 (0 for none) and the bound. *)
THEOREM PipelineTypeCorrect == PipelineSpec => []PipelineTypeOK
<1>1. PipelineInv => PipelineTypeOK
  BY DEF PipelineInv
<1> QED BY <1>1, PipelineInvariant, PTL

(* NextVersion gives no version out twice, not even across restarts of the agent:
   what HandleAsync rejects for being equal shows the same. *)
THEOREM VersionsAreUnique == PipelineSpec => []OneSnapshotPerVersion
<1>1. PipelineInv => OneSnapshotPerVersion
  BY DEF PipelineInv
<1> QED BY <1>1, PipelineInvariant, PTL

(* The database shows the working tree, or the coordinator is going to scan, or
   a snapshot that shows it is on its way and will not be rejected - unless
   something was missed since the last scan began.  For every number of commands
   that read concurrently, and whatever overtakes what. *)
THEOREM EventuallyConsistent == PipelineSpec => []ShownOrComing
<1>1. PipelineInv => ShownOrComing
  <2> SUFFICES ASSUME PipelineInv, shown.content # disk,
                      ~dirty, scan.step # "versioned", ~lost
               PROVE  \E s \in Coming : s.content = disk /\ s.version > shown.version
    BY DEF ShownOrComing
  <2>1. PICK v \in 0 .. MaxVersion, s \in Carried : RightFrom(v) /\ s.version >= v
    BY DEF PipelineInv, RightIsCarried, Quiet
  <2>2. s \in Shots /\ shown \in Shots /\ s.version \in Nat /\ shown.version \in Nat
    BY CarriedAreShots, ShotsType, InShots DEF PipelineInv
  <2>3. s.content = disk /\ shown.version < v
    BY <2>1, <2>2 DEF RightFrom
  <2>4. s.version > shown.version
    BY <2>1, <2>2, <2>3
  <2>5. s \in Coming
    BY <2>2, <2>3 DEF Shots
  <2> QED BY <2>3, <2>4, <2>5
<1> QED BY <1>1, PipelineInvariant, PTL

-----------------------------------------------------------------------------
(* Refinement: without mutations every step is a step of Mirror, or none. *)

(* The order of the versions is the order in which git read the working tree, and
   a scan that has still to read it has the newest version of all. *)
VersionsAreOrder ==
  /\ \A s, t \in Shots : s.version <= t.version => s.content <= t.content
  /\ \A s \in Shots : s.content <= disk
  /\ scan.step = "versioned" => \A s \in Shots : s.version < scan.version

(* No snapshot is read: those that are left keep their order. *)
LEMMA OrderKeeps ==
  ASSUME PipelineTypeOK, VersionsAreOrder, Shots' \subseteq Shots,
         disk' \in Nat, disk' >= disk,
         scan'.step = "versioned" => scan' = scan
  PROVE  VersionsAreOrder'
<1>1. /\ \A s \in Shots : s.version \in Nat /\ s.content \in Nat
      /\ disk \in Nat
  BY ShotsType, PipelineNumbers DEF PipelineTypeOK
<1>2. \A s \in Shots' : s.content <= disk'
  BY <1>1 DEF VersionsAreOrder
<1>3. \A s, t \in Shots' : s.version <= t.version => s.content <= t.content
  BY DEF VersionsAreOrder
<1>4. scan'.step = "versioned" => \A s \in Shots' : s.version < scan'.version
  BY DEF VersionsAreOrder
<1> QED BY <1>2, <1>3, <1>4 DEF VersionsAreOrder

LEMMA StartScanOrders ==
  ASSUME PipelineInv, VersionsAreOrder, StartScan PROVE VersionsAreOrder'
<1>1. PICK v : v = NextVersion
  OBVIOUS
<1>2. PipelineTypeOK /\ VersionsUsed
  BY DEF PipelineInv
<1>3. v \in Nat /\ v >= clock /\ v >= version + 1 /\ clock \in Nat /\ version \in Nat
  BY <1>1, <1>2, NextVersionIsNew
<1>4. scan' = [step |-> "versioned", version |-> v, content |-> 0]
  BY <1>1, VersionedReading DEF StartScan
<1>5. Shots' = Shots
  BY <1>4, ShotsSame DEF StartScan
<1>6. \A s \in Shots : s.version < v
  BY <1>2, <1>3, ShotsType, PipelineNumbers DEF VersionsUsed, Used
<1>7. disk' = disk
  BY DEF StartScan
<1> QED BY <1>4, <1>5, <1>6, <1>7 DEF VersionsAreOrder

LEMMA ReadScanOrders ==
  ASSUME PipelineInv, VersionsAreOrder, ReadScan PROVE VersionsAreOrder'
<1>1. PipelineTypeOK /\ scan.step = "versioned" /\ disk' = disk
  BY DEF PipelineInv, ReadScan
<1>2. /\ \A s \in Shots : s.version \in Nat /\ s.content \in Nat
      /\ disk \in Nat /\ scan \in Reading /\ scan.version \in Nat
  BY <1>1, ShotsType, ReadingType, PipelineNumbers DEF PipelineTypeOK
<1>3. CASE scan' = Idle
  <2>1. Shots' = Shots
    BY <1>1, <1>3, ShotsSame DEF ReadScan, Idle
  <2> QED BY <1>1, <1>2, <1>3, <2>1, OrderKeeps DEF Idle
<1>4. CASE scan' = [scan EXCEPT !.step = "read", !.content = disk]
  <2>1. PICK n : n = [version |-> scan.version, content |-> disk]
    OBVIOUS
  <2>2. scan' = [step |-> "read", version |-> scan.version, content |-> disk]
    BY <1>2, <1>4 DEF Reading
  <2>3. Plain(scan') = n /\ n.version = scan.version /\ n.content = disk
    BY <2>1, <2>2 DEF Plain
  <2>4. Shots' \subseteq Shots \cup {n}
    BY <2>2, <2>3, InShots, InShotsNext DEF ReadScan
  <2>5. \A s \in Shots : s.version < n.version /\ s.content <= n.content
    BY <1>1, <2>3 DEF VersionsAreOrder
  <2>6. \A s, t \in Shots' : s.version <= t.version => s.content <= t.content
    BY <1>2, <2>3, <2>4, <2>5 DEF VersionsAreOrder
  <2>7. \A s \in Shots' : s.content <= disk'
    BY <1>1, <1>2, <2>3, <2>4, <2>5
  <2> QED BY <2>2, <2>6, <2>7 DEF VersionsAreOrder
<1> QED BY <1>3, <1>4 DEF ReadScan

LEMMA PipelineOrders ==
  ASSUME Mutations = {}, PipelineInv, VersionsAreOrder, [PipelineNext]_pipelineVars
  PROVE  VersionsAreOrder'
<1>1. PipelineTypeOK /\ disk \in Nat
  BY PipelineNumbers DEF PipelineInv, PipelineTypeOK
<1>2. CASE Tick \/ AppRestart \/ \E s \in wire : Lose(s)
  <2>1. disk' = disk /\ scan' = scan /\ Shots' \subseteq Shots
    BY <1>2, EmptySeq, InShots, InShotsNext DEF Tick, AppRestart, Lose, agent
  <2> QED BY <1>1, <2>1, OrderKeeps
<1>3. CASE Edit
  <2>1. disk' = disk + 1 /\ scan' = scan /\ Shots' = Shots
    BY <1>3, ShotsSame DEF Edit, Change, agent
  <2> QED BY <1>1, <2>1, OrderKeeps
<1>4. CASE StartScan \/ ReadScan
  BY <1>4, StartScanOrders, ReadScanOrders
<1>5. CASE PublishScan
  <2>1. disk' = disk /\ scan'.step # "versioned"
    BY <1>5 DEF PublishScan, Idle
  <2> QED BY <1>1, <1>5, <2>1, PublishShots, OrderKeeps
<1>6. CASE \E s \in wire : Enqueue(s)
  <2>1. disk' = disk /\ scan' = scan /\ Shots' \subseteq Shots
    BY <1>1, <1>6, EnqueueShots DEF Enqueue, agent
  <2> QED BY <1>1, <2>1, OrderKeeps
<1>7. CASE Handle
  <2>1. disk' = disk /\ scan' = scan /\ Shots' \subseteq Shots
    BY <1>1, <1>7, HandleShots DEF Handle, agent
  <2> QED BY <1>1, <2>1, OrderKeeps
<1>8. CASE AgentRestart
  <2>1. disk' = disk /\ scan'.step # "versioned" /\ Shots' \subseteq Shots
    BY <1>8, InShots, InShotsNext DEF AgentRestart, Idle
  <2> QED BY <1>1, <2>1, OrderKeeps
<1>9. CASE UNCHANGED pipelineVars
  BY <1>9 DEF pipelineVars, agent, VersionsAreOrder, Shots, Coming
<1> QED BY <1>2, <1>3, <1>4, <1>5, <1>6, <1>7, <1>8, <1>9 DEF PipelineNext

LEMMA StepMirrors ==
  ASSUME Mutations = {}, PipelineInv, VersionsAreOrder, [PipelineNext]_pipelineVars
  PROVE  [Page!Next]_(Page!vars)
<1> DEFINE K == {"repository"}
           source == [k \in K |-> disk]
           copy == [k \in K |-> shown.content]
<1>1. CASE Edit
  <2>1. disk' = disk + 1 /\ shown' = shown
    BY <1>1 DEF Edit, Change
  <2>2. Page!Change("repository")
    BY <2>1 DEF Page!Change
  <2> QED BY <2>2 DEF Page!Next
<1>2. CASE Handle
  <2>1. PICK h : h = Head(queue)
    OBVIOUS
  <2>2. /\ disk' = disk
        /\ shown' = shown \/ (~ (h.version <= shown.version) /\ shown' = h)
    BY <1>2, <2>1 DEF Handle
  <2>3. CASE shown' = shown
    BY <2>2, <2>3 DEF Page!vars
  <2>4. CASE ~ (h.version <= shown.version) /\ shown' = h
    <3>1. PipelineTypeOK /\ h \in Shots /\ shown \in Shots
      BY <1>2, <2>1, QueueShrinks, InShots DEF PipelineInv
    <3>2. /\ h.version \in Nat /\ shown.version \in Nat /\ disk \in Nat
          /\ h.content \in Nat /\ shown.content \in Nat
      BY <3>1, ShotsType, PipelineNumbers DEF PipelineTypeOK
    <3>3. h.content \in shown.content .. disk
      BY <2>4, <3>1, <3>2 DEF VersionsAreOrder
    <3>4. copy' = [copy EXCEPT !["repository"] = h.content] /\ source' = source
      BY <2>2, <2>4
    <3>5. Page!Copy("repository")
      BY <3>3, <3>4 DEF Page!Copy
    <3> QED BY <3>5 DEF Page!Next
  <2> QED BY <2>2, <2>3, <2>4
<1>3. CASE UNCHANGED <<disk, shown>>
  BY <1>3 DEF Page!vars
<1>4. Edit \/ Handle \/ UNCHANGED <<disk, shown>>
  BY DEF PipelineNext, pipelineVars, Tick, StartScan, ReadScan, PublishScan, Lose, Enqueue,
         AppRestart, AgentRestart
<1> QED BY <1>1, <1>2, <1>3, <1>4

(* As long as nobody stages, unstages or commits, what the page shows never goes
   back: scans take their versions one after the other and read after they have
   taken them, so that HandleAsync rejects exactly what is older.  Whatever gets
   lost, overtakes or restarts.  The stale write of a race (NoStaleWrite) takes a
   mutation, which reads long after it has taken its version. *)
THEOREM ScansNeverGoBack == ASSUME Mutations = {} PROVE PipelineSpec => PageMirrorsTree
<1>1. PipelineInit => VersionsAreOrder /\ Page!Init
  <2> SUFFICES ASSUME PipelineInit PROVE VersionsAreOrder /\ Page!Init
    OBVIOUS
  <2>1. Shots = {[version |-> 0, content |-> 0]} /\ disk = 0 /\ scan.step = "idle"
    BY InShots DEF PipelineInit, Idle
  <2>2. VersionsAreOrder
    BY <2>1 DEF VersionsAreOrder
  <2> QED BY <2>2 DEF PipelineInit, Page!Init
<1>2. PipelineInv /\ VersionsAreOrder /\ [PipelineNext]_pipelineVars => VersionsAreOrder'
  BY PipelineOrders
<1>3. PipelineInv /\ VersionsAreOrder /\ [PipelineNext]_pipelineVars => [Page!Next]_(Page!vars)
  BY StepMirrors
<1> QED BY <1>1, <1>2, <1>3, PipelineInvariant, PTL DEF PipelineSpec, PageMirrorsTree, Page!Spec

-----------------------------------------------------------------------------
(* DiffViewer. *)

Has(s, c)       == \E i \in DOMAIN s : s[i] = c
Before(s, b, c) == \E i, j \in DOMAIN s : i < j /\ s[i] = b /\ s[j] = c

(* The calls the browser has not carried out, those that await Monaco first. *)
Pends(c) == Has(awaiting, c) \/ Has(calls, c)
PendsBefore(b, c) ==
  Before(awaiting, b, c) \/ Before(calls, b, c) \/ (Has(awaiting, b) /\ Has(calls, c))

InitCall(v)    == [fn |-> "init", on |-> v]
DisposeCall(v) == [fn |-> "dispose", on |-> v]

(* The server: loads, their waits, and the viewer on the page. *)
WaitsForSome == \A l \in {Sweep} \cup Loads :
  Waits(l) => target[l] \in Viewers /\ phase[target[l]] # "none"
SweepSteps   == step[Sweep] \in {"none", "waitClear", "done"}
LoadsStarted == \A l \in Loads : step[l] = "none" <=> l > requestVersion
ViewerThere  ==
  /\ selected \in {None, requestVersion}
  /\ viewer # None => viewer \notin disposed /\ phase[viewer] # "none"
  /\ \A v \in disposed : phase[v] # "none"

ServerInv == WaitsForSome /\ SweepSteps /\ LoadsStarted /\ ViewerThere

(* The calls: init comes once, before everything that is sent to a viewer that
   is ready, and dispose comes last. *)
AwaitingKinds == \A c \in Call : Has(awaiting, c) => c.fn \in {"init", "setDiff"}
InitOnce == \A v \in Viewers :
  (Pends(InitCall(v)) => phase[v] = "init") /\ ~PendsBefore(InitCall(v), InitCall(v))
NothingBeforeReady == \A v \in Viewers :
  phase[v] # "ready" => shows[v] = None /\ \A m \in Loads : ~Pends(SetDiff(v, m))
EditorThere == \A v \in Viewers \ disposed : phase[v] \in {"replied", "ready"} => v \in editors
DisposedOnly == \A v \in Viewers : Pends(DisposeCall(v)) => v \in disposed
SentOnly == \A v \in Viewers, m \in Loads : Pends(SetDiff(v, m)) => step[m] \in {"set", "done"}

CallsInv ==
  /\ AwaitingKinds /\ InitOnce /\ NothingBeforeReady
  /\ EditorThere /\ DisposedOnly /\ SentOnly

(* Load m waits for viewer v to show its diff. *)
WaitsToSet(m, v) == step[m] = "waitSet" /\ target[m] = v

(* Nothing has been sent to viewer v, or will be as long as no load begins: it has come
   to the page with the end of a reload. *)
Untouched(v) ==
  shows[v] = None /\ \A m \in Loads : ~WaitsToSet(m, v) /\ ~Pends(SetDiff(v, m))

(* The newest load and the others, when polls are timely: as long as a file is selected,
   it is that of the newest load. *)
Watched == selected # None /\ viewer # None
ClearsShown ==
  Watched /\ step[requestVersion] = "waitClear"
    => target[requestVersion] = viewer \/ Untouched(viewer)
EarlierIsReady ==
  Watched /\ step[requestVersion] = "fetch" =>
    \A m \in Loads \ {requestVersion} : WaitsToSet(m, viewer) => phase[viewer] = "ready"
TextIsTaken ==
  selected # None /\ diff = "text" => step[requestVersion] \in {"waitSet", "set", "done"}
TextIsSet ==
  Watched /\ diff = "text" /\ step[requestVersion] = "waitSet"
    => target[requestVersion] = viewer \/ Untouched(viewer)
EarlierIsOver ==
  Watched /\ diff = "text" => \A m \in Loads \ {requestVersion} : ~WaitsToSet(m, viewer)
NewestIsLast ==
  Watched /\ diff = "text" =>
    \A m \in Loads \ {requestVersion} :
      ~PendsBefore(SetDiff(viewer, requestVersion), SetDiff(viewer, m))
NewestIsShown ==
  Watched /\ diff = "text" /\ step[requestVersion] \in {"set", "done"} =>
    \/ Pends(SetDiff(viewer, requestVersion))
    \/ /\ shows[viewer] \in {None, requestVersion}
       /\ \A m \in Loads \ {requestVersion} : ~Pends(SetDiff(viewer, m))

NewestInv ==
  /\ ClearsShown /\ EarlierIsReady /\ TextIsTaken /\ TextIsSet
  /\ EarlierIsOver /\ NewestIsLast /\ NewestIsShown

ViewerInv == ViewerTypeOK /\ ServerInv /\ CallsInv /\ (TimelyPolls => NewestInv)

-----------------------------------------------------------------------------
(* Sequences of calls. *)

LEMMA AppendHas ==
  ASSUME NEW S, NEW s \in Seq(S), NEW e \in S
  PROVE  /\ Append(s, e) \in Seq(S)
         /\ \A x : Has(Append(s, e), x) <=> Has(s, x) \/ x = e
         /\ \A x, y : Before(Append(s, e), x, y) => Before(s, x, y) \/ (Has(s, x) /\ y = e)
<1>1. /\ Append(s, e) \in Seq(S) /\ Len(s) \in Nat
      /\ DOMAIN s = 1 .. Len(s) /\ DOMAIN Append(s, e) = 1 .. Len(s) + 1
      /\ \A i \in 1 .. Len(s) : Append(s, e)[i] = s[i]
      /\ Append(s, e)[Len(s) + 1] = e
  BY AppendProperties, LenProperties
<1>2. PICK t : t = Append(s, e)
  OBVIOUS
<1>3. ASSUME NEW x, NEW y, NEW i \in DOMAIN t, NEW j \in DOMAIN t, i < j, t[i] = x, t[j] = y
      PROVE  Before(s, x, y) \/ (Has(s, x) /\ y = e)
  <2>1. i \in 1 .. Len(s) /\ (j \in 1 .. Len(s) \/ j = Len(s) + 1)
    BY <1>1, <1>2, <1>3
  <2> QED BY <1>1, <1>2, <1>3, <2>1 DEF Before, Has
<1>4. \A x, y : Before(t, x, y) => Before(s, x, y) \/ (Has(s, x) /\ y = e)
  BY <1>3 DEF Before
<1>5. \A i \in DOMAIN t : i \in 1 .. Len(s) \/ i = Len(s) + 1
  BY <1>1, <1>2
<1>6. \A x : Has(t, x) => Has(s, x) \/ x = e
  BY <1>1, <1>2, <1>5 DEF Has
<1>7. \A x : Has(s, x) \/ x = e => Has(t, x)
  <2>1. Len(s) + 1 \in DOMAIN t /\ t[Len(s) + 1] = e
    BY <1>1, <1>2
  <2>2. \A i \in DOMAIN s : i \in DOMAIN t /\ t[i] = s[i]
    BY <1>1, <1>2
  <2> QED BY <2>1, <2>2 DEF Has
<1> QED BY <1>1, <1>2, <1>4, <1>6, <1>7

LEMMA TailHas ==
  ASSUME NEW S, NEW s \in Seq(S), s # <<>>
  PROVE  /\ Head(s) \in S /\ Tail(s) \in Seq(S) /\ Has(s, Head(s))
         /\ \A x : Has(Tail(s), x) => Has(s, x) /\ Before(s, Head(s), x)
         /\ \A x : Has(s, x) => x = Head(s) \/ Has(Tail(s), x)
         /\ \A x, y : Before(Tail(s), x, y) => Before(s, x, y)
<1>1. /\ Head(s) \in S /\ Head(s) = s[1] /\ Tail(s) \in Seq(S)
      /\ Len(s) \in Nat /\ Len(s) >= 1
      /\ DOMAIN s = 1 .. Len(s) /\ DOMAIN Tail(s) = 1 .. Len(s) - 1
      /\ \A i \in 1 .. Len(s) - 1 : Tail(s)[i] = s[i + 1]
  BY HeadTailProperties, LenProperties, EmptySeq
<1>2. PICK t : t = Tail(s)
  OBVIOUS
<1>3. 1 \in DOMAIN s /\ \A i \in DOMAIN t : i + 1 \in DOMAIN s /\ 1 < i + 1 /\ t[i] = s[i + 1]
  BY <1>1, <1>2
<1>4. \A i \in DOMAIN s : i = 1 \/ (i - 1 \in DOMAIN t /\ t[i - 1] = s[i])
  BY <1>1, <1>2
<1>5. \A x : Has(t, x) => Has(s, x) /\ Before(s, s[1], x)
  BY <1>3 DEF Has, Before
<1>6. \A x : Has(s, x) => x = s[1] \/ Has(t, x)
  BY <1>4 DEF Has
<1>7. \A x, y : Before(t, x, y) => Before(s, x, y)
  <2> SUFFICES ASSUME NEW i \in DOMAIN t, NEW j \in DOMAIN t, i < j
               PROVE  Before(s, t[i], t[j])
    BY DEF Before
  <2>1. i + 1 < j + 1
    BY <1>1, <1>2
  <2> QED BY <1>3, <2>1 DEF Before
<1>8. Has(s, s[1])
  BY <1>3 DEF Has
<1> QED BY <1>1, <1>2, <1>5, <1>6, <1>7, <1>8

LEMMA EmptyHas == \A x, y : ~Has(<<>>, x) /\ ~Before(<<>>, x, y)
BY EmptySeq DEF Has, Before

(* The kinds of calls. *)
LEMMA CallKinds ==
  /\ \A v \in Viewers : {InitCall(v), Clear(v), DisposeCall(v)} \subseteq Call
  /\ \A v \in Viewers, l \in Loads : SetDiff(v, l) \in Call
  /\ \A c \in Call : c.on \in Viewers
  /\ \A c \in Call : c.fn = "init" => c = InitCall(c.on)
  /\ \A c \in Call : c.fn = "dispose" => c = DisposeCall(c.on)
  /\ \A c \in Call : c.fn = "setDiff" => c.of \in Loads /\ c = SetDiff(c.on, c.of)
  /\ \A c \in Call : c.fn \in {"init", "clear", "dispose", "setDiff"}
BY DEF Call, InitCall, Clear, DisposeCall, SetDiff

LEMMA CallsDiffer ==
  /\ \A v, w : InitCall(v) = InitCall(w) => v = w
  /\ \A v, w : DisposeCall(v) = DisposeCall(w) => v = w
  /\ \A v, w, l, m : SetDiff(v, l) = SetDiff(w, m) => v = w /\ l = m
  /\ \A v, w : InitCall(v) # Clear(w) /\ InitCall(v) # DisposeCall(w) /\ DisposeCall(v) # Clear(w)
  /\ \A v, w, l : SetDiff(v, l) # InitCall(w) /\ SetDiff(v, l) # Clear(w)
                  /\ SetDiff(v, l) # DisposeCall(w)
  /\ \A v : InitCall(v).fn = "init" /\ InitCall(v).on = v
  /\ \A v : DisposeCall(v).fn = "dispose" /\ DisposeCall(v).on = v
  /\ \A v : Clear(v).fn = "clear" /\ Clear(v).on = v
  /\ \A v, l : SetDiff(v, l).fn = "setDiff" /\ SetDiff(v, l).on = v /\ SetDiff(v, l).of = l
<1>1. /\ \A v : InitCall(v).fn = "init" /\ InitCall(v).on = v
      /\ \A v : DisposeCall(v).fn = "dispose" /\ DisposeCall(v).on = v
      /\ \A v : Clear(v).fn = "clear" /\ Clear(v).on = v
      /\ \A v, l : SetDiff(v, l).fn = "setDiff" /\ SetDiff(v, l).on = v /\ SetDiff(v, l).of = l
  BY DEF InitCall, Clear, DisposeCall, SetDiff
<1>2. \A v, w, l, m : SetDiff(v, l) = SetDiff(w, m) => v = w /\ l = m
  BY <1>1
<1>3. /\ \A v, w : InitCall(v) = InitCall(w) => v = w
      /\ \A v, w : DisposeCall(v) = DisposeCall(w) => v = w
  BY <1>1
<1>4. /\ \A v, w : InitCall(v) # Clear(w) /\ InitCall(v) # DisposeCall(w)
                   /\ DisposeCall(v) # Clear(w)
      /\ \A v, w, l : SetDiff(v, l) # InitCall(w) /\ SetDiff(v, l) # Clear(w)
                      /\ SetDiff(v, l) # DisposeCall(w)
  BY <1>1
<1> QED BY <1>1, <1>2, <1>3, <1>4

LEMMA ViewerNumbers ==
  /\ None = 0 /\ Sweep = 0 /\ Loads \subseteq Nat /\ None \notin Loads /\ None \notin Viewers
  /\ \A l \in {Sweep} \cup Loads : l \in Nat
BY DiffViewerAssumption DEF None, Sweep, Loads, Viewers

LEMMA ViewerInvInit == ViewerInit => ViewerInv
<1> SUFFICES ASSUME ViewerInit PROVE ViewerInv
  OBVIOUS
<1> USE DEF ViewerInit
<1>1. ViewerTypeOK
  <2>1. calls \in Seq(Call) /\ awaiting \in Seq(Call)
    BY EmptySeq
  <2>2. ~loading /\ requestVersion = None
    OBVIOUS
  <2>3. /\ step \in [{Sweep} \cup Loads -> Steps]
        /\ target \in [{Sweep} \cup Loads -> {None} \cup Viewers]
        /\ phase \in [Viewers -> Phase] /\ diff \in Diff
        /\ shows \in [Viewers -> {None} \cup Loads]
    BY DEF Steps, Phase, Diff
  <2> QED BY <2>1, <2>2, <2>3 DEF ViewerTypeOK
<1>2. ServerInv
  BY ViewerNumbers DEF ServerInv, WaitsForSome, Waits, SweepSteps, LoadsStarted, ViewerThere
<1>3. \A x, y : ~Has(awaiting, x) /\ ~Pends(x) /\ ~PendsBefore(x, y)
  BY EmptyHas DEF Pends, PendsBefore
<1>4. CallsInv
  BY <1>3 DEF CallsInv, AwaitingKinds, InitOnce, NothingBeforeReady, EditorThere, DisposedOnly,
       SentOnly
<1>5. NewestInv
  BY DEF NewestInv, Watched, ClearsShown, EarlierIsReady, EarlierIsOver, TextIsTaken, TextIsSet,
     NewestIsLast, NewestIsShown
<1> QED BY <1>1, <1>2, <1>4, <1>5 DEF ViewerInv

LEMMA SendHas ==
  ASSUME calls \in Seq(Call), NEW c \in Call, Send(c), UNCHANGED awaiting
  PROVE  /\ calls' \in Seq(Call)
         /\ \A x : Pends(x)' <=> Pends(x) \/ x = c
         /\ \A x, y : PendsBefore(x, y)' => PendsBefore(x, y) \/ (Pends(x) /\ y = c)
<1>1. /\ calls' \in Seq(Call)
      /\ \A x : Has(calls', x) <=> Has(calls, x) \/ x = c
      /\ \A x, y : Before(calls', x, y) => Before(calls, x, y) \/ (Has(calls, x) /\ y = c)
  BY AppendHas DEF Send
<1> QED BY <1>1 DEF Pends, PendsBefore

LEMMA NothingSent ==
  ASSUME UNCHANGED <<awaiting, calls>>
  PROVE  /\ \A x : Pends(x)' <=> Pends(x)
         /\ \A x, y : PendsBefore(x, y)' <=> PendsBefore(x, y)
BY DEF Pends, PendsBefore

(* What the server does to the calls, init apart: it sends c or nothing, which is
   as if it sent clear to no viewer. *)
LEMMA CallsKept ==
  ASSUME ViewerTypeOK, CallsInv,
         UNCHANGED <<awaiting, editors, shows>>,
         disposed \subseteq disposed',
         \A m \in Loads : step[m] \in {"set", "done"} => step'[m] \in {"set", "done"},
         \A v \in Viewers :
           \/ phase'[v] = phase[v]
           \/ phase[v] \in {"none", "import"} /\ phase'[v] \in {"import", "failed"}
           \/ phase[v] = "replied" /\ phase'[v] = "ready",
         NEW c,
         \A x : Pends(x)' => Pends(x) \/ x = c,
         \A x, y : PendsBefore(x, y)' => PendsBefore(x, y) \/ (Pends(x) /\ y = c),
         \/ \E v : c = Clear(v)
         \/ \E v \in disposed' : c = DisposeCall(v)
         \/ \E v \in Viewers, m \in Loads :
              c = SetDiff(v, m) /\ phase[v] = "ready" /\ step'[m] \in {"set", "done"}
  PROVE  CallsInv'
<1>1. /\ \A v \in Viewers : c # InitCall(v)
      /\ \A v \in Viewers : c = DisposeCall(v) => v \in disposed'
      /\ \A v \in Viewers, m \in Loads : c = SetDiff(v, m) =>
           phase[v] = "ready" /\ step'[m] \in {"set", "done"}
  BY CallsDiffer
<1>3. AwaitingKinds'
  BY DEF CallsInv, AwaitingKinds
<1>4. InitOnce'
  BY <1>1 DEF CallsInv, InitOnce
<1>5. NothingBeforeReady'
  BY <1>1 DEF CallsInv, NothingBeforeReady
<1>6. EditorThere'
  BY DEF CallsInv, EditorThere
<1>7. DisposedOnly'
  BY <1>1 DEF CallsInv, DisposedOnly
<1>8. SentOnly'
  BY <1>1 DEF CallsInv, SentOnly
<1> QED BY <1>3, <1>4, <1>5, <1>6, <1>7, <1>8 DEF CallsInv

(* A step that is not the newest load's, nor one that sets or shows a diff. *)
LEMMA NewestKept ==
  ASSUME ViewerTypeOK, ServerInv, NewestInv,
         UNCHANGED requestVersion,
         selected' \in {selected, None}, viewer' \in {viewer, None},
         selected' # None => diff' = diff,
         selected' # None /\ requestVersion # None =>
           /\ step'[requestVersion] = step[requestVersion]
           /\ target'[requestVersion] = target[requestVersion],
         \A m \in Loads, v \in Viewers : WaitsToSet(m, v)' => WaitsToSet(m, v),
         \A v \in Viewers : phase[v] = "ready" => phase'[v] = "ready",
         \A v \in Viewers : shows'[v] \in {shows[v], None},
         \A v \in Viewers, m \in Loads : Pends(SetDiff(v, m))' => Pends(SetDiff(v, m)),
         selected' # None /\ viewer' # None /\ Pends(SetDiff(viewer, requestVersion))
           => Pends(SetDiff(viewer, requestVersion))',
         \A v \in Viewers, l, m \in Loads :
           PendsBefore(SetDiff(v, l), SetDiff(v, m))' => PendsBefore(SetDiff(v, l), SetDiff(v, m))
  PROVE  NewestInv'
<1>1. selected' # None =>
        selected' = selected /\ requestVersion \in Loads /\ requestVersion # None
  BY DEF ServerInv, ViewerThere, ViewerTypeOK
<1>2. Watched' => Watched /\ viewer' = viewer /\ viewer \in Viewers
  BY <1>1 DEF Watched, ViewerTypeOK
<1>3. Watched' /\ Untouched(viewer) => Untouched(viewer)'
  BY <1>2 DEF Untouched
<1>4. ClearsShown' /\ TextIsTaken' /\ TextIsSet'
  BY <1>1, <1>2, <1>3 DEF NewestInv, ClearsShown, TextIsTaken, TextIsSet, Watched
<1>5. EarlierIsReady'
  BY <1>1, <1>2 DEF NewestInv, EarlierIsReady, Watched
<1>6. EarlierIsOver'
  BY <1>1, <1>2 DEF NewestInv, EarlierIsOver, Watched
<1>7. NewestIsLast'
  BY <1>1, <1>2 DEF NewestInv, NewestIsLast, Watched
<1>8. NewestIsShown'
  BY <1>1, <1>2, ViewerNumbers DEF NewestInv, NewestIsShown, Watched
<1> QED BY <1>4, <1>5, <1>6, <1>7, <1>8 DEF NewestInv

(* The three ways of EnsureReadyAsync. *)
LEMMA CallWays ==
  ASSUME NEW l, NEW v, NEW call, NEW wait, NEW after, CallWhenReady(l, v, call, wait, after)
  PROVE  \/ v \in disposed \cup {None} /\ StepTo(l, after) /\ UNCHANGED <<calls, target>>
         \/ /\ v \notin disposed \cup {None} /\ phase[v] = "ready"
            /\ StepTo(l, after) /\ Send(call) /\ UNCHANGED target
         \/ /\ v \notin disposed \cup {None} /\ phase[v] # "ready"
            /\ StepTo(l, wait) /\ target' = [target EXCEPT ![l] = v] /\ UNCHANGED calls
BY DEF CallWhenReady

(* A call that may have been sent: clear. *)
LEMMA ClearSent ==
  ASSUME ViewerTypeOK, NEW v, (v \in Viewers /\ Send(Clear(v))) \/ UNCHANGED calls,
         UNCHANGED awaiting
  PROVE  /\ calls' \in Seq(Call)
         /\ \A x : Pends(x)' => Pends(x) \/ x = Clear(v)
         /\ \A x, y : PendsBefore(x, y)' => PendsBefore(x, y) \/ (Pends(x) /\ y = Clear(v))
         /\ \A x : Pends(x) => Pends(x)'
<1>1. calls \in Seq(Call) /\ \A w \in Viewers : Clear(w) \in Call
  BY CallKinds DEF ViewerTypeOK
<1> QED BY <1>1, SendHas, NothingSent

(* A load begins: it clears viewer w, that of the page or the one to be rendered. *)
LEMMA BeginKeeps ==
  ASSUME ViewerInv, NEW l \in Loads, BeginLoad(l), NEW v \in Viewers, Render(v),
         NEW w, w \in {viewer, v}, CallWhenReady(l, w, Clear(w), "waitClear", "fetch"),
         restoring' \in {None} \cup Loads, UNCHANGED <<disposed, browser>>
  PROVE  ViewerInv'
<1> USE DEF ViewerInv, browser
<1>1. /\ requestVersion \in Nat /\ l = requestVersion + 1 /\ l # None
      /\ requestVersion' = l /\ selected' = l /\ diff' = "none" /\ loading' = TRUE
      /\ error' = None /\ UNCHANGED failed
      /\ requestVersion \in {None} \cup Loads
  BY ViewerNumbers DEF BeginLoad, ViewerTypeOK
<1>2. /\ viewer' = v /\ (viewer # None => v = viewer)
      /\ viewer # None => UNCHANGED phase
      /\ viewer = None => phase[v] = "none" /\ phase' = [phase EXCEPT ![v] = "import"]
  BY DEF Render
<1>3. viewer \in {None} \cup Viewers /\ phase \in [Viewers -> Phase]
      /\ step \in [{Sweep} \cup Loads -> Steps]
      /\ target \in [{Sweep} \cup Loads -> {None} \cup Viewers]
  BY DEF ViewerTypeOK
<1>4. /\ viewer # None => viewer \notin disposed /\ phase[viewer] # "none"
      /\ \A u \in disposed : phase[u] # "none"
  BY DEF ServerInv, ViewerThere
<1>5. \/ /\ step' = [step EXCEPT ![l] = "fetch"] /\ UNCHANGED <<calls, target>>
         /\ viewer = None
      \/ /\ step' = [step EXCEPT ![l] = "fetch"] /\ UNCHANGED target
         /\ w \in Viewers /\ Send(Clear(w)) /\ viewer = v /\ phase[v] = "ready"
      \/ /\ step' = [step EXCEPT ![l] = "waitClear"] /\ UNCHANGED calls
         /\ w = v /\ target' = [target EXCEPT ![l] = v]
  <2>1. CASE w \in disposed \cup {None} /\ StepTo(l, "fetch") /\ UNCHANGED <<calls, target>>
    BY <1>2, <1>3, <1>4, <2>1, ViewerNumbers DEF StepTo
  <2>2. CASE /\ w \notin disposed \cup {None} /\ phase[w] = "ready"
             /\ StepTo(l, "fetch") /\ Send(Clear(w)) /\ UNCHANGED target
    BY <1>2, <1>3, <1>4, <2>2 DEF StepTo
  <2>3. CASE /\ w \notin disposed \cup {None} /\ phase[w] # "ready"
             /\ StepTo(l, "waitClear") /\ target' = [target EXCEPT ![l] = w] /\ UNCHANGED calls
    BY <1>2, <1>3, <2>3 DEF StepTo
  <2> QED BY <2>1, <2>2, <2>3, CallWays
<1>6. /\ calls' \in Seq(Call)
      /\ \A x : Pends(x)' => Pends(x) \/ x = Clear(w)
      /\ \A x, y : PendsBefore(x, y)' => PendsBefore(x, y) \/ (Pends(x) /\ y = Clear(w))
  BY <1>5, ClearSent
<1>7. /\ step'[l] \in {"waitClear", "fetch"} /\ step' \in [{Sweep} \cup Loads -> Steps]
      /\ \A k \in ({Sweep} \cup Loads) \ {l} : step'[k] = step[k] /\ target'[k] = target[k]
      /\ target' \in [{Sweep} \cup Loads -> {None} \cup Viewers]
  BY <1>3, <1>5 DEF Steps
<1>8. phase' \in [Viewers -> Phase] /\ phase'[v] # "none"
      /\ \A u \in Viewers : phase[u] # "none" => phase'[u] = phase[u]
  BY <1>2, <1>3, <1>4 DEF Phase
<1>9. ViewerTypeOK'
  <2>1. /\ requestVersion' \in {None} \cup Loads /\ selected' \in {None} \cup Loads
        /\ diff' \in Diff /\ loading' \in BOOLEAN /\ viewer' \in {None} \cup Viewers
        /\ (loading' <=>
              requestVersion' # None /\ step'[requestVersion'] \in {"waitClear", "fetch"})
    BY <1>1, <1>2, <1>7 DEF Diff
  <2> QED BY <1>1, <1>6, <1>7, <1>8, <2>1 DEF ViewerTypeOK
<1>10. ServerInv'
  <2>1. WaitsForSome'
    <3> SUFFICES ASSUME NEW k \in {Sweep} \cup Loads, step'[k] \in {"waitClear", "waitSet"}
                 PROVE  target'[k] \in Viewers /\ phase'[target'[k]] # "none"
      BY DEF WaitsForSome, Waits
    <3>1. CASE k # l
      BY <1>7, <1>8, <3>1 DEF ServerInv, WaitsForSome, Waits
    <3>2. CASE k = l
      BY <1>3, <1>5, <1>8, <3>2
    <3> QED BY <3>1, <3>2
  <2>2. SweepSteps'
    BY <1>7, ViewerNumbers DEF ServerInv, SweepSteps
  <2>3. LoadsStarted'
    BY <1>1, <1>7, ViewerNumbers DEF ServerInv, LoadsStarted
  <2>4. ViewerThere'
    BY <1>1, <1>2, <1>4, <1>8, ViewerNumbers DEF ViewerThere, ViewerTypeOK
  <2> QED BY <2>1, <2>2, <2>3, <2>4 DEF ServerInv
<1>11. step[l] = "none"
  BY <1>1, ViewerNumbers DEF ServerInv, LoadsStarted
<1>12. CallsInv'
  <2>1. \A u \in Viewers :
          \/ phase'[u] = phase[u]
          \/ phase[u] \in {"none", "import"} /\ phase'[u] \in {"import", "failed"}
    BY <1>2, <1>3
  <2>2. \A m \in Loads : step[m] \in {"set", "done"} => step'[m] \in {"set", "done"}
    BY <1>1, <1>7, <1>11
  <2> QED BY <1>6, <2>1, <2>2, CallsKept
<1>13. ASSUME NewestInv PROVE NewestInv'
  <2>1. ClearsShown'
    BY <1>1, <1>2, <1>3, <1>5 DEF ClearsShown
  <2>2. EarlierIsReady'
    <3> SUFFICES ASSUME step'[l] = "fetch", NEW m \in Loads \ {l},
                        step'[m] = "waitSet", target'[m] = v
                 PROVE  phase'[v] = "ready"
      BY <1>1, <1>2 DEF EarlierIsReady, WaitsToSet
    <3>1. phase[v] # "none"
      BY <1>7 DEF ServerInv, WaitsForSome, Waits
    <3> QED BY <1>2, <1>3, <1>5, <3>1
  <2>3. TextIsTaken' /\ TextIsSet' /\ EarlierIsOver' /\ NewestIsLast' /\ NewestIsShown'
    BY <1>1 DEF TextIsTaken, TextIsSet, EarlierIsOver, NewestIsLast, NewestIsShown
  <2> QED BY <2>1, <2>2, <2>3 DEF NewestInv
<1> QED BY <1>9, <1>10, <1>12, <1>13

LEMMA SelectKeeps == ASSUME ViewerInv, NEW l \in Loads, SelectFile(l) PROVE ViewerInv'
<1>1. PICK v \in Viewers : Render(v)
  BY DEF SelectFile
<1>2. /\ BeginLoad(l) /\ CallWhenReady(l, viewer, Clear(viewer), "waitClear", "fetch")
      /\ restoring' \in {None} \cup Loads /\ UNCHANGED <<disposed, browser>>
  BY DEF SelectFile, ViewerInv, ViewerTypeOK
<1> QED BY <1>1, <1>2, BeginKeeps

LEMMA RestoreKeeps == ASSUME ViewerInv, NEW l \in Loads, RestoreSelection(l) PROVE ViewerInv'
<1>1. PICK v \in Viewers :
        Render(v) /\ CallWhenReady(l, v, Clear(v), "waitClear", "fetch")
  BY DEF RestoreSelection
<1>2. /\ BeginLoad(l) /\ restoring' \in {None} \cup Loads /\ UNCHANGED <<disposed, browser>>
  BY DEF RestoreSelection
<1> QED BY <1>1, <1>2, BeginKeeps

(* The wait of load l is over; what may be sent for it is c. *)
LEMMA WaitEnds ==
  ASSUME ViewerInv, NEW l \in {Sweep} \cup Loads, Waits(l), NEW s \in {"fetch", "set", "done"},
         Proceed(l, s), UNCHANGED awaiting,
         s = "fetch" => l \in Loads /\ step[l] = "waitClear",
         s = "set" => l \in Loads /\ step[l] = "waitSet",
         s = "done" => l = Sweep \/ step[l] = "waitSet",
         calls' \in Seq(Call)
  PROVE  /\ ViewerTypeOK' /\ ServerInv'
         /\ step'[l] = s /\ \A k \in ({Sweep} \cup Loads) \ {l} :
                              step'[k] = step[k] /\ target'[k] = target[k]
         /\ UNCHANGED <<selected, requestVersion, diff, viewer, phase, disposed, editors, shows>>
         /\ \A m \in Loads : \A v \in Viewers : WaitsToSet(m, v)' => WaitsToSet(m, v) /\ m # l
         /\ \A m \in Loads : step[m] \in {"set", "done"} => step'[m] \in {"set", "done"}
<1> USE DEF ViewerInv, Proceed, StepTo, browser
<1>1. /\ step \in [{Sweep} \cup Loads -> Steps]
      /\ target \in [{Sweep} \cup Loads -> {None} \cup Viewers]
  BY DEF ViewerTypeOK
<1>2. /\ step'[l] = s /\ step' \in [{Sweep} \cup Loads -> Steps]
      /\ target' \in [{Sweep} \cup Loads -> {None} \cup Viewers]
      /\ \A k \in ({Sweep} \cup Loads) \ {l} : step'[k] = step[k] /\ target'[k] = target[k]
  BY <1>1 DEF Steps
<1>3. ViewerTypeOK'
  <2>1. loading <=> requestVersion # None /\ step'[requestVersion] \in {"waitClear", "fetch"}
    <3>1. CASE requestVersion # l
      BY <1>2, <3>1 DEF ViewerTypeOK
    <3>2. CASE requestVersion = l
      BY <1>2, <3>2, ViewerNumbers DEF ViewerTypeOK
    <3> QED BY <3>1, <3>2
  <2> QED BY <1>2, <2>1 DEF ViewerTypeOK
<1>4. ServerInv'
  <2>1. WaitsForSome'
    BY <1>2 DEF ServerInv, WaitsForSome, Waits
  <2>2. SweepSteps'
    BY <1>2, ViewerNumbers DEF ServerInv, SweepSteps
  <2>3. LoadsStarted'
    BY <1>2 DEF ServerInv, LoadsStarted, Waits
  <2>4. ViewerThere'
    BY DEF ServerInv, ViewerThere
  <2> QED BY <2>1, <2>2, <2>3, <2>4 DEF ServerInv
<1>5. \A m \in Loads : \A v \in Viewers : WaitsToSet(m, v)' => WaitsToSet(m, v) /\ m # l
  BY <1>2 DEF WaitsToSet
<1>6. \A m \in Loads : step[m] \in {"set", "done"} => step'[m] \in {"set", "done"}
  BY <1>2 DEF Waits
<1> QED BY <1>2, <1>3, <1>4, <1>5, <1>6

LEMMA PollClearKeeps ==
  ASSUME ViewerInv, NEW l \in {Sweep} \cup Loads, Waits(l), phase[target[l]] = "ready",
         step[l] = "waitClear", Proceed(l, AfterClear(l)), Send(Clear(target[l]))
  PROVE  ViewerInv'
<1> USE DEF ViewerInv
<1>1. UNCHANGED awaiting /\ target[l] \in Viewers
  BY DEF Proceed, browser, ServerInv, WaitsForSome
<1>2. /\ calls' \in Seq(Call)
      /\ \A x : Pends(x)' => Pends(x) \/ x = Clear(target[l])
      /\ \A x, y : PendsBefore(x, y)' => PendsBefore(x, y) \/ (Pends(x) /\ y = Clear(target[l]))
      /\ \A x : Pends(x) => Pends(x)'
  BY <1>1, ClearSent
<1>3. /\ ViewerTypeOK' /\ ServerInv'
      /\ step'[l] = AfterClear(l)
      /\ \A k \in ({Sweep} \cup Loads) \ {l} : step'[k] = step[k] /\ target'[k] = target[k]
      /\ UNCHANGED <<selected, requestVersion, diff, viewer, phase, disposed, editors, shows>>
      /\ \A m \in Loads : \A v \in Viewers : WaitsToSet(m, v)' => WaitsToSet(m, v) /\ m # l
      /\ \A m \in Loads : step[m] \in {"set", "done"} => step'[m] \in {"set", "done"}
  BY <1>1, <1>2, WaitEnds DEF AfterClear
<1>4. CallsInv'
  <2>1. PICK c : c = Clear(target[l])
    OBVIOUS
  <2> QED BY <1>1, <1>2, <1>3, <2>1, CallsKept
<1>5. \A v \in Viewers, m \in Loads : Pends(SetDiff(v, m))' => Pends(SetDiff(v, m))
  BY <1>2, CallsDiffer
<1>6. \A v \in Viewers, k, m \in Loads :
        PendsBefore(SetDiff(v, k), SetDiff(v, m))' => PendsBefore(SetDiff(v, k), SetDiff(v, m))
  BY <1>2, CallsDiffer
<1>7. requestVersion \in {None} \cup Loads /\ viewer \in {None} \cup Viewers
  BY DEF ViewerTypeOK
<1>8. ASSUME NewestInv PROVE NewestInv'
  <2>1. CASE requestVersion # l \/ l = Sweep
    <3>1. requestVersion # None => requestVersion # l
      BY <2>1, ViewerNumbers
    <3> QED BY <1>2, <1>3, <1>5, <1>6, <1>7, <1>8, <3>1, NewestKept
  <2>2. CASE requestVersion = l /\ l # Sweep
    <3>1. step'[l] = "fetch" /\ l \in Loads
      BY <1>3, <2>2 DEF AfterClear
    <3>2. ~(selected # None /\ diff = "text")
      BY <1>8, <2>2 DEF NewestInv, TextIsTaken
    <3>3. /\ ClearsShown' /\ TextIsTaken' /\ TextIsSet' /\ EarlierIsOver' /\ NewestIsLast'
          /\ NewestIsShown'
      BY <1>3, <2>2, <3>1, <3>2 DEF ClearsShown, TextIsTaken, TextIsSet, EarlierIsOver,
         NewestIsLast, NewestIsShown, Watched
    <3>4. EarlierIsReady'
      <4>1. Watched => target[l] = viewer \/ \A m \in Loads : ~WaitsToSet(m, viewer)
        BY <1>8, <2>2, ViewerNumbers DEF NewestInv, ClearsShown, Untouched
      <4> QED BY <1>3, <1>7, <4>1 DEF EarlierIsReady, Watched
    <3> QED BY <3>3, <3>4 DEF NewestInv
  <2> QED BY <2>1, <2>2
<1> QED BY <1>3, <1>4, <1>8

LEMMA PollSetKeeps ==
  ASSUME ViewerInv, NEW l \in {Sweep} \cup Loads, Waits(l), phase[target[l]] = "ready",
         step[l] = "waitSet", Proceed(l, "set"), Send(SetDiff(target[l], l))
  PROVE  ViewerInv'
<1> USE DEF ViewerInv
<1>1. UNCHANGED awaiting /\ target[l] \in Viewers
  BY DEF Proceed, browser, ServerInv, WaitsForSome
<1>2. l \in Loads
  BY DEF ServerInv, SweepSteps
<1>3. PICK t : t = target[l]
  OBVIOUS
<1>4. /\ calls' \in Seq(Call)
      /\ \A x : Pends(x)' <=> Pends(x) \/ x = SetDiff(t, l)
      /\ \A x, y : PendsBefore(x, y)' => PendsBefore(x, y) \/ (Pends(x) /\ y = SetDiff(t, l))
  BY <1>1, <1>2, <1>3, SendHas, CallKinds DEF ViewerTypeOK
<1>5. /\ ViewerTypeOK' /\ ServerInv'
      /\ step'[l] = "set"
      /\ \A k \in ({Sweep} \cup Loads) \ {l} : step'[k] = step[k] /\ target'[k] = target[k]
      /\ UNCHANGED <<selected, requestVersion, diff, viewer, phase, disposed, editors, shows>>
      /\ \A m \in Loads : \A v \in Viewers : WaitsToSet(m, v)' => WaitsToSet(m, v) /\ m # l
      /\ \A m \in Loads : step[m] \in {"set", "done"} => step'[m] \in {"set", "done"}
  BY <1>1, <1>2, <1>4, WaitEnds
<1>6. /\ requestVersion \in Loads /\ requestVersion # None /\ viewer \in {None} \cup Viewers
  BY <1>2, ViewerNumbers DEF ServerInv, LoadsStarted, ViewerTypeOK
<1>7. CallsInv'
  <2>1. \E v \in Viewers, m \in Loads :
          SetDiff(t, l) = SetDiff(v, m) /\ phase[v] = "ready" /\ step'[m] \in {"set", "done"}
    BY <1>1, <1>2, <1>3, <1>5
  <2>2. disposed \subseteq disposed'
    BY <1>5
  <2>3. UNCHANGED <<awaiting, editors, shows>> /\ \A v \in Viewers : phase'[v] = phase[v]
    BY <1>1, <1>5
  <2>4. \A x : Pends(x)' => Pends(x) \/ x = SetDiff(t, l)
    BY <1>4
  <2> QED BY <1>4, <1>5, <2>1, <2>2, <2>3, <2>4, CallsKept
<1>8. ASSUME NewestInv PROVE NewestInv'
  <2> USE DEF NewestInv
  <2>1. WaitsToSet(l, t) /\ t \in Viewers
    BY <1>1, <1>3 DEF WaitsToSet
  <2>2. Watched' <=> Watched
    BY <1>5 DEF Watched
  (* The call goes to another viewer. *)
  <2>3. Untouched(viewer) => t # viewer /\ Untouched(viewer)'
    <3> SUFFICES ASSUME Untouched(viewer) PROVE t # viewer /\ Untouched(viewer)'
      OBVIOUS
    <3>1. t # viewer
      BY <1>2, <2>1 DEF Untouched
    <3>2. \A m \in Loads : SetDiff(viewer, m) # SetDiff(t, l)
      BY <3>1, CallsDiffer
    <3>3. \A m \in Loads : SetDiff(viewer', m) = SetDiff(viewer, m)
      BY <1>5
    <3>4. \A m \in Loads : ~Pends(SetDiff(viewer, m))'
      BY <1>4, <3>2, <3>3 DEF Untouched
    <3>5. \A m \in Loads : ~WaitsToSet(m, viewer)'
      BY <1>2, <1>5 DEF Untouched, WaitsToSet
    <3> QED BY <1>5, <3>1, <3>4, <3>5 DEF Untouched
  <2>4. ClearsShown' /\ TextIsTaken' /\ TextIsSet'
    BY <1>5, <1>6, <1>8, <2>2, <2>3 DEF ClearsShown, TextIsTaken, TextIsSet
  <2>5. EarlierIsReady'
    BY <1>5, <1>6, <1>8, <2>2 DEF EarlierIsReady, Watched
  <2>6. EarlierIsOver'
    BY <1>5, <1>6, <1>8, <2>2 DEF EarlierIsOver, Watched
  <2>7. Watched /\ diff = "text" /\ l # requestVersion => t # viewer
    BY <1>2, <1>8, <2>1 DEF EarlierIsOver
  <2>8. NewestIsLast'
    <3> SUFFICES ASSUME Watched, diff = "text", NEW m \in Loads \ {requestVersion}
                 PROVE  ~PendsBefore(SetDiff(viewer, requestVersion), SetDiff(viewer, m))'
      BY <1>5, <2>2 DEF NewestIsLast
    <3>1. SetDiff(viewer, m) # SetDiff(t, l)
      BY <2>7, CallsDiffer
    <3> QED BY <1>4, <1>5, <1>8, <3>1 DEF NewestIsLast
  <2>9. NewestIsShown'
    <3> SUFFICES ASSUME Watched, diff = "text", step'[requestVersion] \in {"set", "done"}
                 PROVE  \/ Pends(SetDiff(viewer, requestVersion))'
                        \/ /\ shows[viewer] \in {None, requestVersion}
                           /\ \A m \in Loads \ {requestVersion} : ~Pends(SetDiff(viewer, m))'
      BY <1>5, <2>2 DEF NewestIsShown
    <3>1. CASE l = requestVersion /\ t = viewer
      <4>1. SetDiff(viewer', requestVersion') = SetDiff(t, l)
        BY <1>5, <3>1
      <4> QED BY <1>4, <4>1
    <3>2. CASE l = requestVersion /\ t # viewer
      <4>1. Untouched(viewer)'
        BY <1>3, <1>8, <2>3, <3>2 DEF TextIsSet
      <4> QED BY <1>5, <4>1 DEF Untouched
    <3>3. CASE l # requestVersion
      <4>1. \A m \in Loads : SetDiff(viewer, m) # SetDiff(t, l)
        BY <2>7, <3>3, CallsDiffer
      <4> QED BY <1>4, <1>5, <1>6, <1>8, <3>3, <4>1 DEF NewestIsShown
    <3> QED BY <3>1, <3>2, <3>3
  <2> QED BY <2>4, <2>5, <2>6, <2>8, <2>9
<1> QED BY <1>5, <1>7, <1>8

LEMMA PollKeeps ==
  ASSUME ViewerInv, NEW l \in {Sweep} \cup Loads, PollReady(l) PROVE ViewerInv'
BY PollClearKeeps, PollSetKeeps DEF PollReady

LEMMA GiveUpKeeps ==
  ASSUME ViewerInv, NEW l \in {Sweep} \cup Loads, GiveUp(l) PROVE ViewerInv'
<1> USE DEF ViewerInv
<1>1. PICK s : s = IF step[l] = "waitClear" THEN AfterClear(l) ELSE "done"
  OBVIOUS
<1>2. /\ Waits(l) /\ phase[target[l]] # "ready" /\ Proceed(l, s) /\ UNCHANGED calls
      /\ TimelyPolls => \A m \in Loads : m < l => ~Waits(m)
  BY <1>1 DEF GiveUp, LeaveOut
<1>3. UNCHANGED awaiting /\ target[l] \in Viewers
  BY <1>2 DEF Proceed, browser, ServerInv, WaitsForSome
<1>4. /\ s \in {"fetch", "done"} /\ (s = "fetch" => l \in Loads /\ step[l] = "waitClear")
      /\ (s = "done" => l = Sweep \/ step[l] = "waitSet")
  BY <1>1, <1>2 DEF AfterClear, Waits
<1>5. /\ ViewerTypeOK' /\ ServerInv'
      /\ step'[l] = s
      /\ \A k \in ({Sweep} \cup Loads) \ {l} : step'[k] = step[k] /\ target'[k] = target[k]
      /\ UNCHANGED <<selected, requestVersion, diff, viewer, phase, disposed, editors, shows>>
      /\ \A m \in Loads : \A v \in Viewers : WaitsToSet(m, v)' => WaitsToSet(m, v) /\ m # l
      /\ \A m \in Loads : step[m] \in {"set", "done"} => step'[m] \in {"set", "done"}
  <2>1. calls' \in Seq(Call)
    BY <1>2 DEF ViewerTypeOK
  <2> QED BY <1>2, <1>3, <1>4, <2>1, WaitEnds
<1>6. /\ \A x : Pends(x)' <=> Pends(x)
      /\ \A x, y : PendsBefore(x, y)' <=> PendsBefore(x, y)
  BY <1>2, <1>3, NothingSent
<1>7. CallsInv'
  <2>1. \E v : Clear(target[l]) = Clear(v)
    OBVIOUS
  <2> QED BY <1>3, <1>5, <1>6, <2>1, CallsKept
<1>8. requestVersion \in {None} \cup Loads /\ viewer \in {None} \cup Viewers
  BY DEF ViewerTypeOK
<1>9. ASSUME TimelyPolls, NewestInv PROVE NewestInv'
  <2> USE DEF NewestInv
  <2>1. CASE requestVersion # l \/ l = Sweep
    <3>1. requestVersion # None => requestVersion # l
      BY <2>1, ViewerNumbers
    <3> QED BY <1>5, <1>6, <1>8, <1>9, <3>1, NewestKept
  <2>2. CASE requestVersion = l /\ s = "fetch"
    <3>1. ~(selected # None /\ diff = "text")
      BY <1>4, <1>9, <2>2 DEF TextIsTaken
    <3>2. /\ ClearsShown' /\ TextIsTaken' /\ TextIsSet' /\ EarlierIsOver' /\ NewestIsLast'
          /\ NewestIsShown'
      BY <1>5, <2>2, <3>1 DEF ClearsShown, TextIsTaken, TextIsSet, EarlierIsOver, NewestIsLast,
         NewestIsShown, Watched
    <3>3. \A m \in Loads : step[m] = "waitSet" => m = l
      BY <1>2, <1>9, <2>2, ViewerNumbers DEF ServerInv, LoadsStarted, Waits
    <3>4. EarlierIsReady'
      BY <1>5, <2>2, <3>3 DEF EarlierIsReady, WaitsToSet
    <3> QED BY <3>2, <3>4
  <2>3. CASE requestVersion = l /\ s = "done" /\ l # Sweep
    <3>1. step[l] = "waitSet" /\ (Watched' <=> Watched)
      BY <1>4, <1>5, <2>3 DEF Watched
    <3>2. ClearsShown' /\ EarlierIsReady' /\ TextIsTaken' /\ TextIsSet'
      BY <1>5, <2>3 DEF ClearsShown, EarlierIsReady, TextIsTaken, TextIsSet
    <3>3. EarlierIsOver' /\ NewestIsLast'
      BY <1>5, <1>6, <1>8, <1>9, <3>1 DEF EarlierIsOver, NewestIsLast, Watched
    <3>4. NewestIsShown'
      <4>1. Watched /\ diff = "text" => target[l] = viewer \/ Untouched(viewer)
        BY <1>9, <2>3, <3>1 DEF TextIsSet
      <4>2. shows[target[l]] = None /\ \A m \in Loads : ~Pends(SetDiff(target[l], m))
        BY <1>2, <1>3 DEF CallsInv, NothingBeforeReady
      <4> QED BY <1>5, <1>6, <3>1, <4>1, <4>2 DEF NewestIsShown, Untouched
    <3> QED BY <3>2, <3>3, <3>4
  <2> QED BY <1>4, <2>1, <2>2, <2>3
<1> QED BY <1>5, <1>7, <1>9

(* A load ends. *)
LEMMA EndKeeps ==
  ASSUME ViewerInv, NEW l \in Loads, step[l] \in {"fetch", "set"}, StepTo(l, "done"),
         loading' = (loading /\ l # requestVersion), error' \in {None} \cup Loads,
         UNCHANGED <<selected, requestVersion, diff, failed, restoring, target, viewer, phase,
                     disposed, calls, browser>>
  PROVE  ViewerInv'
<1> USE DEF ViewerInv, StepTo, browser
<1>1. /\ step \in [{Sweep} \cup Loads -> Steps]
      /\ requestVersion \in {None} \cup Loads /\ viewer \in {None} \cup Viewers
      /\ None = Sweep /\ loading \in BOOLEAN
  BY ViewerNumbers DEF ViewerTypeOK
<1>2. /\ step'[l] = "done" /\ step' \in [{Sweep} \cup Loads -> Steps]
      /\ \A k \in ({Sweep} \cup Loads) \ {l} : step'[k] = step[k]
  BY <1>1 DEF Steps
<1>3. ViewerTypeOK'
  <2>1. loading' <=> requestVersion # None /\ step'[requestVersion] \in {"waitClear", "fetch"}
    <3>1. CASE requestVersion = l
      BY <1>2, <3>1
    <3>2. CASE requestVersion # l
      BY <1>1, <1>2, <3>2 DEF ViewerTypeOK
    <3> QED BY <3>1, <3>2
  <2> QED BY <1>1, <1>2, <2>1 DEF ViewerTypeOK
<1>4. ServerInv'
  <2>1. WaitsForSome'
    BY <1>2 DEF ServerInv, WaitsForSome, Waits
  <2>2. SweepSteps' /\ LoadsStarted' /\ ViewerThere'
    BY <1>1, <1>2, ViewerNumbers DEF ServerInv, SweepSteps, LoadsStarted, ViewerThere
  <2> QED BY <2>1, <2>2 DEF ServerInv
<1>5. /\ \A x : Pends(x)' <=> Pends(x)
      /\ \A x, y : PendsBefore(x, y)' <=> PendsBefore(x, y)
  BY NothingSent
<1>6. CallsInv'
  <2>1. \E v : Clear(None) = Clear(v)
    OBVIOUS
  <2>2. \A m \in Loads : step[m] \in {"set", "done"} => step'[m] \in {"set", "done"}
    BY <1>2
  <2> QED BY <1>1, <1>5, <2>1, <2>2, CallsKept
<1>7. ASSUME NewestInv PROVE NewestInv'
  <2>1. \A m \in Loads, v \in Viewers : WaitsToSet(m, v)' => WaitsToSet(m, v)
    BY <1>2 DEF WaitsToSet
  <2>2. CASE requestVersion # l
    <3>1. requestVersion # None => step'[requestVersion] = step[requestVersion]
      BY <1>1, <1>2, <2>2
    <3> QED BY <1>1, <1>3, <1>4, <1>5, <1>7, <2>1, <3>1, NewestKept
  <2>3. CASE requestVersion = l
    <3> USE DEF NewestInv
    <3>1. Watched' <=> Watched
      BY DEF Watched
    <3>2. ClearsShown' /\ EarlierIsReady' /\ TextIsTaken' /\ TextIsSet'
      BY <1>2, <2>3 DEF ClearsShown, EarlierIsReady, TextIsTaken, TextIsSet
    <3>3. EarlierIsOver' /\ NewestIsLast'
      BY <1>1, <1>5, <1>7, <2>1, <3>1 DEF EarlierIsOver, NewestIsLast, Watched
    <3>4. Watched /\ diff = "text" => step[requestVersion] = "set"
      BY <1>7, <2>3 DEF TextIsTaken, Watched
    <3>5. NewestIsShown'
      BY <1>5, <1>7, <3>1, <3>4 DEF NewestIsShown
    <3> QED BY <3>2, <3>3, <3>5
  <2> QED BY <2>2, <2>3
<1> QED BY <1>3, <1>4, <1>6, <1>7

LEMMA SetEndsKeeps == ASSUME ViewerInv, NEW l \in Loads, SetEnds(l) PROVE ViewerInv'
<1>1. loading <=> requestVersion # None /\ step[requestVersion] \in {"waitClear", "fetch"}
  BY DEF ViewerInv, ViewerTypeOK
<1>2. loading \in BOOLEAN /\ error \in {None} \cup Loads /\ step[l] = "set"
  BY DEF ViewerInv, ViewerTypeOK, SetEnds
<1>3. loading = (loading /\ l # requestVersion)
  BY <1>1, <1>2
<1> QED BY <1>2, <1>3, EndKeeps DEF SetEnds

LEMMA ThrowsKeeps == ASSUME ViewerInv, NEW l \in Loads, LoadThrows(l) PROVE ViewerInv'
BY EndKeeps DEF LoadThrows

(* The answer for the newest load. *)
LEMMA TakeKeeps ==
  ASSUME ViewerInv, NEW l \in Loads, Answer(l), l = requestVersion, TakeAnswer(l)
  PROVE  ViewerInv'
<1> USE DEF ViewerInv, browser
<1>1. /\ step[l] = "fetch" /\ step \in [{Sweep} \cup Loads -> Steps]
      /\ target \in [{Sweep} \cup Loads -> {None} \cup Viewers]
      /\ viewer \in {None} \cup Viewers /\ calls \in Seq(Call)
      /\ requestVersion \in Nat /\ l # None /\ l # Sweep
      /\ UNCHANGED <<viewer, phase, disposed, awaiting, editors, shows, monaco>>
  BY ViewerNumbers DEF ViewerTypeOK, Answer
<1>2. /\ diff' \in Diff /\ loading' = FALSE /\ error' \in {None} \cup Loads
      /\ UNCHANGED <<selected, requestVersion, failed, restoring>>
  BY DEF TakeAnswer, Diff, ViewerTypeOK
<1>3. /\ viewer # None => viewer \notin disposed
      /\ selected \in {None, requestVersion}
  BY DEF ServerInv, ViewerThere
<1>4. \/ /\ step' = [step EXCEPT ![l] = "done"] /\ UNCHANGED <<calls, target>>
         /\ diff' \in {diff, "other"}
      \/ /\ step' = [step EXCEPT ![l] = "set"] /\ UNCHANGED <<calls, target>>
         /\ viewer = None
      \/ /\ step' = [step EXCEPT ![l] = "set"] /\ Send(SetDiff(viewer, l)) /\ UNCHANGED target
         /\ viewer \in Viewers /\ phase[viewer] = "ready"
      \/ /\ step' = [step EXCEPT ![l] = "waitSet"] /\ target' = [target EXCEPT ![l] = viewer]
         /\ UNCHANGED calls /\ viewer \in Viewers /\ phase[viewer] # "ready"
  <2>1. CASE CallWhenReady(l, viewer, SetDiff(viewer, l), "waitSet", "set")
    <3>1. CASE viewer \in disposed \cup {None} /\ StepTo(l, "set") /\ UNCHANGED <<calls, target>>
      BY <1>3, <3>1 DEF StepTo
    <3>2. CASE /\ viewer \notin disposed \cup {None} /\ phase[viewer] = "ready"
               /\ StepTo(l, "set") /\ Send(SetDiff(viewer, l)) /\ UNCHANGED target
      BY <1>1, <3>2 DEF StepTo
    <3>3. CASE /\ viewer \notin disposed \cup {None} /\ phase[viewer] # "ready"
               /\ StepTo(l, "waitSet") /\ target' = [target EXCEPT ![l] = viewer]
               /\ UNCHANGED calls
      BY <1>1, <3>3 DEF StepTo
    <3> QED BY <2>1, <3>1, <3>2, <3>3, CallWays
  <2>2. CASE StepTo(l, "done") /\ UNCHANGED <<calls, target>> /\ diff' \in {diff, "other"}
    BY <2>2 DEF StepTo
  <2> QED BY <2>1, <2>2 DEF TakeAnswer
<1>5. PICK t : t = viewer
  OBVIOUS
<1>6. /\ calls' \in Seq(Call)
      /\ \A x : Pends(x) => Pends(x)'
      /\ \A x : Pends(x)' => Pends(x) \/ x = SetDiff(t, l)
      /\ \A x, y : PendsBefore(x, y)' => PendsBefore(x, y) \/ (Pends(x) /\ y = SetDiff(t, l))
      /\ (phase[t] # "ready" \/ viewer = None) => \A x : Pends(x)' => Pends(x)
  <2>1. CASE UNCHANGED calls
    BY <1>1, <2>1, NothingSent
  <2>2. CASE Send(SetDiff(viewer, l)) /\ viewer \in Viewers /\ phase[viewer] = "ready"
    BY <1>1, <1>5, <2>2, SendHas, CallKinds, ViewerNumbers
  <2> QED BY <1>4, <2>1, <2>2
<1>7. /\ step'[l] \in {"waitSet", "set", "done"} /\ step' \in [{Sweep} \cup Loads -> Steps]
      /\ \A k \in ({Sweep} \cup Loads) \ {l} : step'[k] = step[k] /\ target'[k] = target[k]
      /\ target' \in [{Sweep} \cup Loads -> {None} \cup Viewers]
      /\ step'[l] = "waitSet" => target'[l] = viewer /\ viewer \in Viewers
                                  /\ phase[viewer] # "ready"
  BY <1>1, <1>4 DEF Steps
<1>8. ViewerTypeOK'
  <2>1. loading' \in BOOLEAN
        /\ (loading' <=>
              requestVersion' # None /\ step'[requestVersion'] \in {"waitClear", "fetch"})
    BY <1>2, <1>7
  <2> QED BY <1>1, <1>2, <1>6, <1>7, <2>1 DEF ViewerTypeOK
<1>9. ServerInv'
  <2>1. WaitsForSome'
    <3> SUFFICES ASSUME NEW k \in {Sweep} \cup Loads, step'[k] \in {"waitClear", "waitSet"}
                 PROVE  target'[k] \in Viewers /\ phase[target'[k]] # "none"
      BY <1>1 DEF WaitsForSome, Waits
    <3>1. CASE k # l
      BY <1>7, <3>1 DEF ServerInv, WaitsForSome, Waits
    <3>2. CASE k = l
      BY <1>7, <3>2, ViewerNumbers DEF ServerInv, ViewerThere
    <3> QED BY <3>1, <3>2
  <2>2. SweepSteps' /\ LoadsStarted'
    BY <1>1, <1>2, <1>7 DEF ServerInv, SweepSteps, LoadsStarted
  <2>3. ViewerThere'
    BY <1>1, <1>2 DEF ServerInv, ViewerThere
  <2> QED BY <2>1, <2>2, <2>3 DEF ServerInv
<1>10. CallsInv'
  <2>1. \A m \in Loads : step[m] \in {"set", "done"} => step'[m] \in {"set", "done"}
    BY <1>1, <1>7
  <2>2. CASE phase[t] # "ready" \/ viewer = None
    <3>1. \E v : Clear(None) = Clear(v)
      OBVIOUS
    <3>2. UNCHANGED calls
      BY <1>4, <1>5, <2>2, ViewerNumbers
    <3>3. /\ \A x : Pends(x)' <=> Pends(x)
          /\ \A x, y : PendsBefore(x, y)' <=> PendsBefore(x, y)
      BY <1>1, <3>2, NothingSent
    <3> QED BY <1>1, <2>1, <3>1, <3>3, CallsKept
  <2>3. CASE phase[t] = "ready" /\ viewer # None
    <3>1. \E v \in Viewers, m \in Loads :
            SetDiff(t, l) = SetDiff(v, m) /\ phase[v] = "ready" /\ step'[m] \in {"set", "done"}
      BY <1>1, <1>5, <1>7, <2>3
    <3> QED BY <1>1, <1>6, <2>1, <3>1, CallsKept
  <2> QED BY <2>2, <2>3
<1>11. ASSUME TimelyPolls, NewestInv PROVE NewestInv'
  <2> USE DEF NewestInv
  <2>1. ClearsShown' /\ EarlierIsReady' /\ TextIsTaken'
    BY <1>2, <1>7 DEF ClearsShown, EarlierIsReady, TextIsTaken
  <2>2. TextIsSet'
    BY <1>1, <1>2, <1>7 DEF TextIsSet
  <2>3. Watched' <=> Watched
    BY <1>1, <1>2 DEF Watched
  (* No earlier load waits to set the viewer of the page. *)
  <2>4. \A m \in Loads \ {l} : Watched => ~WaitsToSet(m, viewer)
    BY <1>1, <1>11 DEF EarlierIsReady, Answer, WaitsToSet, Waits
  <2>5. EarlierIsOver'
    BY <1>1, <1>2, <1>7, <2>3, <2>4 DEF EarlierIsOver, WaitsToSet
  <2>6. NewestIsLast'
    <3> SUFFICES ASSUME NEW m \in Loads \ {l}, viewer # None,
                        PendsBefore(SetDiff(viewer, l), SetDiff(viewer, m))'
                 PROVE  FALSE
      BY <1>1, <1>2 DEF NewestIsLast, Watched
    <3>1. PendsBefore(SetDiff(viewer, l), SetDiff(viewer, m))
      <4>1. SetDiff(viewer', l) = SetDiff(viewer, l) /\ SetDiff(viewer', m) = SetDiff(viewer, m)
        BY <1>1
      <4>2. SetDiff(viewer, m) # SetDiff(t, l)
        BY CallsDiffer
      <4> QED BY <1>6, <4>1, <4>2
    <3>2. Pends(SetDiff(viewer, l))
      BY <3>1 DEF PendsBefore, Pends, Before, Has
    <3> QED BY <1>1, <3>2 DEF CallsInv, SentOnly
  <2>7. NewestIsShown'
    <3> SUFFICES ASSUME Watched, diff' = "text", step'[l] \in {"set", "done"}
                 PROVE  Pends(SetDiff(viewer, l))'
      BY <1>1, <1>2, <2>3 DEF NewestIsShown
    <3>1. diff # "text"
      BY <1>1, <1>11 DEF TextIsTaken, Watched
    <3>2. Send(SetDiff(viewer, l)) /\ viewer \in Viewers
      BY <1>1, <1>4, <3>1 DEF Watched
    <3> QED BY <1>1, <3>2, SendHas, CallKinds
  <2> QED BY <2>1, <2>2, <2>5, <2>6, <2>7
<1> QED BY <1>8, <1>9, <1>10, <1>11

LEMMA FetchedKeeps == ASSUME ViewerInv, NEW l \in Loads, Fetched(l) PROVE ViewerInv'
<1>1. CASE l = requestVersion
  BY <1>1, TakeKeeps DEF Fetched
<1>2. CASE l # requestVersion
  BY <1>2, EndKeeps DEF Fetched, Answer, ViewerInv, ViewerTypeOK
<1> QED BY <1>1, <1>2

(* The selection is cleared. *)
LEMMA ClearKeeps ==
  ASSUME ViewerInv, ClearSelection, restoring' \in {None} \cup Loads PROVE ViewerInv'
<1> USE DEF ViewerInv, browser
<1>1. /\ step \in [{Sweep} \cup Loads -> Steps]
      /\ target \in [{Sweep} \cup Loads -> {None} \cup Viewers]
      /\ requestVersion \in {None} \cup Loads /\ requestVersion \in Nat
      /\ viewer \in {None} \cup Viewers
      /\ viewer # None => viewer \notin disposed /\ phase[viewer] # "none"
      /\ step[Sweep] \in {"none", "done"} /\ Sweep \notin Loads
  BY ViewerNumbers DEF ViewerTypeOK, ServerInv, ViewerThere, ClearSelection
<1>2. /\ selected' = None /\ diff' = "none" /\ error' = None
      /\ UNCHANGED <<requestVersion, failed, loading, viewer, phase, disposed, monaco, awaiting, editors,
                     shows>>
  BY DEF ClearSelection
<1>3. \/ /\ step' = [step EXCEPT ![Sweep] = "done"] /\ UNCHANGED <<calls, target>>
      \/ /\ step' = [step EXCEPT ![Sweep] = "done"] /\ UNCHANGED target
         /\ viewer \in Viewers /\ Send(Clear(viewer))
      \/ /\ step' = [step EXCEPT ![Sweep] = "waitClear"] /\ UNCHANGED calls
         /\ viewer \in Viewers /\ target' = [target EXCEPT ![Sweep] = viewer]
  <2>1. CallWhenReady(Sweep, viewer, Clear(viewer), "waitClear", "done")
    BY DEF ClearSelection
  <2>2. CASE viewer \in disposed \cup {None} /\ StepTo(Sweep, "done") /\ UNCHANGED <<calls, target>>
    BY <2>2 DEF StepTo
  <2>3. CASE /\ viewer \notin disposed \cup {None} /\ phase[viewer] = "ready"
             /\ StepTo(Sweep, "done") /\ Send(Clear(viewer)) /\ UNCHANGED target
    BY <1>1, <2>3 DEF StepTo
  <2>4. CASE /\ viewer \notin disposed \cup {None} /\ phase[viewer] # "ready"
             /\ StepTo(Sweep, "waitClear") /\ target' = [target EXCEPT ![Sweep] = viewer]
             /\ UNCHANGED calls
    BY <1>1, <2>4 DEF StepTo
  <2> QED BY <2>1, <2>2, <2>3, <2>4, CallWays
<1>4. /\ step'[Sweep] \in {"waitClear", "done"} /\ step' \in [{Sweep} \cup Loads -> Steps]
      /\ target' \in [{Sweep} \cup Loads -> {None} \cup Viewers]
      /\ \A l \in Loads : step'[l] = step[l] /\ target'[l] = target[l]
      /\ step'[Sweep] = "waitClear" => target'[Sweep] = viewer /\ viewer \in Viewers
  BY <1>1, <1>3 DEF Steps
<1>5. PICK c : c = Clear(viewer)
  OBVIOUS
<1>6. /\ calls' \in Seq(Call)
      /\ \A x : Pends(x)' => Pends(x) \/ x = c
      /\ \A x, y : PendsBefore(x, y)' => PendsBefore(x, y) \/ (Pends(x) /\ y = c)
      /\ \A x : Pends(x) => Pends(x)'
  <2>1. (viewer \in Viewers /\ Send(Clear(viewer))) \/ UNCHANGED calls
    BY <1>3
  <2> QED BY <1>2, <1>5, <2>1, ClearSent
<1>7. ViewerTypeOK'
  <2>1. diff' \in Diff /\ error' \in {None} \cup Loads
    BY <1>2 DEF Diff
  <2>2. loading <=> requestVersion # None /\ step'[requestVersion] \in {"waitClear", "fetch"}
    BY <1>1, <1>4 DEF ViewerTypeOK
  <2> QED BY <1>2, <1>4, <1>6, <2>1, <2>2 DEF ViewerTypeOK
<1>8. ServerInv'
  <2>1. WaitsForSome'
    <3> SUFFICES ASSUME NEW l \in {Sweep} \cup Loads, step'[l] \in {"waitClear", "waitSet"}
                 PROVE  target'[l] \in Viewers /\ phase[target'[l]] # "none"
      BY <1>2 DEF WaitsForSome, Waits
    <3>1. CASE l \in Loads
      BY <1>4, <3>1 DEF ServerInv, WaitsForSome, Waits
    <3>2. CASE l = Sweep
      BY <1>1, <1>4, <3>2, ViewerNumbers
    <3> QED BY <3>1, <3>2
  <2>2. SweepSteps' /\ LoadsStarted' /\ ViewerThere'
    BY <1>2, <1>4 DEF ServerInv, SweepSteps, LoadsStarted, ViewerThere
  <2> QED BY <2>1, <2>2 DEF ServerInv
<1>9. CallsInv'
  <2>1. \A m \in Loads : step[m] \in {"set", "done"} => step'[m] \in {"set", "done"}
    BY <1>4
  <2> QED BY <1>2, <1>5, <1>6, <2>1, CallsKept
<1>10. ASSUME NewestInv PROVE NewestInv'
  <2>1. \A v \in Viewers, l, m \in Loads :
          PendsBefore(SetDiff(v, l), SetDiff(v, m))' => PendsBefore(SetDiff(v, l), SetDiff(v, m))
    BY <1>5, <1>6, CallsDiffer
  <2>2. \A v \in Viewers, m \in Loads : Pends(SetDiff(v, m))' => Pends(SetDiff(v, m))
    BY <1>5, <1>6, CallsDiffer
  <2>3. \A m \in Loads, v \in Viewers : WaitsToSet(m, v)' => WaitsToSet(m, v)
    BY <1>4 DEF WaitsToSet
  <2>4. requestVersion # None => /\ step'[requestVersion] = step[requestVersion]
                                 /\ target'[requestVersion] = target[requestVersion]
    BY <1>1, <1>4
  <2> QED BY <1>2, <1>6, <1>7, <1>8, <1>10, <2>1, <2>2, <2>3, <2>4, NewestKept
<1> QED BY <1>7, <1>8, <1>9, <1>10

(* Only the reload of the page, or the restoring of the selection, goes on. *)
LEMMA StillKeeps ==
  ASSUME ViewerInv, restoring' \in {None} \cup Loads, failed' \in BOOLEAN,
         UNCHANGED <<selected, requestVersion, diff, error, loading, step, target, viewer,
                     phase, disposed, calls, browser>>
  PROVE  ViewerInv'
<1> USE DEF browser
<1>1. ViewerTypeOK'
  BY DEF ViewerInv, ViewerTypeOK
<1>2. ServerInv'
  BY DEF ViewerInv, ServerInv, WaitsForSome, Waits, SweepSteps, LoadsStarted, ViewerThere
<1>3. /\ \A x : Pends(x)' <=> Pends(x)
      /\ \A x, y : PendsBefore(x, y)' <=> PendsBefore(x, y)
  BY NothingSent
<1>4. CallsInv'
  BY <1>3 DEF ViewerInv, CallsInv, AwaitingKinds, InitOnce, NothingBeforeReady, EditorThere,
     DisposedOnly, SentOnly
<1>5. ASSUME NewestInv PROVE NewestInv'
  BY <1>1, <1>2, <1>3, <1>5, NewestKept DEF ViewerInv, WaitsToSet
<1> QED BY <1>1, <1>2, <1>4, <1>5 DEF ViewerInv

LEMMA RestoreEndsKeeps == ASSUME ViewerInv, RestoreEnds PROVE ViewerInv'
<1>1. CASE ClearSelection
  BY <1>1, ClearKeeps DEF RestoreEnds
<1>2. CASE ~ClearSelection
  BY <1>2, StillKeeps DEF RestoreEnds, ViewerInv, ViewerTypeOK
<1> QED BY <1>1, <1>2

(* What a step of the viewer, and not of a load, keeps of the newest load. *)
LEMMA NewestKeptByViewers ==
  ASSUME ViewerTypeOK, ServerInv, ServerInv', NewestInv,
         UNCHANGED <<selected, requestVersion, diff, step, target, shows>>,
         viewer' \in {viewer, None},
         \A v \in Viewers : phase[v] = "ready" => phase'[v] = "ready",
         NEW c, \A v \in Viewers, m \in Loads : c # SetDiff(v, m),
         \A x : Pends(x) => Pends(x)',
         \A x : Pends(x)' => Pends(x) \/ x = c,
         \A x, y : PendsBefore(x, y)' => PendsBefore(x, y) \/ (Pends(x) /\ y = c)
  PROVE  NewestInv'
<1>1. \A m \in Loads, v \in Viewers : WaitsToSet(m, v)' => WaitsToSet(m, v)
  BY DEF WaitsToSet
<1>2. \A v \in Viewers, m \in Loads : Pends(SetDiff(v, m))' => Pends(SetDiff(v, m))
  OBVIOUS
<1>3. \A v \in Viewers, l, m \in Loads :
        PendsBefore(SetDiff(v, l), SetDiff(v, m))' => PendsBefore(SetDiff(v, l), SetDiff(v, m))
  OBVIOUS
<1>4. selected' # None /\ viewer' # None /\ Pends(SetDiff(viewer, requestVersion))
        => Pends(SetDiff(viewer, requestVersion))'
  <2>1. PICK d : d = SetDiff(viewer, requestVersion)
    OBVIOUS
  <2>2. viewer' # None => d = SetDiff(viewer', requestVersion')
    BY <2>1
  <2> QED BY <2>1, <2>2
<1> QED BY <1>1, <1>2, <1>3, <1>4, NewestKept

(* A viewer, if there is one, leaves the page. *)
LEMMA LeaveKeeps ==
  ASSUME ViewerInv, Leave, failed' \in BOOLEAN,
         UNCHANGED <<selected, requestVersion, diff, error, loading, restoring, step, target, phase,
                     browser>>
  PROVE  ViewerInv'
<1> USE DEF ViewerInv, browser
<1>1. PICK c : c = IF viewer = None THEN Clear(None) ELSE DisposeCall(viewer)
  OBVIOUS
<1>2. viewer \in {None} \cup Viewers /\ (viewer # None => phase[viewer] # "none")
  BY DEF ViewerTypeOK, ServerInv, ViewerThere
<1>3. /\ viewer' = None /\ disposed' \subseteq Viewers /\ disposed' \subseteq disposed \cup {viewer}
      /\ disposed \subseteq disposed' /\ (viewer # None => viewer \in disposed')
      /\ (viewer # None /\ Send(c)) \/ UNCHANGED calls
  BY <1>1, <1>2 DEF Leave, ViewerTypeOK, DisposeCall
<1>4. /\ calls' \in Seq(Call)
      /\ \A x : Pends(x) => Pends(x)'
      /\ \A x : Pends(x)' => Pends(x) \/ x = c
      /\ \A x, y : PendsBefore(x, y)' => PendsBefore(x, y) \/ (Pends(x) /\ y = c)
  <2>1. calls \in Seq(Call) /\ (viewer # None => c \in Call) /\ UNCHANGED awaiting
    BY <1>1, <1>2, CallKinds DEF ViewerTypeOK
  <2> QED BY <1>3, <2>1, SendHas, NothingSent
<1>5. ViewerTypeOK'
  BY <1>3, <1>4 DEF ViewerTypeOK
<1>6. ServerInv'
  <2>1. \A v \in disposed' : phase[v] # "none"
    BY <1>2, <1>3, ViewerNumbers DEF Leave, ServerInv, ViewerThere
  <2> QED BY <1>3, <2>1 DEF ServerInv, WaitsForSome, Waits, SweepSteps, LoadsStarted, ViewerThere
<1>7. CallsInv'
  <2>1. (\E v : c = Clear(v)) \/ (\E v \in disposed' : c = DisposeCall(v))
    BY <1>1, <1>3
  <2> QED BY <1>3, <1>4, <2>1, CallsKept
<1>8. ASSUME NewestInv PROVE NewestInv'
  <2>1. \A v \in Viewers, m \in Loads : c # SetDiff(v, m)
    BY <1>1, CallsDiffer
  <2> QED BY <1>3, <1>4, <1>6, <1>8, <2>1, NewestKeptByViewers
<1> QED BY <1>5, <1>6, <1>7, <1>8

LEMMA RemoveViewerKeeps == ASSUME ViewerInv, RemoveViewer PROVE ViewerInv'
BY LeaveKeeps DEF RemoveViewer, page, ViewerInv, ViewerTypeOK

LEMMA ReloadFailsKeeps == ASSUME ViewerInv, ReloadFails PROVE ViewerInv'
BY LeaveKeeps DEF ReloadFails

(* A viewer comes to the page, and no load with it. *)
LEMMA AppearsKeeps ==
  ASSUME ViewerInv, NEW v \in Viewers, viewer = None, phase[v] = "none", viewer' = v,
         phase' = [phase EXCEPT ![v] = "import"], failed' \in BOOLEAN,
         UNCHANGED <<selected, requestVersion, diff, error, loading, restoring, step, target,
                     disposed, calls, browser>>
  PROVE  ViewerInv'
<1> USE DEF ViewerInv, browser
<1>1. /\ phase \in [Viewers -> Phase] /\ v \notin disposed
  BY DEF ViewerTypeOK, ServerInv, ViewerThere
<1>2. /\ phase' \in [Viewers -> Phase] /\ phase'[v] = "import"
      /\ \A w \in Viewers \ {v} : phase'[w] = phase[w]
  BY <1>1 DEF Phase
<1>3. ViewerTypeOK'
  BY <1>2 DEF ViewerTypeOK
<1>4. ServerInv'
  <2>1. \A w \in Viewers : phase[w] # "none" => phase'[w] # "none"
    BY <1>2
  <2>2. WaitsForSome'
    BY <2>1 DEF ServerInv, WaitsForSome, Waits
  <2>3. ViewerThere'
    BY <1>1, <1>2, <2>1 DEF ServerInv, ViewerThere, ViewerTypeOK
  <2> QED BY <2>2, <2>3 DEF ServerInv, SweepSteps, LoadsStarted
<1>5. /\ \A x : Pends(x)' <=> Pends(x)
      /\ \A x, y : PendsBefore(x, y)' <=> PendsBefore(x, y)
  BY NothingSent
<1>6. CallsInv'
  <2>1. \E w : Clear(None) = Clear(w)
    OBVIOUS
  <2>2. \A w \in Viewers :
          phase'[w] = phase[w] \/ (phase[w] \in {"none", "import"} /\ phase'[w] \in {"import", "failed"})
    BY <1>2
  <2> QED BY <1>5, <2>1, <2>2, CallsKept
<1>7. ASSUME NewestInv PROVE NewestInv'
  <2>1. \A m \in Loads : ~WaitsToSet(m, v)
    BY DEF WaitsToSet, ServerInv, WaitsForSome, Waits
  <2>2. shows[v] = None /\ \A m \in Loads : ~Pends(SetDiff(v, m))
    BY DEF CallsInv, NothingBeforeReady
  <2>3. shows'[viewer'] = None /\ \A m \in Loads : SetDiff(viewer', m) = SetDiff(v, m)
    BY <2>2
  <2>4. Untouched(viewer)'
    BY <1>5, <2>1, <2>2, <2>3 DEF Untouched, WaitsToSet
  <2>5. ClearsShown' /\ TextIsSet' /\ EarlierIsReady' /\ EarlierIsOver'
    BY <2>1, <2>4 DEF ClearsShown, TextIsSet, EarlierIsReady, EarlierIsOver, WaitsToSet
  <2>6. TextIsTaken'
    BY <1>7 DEF NewestInv, TextIsTaken
  <2>7. NewestIsShown'
    BY <1>5, <2>2, <2>3 DEF NewestIsShown
  <2>8. NewestIsLast'
    <3>1. \A m, n \in Loads : ~PendsBefore(SetDiff(v, m), SetDiff(v, n))
      BY <2>2 DEF PendsBefore, Pends, Before, Has
    <3>2. Watched' => requestVersion \in Loads
      BY DEF Watched, ServerInv, ViewerThere, ViewerTypeOK
    <3> QED BY <1>5, <3>1, <3>2 DEF NewestIsLast
  <2> QED BY <2>5, <2>6, <2>7, <2>8 DEF NewestInv
<1> QED BY <1>3, <1>4, <1>6, <1>7

LEMMA ReloadBeginsKeeps == ASSUME ViewerInv, ReloadBegins PROVE ViewerInv'
<1>1. CASE UNCHANGED <<viewer, phase>>
  BY <1>1, StillKeeps DEF ReloadBegins, ViewerInv, ViewerTypeOK
<1>2. CASE \E v \in Viewers : Render(v) /\ viewer = None
  BY <1>2, AppearsKeeps DEF ReloadBegins, Render
<1>3. (\E v \in Viewers : Render(v) /\ viewer = None) \/ UNCHANGED <<viewer, phase>>
  BY DEF ReloadBegins, Render
<1> QED BY <1>1, <1>2, <1>3

LEMMA ImportedKeeps == ASSUME ViewerInv, NEW v \in Viewers, Imported(v) PROVE ViewerInv'
<1> USE DEF ViewerInv, browser, page
<1>1. /\ phase[v] = "import" /\ phase \in [Viewers -> Phase]
      /\ UNCHANGED <<page, viewer, disposed, browser>>
  BY DEF Imported, ViewerTypeOK
<1>2. /\ phase'[v] \in {"failed", "init"} /\ phase' \in [Viewers -> Phase]
      /\ \A w \in Viewers \ {v} : phase'[w] = phase[w]
      /\ \/ phase'[v] = "failed" /\ UNCHANGED calls
         \/ phase'[v] = "init" /\ Send(InitCall(v))
  BY <1>1 DEF Imported, Phase, InitCall
<1>3. PICK c : c = InitCall(v)
  OBVIOUS
<1>4. /\ calls' \in Seq(Call)
      /\ \A x : Pends(x) => Pends(x)'
      /\ \A x : Pends(x)' => Pends(x) \/ (x = c /\ phase'[v] = "init")
      /\ \A x, y : PendsBefore(x, y)' => PendsBefore(x, y) \/ (Pends(x) /\ y = c)
  <2>1. calls \in Seq(Call) /\ c \in Call /\ UNCHANGED awaiting
    BY <1>1, <1>3, CallKinds DEF ViewerTypeOK
  <2> QED BY <1>2, <1>3, <2>1, SendHas, NothingSent
<1>5. ViewerTypeOK'
  BY <1>1, <1>2, <1>4 DEF ViewerTypeOK
<1>6. ServerInv'
  <2>1. \A w \in Viewers : phase[w] # "none" => phase'[w] # "none"
    BY <1>2
  <2>2. WaitsForSome'
    BY <1>1, <2>1 DEF ServerInv, WaitsForSome, Waits
  <2>3. ViewerThere'
    BY <1>1, <2>1, ViewerNumbers DEF ServerInv, ViewerThere, ViewerTypeOK
  <2> QED BY <1>1, <2>2, <2>3 DEF ServerInv, SweepSteps, LoadsStarted
<1>7. CallsInv'
  <2>1. InitOnce'
    <3> SUFFICES ASSUME NEW w \in Viewers
                 PROVE  /\ Pends(InitCall(w))' => phase'[w] = "init"
                        /\ ~PendsBefore(InitCall(w), InitCall(w))'
      BY DEF InitOnce
    <3>1. CASE w = v
      BY <1>1, <1>3, <1>4, <3>1 DEF CallsInv, InitOnce
    <3>2. CASE w # v
      BY <1>2, <1>3, <1>4, <3>2, CallsDiffer DEF CallsInv, InitOnce
    <3> QED BY <3>1, <3>2
  <2>2. AwaitingKinds' /\ DisposedOnly' /\ SentOnly'
    BY <1>1, <1>3, <1>4, CallsDiffer DEF CallsInv, AwaitingKinds, DisposedOnly, SentOnly
  <2>3. NothingBeforeReady'
    BY <1>1, <1>2, <1>3, <1>4, CallsDiffer DEF CallsInv, NothingBeforeReady
  <2>4. EditorThere'
    BY <1>1, <1>2 DEF CallsInv, EditorThere
  <2> QED BY <2>1, <2>2, <2>3, <2>4 DEF CallsInv
<1>8. ASSUME NewestInv PROVE NewestInv'
  <2>1. \A w \in Viewers : phase[w] = "ready" => phase'[w] = "ready"
    BY <1>1, <1>2
  <2>2. \A w \in Viewers, m \in Loads : c # SetDiff(w, m)
    BY <1>3, CallsDiffer
  <2>3. UNCHANGED <<page, shows, viewer>> /\ \A x : Pends(x)' => Pends(x) \/ x = c
    BY <1>1, <1>4
  <2> QED BY <1>4, <1>6, <1>8, <2>1, <2>2, <2>3, NewestKeptByViewers
<1> QED BY <1>5, <1>6, <1>7, <1>8

LEMMA InitializedKeeps == ASSUME ViewerInv, NEW v \in Viewers, Initialized(v) PROVE ViewerInv'
<1> USE DEF ViewerInv, browser, page
<1>1. /\ phase[v] = "replied" /\ phase \in [Viewers -> Phase]
      /\ UNCHANGED <<page, viewer, disposed, calls, browser>>
  BY DEF Initialized, ViewerTypeOK
<1>2. /\ phase'[v] = "ready" /\ phase' \in [Viewers -> Phase]
      /\ \A w \in Viewers \ {v} : phase'[w] = phase[w]
  BY <1>1 DEF Initialized, Phase
<1>3. ViewerTypeOK'
  BY <1>1, <1>2 DEF ViewerTypeOK
<1>4. ServerInv'
  <2>1. \A w \in Viewers : phase[w] # "none" => phase'[w] # "none"
    BY <1>2
  <2>2. WaitsForSome'
    BY <1>1, <2>1 DEF ServerInv, WaitsForSome, Waits
  <2>3. ViewerThere'
    BY <1>1, <2>1, ViewerNumbers DEF ServerInv, ViewerThere, ViewerTypeOK
  <2> QED BY <1>1, <2>2, <2>3 DEF ServerInv, SweepSteps, LoadsStarted
<1>5. /\ \A x : Pends(x)' <=> Pends(x)
      /\ \A x, y : PendsBefore(x, y)' <=> PendsBefore(x, y)
  BY <1>1, NothingSent
<1>6. PICK c : c = Clear(v)
  OBVIOUS
<1>7. CallsInv'
  <2>1. \A w \in Viewers :
          phase'[w] = phase[w] \/ (phase[w] = "replied" /\ phase'[w] = "ready")
    BY <1>1, <1>2
  <2> QED BY <1>1, <1>5, <1>6, <2>1, CallsKept
<1>8. ASSUME NewestInv PROVE NewestInv'
  <2>1. \A w \in Viewers : phase[w] = "ready" => phase'[w] = "ready"
    BY <1>2
  <2>2. \A w \in Viewers, m \in Loads : c # SetDiff(w, m)
    BY <1>6, CallsDiffer
  <2> QED BY <1>1, <1>4, <1>5, <1>8, <2>1, <2>2, NewestKeptByViewers
<1> QED BY <1>3, <1>4, <1>7, <1>8

(* A step of the browser that carries out or drops calls, and does not end init or setDiff. *)
LEMMA BrowserKeeps ==
  ASSUME ViewerInv, UNCHANGED <<page, viewer, phase, disposed>>,
         calls' \in Seq(Call), awaiting' \in Seq(Call), editors' \subseteq Viewers,
         monaco' \in {"unloaded", "loading", "ready"},
         shows' \in [Viewers -> {None} \cup Loads],
         \A v \in Viewers : shows'[v] \in {shows[v], None},
         \A v \in Viewers \ disposed : v \in editors => v \in editors',
         AwaitingKinds',
         \A x : Pends(x)' => Pends(x),
         \A x, y : PendsBefore(x, y)' => PendsBefore(x, y),
         NEW d, d = SetDiff(viewer, requestVersion),
         viewer # None /\ Pends(d) => Pends(d)'
  PROVE  ViewerInv'
<1> USE DEF ViewerInv
<1>1. UNCHANGED <<selected, requestVersion, diff, error, failed, loading, restoring, step, target>>
  BY DEF page
<1>2. ViewerTypeOK'
  BY <1>1 DEF ViewerTypeOK
<1>3. ServerInv'
  BY <1>1 DEF ServerInv, WaitsForSome, Waits, SweepSteps, LoadsStarted, ViewerThere
<1>4. InitOnce' /\ DisposedOnly' /\ SentOnly'
  BY <1>1 DEF CallsInv, InitOnce, DisposedOnly, SentOnly
<1>5. NothingBeforeReady'
  BY DEF CallsInv, NothingBeforeReady
<1>6. EditorThere'
  BY DEF CallsInv, EditorThere
<1>7. ASSUME NewestInv PROVE NewestInv'
  <2>1. \A m \in Loads, v \in Viewers : WaitsToSet(m, v)' => WaitsToSet(m, v)
    BY <1>1 DEF WaitsToSet
  <2>2. selected' # None /\ viewer' # None /\ Pends(SetDiff(viewer, requestVersion))
          => Pends(SetDiff(viewer, requestVersion))'
    <3>1. d = SetDiff(viewer', requestVersion')
      BY <1>1
    <3> QED BY <3>1
  <2> QED BY <1>1, <1>3, <1>7, <2>1, <2>2, NewestKept
<1> QED BY <1>2, <1>3, <1>4, <1>5, <1>6, <1>7 DEF CallsInv

LEMMA MonacoLoadedKeeps == ASSUME ViewerInv, MonacoLoaded PROVE ViewerInv'
<1> USE DEF MonacoLoaded, ViewerInv
<1>1. /\ \A x : Pends(x)' <=> Pends(x)
      /\ \A x, y : PendsBefore(x, y)' <=> PendsBefore(x, y)
  BY NothingSent
<1>2. AwaitingKinds'
  BY DEF CallsInv, AwaitingKinds
<1>3. PICK d : d = SetDiff(viewer, requestVersion)
  OBVIOUS
<1>4. /\ calls' \in Seq(Call) /\ awaiting' \in Seq(Call) /\ editors' \subseteq Viewers
      /\ monaco' \in {"unloaded", "loading", "ready"}
      /\ shows' \in [Viewers -> {None} \cup Loads]
  BY DEF ViewerTypeOK
<1> QED BY <1>1, <1>2, <1>3, <1>4, BrowserKeeps

(* The first call on its way arrives: it awaits Monaco, *)
LEMMA AwaitKeeps ==
  ASSUME ViewerInv, calls # <<>>, calls' = Tail(calls), Head(calls).fn \in {"init", "setDiff"},
         AwaitMonaco(Head(calls)), UNCHANGED <<page, viewer, phase, disposed>>
  PROVE  ViewerInv'
<1> USE DEF ViewerInv, AwaitMonaco
<1>1. PICK c : c = Head(calls)
  OBVIOUS
<1>2. /\ c \in Call /\ calls' \in Seq(Call) /\ Has(calls, c)
      /\ \A x : Has(calls', x) => Has(calls, x) /\ Before(calls, c, x)
      /\ \A x : Has(calls, x) => x = c \/ Has(calls', x)
      /\ \A x, y : Before(calls', x, y) => Before(calls, x, y)
  BY <1>1, TailHas DEF ViewerTypeOK
<1>3. /\ awaiting' \in Seq(Call)
      /\ \A x : Has(awaiting', x) <=> Has(awaiting, x) \/ x = c
      /\ \A x, y : Before(awaiting', x, y) => Before(awaiting, x, y) \/ (Has(awaiting, x) /\ y = c)
  BY <1>1, <1>2, AppendHas DEF ViewerTypeOK
<1>4. /\ \A x : Pends(x)' <=> Pends(x)
      /\ \A x, y : PendsBefore(x, y)' => PendsBefore(x, y)
  BY <1>2, <1>3 DEF Pends, PendsBefore
<1>5. AwaitingKinds'
  BY <1>1, <1>3 DEF CallsInv, AwaitingKinds
<1>6. PICK d : d = SetDiff(viewer, requestVersion)
  OBVIOUS
<1>7. /\ editors' \subseteq Viewers /\ monaco' \in {"unloaded", "loading", "ready"}
      /\ shows' \in [Viewers -> {None} \cup Loads]
      /\ UNCHANGED <<editors, shows>>
  BY DEF ViewerTypeOK
<1> QED BY <1>2, <1>3, <1>4, <1>5, <1>6, <1>7, BrowserKeeps

(* or it drops the models of the editor or nothing. *)
LEMMA DropKeeps ==
  ASSUME ViewerInv, calls # <<>>, calls' = Tail(calls),
         UNCHANGED <<page, viewer, phase, disposed, awaiting, monaco>>,
         shows' \in [Viewers -> {None} \cup Loads],
         \A v \in Viewers : shows'[v] \in {shows[v], None},
         \/ Head(calls).fn \in {"clear", "dispose"}
         \/ Head(calls).fn # "init" /\ Head(calls).on \notin editors,
         editors' \subseteq editors,
         \A v \in editors \ editors' : Head(calls).fn = "dispose" /\ Head(calls).on = v
  PROVE  ViewerInv'
<1> USE DEF ViewerInv
<1>1. PICK c : c = Head(calls)
  OBVIOUS
<1>2. /\ c \in Call /\ calls' \in Seq(Call) /\ Has(calls, c)
      /\ \A x : Has(calls', x) => Has(calls, x)
      /\ \A x : Has(calls, x) => x = c \/ Has(calls', x)
      /\ \A x, y : Before(calls', x, y) => Before(calls, x, y)
  BY <1>1, TailHas DEF ViewerTypeOK
<1>3. /\ \A x : Pends(x)' => Pends(x)
      /\ \A x : Pends(x) => Pends(x)' \/ x = c
      /\ \A x, y : PendsBefore(x, y)' => PendsBefore(x, y)
  BY <1>2 DEF Pends, PendsBefore
<1>4. AwaitingKinds'
  BY DEF CallsInv, AwaitingKinds
<1>5. PICK d : d = SetDiff(viewer, requestVersion)
  OBVIOUS
<1>6. \A v \in Viewers \ disposed : v \in editors => v \in editors'
  <2> SUFFICES ASSUME NEW v \in editors \ editors' PROVE v \in disposed
    OBVIOUS
  <2>1. c = DisposeCall(v) /\ v \in Viewers
    BY <1>1, <1>2, CallKinds DEF ViewerTypeOK
  <2> QED BY <1>2, <2>1 DEF CallsInv, DisposedOnly, Pends
<1>7. viewer # None /\ Pends(d) => Pends(d)'
  <2> SUFFICES ASSUME viewer # None, Pends(d), d = c PROVE FALSE
    BY <1>3
  <2>1. d.fn = "setDiff" /\ d.on = viewer /\ viewer \in Viewers
    BY <1>5, CallsDiffer DEF ViewerTypeOK
  <2>2. viewer \notin editors /\ requestVersion \in Loads
    BY <1>1, <1>2, <1>5, <2>1, CallKinds, CallsDiffer
  <2>3. phase[viewer] = "ready"
    BY <1>5, <2>1, <2>2 DEF CallsInv, NothingBeforeReady
  <2> QED BY <2>1, <2>2, <2>3 DEF CallsInv, EditorThere, ServerInv, ViewerThere
<1>8. editors' \subseteq Viewers /\ awaiting' \in Seq(Call)
      /\ monaco' \in {"unloaded", "loading", "ready"}
  BY DEF ViewerTypeOK
<1> QED BY <1>2, <1>3, <1>4, <1>5, <1>6, <1>7, <1>8, BrowserKeeps

LEMMA ReceiveKeeps == ASSUME ViewerInv, Receive PROVE ViewerInv'
<1> USE DEF Receive, browser
<1>1. /\ shows \in [Viewers -> {None} \cup Loads] /\ editors \subseteq Viewers
      /\ calls # <<>> /\ calls' = Tail(calls) /\ UNCHANGED <<page, viewer, phase, disposed>>
  BY DEF ViewerInv, ViewerTypeOK
<1>2. CASE Head(calls).fn \in {"init", "setDiff"} /\ AwaitMonaco(Head(calls))
  BY <1>1, <1>2, AwaitKeeps
<1>3. CASE /\ Head(calls).fn = "clear" /\ DropModels(Head(calls).on) /\ UNCHANGED editors
  <2>1. /\ shows' \in [Viewers -> {None} \cup Loads]
        /\ \A v \in Viewers : shows'[v] \in {shows[v], None}
    BY <1>1, <1>3 DEF DropModels
  <2> QED BY <1>1, <1>3, <2>1, DropKeeps DEF DropModels
<1>4. CASE /\ Head(calls).fn = "dispose" /\ DropModels(Head(calls).on)
           /\ editors' = editors \ {Head(calls).on}
  <2>1. /\ shows' \in [Viewers -> {None} \cup Loads]
        /\ \A v \in Viewers : shows'[v] \in {shows[v], None}
    BY <1>1, <1>4 DEF DropModels
  <2> QED BY <1>1, <1>4, <2>1, DropKeeps DEF DropModels
<1>5. CASE /\ Head(calls).fn # "init" /\ Head(calls).on \notin editors /\ UNCHANGED browser
  BY <1>1, <1>5, DropKeeps
<1> QED BY <1>2, <1>3, <1>4, <1>5

(* The rest of init, *)
LEMMA InitEndsKeeps ==
  ASSUME ViewerInv, awaiting # <<>>, awaiting' = Tail(awaiting),
         NEW v \in Viewers, Head(awaiting) = InitCall(v),
         editors' = editors \cup {v}, phase' = [phase EXCEPT ![v] = "replied"],
         UNCHANGED <<page, viewer, disposed, calls, monaco, shows>>
  PROVE  ViewerInv'
<1> USE DEF ViewerInv, page
<1>1. PICK c : c = InitCall(v)
  OBVIOUS
<1>2. /\ awaiting' \in Seq(Call) /\ Has(awaiting, c)
      /\ \A x : Has(awaiting', x) => Has(awaiting, x) /\ Before(awaiting, c, x)
      /\ \A x : Has(awaiting, x) => x = c \/ Has(awaiting', x)
      /\ \A x, y : Before(awaiting', x, y) => Before(awaiting, x, y)
  BY <1>1, TailHas DEF ViewerTypeOK
<1>3. /\ \A x : Pends(x)' => Pends(x) /\ PendsBefore(c, x)
      /\ \A x : Pends(x) => Pends(x)' \/ x = c
      /\ \A x, y : PendsBefore(x, y)' => PendsBefore(x, y)
  BY <1>2 DEF Pends, PendsBefore
<1>4. phase[v] = "init" /\ ~Pends(c)'
  BY <1>1, <1>2, <1>3 DEF CallsInv, InitOnce, Pends
<1>5. /\ phase'[v] = "replied" /\ phase' \in [Viewers -> Phase]
      /\ \A w \in Viewers \ {v} : phase'[w] = phase[w]
  BY DEF ViewerTypeOK, Phase
<1>6. ViewerTypeOK'
  BY <1>2, <1>5 DEF ViewerTypeOK
<1>7. ServerInv'
  <2>1. \A w \in Viewers : phase[w] # "none" => phase'[w] # "none"
    BY <1>5
  <2>2. WaitsForSome'
    BY <2>1 DEF ServerInv, WaitsForSome, Waits
  <2>3. ViewerThere'
    BY <2>1, ViewerNumbers DEF ServerInv, ViewerThere, ViewerTypeOK
  <2> QED BY <2>2, <2>3 DEF ServerInv, SweepSteps, LoadsStarted
<1>8. CallsInv'
  <2>1. InitOnce'
    <3> SUFFICES ASSUME NEW w \in Viewers
                 PROVE  /\ Pends(InitCall(w))' => phase'[w] = "init"
                        /\ ~PendsBefore(InitCall(w), InitCall(w))'
      BY DEF InitOnce
    <3>1. Pends(InitCall(w))' => phase'[w] = "init"
      BY <1>1, <1>3, <1>4, <1>5 DEF CallsInv, InitOnce
    <3>2. ~PendsBefore(InitCall(w), InitCall(w))'
      BY <1>3 DEF CallsInv, InitOnce
    <3> QED BY <3>1, <3>2
  <2>2. AwaitingKinds' /\ DisposedOnly' /\ SentOnly'
    BY <1>2, <1>3 DEF CallsInv, AwaitingKinds, DisposedOnly, SentOnly
  <2>3. NothingBeforeReady'
    BY <1>3, <1>4, <1>5 DEF CallsInv, NothingBeforeReady
  <2>4. EditorThere'
    BY <1>5 DEF CallsInv, EditorThere
  <2> QED BY <2>1, <2>2, <2>3, <2>4 DEF CallsInv
<1>9. ASSUME NewestInv PROVE NewestInv'
  <2>1. \A w \in Viewers : phase[w] = "ready" => phase'[w] = "ready"
    BY <1>4, <1>5
  <2>2. \A m \in Loads, w \in Viewers : WaitsToSet(m, w)' => WaitsToSet(m, w)
    BY DEF WaitsToSet
  <2>3. PICK d : d = SetDiff(viewer, requestVersion)
    OBVIOUS
  <2>4. Pends(d) => Pends(SetDiff(viewer, requestVersion))'
    <3>1. d # c /\ d = SetDiff(viewer', requestVersion')
      BY <1>1, <2>3, CallsDiffer
    <3> QED BY <1>3, <3>1
  <2> QED BY <1>3, <1>7, <1>9, <2>1, <2>2, <2>3, <2>4, NewestKept
<1> QED BY <1>6, <1>7, <1>8, <1>9

(* and of setDiff. *)
LEMMA SetDiffEndsKeeps ==
  ASSUME ViewerInv, awaiting # <<>>, awaiting' = Tail(awaiting),
         NEW v \in Viewers, NEW l \in Loads, Head(awaiting) = SetDiff(v, l),
         shows' = [shows EXCEPT ![v] = l],
         UNCHANGED <<page, viewer, phase, disposed, calls, monaco, editors>>
  PROVE  ViewerInv'
<1> USE DEF ViewerInv, page
<1>1. PICK c : c = SetDiff(v, l)
  OBVIOUS
<1>2. /\ awaiting' \in Seq(Call) /\ Has(awaiting, c)
      /\ \A x : Has(awaiting', x) => Has(awaiting, x) /\ Before(awaiting, c, x)
      /\ \A x : Has(awaiting, x) => x = c \/ Has(awaiting', x)
      /\ \A x, y : Before(awaiting', x, y) => Before(awaiting, x, y)
  BY <1>1, TailHas DEF ViewerTypeOK
<1>3. /\ Pends(c)
      /\ \A x : Pends(x)' => Pends(x) /\ PendsBefore(c, x)
      /\ \A x : Pends(x) => Pends(x)' \/ x = c
      /\ \A x, y : PendsBefore(x, y)' => PendsBefore(x, y)
  BY <1>2 DEF Pends, PendsBefore
<1>4. /\ shows'[v] = l /\ shows' \in [Viewers -> {None} \cup Loads]
      /\ \A w \in Viewers \ {v} : shows'[w] = shows[w]
  BY DEF ViewerTypeOK
<1>5. ViewerTypeOK'
  BY <1>2, <1>4 DEF ViewerTypeOK
<1>6. ServerInv'
  BY DEF ServerInv, WaitsForSome, Waits, SweepSteps, LoadsStarted, ViewerThere
<1>7. CallsInv'
  <2>1. AwaitingKinds' /\ InitOnce' /\ DisposedOnly' /\ SentOnly' /\ EditorThere'
    BY <1>2, <1>3 DEF CallsInv, AwaitingKinds, InitOnce, DisposedOnly, SentOnly, EditorThere
  <2>2. phase[v] = "ready"
    BY <1>1, <1>3 DEF CallsInv, NothingBeforeReady
  <2>3. NothingBeforeReady'
    BY <1>3, <1>4, <2>2 DEF CallsInv, NothingBeforeReady
  <2> QED BY <2>1, <2>3 DEF CallsInv
<1>8. ASSUME NewestInv PROVE NewestInv'
  <2> USE DEF NewestInv
  <2>1. /\ Watched' <=> Watched
        /\ Watched => viewer \in Viewers /\ requestVersion \in Loads
    BY DEF Watched, ServerInv, ViewerThere, ViewerTypeOK
  <2>2. Watched /\ Untouched(viewer) => Untouched(viewer)'
    <3> SUFFICES ASSUME Watched, Untouched(viewer) PROVE Untouched(viewer)'
      OBVIOUS
    <3>1. v # viewer
      BY <1>1, <1>3 DEF Untouched
    <3> QED BY <1>3, <1>4, <2>1, <3>1 DEF Untouched, WaitsToSet
  <2>3. ClearsShown' /\ TextIsTaken' /\ TextIsSet'
    BY <1>8, <2>1, <2>2 DEF ClearsShown, TextIsTaken, TextIsSet
  <2>4. EarlierIsReady' /\ EarlierIsOver' /\ NewestIsLast'
    BY <1>3, <1>8, <2>1 DEF EarlierIsReady, EarlierIsOver, NewestIsLast, WaitsToSet
  <2>5. NewestIsShown'
    <3> SUFFICES ASSUME Watched, diff = "text", step[requestVersion] \in {"set", "done"}
                 PROVE  \/ Pends(SetDiff(viewer, requestVersion))'
                        \/ /\ shows'[viewer] \in {None, requestVersion}
                           /\ \A m \in Loads \ {requestVersion} : ~Pends(SetDiff(viewer, m))'
      BY <2>1 DEF NewestIsShown
    <3>1. PICK d : d = SetDiff(viewer, requestVersion)
      OBVIOUS
    <3>2. d = SetDiff(viewer', requestVersion')
      BY <3>1
    <3>3. CASE Pends(d) /\ d # c
      BY <1>3, <3>2, <3>3
    <3>4. CASE Pends(d) /\ d = c
      <4>1. v = viewer /\ l = requestVersion
        <5>1. SetDiff(v, l) = SetDiff(viewer, requestVersion)
          BY <1>1, <3>1, <3>4
        <5> QED BY <5>1, CallsDiffer
      <4>2. \A m \in Loads \ {requestVersion} : ~Pends(SetDiff(viewer, m))'
        BY <1>1, <1>3, <1>8, <4>1 DEF NewestIsLast
      <4> QED BY <1>4, <4>1, <4>2
    <3>5. CASE ~Pends(d)
      <4>1. /\ shows[viewer] \in {None, requestVersion}
            /\ \A m \in Loads \ {requestVersion} : ~Pends(SetDiff(viewer, m))
        BY <1>8, <3>1, <3>5 DEF NewestIsShown
      <4>2. v # viewer
        BY <1>1, <1>3, <3>1, <3>5, <4>1
      <4> QED BY <1>3, <1>4, <2>1, <4>1, <4>2
    <3> QED BY <3>3, <3>4, <3>5
  <2> QED BY <2>3, <2>4, <2>5
<1> QED BY <1>5, <1>6, <1>7, <1>8

LEMMA GoOnKeeps == ASSUME ViewerInv, GoOn PROVE ViewerInv'
<1>1. PICK c : c = Head(awaiting)
  OBVIOUS
<1>2. c \in Call /\ Has(awaiting, c) /\ awaiting # <<>> /\ awaiting' = Tail(awaiting)
  BY <1>1, TailHas DEF GoOn, ViewerInv, ViewerTypeOK
<1>3. CASE c.fn = "init"
  <2>1. c.on \in Viewers /\ c = InitCall(c.on)
    BY <1>2, <1>3, CallKinds
  <2> QED BY <1>1, <1>2, <1>3, <2>1, InitEndsKeeps DEF GoOn
<1>4. CASE c.fn # "init"
  <2>1. c.fn = "setDiff"
    BY <1>2, <1>4 DEF ViewerInv, CallsInv, AwaitingKinds
  <2>2. c.on \in Viewers /\ c.of \in Loads /\ c = SetDiff(c.on, c.of)
    BY <1>2, <2>1, CallKinds
  <2> QED BY <1>1, <1>2, <1>4, <2>2, SetDiffEndsKeeps DEF GoOn
<1> QED BY <1>3, <1>4

LEMMA ViewerStutters == ASSUME ViewerInv, UNCHANGED viewerVars PROVE ViewerInv'
<1> USE DEF ViewerInv
<1>1. UNCHANGED <<page, viewer, phase, disposed, calls, monaco, awaiting, editors, shows>>
  BY DEF viewerVars, browser
<1>2. /\ \A x : Pends(x)' <=> Pends(x)
      /\ \A x, y : PendsBefore(x, y)' <=> PendsBefore(x, y)
  BY <1>1, NothingSent
<1>3. AwaitingKinds'
  BY <1>1 DEF CallsInv, AwaitingKinds
<1>4. PICK d : d = SetDiff(viewer, requestVersion)
  OBVIOUS
<1>5. /\ calls' \in Seq(Call) /\ awaiting' \in Seq(Call) /\ editors' \subseteq Viewers
      /\ monaco' \in {"unloaded", "loading", "ready"}
      /\ shows' \in [Viewers -> {None} \cup Loads]
  BY <1>1 DEF ViewerTypeOK
<1> QED BY <1>1, <1>2, <1>3, <1>4, <1>5, BrowserKeeps

LEMMA ViewerInvStep == ViewerInv /\ [ViewerNext]_viewerVars => ViewerInv'
<1> SUFFICES ASSUME ViewerInv, [ViewerNext]_viewerVars PROVE ViewerInv'
  OBVIOUS
<1>1. ASSUME NEW l \in Loads, SelectFile(l) \/ RestoreSelection(l) PROVE ViewerInv'
  BY <1>1, SelectKeeps, RestoreKeeps
<1>2. ASSUME NEW l \in {Sweep} \cup Loads, LoadNext(l) PROVE ViewerInv'
  BY <1>2, PollKeeps, GiveUpKeeps, FetchedKeeps, SetEndsKeeps, ThrowsKeeps DEF LoadNext
<1>3. CASE ClearSelectionIfStale
  <2>1. ClearSelection /\ restoring' \in {None} \cup Loads
    BY <1>3 DEF ClearSelectionIfStale, ViewerInv, ViewerTypeOK
  <2> QED BY <2>1, ClearKeeps
<1>4. CASE RestoreEnds
  BY <1>4, RestoreEndsKeeps
<1>5. CASE RemoveViewer \/ ReloadFails \/ ReloadBegins
  BY <1>5, RemoveViewerKeeps, ReloadFailsKeeps, ReloadBeginsKeeps
<1>6. ASSUME NEW v \in Viewers, Imported(v) \/ Initialized(v) PROVE ViewerInv'
  BY <1>6, ImportedKeeps, InitializedKeeps
<1>7. CASE Receive
  BY <1>7, ReceiveKeeps
<1>8. CASE MonacoLoaded
  BY <1>8, MonacoLoadedKeeps
<1>9. CASE GoOn
  BY <1>9, GoOnKeeps
<1>10. CASE UNCHANGED viewerVars
  BY <1>10, ViewerStutters
<1> QED BY <1>1, <1>2, <1>3, <1>4, <1>5, <1>6, <1>7, <1>8, <1>9, <1>10 DEF ViewerNext

LEMMA ViewerInvariant == ViewerSpec => []ViewerInv
<1> QED BY ViewerInvInit, ViewerInvStep, PTL DEF ViewerSpec

(* What the pane's variables range over, and that the spinner is on exactly while the
   newest load awaits its answer. *)
THEOREM ViewerTypeCorrect == ViewerSpec => []ViewerTypeOK
<1>1. ViewerInv => ViewerTypeOK
  BY DEF ViewerInv
<1> QED BY <1>1, ViewerInvariant, PTL

(* Whatever the user selects while the database, the agent, the editor and Monaco are
   awaited, whatever of it fails, and however often a failing reload takes the viewer away,
   the editor that is displayed at rest shows no other file than the selected one - when the
   polls of EnsureReadyAsync are not overtaken by the answers to a later load.  It is not
   said of the alert beside the editor (ErrorIsOfSelected). *)
THEOREM ShownIsAlwaysSelected == TimelyPolls => (ViewerSpec => []ShownIsSelected)
<1> SUFFICES ASSUME TimelyPolls PROVE ViewerSpec => []ShownIsSelected
  OBVIOUS
<1>1. ViewerInv => ShownIsSelected
  <2> SUFFICES ASSUME ViewerInv, AtRest, selected # None, viewer # None, diff = "text"
               PROVE  requestVersion = selected /\ shows[viewer] \in {None, requestVersion}
    BY DEF ShownIsSelected, Displayed
  <2> USE DEF ViewerInv
  <2>1. requestVersion = selected /\ requestVersion \in Loads /\ Watched
    BY DEF ServerInv, ViewerThere, ViewerTypeOK, Watched
  <2>2. step[requestVersion] = "done"
    BY <2>1, ViewerNumbers DEF AtRest, ServerInv, LoadsStarted
  <2>3. ~Pends(SetDiff(viewer, requestVersion))
    BY EmptyHas DEF AtRest, Pends
  <2> QED BY <2>1, <2>2, <2>3 DEF NewestInv, NewestIsShown
<1> QED BY <1>1, ViewerInvariant, PTL

-----------------------------------------------------------------------------
(* A viewer whose editor has been there: when it has been disposed and the editor is
   still there, the call that disposes of it is on its way. *)
Released(v) ==
  /\ phase[v] \in {"replied", "ready"}
  /\ v \in disposed \cap editors => Has(calls, DisposeCall(v))

LEMMA CallsGrow ==
  ASSUME calls \in Seq(Call), NEW c, calls' = Append(calls, c), NEW x, Has(calls, x)
  PROVE  Has(calls', x)
<1>1. Len(calls) \in Nat /\ DOMAIN calls = 1 .. Len(calls)
  BY LenProperties
<1>2. /\ DOMAIN calls' = 1 .. Len(calls) + 1
      /\ \A i \in 1 .. Len(calls) : calls'[i] = calls[i]
  BY <1>1
<1> QED BY <1>1, <1>2 DEF Has

(* The server waits or sends something: nothing else happens to the editor. *)
LEMMA ReleasedKept ==
  ASSUME ViewerTypeOK, NEW v \in Viewers, Released(v),
         phase'[v] = phase[v], UNCHANGED <<disposed, editors>>,
         calls' = calls \/ \E c : calls' = Append(calls, c)
  PROVE  Released(v)'
<1>1. calls \in Seq(Call)
  BY DEF ViewerTypeOK
<1>2. Has(calls, DisposeCall(v)) => Has(calls', DisposeCall(v))
  BY <1>1, CallsGrow
<1> QED BY <1>2 DEF Released, DisposeCall

(* Sent or not, CallWhenReady leaves the calls that were sent before. *)
LEMMA WhenReadySends ==
  ASSUME NEW l, NEW v, NEW call, NEW wait, NEW after, CallWhenReady(l, v, call, wait, after)
  PROVE  calls' = calls \/ \E c : calls' = Append(calls, c)
BY DEF CallWhenReady, Send

(* The steps of the page, but for those that take a viewer away. *)
LEMMA PageReleases ==
  ASSUME ViewerTypeOK, NEW v \in Viewers, Released(v),
         \/ \E l \in Loads : SelectFile(l) \/ RestoreSelection(l)
         \/ \E l \in {Sweep} \cup Loads : LoadNext(l)
         \/ ClearSelectionIfStale \/ RestoreEnds \/ ReloadBegins
  PROVE  Released(v)'
<1> USE DEF browser
<1>1. ASSUME NEW w \in Viewers, Render(w) PROVE phase'[v] = phase[v]
  BY <1>1 DEF Render, ViewerTypeOK, Released
<1>2. ASSUME NEW l \in Loads, SelectFile(l) PROVE Released(v)'
  <2>1. \E w \in Viewers : Render(w)
    BY <1>2 DEF SelectFile
  <2>2. UNCHANGED <<disposed, editors>> /\ (calls' = calls \/ \E c : calls' = Append(calls, c))
    BY <1>2, WhenReadySends DEF SelectFile
  <2> QED BY <1>1, <2>1, <2>2, ReleasedKept
<1>3. ASSUME NEW l \in Loads, RestoreSelection(l) PROVE Released(v)'
  <2>1. PICK w \in Viewers : Render(w) /\ CallWhenReady(l, w, Clear(w), "waitClear", "fetch")
    BY <1>3 DEF RestoreSelection
  <2>2. UNCHANGED <<disposed, editors>>
    BY <1>3 DEF RestoreSelection
  <2>3. calls' = calls \/ \E c : calls' = Append(calls, c)
    BY <2>1, WhenReadySends
  <2> QED BY <1>1, <2>1, <2>2, <2>3, ReleasedKept
<1>4. ASSUME NEW l \in {Sweep} \cup Loads, LoadNext(l) PROVE Released(v)'
  <2>1. CASE PollReady(l) \/ GiveUp(l)
    <3>1. UNCHANGED <<phase, disposed, editors>> /\ (calls' = calls \/ \E c : calls' = Append(calls, c))
      BY <2>1 DEF PollReady, GiveUp, LeaveOut, Proceed, Send
    <3> QED BY <3>1, ReleasedKept
  <2>2. CASE Fetched(l)
    <3>1. UNCHANGED <<phase, disposed, editors>>
      BY <2>2 DEF Fetched, Answer
    <3>2. calls' = calls \/ \E c : calls' = Append(calls, c)
      BY <2>2, WhenReadySends DEF Fetched, TakeAnswer
    <3> QED BY <3>1, <3>2, ReleasedKept
  <2>3. CASE SetEnds(l) \/ LoadThrows(l)
    BY <2>3, ReleasedKept DEF SetEnds, LoadThrows
  <2> QED BY <1>4, <2>1, <2>2, <2>3 DEF LoadNext
<1>5. ASSUME ClearSelection PROVE Released(v)'
  <2>1. UNCHANGED <<phase, disposed, editors>> /\ (calls' = calls \/ \E c : calls' = Append(calls, c))
    BY <1>5, WhenReadySends DEF ClearSelection
  <2> QED BY <2>1, ReleasedKept
<1>6. CASE ClearSelectionIfStale \/ RestoreEnds
  <2>1. ClearSelection \/ UNCHANGED <<phase, disposed, editors, calls>>
    BY <1>6 DEF ClearSelectionIfStale, RestoreEnds
  <2> QED BY <1>5, <2>1, ReleasedKept
<1>7. CASE ReloadBegins
  <2>1. phase'[v] = phase[v]
    BY <1>1, <1>7 DEF ReloadBegins
  <2>2. UNCHANGED <<disposed, editors, calls>>
    BY <1>7 DEF ReloadBegins
  <2> QED BY <2>1, <2>2, ReleasedKept
<1> QED BY <1>2, <1>3, <1>4, <1>6, <1>7

LEMMA RemoveReleases ==
  ASSUME ViewerTypeOK, NEW v \in Viewers, Released(v), RemoveViewer \/ ReloadFails
  PROVE  Released(v)'
<1>1. UNCHANGED <<phase, editors>> /\ disposed' = disposed \cup ({viewer} \ {None})
      /\ calls \in Seq(Call) /\ Leave /\ v # None
  BY ViewerNumbers DEF RemoveViewer, ReloadFails, Leave, browser, ViewerTypeOK
<1>2. CASE viewer = v
  <2>1. calls' = Append(calls, DisposeCall(v))
    BY <1>1, <1>2 DEF Leave, Send, Released, DisposeCall
  <2>2. DisposeCall(v) \in Call
    BY DEF DisposeCall, Call
  <2>3. Has(calls', DisposeCall(v))
    BY <1>1, <2>1, <2>2, AppendHas
  <2>4. Has(calls, DisposeCall(v))'
    BY <2>3 DEF Has, DisposeCall
  <2> QED BY <1>1, <2>4 DEF Released
<1>3. CASE viewer # v
  <2>1. calls' = calls \/ \E c : calls' = Append(calls, c)
    BY <1>1 DEF Leave, Send
  <2>2. Has(calls, DisposeCall(v)) => Has(calls', DisposeCall(v))
    BY <1>1, <2>1, CallsGrow
  <2> QED BY <1>1, <1>3, <2>2 DEF Released, DisposeCall
<1> QED BY <1>2, <1>3

LEMMA ReceiveReleases ==
  ASSUME ViewerTypeOK, NEW v \in Viewers, Released(v), Receive PROVE Released(v)'
<1>1. /\ calls # <<>> /\ calls \in Seq(Call) /\ calls' = Tail(calls)
      /\ UNCHANGED <<phase, disposed>>
  BY DEF Receive, ViewerTypeOK
<1>2. editors' \subseteq editors
  BY DEF Receive, AwaitMonaco, browser
<1>3. CASE Head(calls) = DisposeCall(v)
  <2>1. v \notin editors'
    BY <1>3 DEF Receive, DisposeCall, browser
  <2> QED BY <1>1, <2>1 DEF Released
<1>4. CASE Head(calls) # DisposeCall(v)
  <2>1. Has(calls, DisposeCall(v)) => Has(calls', DisposeCall(v))
    BY <1>1, <1>4, TailHas
  <2> QED BY <1>1, <1>2, <2>1 DEF Released, DisposeCall
<1> QED BY <1>3, <1>4

LEMMA BrowserReleases ==
  ASSUME ViewerInv, NEW v \in Viewers, Released(v), GoOn PROVE Released(v)'
<1>1. /\ awaiting # <<>> /\ awaiting \in Seq(Call) /\ UNCHANGED <<disposed, calls>>
      /\ phase \in [Viewers -> Phase]
  BY DEF GoOn, ViewerInv, ViewerTypeOK
<1>2. PICK call : call = Head(awaiting)
  OBVIOUS
<1>3. call \in Call /\ Pends(call)
  BY <1>1, <1>2, TailHas DEF Pends
<1>4. CASE call.fn = "init"
  <2>1. call.on \in Viewers /\ call = InitCall(call.on)
    BY <1>3, <1>4 DEF Call, InitCall
  <2>2. phase[call.on] = "init"
    BY <1>3, <2>1 DEF ViewerInv, CallsInv, InitOnce
  <2>3. call.on # v
    BY <2>2 DEF Released
  <2>4. editors' = editors \cup {call.on} /\ phase' = [phase EXCEPT ![call.on] = "replied"]
    BY <1>2, <1>4 DEF GoOn
  <2>5. phase'[v] = phase[v] /\ (v \in editors' => v \in editors)
    BY <1>1, <2>1, <2>3, <2>4
  <2> QED BY <1>1, <2>5 DEF Released, Has, DisposeCall
<1>5. CASE call.fn # "init"
  <2>1. UNCHANGED <<editors, phase>>
    BY <1>2, <1>5 DEF GoOn
  <2> QED BY <1>1, <2>1 DEF Released, Has, DisposeCall
<1> QED BY <1>4, <1>5

LEMMA ReleasedStays ==
  ASSUME ViewerInv, NEW v \in Viewers, Released(v), [ViewerNext]_viewerVars PROVE Released(v)'
<1>1. ViewerTypeOK
  BY DEF ViewerInv
<1>2. CASE \E w \in Viewers : Imported(w) \/ Initialized(w)
  <2>1. PICK w \in Viewers : Imported(w) \/ Initialized(w)
    BY <1>2
  <2>2. UNCHANGED <<disposed, editors>> /\ (calls' = calls \/ \E c : calls' = Append(calls, c))
    BY <2>1 DEF Imported, Initialized, Send, browser
  <2>3. calls \in Seq(Call) /\ phase \in [Viewers -> Phase]
    BY <1>1 DEF ViewerTypeOK
  <2>4. phase'[v] \in {"replied", "ready"}
    BY <2>1, <2>3 DEF Imported, Initialized, Released
  <2>5. Has(calls, DisposeCall(v)) => Has(calls', DisposeCall(v))
    BY <2>2, <2>3, CallsGrow
  <2> QED BY <2>2, <2>4, <2>5 DEF Released, DisposeCall
<1>3. CASE MonacoLoaded \/ UNCHANGED viewerVars
  BY <1>1, <1>3, ReleasedKept DEF MonacoLoaded, viewerVars, browser
<1> QED BY <1>1, <1>2, <1>3, PageReleases, RemoveReleases, ReceiveReleases, BrowserReleases
        DEF ViewerNext

(* A viewer that has been initialized stays so. *)
LEMMA PhaseStays ==
  ASSUME ViewerInv, NEW v \in Viewers, phase[v] \in {"replied", "ready"}, [ViewerNext]_viewerVars
  PROVE  phase'[v] \in {"replied", "ready"}
<1>1. phase \in [Viewers -> Phase] /\ awaiting \in Seq(Call)
  BY DEF ViewerInv, ViewerTypeOK
<1>2. ASSUME NEW l \in Loads, SelectFile(l) \/ RestoreSelection(l) PROVE phase'[v] = phase[v]
  <2>1. \E w \in Viewers : Render(w)
    BY <1>2 DEF SelectFile, RestoreSelection
  <2> QED BY <1>1, <2>1 DEF Render
<1>3. ASSUME NEW l \in {Sweep} \cup Loads, LoadNext(l) PROVE phase' = phase
  BY <1>3 DEF LoadNext, PollReady, GiveUp, LeaveOut, Proceed, Fetched, Answer, SetEnds, LoadThrows
<1>4. CASE ClearSelectionIfStale \/ RestoreEnds \/ RemoveViewer \/ ReloadFails
  BY <1>4 DEF ClearSelectionIfStale, RestoreEnds, RemoveViewer, ReloadFails, ClearSelection
<1>5. CASE ReloadBegins
  BY <1>1, <1>5 DEF ReloadBegins, Render
<1>6. ASSUME NEW w \in Viewers, Imported(w) \/ Initialized(w) PROVE phase'[v] \in {"replied", "ready"}
  BY <1>1, <1>6 DEF Imported, Initialized
<1>7. CASE Receive \/ MonacoLoaded \/ UNCHANGED viewerVars
  BY <1>7 DEF Receive, MonacoLoaded, viewerVars
<1>8. CASE GoOn
  BY <1>1, <1>8 DEF GoOn
<1> QED BY <1>2, <1>3, <1>4, <1>5, <1>6, <1>7, <1>8 DEF ViewerNext

(* An editor that is new is that of a viewer whose init has gone on. *)
LEMMA EditorIsNew ==
  ASSUME ViewerInv, [ViewerNext]_viewerVars, NEW v \in editors', v \notin editors, v \in Viewers
  PROVE  phase'[v] = "replied"
<1>1. phase \in [Viewers -> Phase]
  BY DEF ViewerInv, ViewerTypeOK
<1>2. CASE GoOn
  BY <1>1, <1>2 DEF GoOn
<1>3. CASE editors' \subseteq editors
  BY <1>3
<1>4. GoOn \/ editors' \subseteq editors
  <2> USE DEF browser
  <2>1. ASSUME NEW l \in Loads, SelectFile(l) \/ RestoreSelection(l) PROVE editors' = editors
    BY <2>1 DEF SelectFile, RestoreSelection
  <2>2. ASSUME NEW l \in {Sweep} \cup Loads, LoadNext(l) PROVE editors' = editors
    BY <2>2 DEF LoadNext, PollReady, GiveUp, LeaveOut, Proceed, Fetched, Answer, SetEnds, LoadThrows
  <2>3. CASE ClearSelectionIfStale \/ RestoreEnds \/ RemoveViewer \/ ReloadFails \/ ReloadBegins
    BY <2>3 DEF ClearSelectionIfStale, RestoreEnds, RemoveViewer, ReloadFails, ReloadBegins,
       ClearSelection
  <2>4. ASSUME NEW w \in Viewers, Imported(w) \/ Initialized(w) PROVE editors' = editors
    BY <2>4 DEF Imported, Initialized
  <2>5. CASE Receive
    BY <2>5 DEF Receive, AwaitMonaco
  <2>6. CASE MonacoLoaded \/ UNCHANGED viewerVars
    BY <2>6 DEF MonacoLoaded, viewerVars
  <2> QED BY <2>1, <2>2, <2>3, <2>4, <2>5, <2>6 DEF ViewerNext
<1> QED BY <1>2, <1>3, <1>4

(* A viewer that has its editor while it is on the page leaves none behind: the editors
   that nobody releases (EditorsAreReleased) are those of viewers that were removed while
   their init awaited Monaco (DisposeAsync, dispose and init of GitDiffViewer). *)
THEOREM EditorsLeave == ViewerSpec => EditorGoesWithViewer
<1> DEFINE Inited == \A v \in editors : v \in Viewers => phase[v] \in {"replied", "ready"}
<1>1. ViewerInit => Inited
  BY DEF ViewerInit
<1>2. ViewerInv /\ Inited /\ [ViewerNext]_viewerVars => Inited'
  <2> SUFFICES ASSUME ViewerInv, Inited, [ViewerNext]_viewerVars, NEW v \in editors', v \in Viewers
               PROVE  phase'[v] \in {"replied", "ready"}
    OBVIOUS
  <2>1. CASE v \in editors
    <3>1. phase[v] \in {"replied", "ready"}
      BY <2>1
    <3> QED BY <3>1, PhaseStays
  <2>2. CASE v \notin editors
    BY <2>2, EditorIsNew
  <2> QED BY <2>1, <2>2
<1>3. ASSUME NEW v \in Viewers
      PROVE  ViewerSpec => [](v \in editors \ disposed => [](AtRest /\ v \in disposed => v \notin editors))
  <2>1. Inited /\ v \in editors \ disposed => Released(v)
    BY DEF Released
  <2>2. Released(v) => (AtRest /\ v \in disposed => v \notin editors)
    BY EmptyHas DEF Released, AtRest
  <2>3. ViewerInv /\ [ViewerNext]_viewerVars /\ Released(v) => Released(v)'
    BY ReleasedStays
  <2> QED BY <1>1, <1>2, <2>1, <2>2, <2>3, ViewerInvariant, PTL DEF ViewerSpec
<1> QED BY <1>3 DEF EditorGoesWithViewer
=============================================================================
