--------------------------- MODULE WatcherLeases ---------------------------
(***************************************************************************)
(* GitRepositoryWatcherManager (agent) for one repository: a file system   *)
(* watcher is shared by the commands that lease it, and is disposed by a   *)
(* timer some time after the last lease.                                   *)
(*                                                                         *)
(* The manager takes no lock.  The atomic steps are the operations of the  *)
(* ConcurrentDictionary and of Interlocked, and the single reads and       *)
(* writes of the field _idleTimer.                                         *)
(***************************************************************************)
EXTENDS Integers, FiniteSets

CONSTANTS
  Leases,       (* the calls of Acquire, each followed by one Release       *)
  Entries,      (* bound: the WatcherEntry objects that can be created      *)
  NoEntry

ASSUME LeasesAssumption  == IsFiniteSet(Leases)
ASSUME EntriesAssumption == NoEntry \notin Entries

VARIABLES
  table,        (* the entry of the repository in _entries                  *)
  alive,        (* the entries whose watcher runs                           *)
  leaseCount,   (* WatcherEntry.LeaseCount                                  *)
  idleTimer,    (* _idleTimer holds an armed timer                          *)
  strayTimer,   (* an armed timer that _idleTimer holds no longer           *)
  callback,     (* where the callback of an elapsed timer stands            *)
  lease,        (* where a lease stands                                     *)
  mine          (* the entry its thread holds in a local variable           *)

timers     == <<idleTimer, strayTimer>>
thread     == <<lease, mine>>
leasesVars == <<table, alive, leaseCount, timers, callback, thread>>

LeaseStep == {"before", "created", "got", "disposed", "cleared", "held",
              "releasing", "idle", "disarmed", "ended"}

LeasesTypeOK ==
  /\ table \in Entries \cup {NoEntry}
  /\ alive \subseteq Entries
  /\ leaseCount \in [Entries -> -Cardinality(Leases) .. Cardinality(Leases)]
  /\ idleTimer \in [Entries -> BOOLEAN]
  /\ strayTimer \in [Entries -> BOOLEAN]
  /\ callback \in [Entries -> {"none", "checked", "removed"}]
  /\ lease \in [Leases -> LeaseStep]
  /\ mine \in [Leases -> Entries \cup {NoEntry}]

LeasesInit ==
  /\ table = NoEntry
  /\ alive = {}
  /\ leaseCount = [e \in Entries |-> 0]
  /\ idleTimer = [e \in Entries |-> FALSE]
  /\ strayTimer = [e \in Entries |-> FALSE]
  /\ callback = [e \in Entries |-> "none"]
  /\ lease = [l \in Leases |-> "before"]
  /\ mine = [l \in Leases |-> NoEntry]

(* An object nothing refers to any more can stand for a new one. *)
New(e) ==
  /\ e \notin alive /\ e # table
  /\ ~idleTimer[e] /\ ~strayTimer[e] /\ callback[e] = "none"
  /\ \A l \in Leases : mine[l] # e

Go(l, from, to) == lease[l] = from /\ lease' = [lease EXCEPT ![l] = to]
Hold(l, e)      == mine' = [mine EXCEPT ![l] = e]

-----------------------------------------------------------------------------
(* Acquire, GetOrAdd: an entry is there, or its factory creates one - and with
   it a running watcher - before anything is added. *)
GetEntry(l) ==
  /\ table # NoEntry
  /\ Go(l, "before", "got")
  /\ Hold(l, table)
  /\ UNCHANGED <<table, alive, leaseCount, timers, callback>>

CreateEntry(l) ==
  /\ table = NoEntry
  /\ Go(l, "before", "created")
  /\ \E e \in Entries :
       /\ New(e)
       /\ Hold(l, e)
       /\ alive' = alive \cup {e}
       /\ leaseCount' = [leaseCount EXCEPT ![e] = 0]
  /\ UNCHANGED <<table, timers, callback>>

(* GetOrAdd adds it, unless another thread was faster: then that one's entry is
   returned and the new one forgotten. *)
AddEntry(l) ==
  /\ Go(l, "created", "got")
  /\ table' = IF table = NoEntry THEN mine[l] ELSE table
  /\ Hold(l, table')
  /\ UNCHANGED <<alive, leaseCount, timers, callback>>

(* CancelIdleDisposal: dispose the timer, then clear the field. *)
CancelTimer(l) ==
  /\ Go(l, "got", "disposed")
  /\ idleTimer' = [idleTimer EXCEPT ![mine[l]] = FALSE]
  /\ UNCHANGED <<table, alive, leaseCount, strayTimer, callback, mine>>

(* What the field holds by then goes on without it. *)
ClearTimer(l) ==
  LET e == mine[l] IN
  /\ Go(l, "disposed", "cleared")
  /\ strayTimer' = [strayTimer EXCEPT ![e] = @ \/ idleTimer[e]]
  /\ idleTimer' = [idleTimer EXCEPT ![e] = FALSE]
  /\ UNCHANGED <<table, alive, leaseCount, callback, mine>>

IncrementLease(l) ==
  /\ Go(l, "cleared", "held")
  /\ leaseCount' = [leaseCount EXCEPT ![mine[l]] = @ + 1]
  /\ UNCHANGED <<table, alive, timers, callback, mine>>

-----------------------------------------------------------------------------
(* Release looks the entry up again, by key. *)
Release(l) ==
  /\ \/ table = NoEntry /\ Go(l, "held", "ended") /\ UNCHANGED mine
     \/ table # NoEntry /\ Go(l, "held", "releasing") /\ Hold(l, table)
  /\ UNCHANGED <<table, alive, leaseCount, timers, callback>>

(* Mutant: schedules the disposal only when the count is exactly right. *)
DecrementLeaseSkips(l) ==
  /\ lease[l] = "releasing"
  /\ leaseCount' = [leaseCount EXCEPT ![mine[l]] = @ - 1]
  /\ IF leaseCount'[mine[l]] = 1 THEN Go(l, "releasing", "idle")
                                 ELSE Go(l, "releasing", "ended")
  /\ UNCHANGED <<table, alive, timers, callback, mine>>

DecrementLease(l) ==
  /\ lease[l] = "releasing"
  /\ leaseCount' = [leaseCount EXCEPT ![mine[l]] = @ - 1]
  /\ IF leaseCount'[mine[l]] > 0 THEN Go(l, "releasing", "ended")
                                 ELSE Go(l, "releasing", "idle")
  /\ UNCHANGED <<table, alive, timers, callback, mine>>

(* ScheduleIdleDisposal: dispose the timer, then store a new one. *)
DisposeTimer(l) ==
  /\ Go(l, "idle", "disarmed")
  /\ idleTimer' = [idleTimer EXCEPT ![mine[l]] = FALSE]
  /\ UNCHANGED <<table, alive, leaseCount, strayTimer, callback, mine>>

(* Mutant: nothing remembers that the lease has been released. *)
ArmTimerAgain(l) ==
  LET e == mine[l] IN
  /\ Go(l, "disarmed", "held")
  /\ strayTimer' = [strayTimer EXCEPT ![e] = @ \/ idleTimer[e]]
  /\ idleTimer' = [idleTimer EXCEPT ![e] = TRUE]
  /\ UNCHANGED <<table, alive, leaseCount, callback, mine>>

ArmTimer(l) ==
  LET e == mine[l] IN
  /\ Go(l, "disarmed", "ended")
  /\ strayTimer' = [strayTimer EXCEPT ![e] = @ \/ idleTimer[e]]
  /\ idleTimer' = [idleTimer EXCEPT ![e] = TRUE]
  /\ UNCHANGED <<table, alive, leaseCount, callback, mine>>

-----------------------------------------------------------------------------
(* A timer elapses; its callback reads the count ... *)
Elapse(e) ==
  /\ callback[e] = "none"
  /\ \/ /\ idleTimer[e]
        /\ idleTimer' = [idleTimer EXCEPT ![e] = FALSE]
        /\ UNCHANGED strayTimer
     \/ /\ strayTimer[e]
        /\ strayTimer' = [strayTimer EXCEPT ![e] = FALSE]
        /\ UNCHANGED idleTimer
  /\ callback' = [callback EXCEPT ![e] = IF leaseCount[e] <= 0 THEN "checked" ELSE @]
  /\ UNCHANGED <<table, alive, leaseCount, thread>>

(* Mutant: removes what it finds under the key. *)
RemoveByKey(e) ==
  /\ callback[e] = "checked"
  /\ table' = NoEntry
  /\ callback' = [callback EXCEPT ![e] = IF table = NoEntry THEN "none" ELSE "removed"]
  /\ UNCHANGED <<alive, leaseCount, timers, thread>>

(* Mutant: the watcher is disposed first and taken out of the table later. *)
RemoveLate(e) ==
  /\ callback[e] = "checked"
  /\ callback' = [callback EXCEPT ![e] = IF table = e THEN "removed" ELSE "none"]
  /\ alive' = IF table = e THEN alive \ {e} ELSE alive
  /\ UNCHANGED <<table, leaseCount, timers, thread>>

(* ... removes the entry if it is still the one under the key ... *)
RemoveEntry(e) ==
  /\ callback[e] = "checked"
  /\ table' = IF table = e THEN NoEntry ELSE table
  /\ callback' = [callback EXCEPT ![e] = IF table = e THEN "removed" ELSE "none"]
  /\ UNCHANGED <<alive, leaseCount, timers, thread>>

(* ... and disposes it, its timer included. *)
DisposeEntry(e) ==
  /\ callback[e] = "removed"
  /\ callback' = [callback EXCEPT ![e] = "none"]
  /\ alive' = alive \ {e}
  /\ idleTimer' = [idleTimer EXCEPT ![e] = FALSE]
  /\ UNCHANGED <<table, leaseCount, strayTimer, thread>>

LeaseNext(l) ==
  \/ GetEntry(l) \/ CreateEntry(l) \/ AddEntry(l) \/ CancelTimer(l) \/ ClearTimer(l)
  \/ IncrementLease(l) \/ Release(l) \/ DecrementLease(l) \/ DisposeTimer(l) \/ ArmTimer(l)

TimerNext(e) == Elapse(e) \/ RemoveEntry(e) \/ DisposeEntry(e)

LeasesNext ==
  \/ \E l \in Leases : LeaseNext(l)
  \/ \E e \in Entries : TimerNext(e)

LeasesSpec == LeasesInit /\ [][LeasesNext]_leasesVars

(* Fairness: a command that holds a lease ends, threads go on, timers elapse.
   Nothing says that a command ever comes. *)
FairLeases ==
  /\ LeasesSpec
  /\ \A l \in Leases : WF_leasesVars(lease[l] # "before" /\ LeaseNext(l))
  /\ \A e \in Entries : WF_leasesVars(TimerNext(e))
-----------------------------------------------------------------------------
(* Leases find a running watcher: what is in the table has not been disposed,
   whatever the order of timers, releases and new leases. *)
TableIsAlive == table # NoEntry => table \in alive

(* A watcher that was in use and is no longer in the table is on its way to be
   disposed.  (For those that lost the race in GetOrAdd see WatchersAreReleased.) *)
RemovedIsDisposed ==
  \A e \in alive :
    table # e /\ (leaseCount[e] # 0 \/ idleTimer[e] \/ strayTimer[e] \/ callback[e] = "checked")
      => callback[e] = "removed"

(* Once the last lease has ended the watcher in the table goes away: neither a
   count that was decremented for another entry nor a lost timer keeps it. *)
IdleEntryLeaves ==
  (\A l \in Leases : lease[l] \in {"before", "ended"})
    ~> \/ table = NoEntry
       \/ \E l \in Leases : lease[l] \notin {"before", "ended"}

(* What that rests on, state by state: a watcher that nobody is using has a timer,
   or a callback that has read the count already - and the count lets it go, whatever
   was counted for an entry and released for its successor. *)
NoWatcherLeftBehind ==
  table # NoEntry /\ (\A l \in Leases : mine[l] = table => lease[l] = "ended") =>
    /\ leaseCount[table] <= 0
    /\ idleTimer[table] \/ strayTimer[table] \/ callback[table] = "checked"

(* What the class comment says (GitRepositoryWatcherManager.cs:9-10): a watcher
   "stays alive while at least one lease is held". *)
LeasedIsWatched ==
  \A l \in Leases : lease[l] = "held" => mine[l] \in alive

(* What it says next (lines 10-12): plus "a short idle grace period after the
   last lease releases" - and then no longer. *)
WatchersAreReleased ==
  []<>(alive # {}) => []<>(\E l \in Leases : lease[l] \notin {"before", "ended"})
=============================================================================
