------------------------- MODULE RefreshCoordinator -------------------------
(***************************************************************************)
(* GitStatusRefreshCoordinator and its per-repository state machine        *)
(* RepositoryRefreshTracker (agent): file system events are debounced into *)
(* git status scans, requests for a scan are coalesced with one that is    *)
(* already running, and a shared gate bounds how many scans run at once.   *)
(*                                                                         *)
(* A task is one call of RunScanAsync: a request (RefreshNowAsync, called  *)
(* by GetGitChangeStatus under the command's cancellation token) or a      *)
(* callback of the debounce timer.  The content of a working tree is a     *)
(* number that only grows, so that older and newer snapshots can be told   *)
(* apart.                                                                  *)
(***************************************************************************)
EXTENDS Naturals, FiniteSets

CONSTANTS
  Repos,
  Calls,        (* the requests: each calls RefreshNowAsync once             *)
  Callbacks,    (* bound: timer callbacks that can be running at a time      *)
  Slots,        (* MaxParallelRepositoryOperations                           *)
  Edited,       (* bound: the repositories whose working trees change        *)
  MaxChanges    (* bound: changes to the working tree of a repository        *)

ASSUME CoordinatorAssumption ==
  /\ Repos # {}
  /\ Calls \cap Callbacks = {}
  /\ Slots \in Nat \ {0}
  /\ MaxChanges \in Nat

Tasks == Calls \cup Callbacks

VARIABLES
  disk,         (* the content of the working tree                           *)
  event,        (* a file system event is on its way to MarkDirty            *)
  state,        (* RepositoryRefreshTracker._state                           *)
  timer,        (* _debounceTimer is armed                                   *)
  sharing,      (* the requests that await _pendingCompletion                *)
  task,         (* where a task stands                                       *)
  published,    (* the snapshot SnapshotReady handed to the publisher last   *)
  last          (* how the last scan of the repository ended                 *)

tree    == <<disk, event>>
tracker == <<state, timer, sharing>>
vars    == <<tree, tracker, task, published, last>>

State == {"Clean", "Dirty", "Refreshing", "RefreshingAndDirty", "Disposed"}
Step  == {"idle", "begin", "gate", "scan", "read", "end", "joined",
          "answered", "refused", "threw"}

(* asked: the working tree when the task began; seen, ok: the scan's result. *)
TaskState ==
  [step : Step, repo : Repos, asked : 0 .. MaxChanges, seen : 0 .. MaxChanges, ok : BOOLEAN]

AnyRepo  == CHOOSE r \in Repos : TRUE
IdleTask == [step |-> "idle", repo |-> AnyRepo, asked |-> 0, seen |-> 0, ok |-> FALSE]

TypeOK ==
  /\ disk \in [Repos -> 0 .. MaxChanges]
  /\ event \in [Repos -> BOOLEAN]
  /\ state \in [Repos -> State]
  /\ timer \in [Repos -> BOOLEAN]
  /\ sharing \in [Repos -> SUBSET Calls]
  /\ task \in [Tasks -> TaskState]
  /\ published \in [Repos -> 0 .. MaxChanges]
  /\ last \in [Repos -> {"ok", "failed"}]
  /\ \A r \in Repos : timer[r] => state[r] = "Dirty"

Init ==
  /\ disk = [r \in Repos |-> 0]
  /\ event = [r \in Repos |-> FALSE]
  /\ state = [r \in Repos |-> "Clean"]
  /\ timer = [r \in Repos |-> FALSE]
  /\ sharing = [r \in Repos |-> {}]
  /\ task = [t \in Tasks |-> IdleTask]
  /\ published = [r \in Repos |-> 0]
  /\ last = [r \in Repos |-> "ok"]

Active(t) == task[t].step \in {"gate", "scan", "read", "end"}
At(t, step) == task[t].step = step
Move(t, step) == task' = [task EXCEPT ![t].step = step]

(* A finished callback leaves nothing behind; a request keeps its result. *)
Finished(t, result) == IF t \in Callbacks THEN IdleTask ELSE result

-----------------------------------------------------------------------------
(* The working tree changes, and the watcher will say so. *)
Change(r) ==
  /\ r \in Edited
  /\ disk[r] < MaxChanges
  /\ disk' = [disk EXCEPT ![r] = @ + 1]
  /\ event' = [event EXCEPT ![r] = TRUE]
  /\ UNCHANGED <<tracker, task, published, last>>

(* A file is rewritten with the content it had, or the watcher overflows. *)
Touch(r) ==
  /\ event' = [event EXCEPT ![r] = TRUE]
  /\ UNCHANGED <<disk, tracker, task, published, last>>

(* MarkDirty -> ScheduleDebouncedRefresh *)
MarkDirty(r) ==
  /\ event[r]
  /\ event' = [event EXCEPT ![r] = FALSE]
  /\ \/ /\ state[r] = "Refreshing"
        /\ state' = [state EXCEPT ![r] = "RefreshingAndDirty"]
        /\ UNCHANGED timer
     \/ /\ state[r] \in {"Dirty", "RefreshingAndDirty", "Disposed"}
        /\ UNCHANGED <<state, timer>>
     \/ /\ state[r] = "Clean"
        /\ state' = [state EXCEPT ![r] = "Dirty"]
        /\ timer' = [timer EXCEPT ![r] = TRUE]
  /\ UNCHANGED <<disk, sharing, task, published, last>>

(* The debounce timer elapses: its callback starts, and can no longer be
   stopped by disposing the timer. *)
Elapse(r, t) ==
  /\ timer[r]
  /\ At(t, "idle")
  /\ timer' = [timer EXCEPT ![r] = FALSE]
  /\ task' = [task EXCEPT ![t] =
                [IdleTask EXCEPT !.step = "begin", !.repo = r, !.asked = disk[r]]]
  /\ UNCHANGED <<tree, state, sharing, published, last>>

(* RefreshNowAsync *)
Request(r, t) ==
  /\ At(t, "idle")
  /\ task' = [task EXCEPT ![t] =
                [IdleTask EXCEPT !.step = "begin", !.repo = r, !.asked = disk[r]]]
  /\ UNCHANGED <<tree, tracker, published, last>>

-----------------------------------------------------------------------------
(* Mutant: a second caller starts a scan of its own. *)
TryBeginRefreshTwice(t) ==
  LET r == task[t].repo IN
  /\ At(t, "begin")
  /\ state[r] # "Disposed"
  /\ timer' = [timer EXCEPT ![r] = FALSE]
  /\ state' = [state EXCEPT ![r] = "Refreshing"]
  /\ Move(t, "gate")
  /\ UNCHANGED <<tree, sharing, published, last>>

(* Mutant: starts a scan and leaves the debounce timer armed. *)
TryBeginRefreshKeepsTimer(t) ==
  LET r == task[t].repo IN
  /\ At(t, "begin")
  /\ state[r] \in {"Clean", "Dirty"}
  /\ state' = [state EXCEPT ![r] = "Refreshing"]
  /\ Move(t, "gate")
  /\ UNCHANGED <<tree, timer, sharing, published, last>>

(* TryBeginRefresh: joins the scan in flight and asks for one more, or starts
   a scan and disposes the debounce timer.  Nobody looks at the result of a
   callback, so one that joins is done. *)
TryBeginRefresh(t) ==
  LET r == task[t].repo IN
  /\ At(t, "begin")
  /\ \/ /\ state[r] \in {"Refreshing", "RefreshingAndDirty"}
        /\ state' = [state EXCEPT ![r] = "RefreshingAndDirty"]
        /\ sharing' = [sharing EXCEPT ![r] = @ \cup ({t} \cap Calls)]
        /\ task' = [task EXCEPT ![t] = Finished(t, [@ EXCEPT !.step = "joined"])]
        /\ UNCHANGED timer
     \/ /\ state[r] = "Disposed"
        /\ task' = [task EXCEPT ![t] = Finished(t, [@ EXCEPT !.step = "refused"])]
        /\ UNCHANGED tracker
     \/ /\ state[r] \in {"Clean", "Dirty"}
        /\ timer' = [timer EXCEPT ![r] = FALSE]
        /\ state' = [state EXCEPT ![r] = "Refreshing"]
        /\ Move(t, "gate")
        /\ UNCHANGED sharing
  /\ UNCHANGED <<tree, published, last>>

Disposed == \E r \in Repos : state[r] = "Disposed"

(* Mutant: a scan takes its place before it waits for it. *)
EnterGateTooSoon(t) ==
  /\ At(t, "gate")
  /\ ~Disposed
  /\ Cardinality({u \in Tasks \ {t} : task[u].step \in {"gate", "scan", "read"}}) < Slots
  /\ Move(t, "scan")
  /\ UNCHANGED <<tree, tracker, published, last>>

(* _statusScanGate.WaitAsync completes. *)
EnterGate(t) ==
  /\ At(t, "gate")
  /\ ~Disposed
  /\ Cardinality({u \in Tasks : task[u].step \in {"scan", "read"}}) < Slots
  /\ Move(t, "scan")
  /\ UNCHANGED <<tree, tracker, published, last>>

(* git status reads the working tree, or fails. *)
ReadStatus(t) ==
  /\ At(t, "scan")
  /\ \E ok \in BOOLEAN :
       task' = [task EXCEPT ![t].step = "read", ![t].ok = ok, ![t].seen = disk[task[t].repo]]
  /\ UNCHANGED <<tree, tracker, published, last>>

(* Mutant: git failed, and an empty status is published in its place. *)
PublishSnapshotOfFailure(t) ==
  LET r == task[t].repo IN
  /\ At(t, "read")
  /\ published' = [published EXCEPT ![r] = IF task[t].ok THEN task[t].seen ELSE 0]
  /\ last' = [last EXCEPT ![r] = IF task[t].ok THEN "ok" ELSE "failed"]
  /\ task' = [task EXCEPT ![t] =
                IF Disposed THEN Finished(t, [@ EXCEPT !.step = "threw"])
                            ELSE [@ EXCEPT !.step = "end"]]
  /\ UNCHANGED <<tree, tracker>>

(* SnapshotReady hands the snapshot to the publisher - only this line invokes it -
   and the gate is released, which throws once the coordinator has been disposed.
   The snapshot also goes to SetLatest.  What SetLatest keeps is not modelled: the
   stage, unstage and commit commands overwrite it with snapshots of their own,
   whose versions were issued before they began, so that it can go back; nothing
   ever reads it (GetLatest has no caller). *)
PublishSnapshot(t) ==
  LET r == task[t].repo IN
  /\ At(t, "read")
  /\ published' = [published EXCEPT ![r] = IF task[t].ok THEN task[t].seen ELSE @]
  /\ last' = [last EXCEPT ![r] = IF task[t].ok THEN "ok" ELSE "failed"]
  /\ task' = [task EXCEPT ![t] =
                IF Disposed THEN Finished(t, [@ EXCEPT !.step = "threw"])
                            ELSE [@ EXCEPT !.step = "end"]]
  /\ UNCHANGED <<tree, tracker>>

(* The command is cancelled while it waits for the gate or for git: the
   exception leaves ExecuteScanLoopAsync; nothing tells the tracker. *)
CancelRequest(t) ==
  /\ t \in Calls
  /\ task[t].step \in {"gate", "scan"}
  /\ Move(t, "threw")
  /\ UNCHANGED <<tree, tracker, published, last>>

(* Mutant: hands this scan's result to the callers that joined during it. *)
EndRefreshEarly(t) ==
  LET r == task[t].repo IN
  /\ At(t, "end")
  /\ state' = [state EXCEPT ![r] = IF @ = "RefreshingAndDirty" THEN "Refreshing"
                                   ELSE IF @ = "Disposed" THEN @ ELSE "Clean"]
  /\ task' = [u \in Tasks |->
       IF u \in sharing[r] THEN [task[t] EXCEPT !.step = "answered", !.asked = task[u].asked]
       ELSE IF u # t THEN task[u]
       ELSE IF state[r] = "RefreshingAndDirty" THEN [task[t] EXCEPT !.step = "gate"]
       ELSE Finished(t, [task[t] EXCEPT !.step = "answered"])]
  /\ sharing' = [sharing EXCEPT ![r] = {}]
  /\ UNCHANGED <<tree, timer, published, last>>

(* Mutant: goes back to Clean although an event came during the scan. *)
EndRefreshForgets(t) ==
  LET r == task[t].repo IN
  /\ At(t, "end")
  /\ state' = [state EXCEPT ![r] = IF @ = "Disposed" THEN @ ELSE "Clean"]
  /\ task' = [u \in Tasks |->
       IF u \in sharing[r] THEN [task[t] EXCEPT !.step = "answered", !.asked = task[u].asked]
       ELSE IF u = t THEN Finished(t, [task[t] EXCEPT !.step = "answered"])
       ELSE task[u]]
  /\ sharing' = [sharing EXCEPT ![r] = {}]
  /\ UNCHANGED <<tree, timer, published, last>>

(* Mutant: nobody completes the shared completion. *)
EndRefreshUnsignalled(t) ==
  LET r == task[t].repo IN
  /\ At(t, "end")
  /\ state' = [state EXCEPT ![r] = IF @ = "RefreshingAndDirty" THEN "Refreshing"
                                   ELSE IF @ = "Disposed" THEN @ ELSE "Clean"]
  /\ task' = [task EXCEPT ![t] = IF state[r] = "RefreshingAndDirty"
                                    THEN [@ EXCEPT !.step = "gate"]
                                    ELSE Finished(t, [@ EXCEPT !.step = "answered"])]
  /\ sharing' = [sharing EXCEPT ![r] = IF state[r] = "RefreshingAndDirty" THEN @ ELSE {}]
  /\ UNCHANGED <<tree, timer, published, last>>

(* EndRefresh: a follow-up scan when something happened during this one, else
   the result goes to everyone who shared it. *)
EndRefresh(t) ==
  LET r == task[t].repo IN
  /\ At(t, "end")
  /\ \/ /\ state[r] = "RefreshingAndDirty"
        /\ state' = [state EXCEPT ![r] = "Refreshing"]
        /\ Move(t, "gate")
        /\ UNCHANGED sharing
     \/ /\ state[r] # "RefreshingAndDirty"
        /\ state' = [state EXCEPT ![r] = IF @ = "Disposed" THEN @ ELSE "Clean"]
        /\ task' = [u \in Tasks |->
             IF u \in sharing[r] THEN [task[t] EXCEPT !.step = "answered", !.asked = task[u].asked]
             ELSE IF u = t THEN Finished(t, [task[t] EXCEPT !.step = "answered"])
             ELSE task[u]]
        /\ sharing' = [sharing EXCEPT ![r] = {}]
  /\ UNCHANGED <<tree, timer, published, last>>

(* Dispose, when the agent stops: every shared completion is cancelled. *)
Dispose ==
  /\ ~Disposed
  /\ state' = [r \in Repos |-> "Disposed"]
  /\ timer' = [r \in Repos |-> FALSE]
  /\ task' = [t \in Tasks |-> IF At(t, "joined") THEN [task[t] EXCEPT !.step = "threw"]
                                                ELSE task[t]]
  /\ sharing' = [r \in Repos |-> {}]
  /\ UNCHANGED <<tree, published, last>>

-----------------------------------------------------------------------------
TaskNext(t) ==
  \/ TryBeginRefresh(t) \/ EnterGate(t) \/ ReadStatus(t) \/ PublishSnapshot(t)
  \/ EndRefresh(t) \/ CancelRequest(t)

Next ==
  \/ \E r \in Repos : Change(r) \/ Touch(r) \/ MarkDirty(r)
  \/ \E r \in Repos, t \in Callbacks : Elapse(r, t)
  \/ \E r \in Repos, t \in Calls : Request(r, t)
  \/ \E t \in Tasks : TaskNext(t)
  \/ Dispose

Spec == Init /\ [][Next]_vars

(* Fairness: events are delivered, started tasks proceed, and git status ends
   (GitProcessRunner kills it after a timeout).  Strong fairness where the model
   or the code has a limited number of places: a timer fires though the bound
   Callbacks is used up now and then, and the gate lets waiters in in order, so
   that none is passed over for ever. *)
FairSpec ==
  /\ Spec
  /\ \A r \in Repos :
       /\ WF_vars(MarkDirty(r))
       /\ SF_vars(\E t \in Callbacks : Elapse(r, t))
  /\ \A t \in Tasks :
       /\ WF_vars(TryBeginRefresh(t))
       /\ SF_vars(EnterGate(t))
       /\ WF_vars(ReadStatus(t))
       /\ WF_vars(PublishSnapshot(t))
       /\ WF_vars(EndRefresh(t))
-----------------------------------------------------------------------------
(* The tracker has been left behind: it believes that a scan is running, and
   none is.  Only CancelRequest leads here. *)
Stuck(r) ==
  /\ state[r] \in {"Refreshing", "RefreshingAndDirty"}
  /\ ~ \E t \in Tasks : task[t].repo = r /\ Active(t)

(* A scan of r that has still to read the working tree. *)
WillRead(r) ==
  \E t \in Tasks :
    /\ task[t].repo = r
    /\ \/ task[t].step \in {"gate", "scan"}
       \/ Active(t) /\ state[r] = "RefreshingAndDirty"

(* "A repository never has more than one active and one pending refresh":
   whoever asks, and whenever the timer fires, one task at a time runs the
   scan loop of a repository. *)
OneScanPerRepo ==
  \A t, u \in Tasks :
    Active(t) /\ Active(u) /\ task[t].repo = task[u].repo => t = u

(* The answer to a request never shows the working tree as it was before the
   request was made, also when it is the result of a scan that another caller
   started (EndRefresh's comment: "it always reflects state at or after the
   moment it started waiting"). *)
AnswerNotOlderThanQuestion ==
  \A t \in Calls : At(t, "answered") /\ task[t].ok => task[t].seen >= task[t].asked

(* No change is forgotten: as long as the published snapshot does not show it, an
   event, a timer, a callback or a scan that will read the tree again is on its
   way - except when the scan itself failed, or its request was cancelled. *)
NoChangeForgotten ==
  \A r \in Repos :
    disk[r] # published[r] =>
      \/ event[r] \/ timer[r] \/ WillRead(r)
      \/ \E t \in Tasks : task[t].repo = r /\ At(t, "begin")
      \/ \E t \in Tasks : task[t].repo = r /\ At(t, "read") /\ task[t].seen = disk[r]
      \/ last[r] = "failed" \/ Stuck(r) \/ Disposed

(* The snapshots of the scans reach the publisher in the order in which git read
   them. *)
SnapshotsInOrder ==
  [][\A r \in Repos : published'[r] >= published[r]]_published

(* What the publisher gets mirrors the working trees (Mirror): each snapshot is what
   the tree was at some moment since the snapshot before it, through follow-up scans,
   failed and cancelled ones, and requests and timers that scan in turns.  This
   is the order in which the coordinator produces them; what becomes of them on the
   way to the database is SnapshotPipeline. *)
Snapshots == INSTANCE Mirror WITH Keys <- Repos, source <- disk, copy <- published
PublishedMirrorsTrees == Snapshots!Spec

(* A request comes to an end once the working tree calms down.  (While events
   keep coming EndRefresh goes on scanning, and neither the request that runs
   the scan loop nor those that share it are ever answered.) *)
RequestsEnd ==
  (<>[](\A r \in Repos : ~event[r])) =>
    \A t \in Calls : At(t, "begin") ~>
      \/ task[t].step \in {"answered", "refused", "threw"}
      \/ Stuck(task[t].repo) \/ Disposed

(* What that rests on, state by state: a request that joined shares the completion
   of its tracker, and a scan runs that will complete it - but for a tracker that has
   been left behind. *)
NoWaiterLeftBehind ==
  \A t \in Calls : At(t, "joined") =>
    /\ t \in sharing[task[t].repo]
    /\ Stuck(task[t].repo) \/ \E u \in Tasks : task[u].repo = task[t].repo /\ Active(u)

(* The bound Callbacks is used up by the other repositories. *)
NoCallbackLeft(r) == \A t \in Callbacks : ~At(t, "idle") /\ task[t].repo # r

(* A change reaches a snapshot, however often the tree goes on changing, and
   although the scans of all repositories share the gate: a repository whose
   events never stop does not keep the gate from another. *)
ChangesAreScanned ==
  \A r \in Repos :
    disk[r] # published[r] ~>
      disk[r] = published[r] \/ last[r] = "failed" \/ Stuck(r) \/ Disposed \/ NoCallbackLeft(r)

(* What the class comment says of a watcher event (GitStatusRefreshCoordinator
   .cs:21-25): it marks the repository dirty, "after a debounce window, exactly
   one authoritative git status scan runs". *)
EventsAreScanned ==
  \A r \in Repos :
    disk[r] # published[r] ~> disk[r] = published[r] \/ last[r] = "failed" \/ Disposed

(* What TryBeginRefresh's comment says (GitStatusRefreshCoordinator.cs:183-184):
   the task of a caller that joins "resolves to the result of whichever scan
   completes next". *)
JoinedByNextScan ==
  [][\A t \in Tasks, u \in Calls :
       /\ At(t, "end") /\ task'[t].step # "end"
       /\ u \in sharing[task[t].repo]
       => ~At(u, "joined")']_task
=============================================================================
