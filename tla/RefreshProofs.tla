--------------------------- MODULE RefreshProofs ---------------------------
(***************************************************************************)
(* Proofs about RefreshCoordinator for every set of repositories, of       *)
(* requests and of timer callbacks, every number of places at the gate and *)
(* every number of changes.                                                *)
(***************************************************************************)
EXTENDS RefreshCoordinator, TLAPS

HasRead(t) == task[t].step \in {"read", "end"}

(* A scan of a repository runs in one task, and the tracker knows. *)
ScanKnown ==
  \A t \in Tasks : Active(t) =>
    state[task[t].repo] \in {"Refreshing", "RefreshingAndDirty", "Disposed"}

(* A tracker that is Dirty has a timer, or a callback that is about to begin. *)
DirtyIsTimed ==
  \A r \in Repos : state[r] = "Dirty" =>
    timer[r] \/ \E t \in Tasks : task[t].repo = r /\ At(t, "begin")

ScanInv == OneScanPerRepo /\ ScanKnown /\ DirtyIsTimed

(* Who shares the result of a scan waits for it, and unless another scan will
   follow, the scan has not read the tree before the question. *)
ShareInv ==
  \A r \in Repos : \A u \in sharing[r] :
    /\ At(u, "joined") /\ task[u].repo = r
    /\ state[r] \in {"Refreshing", "RefreshingAndDirty"}
    /\ state[r] = "Refreshing" =>
         \A t \in Tasks : task[t].repo = r /\ HasRead(t) => task[u].asked <= task[t].seen

(* Nobody asks for, and no snapshot shows, what is not there yet. *)
ExistsInv ==
  /\ \A t \in Tasks : task[t].asked <= disk[task[t].repo]
  /\ \A r \in Repos : published[r] <= disk[r]

(* What a scan has read is not older than its question. *)
ReadSinceAsked ==
  \A t \in Tasks : HasRead(t) =>
    task[t].asked <= task[t].seen /\ task[t].seen <= disk[task[t].repo]

(* What a scan is about to report is not older than the last report. *)
ReadSincePublished ==
  \A t \in Tasks : At(t, "read") => published[task[t].repo] <= task[t].seen

FreshInv == ExistsInv /\ ReadSinceAsked /\ ReadSincePublished

(* What a scan has read is current, or an event will say that it is not. *)
ReadIsCurrent ==
  \A t \in Tasks : HasRead(t) =>
    \/ task[t].seen = disk[task[t].repo]
    \/ event[task[t].repo]
    \/ state[task[t].repo] \in {"RefreshingAndDirty", "Disposed"}

(* At the end of a scan that went well the published snapshot is what it read. *)
EndIsPublished ==
  \A t \in Tasks : At(t, "end") =>
    last[task[t].repo] = "failed" \/ published[task[t].repo] = task[t].seen

CurrentInv == ReadIsCurrent /\ EndIsPublished

IInv ==
  /\ TypeOK /\ ScanInv /\ ShareInv /\ FreshInv /\ CurrentInv
  /\ AnswerNotOlderThanQuestion /\ NoChangeForgotten

-----------------------------------------------------------------------------
(* What the steps do to the tasks. *)
Others(t) == \A u \in Tasks : u # t => task'[u] = task[u]

LEMMA IdleTaskType == IdleTask \in TaskState /\ AnyRepo \in Repos
  BY CoordinatorAssumption DEF IdleTask, TaskState, Step, AnyRepo

(* A task goes to another step, and keeps everything else. *)
LEMMA Stepped ==
  ASSUME TypeOK, NEW t \in Tasks, NEW step \in Step, Move(t, step)
  PROVE  /\ task' \in [Tasks -> TaskState] /\ Others(t)
         /\ task'[t].step = step /\ task'[t].repo = task[t].repo
         /\ task'[t].asked = task[t].asked /\ task'[t].seen = task[t].seen
  <1> DEFINE new == [task[t] EXCEPT !.step = step]
  <1>1. task' = [task EXCEPT ![t] = new]  BY DEF Move
  <1>2. task[t] \in TaskState  BY DEF TypeOK
  <1>3. /\ new \in TaskState /\ new.step = step /\ new.repo = task[t].repo
        /\ new.asked = task[t].asked /\ new.seen = task[t].seen
    BY <1>2 DEF TaskState
  <1> QED  BY <1>1, <1>3 DEF TypeOK, Others

(* A task is replaced. *)
LEMMA Replaced ==
  ASSUME TypeOK, NEW t \in Tasks, NEW new \in TaskState, task' = [task EXCEPT ![t] = new]
  PROVE  task' \in [Tasks -> TaskState] /\ Others(t) /\ task'[t] = new
  BY DEF TypeOK, Others

(* Initially nothing runs and nothing has changed. *)
LEMMA Initially == Init => IInv
  <1> SUFFICES ASSUME Init PROVE IInv  OBVIOUS
  <1>1. \A t \in Tasks : task[t] = IdleTask /\ task[t].step = "idle" /\ task[t].asked = 0
    BY DEF Init, IdleTask
  <1>2. TypeOK  BY IdleTaskType, CoordinatorAssumption DEF Init, TypeOK, State
  <1>3. ScanInv  BY <1>1 DEF Init, ScanInv, OneScanPerRepo, ScanKnown, DirtyIsTimed, Active, At
  <1>4. ShareInv  BY <1>1 DEF Init, ShareInv
  <1>5. FreshInv
    BY <1>1, IdleTaskType
    DEF Init, FreshInv, ExistsInv, ReadSinceAsked, ReadSincePublished, HasRead, At, IdleTask
  <1>6. CurrentInv  BY <1>1 DEF Init, CurrentInv, ReadIsCurrent, EndIsPublished, HasRead, At
  <1>7. AnswerNotOlderThanQuestion  BY <1>1 DEF AnswerNotOlderThanQuestion, At, Tasks
  <1>8. NoChangeForgotten  BY DEF Init, NoChangeForgotten
  <1> QED  BY <1>2, <1>3, <1>4, <1>5, <1>6, <1>7, <1>8 DEF IInv

-----------------------------------------------------------------------------
(* A change is announced by the event that comes with it. *)
LEMMA ChangeKeeps ==
  ASSUME IInv, NEW r \in Repos, Change(r) \/ Touch(r)
  PROVE  IInv'
  <1>1. TypeOK /\ MaxChanges \in Nat  BY CoordinatorAssumption DEF IInv
  <1>2. /\ UNCHANGED <<state, timer, sharing, task, published, last>>
        /\ event' = [event EXCEPT ![r] = TRUE]
        /\ disk' \in [Repos -> 0 .. MaxChanges]
        /\ \A q \in Repos : q # r => disk'[q] = disk[q]
        /\ disk[r] <= disk'[r]
    BY <1>1 DEF Change, Touch, tracker, TypeOK
  <1>3. TypeOK'  BY <1>1, <1>2 DEF TypeOK
  <1>4. ScanInv'  BY <1>2 DEF IInv, ScanInv, OneScanPerRepo, ScanKnown, DirtyIsTimed, Active, At
  <1>5. ShareInv'  BY <1>2 DEF IInv, ShareInv, HasRead, At
  <1>6. FreshInv'
    BY <1>1, <1>2
    DEF IInv, FreshInv, ExistsInv, ReadSinceAsked, ReadSincePublished, HasRead, At,
        TypeOK, TaskState
  <1>7. CurrentInv'
    BY <1>1, <1>2 DEF IInv, CurrentInv, ReadIsCurrent, EndIsPublished, HasRead, At,
                      TypeOK, TaskState
  <1>8. AnswerNotOlderThanQuestion'  BY <1>2 DEF IInv, AnswerNotOlderThanQuestion, At
  <1>9. NoChangeForgotten'
    BY <1>1, <1>2 DEF IInv, NoChangeForgotten, WillRead, Stuck, Active, At, Disposed, TypeOK
  <1> QED  BY <1>3, <1>4, <1>5, <1>6, <1>7, <1>8, <1>9 DEF IInv

(* An event that reaches the tracker leaves a timer behind, or a scan that will
   be followed by another - or the tracker was stuck. *)
LEMMA MarkDirtyKeeps ==
  ASSUME IInv, NEW r \in Repos, MarkDirty(r)
  PROVE  IInv'
  <1>1. TypeOK  BY DEF IInv
  <1>2. /\ UNCHANGED <<disk, sharing, task, published, last>>
        /\ event' \in [Repos -> BOOLEAN] /\ state' \in [Repos -> State]
        /\ timer' \in [Repos -> BOOLEAN]
        /\ \A q \in Repos : q # r =>
             event'[q] = event[q] /\ state'[q] = state[q] /\ timer'[q] = timer[q]
        /\ \/ state[r] = "Refreshing" /\ state'[r] = "RefreshingAndDirty" /\ timer'[r] = timer[r]
           \/ /\ state[r] \in {"Dirty", "RefreshingAndDirty", "Disposed"}
              /\ state'[r] = state[r] /\ timer'[r] = timer[r]
           \/ state[r] = "Clean" /\ state'[r] = "Dirty" /\ timer'[r]
    BY <1>1 DEF MarkDirty, TypeOK, State
  <1>3. TypeOK'  BY <1>1, <1>2 DEF TypeOK
  <1>4. ScanInv'
    <2>1. OneScanPerRepo'  BY <1>2 DEF IInv, ScanInv, OneScanPerRepo, Active
    <2>2. ScanKnown'  BY <1>1, <1>2 DEF IInv, ScanInv, ScanKnown, Active, TypeOK, TaskState
    <2>3. DirtyIsTimed'  BY <1>2 DEF IInv, ScanInv, DirtyIsTimed, At
    <2> QED  BY <2>1, <2>2, <2>3 DEF ScanInv
  <1>5. ShareInv'  BY <1>2 DEF IInv, ShareInv, HasRead, At
  <1>6. FreshInv'
    BY <1>2 DEF IInv, FreshInv, ExistsInv, ReadSinceAsked, ReadSincePublished, HasRead, At
  <1>7. CurrentInv'
    BY <1>1, <1>2
    DEF IInv, CurrentInv, ReadIsCurrent, EndIsPublished, ScanInv, ScanKnown, Active, HasRead, At,
        TypeOK, TaskState
  <1>8. AnswerNotOlderThanQuestion'  BY <1>2 DEF IInv, AnswerNotOlderThanQuestion, At
  <1>9. NoChangeForgotten'
    BY <1>1, <1>2
    DEF IInv, NoChangeForgotten, ScanInv, DirtyIsTimed, WillRead, Stuck, Active, At, Disposed,
        TypeOK, State
  <1> QED  BY <1>3, <1>4, <1>5, <1>6, <1>7, <1>8, <1>9 DEF IInv

(* A task begins: nothing was known of it. *)
LEMMA BeginKeeps ==
  ASSUME IInv, NEW r \in Repos, NEW t \in Tasks, Elapse(r, t) \/ Request(r, t)
  PROVE  IInv'
  <1> DEFINE new == [IdleTask EXCEPT !.step = "begin", !.repo = r, !.asked = disk[r]]
  <1>1. TypeOK  BY DEF IInv
  <1>2. /\ new \in TaskState /\ new.step = "begin" /\ new.repo = r /\ new.asked = disk[r]
    BY <1>1, IdleTaskType DEF TypeOK, IdleTask, TaskState, Step
  <1>3. task' = [task EXCEPT ![t] = new]  BY DEF Elapse, Request
  <1>4. /\ task' \in [Tasks -> TaskState] /\ Others(t) /\ task'[t] = new
    BY <1>1, <1>2, <1>3, Replaced
  <1> HIDE DEF new
  <1>5. /\ UNCHANGED <<disk, event, state, sharing, published, last>>
        /\ task[t].step = "idle"
        /\ timer' \in [Repos -> BOOLEAN]
        /\ \A q \in Repos : q # r => timer'[q] = timer[q]
        /\ timer'[r] => timer[r]
    BY <1>1 DEF Elapse, Request, At, tree, tracker, TypeOK
  <1>6. TypeOK'  BY <1>1, <1>4, <1>5 DEF TypeOK
  <1>7. ScanInv'
    BY <1>2, <1>4, <1>5
    DEF IInv, ScanInv, OneScanPerRepo, ScanKnown, DirtyIsTimed, Active, At, Others
  <1>8. ShareInv'
    BY <1>1, <1>2, <1>4, <1>5 DEF IInv, ShareInv, HasRead, At, Others, TypeOK, Tasks
  <1>9. FreshInv'
    BY <1>1, <1>2, <1>4, <1>5
    DEF IInv, FreshInv, ExistsInv, ReadSinceAsked, ReadSincePublished, HasRead, At, Others, TypeOK
  <1>10. CurrentInv'
    BY <1>2, <1>4, <1>5 DEF IInv, CurrentInv, ReadIsCurrent, EndIsPublished, HasRead, At, Others
  <1>11. AnswerNotOlderThanQuestion'
    BY <1>2, <1>4 DEF IInv, AnswerNotOlderThanQuestion, At, Others, Tasks
  <1>12. NoChangeForgotten'
    BY <1>2, <1>4, <1>5 DEF IInv, NoChangeForgotten, WillRead, Stuck, Active, At, Disposed, Others
  <1> QED  BY <1>6, <1>7, <1>8, <1>9, <1>10, <1>11, <1>12 DEF IInv

(* A caller joins: the scan that runs will be followed by another. *)
LEMMA JoinKeeps ==
  ASSUME IInv, NEW t \in Tasks, TryBeginRefresh(t),
         state[task[t].repo] \in {"Refreshing", "RefreshingAndDirty"}
  PROVE  IInv'
  <1> DEFINE r == task[t].repo
             joined == [task[t] EXCEPT !.step = "joined"]
             new == Finished(t, joined)
  <1>1. TypeOK /\ task[t] \in TaskState /\ r \in Repos  BY DEF IInv, TypeOK, TaskState
  <1>2. /\ joined \in TaskState /\ joined.step = "joined" /\ joined.repo = r
        /\ joined.asked = task[t].asked
    BY <1>1 DEF TaskState, Step
  <1>3. /\ new \in TaskState /\ new.asked <= disk[new.repo]
        /\ new.step \in {"idle", "joined"}
        /\ t \in Calls => new.step = "joined" /\ new.repo = r /\ new.asked = task[t].asked
    BY <1>1, <1>2, IdleTaskType, CoordinatorAssumption
    DEF Finished, IdleTask, IInv, FreshInv, ExistsInv, TypeOK
  <1>4. task' = [task EXCEPT ![t] = new]  BY <1>1 DEF TryBeginRefresh
  <1>5. /\ task' \in [Tasks -> TaskState] /\ Others(t) /\ task'[t] = new
    BY <1>1, <1>3, <1>4, Replaced
  <1> HIDE DEF new, joined
  <1>6. /\ UNCHANGED <<disk, event, timer, published, last>>
        /\ task[t].step = "begin"
        /\ state' \in [Repos -> State] /\ state'[r] = "RefreshingAndDirty"
        /\ \A q \in Repos : q # r => state'[q] = state[q] /\ sharing'[q] = sharing[q]
        /\ sharing' \in [Repos -> SUBSET Calls]
        /\ sharing'[r] = sharing[r] \cup ({t} \cap Calls)
    BY <1>1 DEF TryBeginRefresh, At, tree, TypeOK, State
  <1> HIDE DEF r
  <1>7. TypeOK'  BY <1>1, <1>5, <1>6 DEF TypeOK, r
  <1>8. ScanInv'
    <2>1. OneScanPerRepo'
      BY <1>3, <1>5 DEF IInv, ScanInv, OneScanPerRepo, Active, Others
    <2>2. ScanKnown'
      BY <1>1, <1>3, <1>5, <1>6 DEF IInv, ScanInv, ScanKnown, Active, Others, TypeOK, TaskState
    <2>3. DirtyIsTimed'
      BY <1>5, <1>6 DEF IInv, ScanInv, DirtyIsTimed, At, Others, r
    <2> QED  BY <2>1, <2>2, <2>3 DEF ScanInv
  <1>9. ShareInv'
    BY <1>1, <1>3, <1>5, <1>6 DEF IInv, ShareInv, HasRead, At, Others, TypeOK, Tasks, r
  <1>10. FreshInv'
    BY <1>1, <1>3, <1>5, <1>6
    DEF IInv, FreshInv, ExistsInv, ReadSinceAsked, ReadSincePublished, HasRead, At, Others
  <1>11. CurrentInv'
    <2>1. ReadIsCurrent'
      BY <1>1, <1>3, <1>5, <1>6
      DEF IInv, CurrentInv, ReadIsCurrent, HasRead, Others, TypeOK, TaskState
    <2>2. EndIsPublished'
      BY <1>1, <1>3, <1>5, <1>6 DEF IInv, CurrentInv, EndIsPublished, At, Others
    <2> QED  BY <2>1, <2>2 DEF CurrentInv
  <1>12. AnswerNotOlderThanQuestion'
    BY <1>3, <1>5 DEF IInv, AnswerNotOlderThanQuestion, At, Others, Tasks
  <1>13. NoChangeForgotten'
    BY <1>1, <1>3, <1>5, <1>6
    DEF IInv, NoChangeForgotten, WillRead, Stuck, Active, At, Disposed, Others, r
  <1> QED  BY <1>7, <1>8, <1>9, <1>10, <1>11, <1>12, <1>13 DEF IInv

(* A caller comes too late. *)
LEMMA RefuseKeeps ==
  ASSUME IInv, NEW t \in Tasks, TryBeginRefresh(t), state[task[t].repo] = "Disposed"
  PROVE  IInv'
  <1> DEFINE r == task[t].repo
             refused == [task[t] EXCEPT !.step = "refused"]
             new == Finished(t, refused)
  <1>1. TypeOK /\ task[t] \in TaskState /\ r \in Repos  BY DEF IInv, TypeOK, TaskState
  <1>2. /\ refused \in TaskState /\ refused.step = "refused" /\ refused.repo = r
        /\ refused.asked = task[t].asked
    BY <1>1 DEF TaskState, Step
  <1>3. /\ new \in TaskState /\ new.asked <= disk[new.repo]
        /\ new.step \in {"idle", "refused"}
    BY <1>1, <1>2, IdleTaskType DEF Finished, IdleTask, IInv, FreshInv, ExistsInv, TypeOK
  <1>4. task' = [task EXCEPT ![t] = new]  BY <1>1 DEF TryBeginRefresh
  <1>5. /\ task' \in [Tasks -> TaskState] /\ Others(t) /\ task'[t] = new
    BY <1>1, <1>3, <1>4, Replaced
  <1> HIDE DEF new, refused
  <1>6. UNCHANGED <<disk, event, state, timer, sharing, published, last>> /\ task[t].step = "begin"
    BY DEF TryBeginRefresh, At, tree, tracker
  <1> HIDE DEF r
  <1>7. TypeOK'  BY <1>1, <1>5, <1>6 DEF TypeOK
  <1>8. ScanInv'
    BY <1>1, <1>3, <1>5, <1>6
    DEF IInv, ScanInv, OneScanPerRepo, ScanKnown, DirtyIsTimed, Active, At, Others, r
  <1>9. ShareInv'
    BY <1>1, <1>3, <1>5, <1>6 DEF IInv, ShareInv, HasRead, At, Others, TypeOK, Tasks
  <1>10. FreshInv'
    BY <1>1, <1>3, <1>5, <1>6
    DEF IInv, FreshInv, ExistsInv, ReadSinceAsked, ReadSincePublished, HasRead, At, Others
  <1>11. CurrentInv'
    BY <1>1, <1>3, <1>5, <1>6
    DEF IInv, CurrentInv, ReadIsCurrent, EndIsPublished, HasRead, At, Others
  <1>12. AnswerNotOlderThanQuestion'
    BY <1>3, <1>5 DEF IInv, AnswerNotOlderThanQuestion, At, Others, Tasks
  <1>13. NoChangeForgotten'
    BY <1>1, <1>3, <1>5, <1>6
    DEF IInv, NoChangeForgotten, WillRead, Stuck, Active, At, Disposed, Others, r
  <1> QED  BY <1>7, <1>8, <1>9, <1>10, <1>11, <1>12, <1>13 DEF IInv

(* A scan starts: nobody shares it yet, and nobody else scans. *)
LEMMA StartKeeps ==
  ASSUME IInv, NEW t \in Tasks, TryBeginRefresh(t), state[task[t].repo] \in {"Clean", "Dirty"}
  PROVE  IInv'
  <1> DEFINE r == task[t].repo
  <1>1. TypeOK /\ task[t] \in TaskState /\ r \in Repos  BY DEF IInv, TypeOK, TaskState
  <1>2. Move(t, "gate")  BY DEF TryBeginRefresh
  <1>3. /\ task' \in [Tasks -> TaskState] /\ Others(t)
        /\ task'[t].step = "gate" /\ task'[t].repo = r
        /\ task'[t].asked = task[t].asked /\ task'[t].seen = task[t].seen
    BY <1>1, <1>2, Stepped DEF Step
  <1>4. /\ UNCHANGED <<disk, event, sharing, published, last>>
        /\ task[t].step = "begin"
        /\ state' \in [Repos -> State] /\ state'[r] = "Refreshing"
        /\ timer' \in [Repos -> BOOLEAN] /\ ~timer'[r]
        /\ \A q \in Repos : q # r => state'[q] = state[q] /\ timer'[q] = timer[q]
    BY <1>1 DEF TryBeginRefresh, At, tree, TypeOK, State
  <1> HIDE DEF r
  <1>5. \A u \in Tasks : Active(u) => task[u].repo # r
    BY DEF IInv, ScanInv, ScanKnown, r
  <1>6. ScanInv'
    <2>1. OneScanPerRepo'
      BY <1>3, <1>5 DEF IInv, ScanInv, OneScanPerRepo, Active, Others, r
    <2>2. ScanKnown'
      BY <1>1, <1>3, <1>4 DEF IInv, ScanInv, ScanKnown, Active, Others, TypeOK, TaskState
    <2>3. DirtyIsTimed'
      BY <1>3, <1>4 DEF IInv, ScanInv, DirtyIsTimed, At, Others, r
    <2> QED  BY <2>1, <2>2, <2>3 DEF ScanInv
  <1>7. ShareInv'
    BY <1>1, <1>3, <1>4 DEF IInv, ShareInv, HasRead, At, Others, TypeOK, Tasks, r
  <1>8. FreshInv'
    BY <1>1, <1>3, <1>4
    DEF IInv, FreshInv, ExistsInv, ReadSinceAsked, ReadSincePublished, HasRead, At, Others, r
  <1>9. CurrentInv'
    <2>1. ReadIsCurrent'
      BY <1>1, <1>3, <1>4, <1>5
      DEF IInv, CurrentInv, ReadIsCurrent, HasRead, Active, Others, TypeOK, TaskState
    <2>2. EndIsPublished'
      BY <1>3, <1>4 DEF IInv, CurrentInv, EndIsPublished, At, Others
    <2> QED  BY <2>1, <2>2 DEF CurrentInv
  <1>10. AnswerNotOlderThanQuestion'
    BY <1>3 DEF IInv, AnswerNotOlderThanQuestion, At, Others, Tasks
  <1>11. NoChangeForgotten'
    BY <1>1, <1>3, <1>4
    DEF IInv, NoChangeForgotten, WillRead, Stuck, Active, At, Disposed, Others, r
  <1>12. TypeOK'  BY <1>1, <1>3, <1>4 DEF TypeOK
  <1> QED  BY <1>6, <1>7, <1>8, <1>9, <1>10, <1>11, <1>12 DEF IInv

LEMMA TryBeginRefreshKeeps ==
  ASSUME IInv, NEW t \in Tasks, TryBeginRefresh(t)
  PROVE  IInv'
  BY JoinKeeps, RefuseKeeps, StartKeeps DEF TryBeginRefresh

(* A place at the gate. *)
LEMMA EnterGateKeeps ==
  ASSUME IInv, NEW t \in Tasks, EnterGate(t)
  PROVE  IInv'
  <1> DEFINE r == task[t].repo
  <1>1. TypeOK /\ task[t] \in TaskState /\ r \in Repos  BY DEF IInv, TypeOK, TaskState
  <1>2. Move(t, "scan")  BY DEF EnterGate
  <1>3. /\ task' \in [Tasks -> TaskState] /\ Others(t)
        /\ task'[t].step = "scan" /\ task'[t].repo = r
        /\ task'[t].asked = task[t].asked /\ task'[t].seen = task[t].seen
    BY <1>1, <1>2, Stepped DEF Step
  <1>4. UNCHANGED <<disk, event, state, timer, sharing, published, last>> /\ task[t].step = "gate"
    BY DEF EnterGate, At, tree, tracker
  <1> HIDE DEF r
  <1>5. TypeOK'  BY <1>1, <1>3, <1>4 DEF TypeOK
  <1>6. ScanInv'
    BY <1>1, <1>3, <1>4
    DEF IInv, ScanInv, OneScanPerRepo, ScanKnown, DirtyIsTimed, Active, At, Others, r
  <1>7. ShareInv'
    BY <1>1, <1>3, <1>4 DEF IInv, ShareInv, HasRead, At, Others, TypeOK, Tasks
  <1>8. FreshInv'
    BY <1>1, <1>3, <1>4
    DEF IInv, FreshInv, ExistsInv, ReadSinceAsked, ReadSincePublished, HasRead, At, Others, r
  <1>9. CurrentInv'
    BY <1>1, <1>3, <1>4 DEF IInv, CurrentInv, ReadIsCurrent, EndIsPublished, HasRead, At, Others
  <1>10. AnswerNotOlderThanQuestion'
    BY <1>3 DEF IInv, AnswerNotOlderThanQuestion, At, Others, Tasks
  <1>11. NoChangeForgotten'
    BY <1>1, <1>3, <1>4
    DEF IInv, NoChangeForgotten, WillRead, Stuck, Active, At, Disposed, Others, r
  <1> QED  BY <1>5, <1>6, <1>7, <1>8, <1>9, <1>10, <1>11 DEF IInv

(* git reads the tree as it is now. *)
LEMMA ReadStatusKeeps ==
  ASSUME IInv, NEW t \in Tasks, ReadStatus(t)
  PROVE  IInv'
  <1> DEFINE r == task[t].repo
  <1>1. TypeOK /\ task[t] \in TaskState /\ r \in Repos  BY DEF IInv, TypeOK, TaskState
  <1>2. /\ task' \in [Tasks -> TaskState] /\ Others(t)
        /\ task'[t].step = "read" /\ task'[t].repo = r
        /\ task'[t].asked = task[t].asked /\ task'[t].seen = disk[r]
    <2>1. PICK good \in BOOLEAN :
            task' = [task EXCEPT ![t].step = "read", ![t].ok = good, ![t].seen = disk[task[t].repo]]
      BY DEF ReadStatus
    <2> DEFINE new == [task[t] EXCEPT !.step = "read", !.ok = good, !.seen = disk[r]]
    <2>2. task' = [task EXCEPT ![t] = new]  BY <2>1
    <2>3. /\ new \in TaskState /\ new.step = "read" /\ new.repo = r
          /\ new.asked = task[t].asked /\ new.seen = disk[r]
      BY <1>1 DEF TaskState, Step, TypeOK
    <2> HIDE DEF new
    <2> QED  BY <1>1, <2>2, <2>3, Replaced
  <1>3. UNCHANGED <<disk, event, state, timer, sharing, published, last>> /\ task[t].step = "scan"
    BY DEF ReadStatus, At, tree, tracker
  <1>4. \A u \in Tasks : Active(u) /\ task[u].repo = r => u = t
    BY <1>3 DEF IInv, ScanInv, OneScanPerRepo, Active
  <1> HIDE DEF r
  <1>5. TypeOK'  BY <1>1, <1>2, <1>3 DEF TypeOK
  <1>6. ScanInv'
    BY <1>1, <1>2, <1>3
    DEF IInv, ScanInv, OneScanPerRepo, ScanKnown, DirtyIsTimed, Active, At, Others, r
  <1>7. ShareInv'
    BY <1>1, <1>2, <1>3
    DEF IInv, ShareInv, FreshInv, ExistsInv, HasRead, At, Others, TypeOK, Tasks, r
  <1>8. FreshInv'
    BY <1>1, <1>2, <1>3
    DEF IInv, FreshInv, ExistsInv, ReadSinceAsked, ReadSincePublished, HasRead, At, Others, TypeOK, r
  <1>9. CurrentInv'
    BY <1>1, <1>2, <1>3 DEF IInv, CurrentInv, ReadIsCurrent, EndIsPublished, HasRead, At, Others, r
  <1>10. AnswerNotOlderThanQuestion'
    BY <1>2 DEF IInv, AnswerNotOlderThanQuestion, At, Others, Tasks
  <1>11. NoChangeForgotten'
    BY <1>1, <1>2, <1>3, <1>4
    DEF IInv, NoChangeForgotten, WillRead, Stuck, Active, At, Disposed, Others, r
  <1> QED  BY <1>5, <1>6, <1>7, <1>8, <1>9, <1>10, <1>11 DEF IInv

(* What PublishSnapshot does, whether the scan went well and the coordinator is
   still there. *)
LEMMA Published ==
  ASSUME TypeOK, FreshInv, NEW t \in Tasks, PublishSnapshot(t)
  PROVE  LET r == task[t].repo IN
         /\ task[t].step = "read" /\ r \in Repos
         /\ UNCHANGED <<disk, event, state, timer, sharing>>
         /\ task' \in [Tasks -> TaskState] /\ Others(t)
         /\ \/ task'[t].step = "end" /\ task'[t].repo = r
               /\ task'[t].asked = task[t].asked /\ task'[t].seen = task[t].seen
            \/ /\ task'[t].step \in {"threw", "idle"} /\ Disposed
               /\ task'[t].asked <= disk[task'[t].repo]
         /\ published' \in [Repos -> 0 .. MaxChanges] /\ last' \in [Repos -> {"ok", "failed"}]
         /\ \A q \in Repos : q # r => published'[q] = published[q] /\ last'[q] = last[q]
         /\ \/ published'[r] = task[t].seen /\ last'[r] = "ok"
            \/ published'[r] = published[r] /\ last'[r] = "failed"
  <1> DEFINE r == task[t].repo
             ended == [task[t] EXCEPT !.step = "end"]
             threw == [task[t] EXCEPT !.step = "threw"]
             new == IF Disposed THEN Finished(t, threw) ELSE ended
  <1>1. task[t] \in TaskState /\ r \in Repos  BY DEF TypeOK, TaskState
  <1>2. /\ ended \in TaskState /\ ended.step = "end" /\ ended.repo = r
        /\ ended.asked = task[t].asked /\ ended.seen = task[t].seen
    BY <1>1 DEF TaskState, Step
  <1>3. /\ threw \in TaskState /\ threw.step = "threw" /\ threw.repo = r
        /\ threw.asked = task[t].asked
    BY <1>1 DEF TaskState, Step
  <1>4. task' = [task EXCEPT ![t] = new]  BY DEF PublishSnapshot
  <1>5. new \in TaskState  BY <1>2, <1>3, IdleTaskType DEF Finished
  <1>6. IdleTask.step = "idle" /\ IdleTask.asked = 0 /\ IdleTask.repo = AnyRepo
    BY DEF IdleTask
  <1>7. \/ new = ended
        \/ /\ Disposed /\ new.step \in {"threw", "idle"}
           /\ new.asked <= disk[new.repo]
    BY <1>1, <1>3, <1>6, IdleTaskType DEF Finished, FreshInv, ExistsInv, TypeOK
  <1>8. task' \in [Tasks -> TaskState] /\ Others(t) /\ task'[t] = new
    BY <1>4, <1>5, Replaced
  <1>9. /\ published' \in [Repos -> 0 .. MaxChanges] /\ last' \in [Repos -> {"ok", "failed"}]
        /\ \A q \in Repos : q # r => published'[q] = published[q] /\ last'[q] = last[q]
        /\ \/ published'[r] = task[t].seen /\ last'[r] = "ok"
           \/ published'[r] = published[r] /\ last'[r] = "failed"
    BY <1>1 DEF PublishSnapshot, TypeOK, TaskState
  <1>10. task[t].step = "read" /\ UNCHANGED <<disk, event, state, timer, sharing>>
    BY DEF PublishSnapshot, At, tree, tracker
  <1> HIDE DEF new, ended, threw
  <1> QED  BY <1>1, <1>2, <1>7, <1>8, <1>9, <1>10

(* A scan reports what it has read: nobody else has read the tree since. *)
LEMMA PublishSnapshotKeeps ==
  ASSUME IInv, NEW t \in Tasks, PublishSnapshot(t)
  PROVE  IInv'
  <1> DEFINE r == task[t].repo
  <1>1. TypeOK /\ FreshInv /\ task[t] \in TaskState  BY DEF IInv, TypeOK
  <1>2. /\ task[t].step = "read" /\ r \in Repos
        /\ UNCHANGED <<disk, event, state, timer, sharing>>
        /\ task' \in [Tasks -> TaskState] /\ Others(t)
    BY <1>1, Published
  <1>3. \/ task'[t].step = "end" /\ task'[t].repo = r
           /\ task'[t].asked = task[t].asked /\ task'[t].seen = task[t].seen
        \/ /\ task'[t].step \in {"threw", "idle"} /\ Disposed
           /\ task'[t].asked <= disk[task'[t].repo]
    BY <1>1, Published
  <1>4. /\ published' \in [Repos -> 0 .. MaxChanges] /\ last' \in [Repos -> {"ok", "failed"}]
        /\ \A q \in Repos : q # r => published'[q] = published[q] /\ last'[q] = last[q]
        /\ \/ published'[r] = task[t].seen /\ last'[r] = "ok"
           \/ published'[r] = published[r] /\ last'[r] = "failed"
    BY <1>1, Published
  <1>5. \A u \in Tasks : Active(u) /\ task[u].repo = r => u = t
    BY <1>2 DEF IInv, ScanInv, OneScanPerRepo, Active
  <1> HIDE DEF r
  <1>6. TypeOK'  BY <1>1, <1>2, <1>4 DEF TypeOK
  <1>7. ScanInv'
    <2>1. OneScanPerRepo'  BY <1>2, <1>3, <1>5 DEF IInv, ScanInv, OneScanPerRepo, Active, Others
    <2>2. ScanKnown'  BY <1>2, <1>3 DEF IInv, ScanInv, ScanKnown, Active, Others, r
    <2>3. DirtyIsTimed'  BY <1>2, <1>3 DEF IInv, ScanInv, DirtyIsTimed, At, Others
    <2> QED  BY <2>1, <2>2, <2>3 DEF ScanInv
  <1>8. ShareInv'
    <2> SUFFICES ASSUME NEW q \in Repos, NEW u \in sharing[q]
                 PROVE  /\ At(u, "joined")' /\ task'[u].repo = q
                        /\ state[q] \in {"Refreshing", "RefreshingAndDirty"}
                        /\ state[q] = "Refreshing" =>
                             \A v \in Tasks : task'[v].repo = q /\ HasRead(v)' =>
                               task'[u].asked <= task'[v].seen
      BY <1>2 DEF ShareInv, HasRead, At
    <2>1. /\ At(u, "joined") /\ task[u].repo = q
          /\ state[q] \in {"Refreshing", "RefreshingAndDirty"}
          /\ state[q] = "Refreshing" =>
               \A v \in Tasks : task[v].repo = q /\ HasRead(v) => task[u].asked <= task[v].seen
      BY DEF IInv, ShareInv
    <2>2. u \in Tasks /\ u # t
      BY <1>1, <1>2, <2>1 DEF TypeOK, At, Tasks
    <2>3. task'[u] = task[u]
      BY <1>2, <2>2 DEF Others
    <2>4. ASSUME NEW v \in Tasks, HasRead(v)'
          PROVE  HasRead(v) /\ task'[v].repo = task[v].repo /\ task'[v].seen = task[v].seen
      BY <1>2, <1>3, <2>4 DEF Others, HasRead, At, r
    <2> QED  BY <2>1, <2>3, <2>4 DEF At
  <1>9. FreshInv'
    <2>1. \A u \in Tasks : u # t /\ At(u, "read") => task[u].repo # r  BY <1>5 DEF At, Active
    <2>2. ExistsInv'
      <3>1. ASSUME NEW u \in Tasks PROVE task'[u].asked <= disk'[task'[u].repo]
        <4>1. CASE u # t
          BY <1>1, <1>2, <4>1 DEF FreshInv, ExistsInv, Others
        <4>2. CASE u = t
          BY <1>1, <1>2, <1>3, <4>2 DEF FreshInv, ExistsInv, r
        <4> QED  BY <4>1, <4>2
      <3>2. task[t].seen <= disk[r]
        BY <1>1, <1>2 DEF FreshInv, ReadSinceAsked, HasRead, r
      <3>3. ASSUME NEW q \in Repos PROVE published'[q] <= disk'[q]
        BY <1>1, <1>2, <1>4, <3>2 DEF FreshInv, ExistsInv
      <3> QED  BY <3>1, <3>3 DEF ExistsInv
    <2>3. ReadSinceAsked'
      BY <1>1, <1>2, <1>3 DEF FreshInv, ReadSinceAsked, HasRead, Others, r
    <2>4. ReadSincePublished'
      BY <1>1, <1>2, <1>3, <1>4, <2>1
      DEF FreshInv, ReadSincePublished, At, Others, TypeOK, TaskState
    <2> QED  BY <2>2, <2>3, <2>4 DEF FreshInv
  <1>10. CurrentInv'
    <2>1. ReadIsCurrent'
      BY <1>2, <1>3 DEF IInv, CurrentInv, ReadIsCurrent, HasRead, Others, r
    <2>2. EndIsPublished'
      BY <1>1, <1>2, <1>3, <1>4, <1>5
      DEF IInv, CurrentInv, EndIsPublished, At, Active, Others, TypeOK, TaskState
    <2> QED  BY <2>1, <2>2 DEF CurrentInv
  <1>11. AnswerNotOlderThanQuestion'
    BY <1>2, <1>3 DEF IInv, AnswerNotOlderThanQuestion, At, Others, Tasks
  <1>12. NoChangeForgotten'
    <2> SUFFICES ASSUME NEW q \in Repos, disk[q] # published'[q], ~Disposed
                 PROVE  \/ event[q] \/ timer[q] \/ WillRead(q)'
                        \/ \E u \in Tasks : task'[u].repo = q /\ At(u, "begin")'
                        \/ \E u \in Tasks : /\ task'[u].repo = q /\ At(u, "read")'
                                             /\ task'[u].seen = disk[q]
                        \/ last'[q] = "failed" \/ Stuck(q)'
      BY <1>2 DEF NoChangeForgotten, Disposed
    <2>1. CASE q = r
      <3>1. CASE published'[r] = task[t].seen
        <4>1. event[r] \/ state[r] = "RefreshingAndDirty"
          BY <1>2, <2>1, <3>1 DEF IInv, CurrentInv, ReadIsCurrent, HasRead, Disposed, r
        <4> QED  BY <1>2, <1>3, <2>1, <4>1 DEF WillRead, Active
      <3> QED  BY <1>4, <2>1, <3>1
    <2>2. CASE q # r
      BY <1>2, <1>3, <1>4, <2>2
      DEF IInv, NoChangeForgotten, WillRead, Stuck, Active, At, Disposed, Others, r
    <2> QED  BY <2>1, <2>2
  <1> QED  BY <1>6, <1>7, <1>8, <1>9, <1>10, <1>11, <1>12 DEF IInv

(* The command is cancelled: its repository is stuck from now on. *)
LEMMA CancelRequestKeeps ==
  ASSUME IInv, NEW t \in Tasks, CancelRequest(t)
  PROVE  IInv'
  <1> DEFINE r == task[t].repo
  <1>1. TypeOK /\ task[t] \in TaskState /\ r \in Repos  BY DEF IInv, TypeOK, TaskState
  <1>2. Move(t, "threw")  BY DEF CancelRequest
  <1>3. /\ task' \in [Tasks -> TaskState] /\ Others(t)
        /\ task'[t].step = "threw" /\ task'[t].repo = r
        /\ task'[t].asked = task[t].asked /\ task'[t].seen = task[t].seen
    BY <1>1, <1>2, Stepped DEF Step
  <1>4. /\ UNCHANGED <<disk, event, state, timer, sharing, published, last>>
        /\ task[t].step \in {"gate", "scan"}
    BY DEF CancelRequest, tree, tracker
  <1>5. \A u \in Tasks : Active(u) /\ task[u].repo = r => u = t
    BY <1>4 DEF IInv, ScanInv, OneScanPerRepo, Active
  <1> HIDE DEF r
  <1>6. TypeOK'  BY <1>1, <1>3, <1>4 DEF TypeOK
  <1>7. ScanInv'
    BY <1>1, <1>3, <1>4
    DEF IInv, ScanInv, OneScanPerRepo, ScanKnown, DirtyIsTimed, Active, At, Others, r
  <1>8. ShareInv'
    BY <1>1, <1>3, <1>4 DEF IInv, ShareInv, HasRead, At, Others, TypeOK, Tasks
  <1>9. FreshInv'
    BY <1>1, <1>3, <1>4
    DEF IInv, FreshInv, ExistsInv, ReadSinceAsked, ReadSincePublished, HasRead, At, Others, r
  <1>10. CurrentInv'
    BY <1>1, <1>3, <1>4 DEF IInv, CurrentInv, ReadIsCurrent, EndIsPublished, HasRead, At, Others
  <1>11. AnswerNotOlderThanQuestion'
    BY <1>3 DEF IInv, AnswerNotOlderThanQuestion, At, Others, Tasks
  <1>12. NoChangeForgotten'
    <2> SUFFICES ASSUME NEW q \in Repos, disk[q] # published[q], ~Disposed
                 PROVE  \/ event[q] \/ timer[q] \/ WillRead(q)'
                        \/ \E u \in Tasks : task'[u].repo = q /\ At(u, "begin")'
                        \/ \E u \in Tasks : /\ task'[u].repo = q /\ At(u, "read")'
                                             /\ task'[u].seen = disk[q]
                        \/ last[q] = "failed" \/ Stuck(q)'
      BY <1>4 DEF NoChangeForgotten, Disposed
    <2>1. CASE q = r
      <3>1. state[r] \in {"Refreshing", "RefreshingAndDirty"}
        BY <1>1, <1>4 DEF IInv, ScanInv, ScanKnown, Active, Disposed, r
      <3>2. ~ \E u \in Tasks : task'[u].repo = r /\ Active(u)'
        BY <1>3, <1>5 DEF Active, Others
      <3> QED  BY <1>4, <2>1, <3>1, <3>2 DEF Stuck
    <2>2. CASE q # r
      BY <1>3, <1>4, <2>2
      DEF IInv, NoChangeForgotten, WillRead, Stuck, Active, At, Disposed, Others, r
    <2> QED  BY <2>1, <2>2
  <1> QED  BY <1>6, <1>7, <1>8, <1>9, <1>10, <1>11, <1>12 DEF IInv

(* Something happened during the scan: it starts anew. *)
LEMMA ScanAgainKeeps ==
  ASSUME IInv, NEW t \in Tasks, EndRefresh(t), state[task[t].repo] = "RefreshingAndDirty"
  PROVE  IInv'
  <1> DEFINE r == task[t].repo
  <1>1. TypeOK /\ task[t] \in TaskState /\ r \in Repos  BY DEF IInv, TypeOK, TaskState
  <1>2. Move(t, "gate")  BY DEF EndRefresh
  <1>3. /\ task' \in [Tasks -> TaskState] /\ Others(t)
        /\ task'[t].step = "gate" /\ task'[t].repo = r
        /\ task'[t].asked = task[t].asked /\ task'[t].seen = task[t].seen
    BY <1>1, <1>2, Stepped DEF Step
  <1>4. /\ UNCHANGED <<disk, event, timer, sharing, published, last>>
        /\ task[t].step = "end"
        /\ state' \in [Repos -> State] /\ state'[r] = "Refreshing"
        /\ \A q \in Repos : q # r => state'[q] = state[q]
    BY <1>1 DEF EndRefresh, At, tree, TypeOK, State
  <1>5. \A u \in Tasks : Active(u) /\ task[u].repo = r => u = t
    BY <1>4 DEF IInv, ScanInv, OneScanPerRepo, Active
  <1> HIDE DEF r
  <1>6. TypeOK'  BY <1>1, <1>3, <1>4 DEF TypeOK, r
  <1>7. ScanInv'
    <2>1. OneScanPerRepo'  BY <1>3, <1>5 DEF IInv, ScanInv, OneScanPerRepo, Active, Others
    <2>2. ScanKnown'
      BY <1>1, <1>3, <1>4 DEF IInv, ScanInv, ScanKnown, Active, Others, TypeOK, TaskState
    <2>3. DirtyIsTimed'
      BY <1>3, <1>4 DEF IInv, ScanInv, DirtyIsTimed, At, Others, r
    <2> QED  BY <2>1, <2>2, <2>3 DEF ScanInv
  <1>8. ShareInv'
    <2>1. \A u \in Tasks : task'[u].repo = r => ~HasRead(u)'
      BY <1>3, <1>5 DEF HasRead, Active, Others
    <2> QED
      BY <1>1, <1>3, <1>4, <2>1 DEF IInv, ShareInv, HasRead, At, Others, TypeOK, Tasks, r
  <1>9. FreshInv'
    BY <1>1, <1>3, <1>4
    DEF IInv, FreshInv, ExistsInv, ReadSinceAsked, ReadSincePublished, HasRead, At, Others, r
  <1>10. CurrentInv'
    <2>1. ReadIsCurrent'
      <3> SUFFICES ASSUME NEW u \in Tasks, HasRead(u)'
                   PROVE  \/ task'[u].seen = disk'[task'[u].repo]
                          \/ event'[task'[u].repo]
                          \/ state'[task'[u].repo] \in {"RefreshingAndDirty", "Disposed"}
        BY DEF ReadIsCurrent
      <3>1. u # t  BY <1>3 DEF HasRead
      <3>2. task'[u] = task[u]  BY <1>3, <3>1 DEF Others
      <3>3. HasRead(u) /\ Active(u)  BY <3>2 DEF HasRead, Active
      <3>4. task[u].repo # r  BY <1>5, <3>1, <3>3
      <3>5. task[u].repo \in Repos  BY <1>1 DEF TypeOK, TaskState
      <3>6. state'[task[u].repo] = state[task[u].repo]  BY <1>4, <3>4, <3>5
      <3> QED  BY <1>4, <3>2, <3>3, <3>6 DEF IInv, CurrentInv, ReadIsCurrent
    <2>2. EndIsPublished'
      BY <1>3, <1>4 DEF IInv, CurrentInv, EndIsPublished, At, Others
    <2> QED  BY <2>1, <2>2 DEF CurrentInv
  <1>11. AnswerNotOlderThanQuestion'
    BY <1>3 DEF IInv, AnswerNotOlderThanQuestion, At, Others, Tasks
  <1>12. NoChangeForgotten'
    BY <1>1, <1>3, <1>4
    DEF IInv, NoChangeForgotten, WillRead, Stuck, Active, At, Disposed, Others, r
  <1> QED  BY <1>6, <1>7, <1>8, <1>9, <1>10, <1>11, <1>12 DEF IInv

(* What the end of a scan does to the tasks: those that shared it have its
   result, and nobody goes back to work. *)
LEMMA Answered ==
  ASSUME TypeOK, ShareInv, FreshInv, NEW t \in Tasks, EndRefresh(t),
         state[task[t].repo] # "RefreshingAndDirty"
  PROVE  LET r == task[t].repo IN
         /\ task' \in [Tasks -> TaskState]
         /\ \A u \in sharing[r] :
              /\ u # t /\ task'[u].step = "answered" /\ task'[u].repo = r
              /\ task'[u].asked = task[u].asked /\ task'[u].seen = task[t].seen
         /\ \A u \in Tasks : u # t /\ u \notin sharing[r] => task'[u] = task[u]
         /\ task'[t].step \in {"answered", "idle"}
         /\ task'[t].asked <= disk[task'[t].repo]
         /\ task'[t].step = "answered" =>
              task'[t].asked = task[t].asked /\ task'[t].seen = task[t].seen
  <1> DEFINE r == task[t].repo
             own == [task[t] EXCEPT !.step = "answered"]
             theirs(u) == [task[t] EXCEPT !.step = "answered", !.asked = task[u].asked]
             new == Finished(t, own)
  <1>1. task[t] \in TaskState /\ r \in Repos  BY DEF TypeOK, TaskState
  <1>2. /\ own \in TaskState /\ own.step = "answered" /\ own.repo = r
        /\ own.asked = task[t].asked /\ own.seen = task[t].seen
    BY <1>1 DEF TaskState, Step
  <1>3. ASSUME NEW u \in Tasks
        PROVE  /\ theirs(u) \in TaskState /\ theirs(u).step = "answered" /\ theirs(u).repo = r
               /\ theirs(u).asked = task[u].asked /\ theirs(u).seen = task[t].seen
    <2>1. task[u] \in TaskState  BY DEF TypeOK
    <2> QED  BY <1>1, <2>1 DEF TaskState, Step
  <1>4. task' = [u \in Tasks |-> IF u \in sharing[r] THEN theirs(u)
                                 ELSE IF u = t THEN new ELSE task[u]]
    BY DEF EndRefresh
  <1>5. IdleTask.step = "idle" /\ IdleTask.asked = 0 /\ IdleTask.repo = AnyRepo
    BY DEF IdleTask
  <1>6. /\ new \in TaskState /\ new.step \in {"answered", "idle"} /\ new.asked <= disk[new.repo]
        /\ new.step = "answered" => new.asked = task[t].asked /\ new.seen = task[t].seen
    BY <1>1, <1>2, <1>5, IdleTaskType DEF Finished, FreshInv, ExistsInv, TypeOK
  <1>7. t \notin sharing[r] /\ sharing[r] \subseteq Tasks
    BY <1>1 DEF EndRefresh, ShareInv, At, TypeOK, Tasks
  <1> HIDE DEF own, theirs, new
  <1>8. \A u \in Tasks : task[u] \in TaskState  BY DEF TypeOK
  <1>9. task' \in [Tasks -> TaskState]  BY <1>3, <1>4, <1>6, <1>8
  <1>10. \A u \in sharing[r] : task'[u] = theirs(u)  BY <1>4, <1>7
  <1>11. task'[t] = new  BY <1>4, <1>7
  <1> QED  BY <1>3, <1>4, <1>6, <1>7, <1>9, <1>10, <1>11

(* The scan is over, and everyone who shared it is answered. *)
LEMMA AnswerKeeps ==
  ASSUME IInv, NEW t \in Tasks, EndRefresh(t), state[task[t].repo] # "RefreshingAndDirty"
  PROVE  IInv'
  <1> DEFINE r == task[t].repo
             shared == sharing[r]
  <1>1. /\ TypeOK /\ ScanInv /\ ShareInv /\ FreshInv
        /\ task[t] \in TaskState /\ r \in Repos /\ shared \subseteq Calls
    BY DEF IInv, TypeOK, TaskState
  <1>2. /\ task' \in [Tasks -> TaskState]
        /\ \A u \in shared :
             /\ u # t /\ task'[u].step = "answered" /\ task'[u].repo = r
             /\ task'[u].asked = task[u].asked /\ task'[u].seen = task[t].seen
        /\ \A u \in Tasks : u # t /\ u \notin shared => task'[u] = task[u]
        /\ task'[t].step \in {"answered", "idle"}
        /\ task'[t].asked <= disk[task'[t].repo]
        /\ task'[t].step = "answered" =>
             task'[t].asked = task[t].asked /\ task'[t].seen = task[t].seen
    BY <1>1, Answered
  <1>3. task[t].step = "end" /\ Active(t) /\ HasRead(t)
    BY DEF EndRefresh, At, Active, HasRead
  <1>4. \A u \in Tasks : Active(u) /\ task[u].repo = r => u = t
    BY <1>1, <1>3 DEF ScanInv, OneScanPerRepo
  <1>5. \/ state[r] = "Refreshing" /\ state'[r] = "Clean"
        \/ state[r] = "Disposed" /\ state'[r] = "Disposed"
    BY <1>1, <1>3 DEF EndRefresh, ScanInv, ScanKnown, TypeOK
  <1>6. /\ UNCHANGED <<disk, event, timer, published, last>>
        /\ state' \in [Repos -> State] /\ sharing' \in [Repos -> SUBSET Calls]
        /\ sharing'[r] = {}
        /\ \A q \in Repos : q # r => state'[q] = state[q] /\ sharing'[q] = sharing[q]
    <2>1. /\ UNCHANGED <<disk, event, timer, published, last>>
          /\ state' = [state EXCEPT ![r] = IF @ = "Disposed" THEN @ ELSE "Clean"]
          /\ sharing' = [sharing EXCEPT ![r] = {}]
      BY DEF EndRefresh, tree
    <2>2. state \in [Repos -> State] /\ sharing \in [Repos -> SUBSET Calls]
      BY <1>1 DEF TypeOK
    <2> QED  BY <1>1, <2>1, <2>2 DEF State
  <1>7. \A u \in shared : u \in Tasks /\ At(u, "joined") /\ task[u].repo = r
    BY <1>1 DEF ShareInv, TypeOK, Tasks
  (* Nobody is at a step at which he was not before, but for the answered. *)
  <1>8. \A u \in Tasks : task'[u].step \notin {"answered", "idle"} =>
          u # t /\ task'[u] = task[u]
    BY <1>2
  <1>9. \A u \in Tasks : task[u].step \notin {"joined", "end"} => task'[u] = task[u]
    BY <1>2, <1>3, <1>7 DEF At
  <1>10. \A u \in Tasks : task[u].repo # r => task'[u] = task[u]
    BY <1>2, <1>7
  <1> HIDE DEF r, shared
  <1>11. TypeOK'
    BY <1>1, <1>2, <1>5, <1>6 DEF TypeOK
  <1>12. ScanInv'
    <2>1. OneScanPerRepo'  BY <1>1, <1>8 DEF ScanInv, OneScanPerRepo, Active
    <2>2. ScanKnown'
      <3> SUFFICES ASSUME NEW u \in Tasks, Active(u)'
                   PROVE  state'[task'[u].repo] \in {"Refreshing", "RefreshingAndDirty", "Disposed"}
        BY DEF ScanKnown
      <3>1. u # t /\ task'[u] = task[u] /\ Active(u)  BY <1>8 DEF Active
      <3>2. task[u].repo \in Repos /\ task[u].repo # r
        BY <1>1, <1>4, <3>1 DEF TypeOK, TaskState
      <3> QED  BY <1>1, <1>6, <3>1, <3>2 DEF ScanInv, ScanKnown
    <2>3. DirtyIsTimed'
      BY <1>1, <1>5, <1>6, <1>9 DEF ScanInv, DirtyIsTimed, At
    <2> QED  BY <2>1, <2>2, <2>3 DEF ScanInv
  <1>13. ShareInv'
    <2> SUFFICES ASSUME NEW q \in Repos, q # r, NEW u \in sharing[q]
                 PROVE  /\ At(u, "joined")' /\ task'[u].repo = q
                        /\ state[q] \in {"Refreshing", "RefreshingAndDirty"}
                        /\ state[q] = "Refreshing" =>
                             \A v \in Tasks : task'[v].repo = q /\ HasRead(v)' =>
                               task'[u].asked <= task'[v].seen
      BY <1>6 DEF ShareInv
    <2>1. /\ u \in Tasks /\ At(u, "joined") /\ task[u].repo = q /\ task'[u] = task[u]
          /\ state[q] \in {"Refreshing", "RefreshingAndDirty"}
      BY <1>1, <1>10 DEF ShareInv, TypeOK, Tasks
    <2>2. \A v \in Tasks : HasRead(v)' => task'[v] = task[v] /\ HasRead(v)
      BY <1>8 DEF HasRead
    <2> QED  BY <1>1, <2>1, <2>2 DEF ShareInv, At
  <1>14. FreshInv'
    <2>1. \A u \in Tasks : task'[u].asked <= disk[task'[u].repo]
      BY <1>1, <1>2, <1>7 DEF FreshInv, ExistsInv
    <2>2. ExistsInv'  BY <1>1, <1>6, <2>1 DEF FreshInv, ExistsInv
    <2>3. ReadSinceAsked'  BY <1>1, <1>6, <1>8 DEF FreshInv, ReadSinceAsked, HasRead
    <2>4. ReadSincePublished'  BY <1>1, <1>6, <1>8 DEF FreshInv, ReadSincePublished, At
    <2> QED  BY <2>2, <2>3, <2>4 DEF FreshInv
  <1>15. CurrentInv'
    <2>1. ReadIsCurrent'
      <3> SUFFICES ASSUME NEW u \in Tasks, HasRead(u)'
                   PROVE  \/ task'[u].seen = disk[task'[u].repo]
                          \/ event[task'[u].repo]
                          \/ state'[task'[u].repo] \in {"RefreshingAndDirty", "Disposed"}
        BY <1>6 DEF ReadIsCurrent
      <3>1. u # t /\ task'[u] = task[u] /\ HasRead(u) /\ Active(u)
        BY <1>8 DEF HasRead, Active
      <3>2. task[u].repo \in Repos /\ task[u].repo # r
        BY <1>1, <1>4, <3>1 DEF TypeOK, TaskState
      <3> QED  BY <1>6, <3>1, <3>2 DEF IInv, CurrentInv, ReadIsCurrent
    <2>2. EndIsPublished'  BY <1>6, <1>8 DEF IInv, CurrentInv, EndIsPublished, At
    <2> QED  BY <2>1, <2>2 DEF CurrentInv
  <1>16. AnswerNotOlderThanQuestion'
    <2> SUFFICES ASSUME NEW u \in Calls, At(u, "answered")', task'[u].ok
                 PROVE  task'[u].seen >= task'[u].asked
      BY DEF AnswerNotOlderThanQuestion
    <2>0. u \in Tasks /\ task[u] \in TaskState  BY <1>1 DEF Tasks, TypeOK
    <2>1. CASE u = t
      <3>1. task[t].asked <= task[t].seen  BY <1>1, <1>3 DEF FreshInv, ReadSinceAsked
      <3> QED  BY <1>1, <1>2, <2>1, <3>1 DEF At, TaskState
    <2>2. CASE u \in shared
      <3>1. state[r] = "Refreshing"  BY <1>1, <1>5, <2>2 DEF ShareInv, shared
      <3>2. task[u].asked <= task[t].seen
        BY <1>1, <1>3, <2>2, <3>1 DEF ShareInv, shared, r
      <3> QED  BY <1>1, <1>2, <2>0, <2>2, <3>2 DEF TaskState
    <2>3. CASE u # t /\ u \notin shared
      BY <1>2, <2>0, <2>3 DEF IInv, AnswerNotOlderThanQuestion, At
    <2> QED  BY <2>1, <2>2, <2>3
  <1>17. NoChangeForgotten'
    <2> SUFFICES ASSUME NEW q \in Repos, disk[q] # published[q], ~Disposed,
                        ~event[q], ~timer[q], last[q] # "failed"
                 PROVE  \/ WillRead(q)'
                        \/ \E u \in Tasks : task'[u].repo = q /\ At(u, "begin")'
                        \/ \E u \in Tasks : /\ task'[u].repo = q /\ At(u, "read")'
                                             /\ task'[u].seen = disk[q]
                        \/ Stuck(q)'
      BY <1>5, <1>6 DEF NoChangeForgotten, Disposed
    <2>1. \/ WillRead(q) \/ Stuck(q)
          \/ \E u \in Tasks : task[u].repo = q /\ At(u, "begin")
          \/ \E u \in Tasks : task[u].repo = q /\ At(u, "read") /\ task[u].seen = disk[q]
      BY DEF IInv, NoChangeForgotten
    <2>2. CASE \E u \in Tasks : task[u].repo = q /\ At(u, "begin")
      BY <1>9, <2>2 DEF At
    <2>3. CASE \E u \in Tasks : task[u].repo = q /\ At(u, "read") /\ task[u].seen = disk[q]
      BY <1>9, <2>3 DEF At
    <2>4. CASE q = r
      <3>1. ~Stuck(q)  BY <1>3, <2>4 DEF Stuck, r
      <3>2. ~WillRead(q)
        BY <1>3, <1>4, <1>5, <2>4 DEF WillRead, Active
      <3> QED  BY <2>1, <2>2, <2>3, <3>1, <3>2
    <2>5. CASE q # r /\ WillRead(q)
      BY <1>6, <1>10, <2>5 DEF WillRead, Active
    <2>6. CASE q # r /\ Stuck(q)
      BY <1>6, <1>8, <2>6 DEF Stuck, Active
    <2> QED  BY <2>1, <2>2, <2>3, <2>4, <2>5, <2>6
  <1> QED  BY <1>11, <1>12, <1>13, <1>14, <1>15, <1>16, <1>17 DEF IInv

LEMMA EndRefreshKeeps ==
  ASSUME IInv, NEW t \in Tasks, EndRefresh(t)
  PROVE  IInv'
  BY ScanAgainKeeps, AnswerKeeps

(* The agent stops. *)
LEMMA DisposeKeeps ==
  ASSUME IInv, Dispose
  PROVE  IInv'
  <1> DEFINE gone(t) == [task[t] EXCEPT !.step = "threw"]
  <1>1. TypeOK  BY DEF IInv
  <1>2. ASSUME NEW t \in Tasks
        PROVE  /\ task[t] \in TaskState /\ task[t].repo \in Repos
               /\ gone(t) \in TaskState /\ gone(t).step = "threw"
               /\ gone(t).repo = task[t].repo /\ gone(t).asked = task[t].asked
    <2>1. task[t] \in TaskState  BY <1>1 DEF TypeOK
    <2> QED  BY <2>1 DEF TaskState, Step
  <1>3. task' = [t \in Tasks |-> IF At(t, "joined") THEN gone(t) ELSE task[t]]
    BY DEF Dispose
  <1> HIDE DEF gone
  <1>4. /\ task' \in [Tasks -> TaskState]
        /\ \A t \in Tasks :
             \/ task'[t] = task[t]
             \/ /\ task'[t].step = "threw"
                /\ task'[t].repo = task[t].repo /\ task'[t].asked = task[t].asked
    BY <1>2, <1>3
  <1>5. /\ UNCHANGED <<disk, event, published, last>>
        /\ \A q \in Repos : state'[q] = "Disposed" /\ timer'[q] = FALSE /\ sharing'[q] = {}
        /\ state' \in [Repos -> State] /\ timer' \in [Repos -> BOOLEAN]
        /\ sharing' \in [Repos -> SUBSET Calls]
    BY DEF Dispose, tree, State
  <1>6. TypeOK'  BY <1>1, <1>4, <1>5 DEF TypeOK
  <1>7. ScanInv'
    <2>1. OneScanPerRepo'  BY <1>4 DEF IInv, ScanInv, OneScanPerRepo, Active
    <2>2. ScanKnown'  BY <1>2, <1>4, <1>5 DEF ScanKnown, TaskState
    <2>3. DirtyIsTimed'  BY <1>5 DEF DirtyIsTimed
    <2> QED  BY <2>1, <2>2, <2>3 DEF ScanInv
  <1>8. ShareInv'  BY <1>5 DEF ShareInv
  <1>9. FreshInv'
    BY <1>4, <1>5 DEF IInv, FreshInv, ExistsInv, ReadSinceAsked, ReadSincePublished, HasRead, At
  <1>10. CurrentInv'
    <2>1. ReadIsCurrent'  BY <1>2, <1>4, <1>5 DEF ReadIsCurrent, TaskState
    <2>2. EndIsPublished'  BY <1>4, <1>5 DEF IInv, CurrentInv, EndIsPublished, At
    <2> QED  BY <2>1, <2>2 DEF CurrentInv
  <1>11. AnswerNotOlderThanQuestion'
    BY <1>4 DEF IInv, AnswerNotOlderThanQuestion, At, Tasks
  <1>12. NoChangeForgotten'
    BY <1>5 DEF NoChangeForgotten, Disposed
  <1> QED  BY <1>6, <1>7, <1>8, <1>9, <1>10, <1>11, <1>12 DEF IInv

LEMMA StutterKeeps == IInv /\ UNCHANGED vars => IInv'
  BY DEF vars, tree, tracker, IInv, TypeOK, ScanInv, OneScanPerRepo, ScanKnown, DirtyIsTimed,
         ShareInv, FreshInv, ExistsInv, ReadSinceAsked, ReadSincePublished, CurrentInv,
         ReadIsCurrent, EndIsPublished, AnswerNotOlderThanQuestion, NoChangeForgotten, WillRead,
         Stuck, Active, HasRead, At, Disposed

LEMMA NextKeeps == IInv /\ [Next]_vars => IInv'
  <1> SUFFICES ASSUME IInv, [Next]_vars PROVE IInv'  OBVIOUS
  <1>1. CASE \E r \in Repos : Change(r) \/ Touch(r) \/ MarkDirty(r)
    BY <1>1, ChangeKeeps, MarkDirtyKeeps
  <1>2. CASE \E r \in Repos, t \in Callbacks : Elapse(r, t)
    BY <1>2, BeginKeeps DEF Tasks
  <1>3. CASE \E r \in Repos, t \in Calls : Request(r, t)
    BY <1>3, BeginKeeps DEF Tasks
  <1>4. CASE \E t \in Tasks : TaskNext(t)
    BY <1>4, TryBeginRefreshKeeps, EnterGateKeeps, ReadStatusKeeps, PublishSnapshotKeeps,
       EndRefreshKeeps, CancelRequestKeeps DEF TaskNext
  <1>5. CASE Dispose  BY <1>5, DisposeKeeps
  <1>6. CASE UNCHANGED vars  BY <1>6, StutterKeeps
  <1> QED  BY <1>1, <1>2, <1>3, <1>4, <1>5, <1>6 DEF Next

-----------------------------------------------------------------------------
(* The inductive invariant holds in every reachable state, for any number of
   repositories, requests, callbacks, places at the gate and changes. *)
THEOREM Invariance == Spec => []IInv
  BY Initially, NextKeeps, PTL DEF Spec

(* Every variable of the coordinator keeps its type, and only a tracker that is
   Dirty has its timer armed. *)
THEOREM TypeCorrect == Spec => []TypeOK
  <1>1. IInv => TypeOK  BY DEF IInv
  <1> QED  BY <1>1, Invariance, PTL

(* "A repository never has more than one active and one pending refresh": one
   task at a time runs the scan loop of a repository. *)
THEOREM ScannedByOne == Spec => []OneScanPerRepo
  <1>1. IInv => OneScanPerRepo  BY DEF IInv, ScanInv
  <1> QED  BY <1>1, Invariance, PTL

(* EndRefresh's promise to the callers that share a scan: no answer shows the
   working tree as it was before the question. *)
THEOREM AnswersAreFresh == Spec => []AnswerNotOlderThanQuestion
  <1>1. IInv => AnswerNotOlderThanQuestion  BY DEF IInv
  <1> QED  BY <1>1, Invariance, PTL

(* A change that the published snapshot does not show is announced, or about to be
   read, unless a scan failed or its request was cancelled. *)
THEOREM ChangesAreNotForgotten == Spec => []NoChangeForgotten
  <1>1. IInv => NoChangeForgotten  BY DEF IInv
  <1> QED  BY <1>1, Invariance, PTL

(* The snapshots of the scans reach the publisher in the order in which git read them
   (ExecuteScanLoopAsync).  It is not a claim about what SetLatest keeps. *)
THEOREM InOrder == Spec => SnapshotsInOrder
  <1>1. IInv /\ [Next]_vars => [\A r \in Repos : published'[r] >= published[r]]_published
    <2> SUFFICES ASSUME IInv, [Next]_vars, published' # published
                 PROVE  \A r \in Repos : published'[r] >= published[r]
      BY DEF TypeOK
    <2>1. PICK t \in Tasks : PublishSnapshot(t)
      BY DEF Next, vars, TaskNext, Change, Touch, MarkDirty, Elapse, Request, TryBeginRefresh,
             EnterGate, ReadStatus, EndRefresh, CancelRequest, Dispose
    <2>2. TypeOK /\ FreshInv  BY DEF IInv
    <2>3. /\ \A q \in Repos : q # task[t].repo => published'[q] = published[q]
          /\ published'[task[t].repo] \in {task[t].seen, published[task[t].repo]}
          /\ task[t].step = "read"
      BY <2>1, <2>2, Published
    <2>4. published[task[t].repo] <= task[t].seen
      BY <2>2, <2>3 DEF FreshInv, ReadSincePublished, At
    <2> QED  BY <2>2, <2>3, <2>4 DEF TypeOK, TaskState
  <1> QED  BY <1>1, Invariance, PTL DEF Spec, SnapshotsInOrder

-----------------------------------------------------------------------------
(* Refinement: every step is a step of Mirror, or none. *)
LEMMA ChangeIsChange ==
  ASSUME TypeOK, NEW r \in Repos, Change(r)
  PROVE  Snapshots!Change(r)
  BY DEF Change, Snapshots!Change

LEMMA PublishIsCopy ==
  ASSUME IInv, NEW t \in Tasks, PublishSnapshot(t)
  PROVE  task[t].repo \in Repos /\ Snapshots!Copy(task[t].repo)
<1> DEFINE r == task[t].repo
           v == IF task[t].ok THEN task[t].seen ELSE published[r]
<1>1. TypeOK /\ FreshInv  BY DEF IInv
<1>2. /\ r \in Repos /\ task[t].seen \in Nat
      /\ published[r] \in Nat /\ disk[r] \in Nat
  BY <1>1, CoordinatorAssumption DEF TypeOK, TaskState
<1>3. At(t, "read")  BY DEF PublishSnapshot
<1>4. published[r] <= task[t].seen /\ task[t].seen <= disk[r] /\ published[r] <= disk[r]
  BY <1>1, <1>2, <1>3 DEF FreshInv, ExistsInv, ReadSinceAsked, ReadSincePublished, HasRead, At
<1>5. v \in published[r] .. disk[r]
  BY <1>2, <1>4
<1>6. published' = [published EXCEPT ![r] = v] /\ disk' = disk
  BY DEF PublishSnapshot, tree
<1> QED  BY <1>2, <1>5, <1>6 DEF Snapshots!Copy

LEMMA StepMirrors == IInv /\ [Next]_vars => [Snapshots!Next]_(Snapshots!vars)
<1> SUFFICES ASSUME IInv, [Next]_vars PROVE [Snapshots!Next]_(Snapshots!vars)  OBVIOUS
<1>1. ASSUME NEW r \in Repos, Change(r) PROVE Snapshots!Next
  BY <1>1, ChangeIsChange DEF IInv, Snapshots!Next
<1>2. ASSUME NEW t \in Tasks, PublishSnapshot(t) PROVE Snapshots!Next
  BY <1>2, PublishIsCopy DEF Snapshots!Next
<1>3. CASE UNCHANGED <<disk, published>>
  BY <1>3 DEF Snapshots!vars
<1>4. \/ UNCHANGED <<disk, published>>
      \/ \E r \in Repos : Change(r)
      \/ \E t \in Tasks : PublishSnapshot(t)
  BY DEF Next, vars, tree, TaskNext, Touch, MarkDirty, Elapse, Request, TryBeginRefresh,
         EnterGate, ReadStatus, EndRefresh, CancelRequest, Dispose
<1> QED  BY <1>1, <1>2, <1>3, <1>4

(* What the coordinator publishes mirrors the working trees: each snapshot was true at
   some moment since the one before it (ExecuteScanLoopAsync). *)
THEOREM PublishedIsMirror == Spec => PublishedMirrorsTrees
  <1>1. Init => Snapshots!Init  BY DEF Init, Snapshots!Init
  <1> QED  BY <1>1, StepMirrors, Invariance, PTL DEF Spec, PublishedMirrorsTrees, Snapshots!Spec

-----------------------------------------------------------------------------
(* Who joins a scan is answered by it: the safety part of RequestsEnd.          *)

(* A request that waits for the completion of a tracker is one the tracker knows. *)
JoinedShare == \A u \in Calls : At(u, "joined") => u \in sharing[task[u].repo]

(* Nobody joins, and the completions stay as they are. *)
LEMMA JoinedStay ==
  ASSUME JoinedShare, UNCHANGED sharing, NEW t \in Tasks, Others(t), task'[t].step # "joined"
  PROVE  JoinedShare'
  BY DEF JoinedShare, At, Others, Tasks

(* A task begins. *)
LEMMA BeginShares ==
  ASSUME TypeOK, JoinedShare, NEW t \in Tasks, NEW r \in Repos, UNCHANGED sharing,
         task' = [task EXCEPT ![t] =
                    [IdleTask EXCEPT !.step = "begin", !.repo = r, !.asked = disk[r]]]
  PROVE  JoinedShare'
  <1> DEFINE new == [IdleTask EXCEPT !.step = "begin", !.repo = r, !.asked = disk[r]]
  <1>1. new \in TaskState /\ new.step = "begin"
    BY IdleTaskType DEF IdleTask, TaskState, Step, TypeOK
  <1> HIDE DEF new
  <1>2. Others(t) /\ task'[t] = new  BY <1>1, Replaced DEF new
  <1> QED  BY <1>1, <1>2, JoinedStay

LEMMA MoveShares ==
  ASSUME TypeOK, JoinedShare, UNCHANGED sharing, NEW t \in Tasks,
         NEW step \in Step \ {"joined"}, Move(t, step)
  PROVE  JoinedShare'
  BY Stepped, JoinedStay

LEMMA TryBeginShares ==
  ASSUME TypeOK, JoinedShare, NEW t \in Tasks, TryBeginRefresh(t)
  PROVE  JoinedShare'
  <1> DEFINE r == task[t].repo
             result(step) == Finished(t, [task[t] EXCEPT !.step = step])
  <1>1. task[t] \in TaskState /\ r \in Repos  BY DEF TypeOK, TaskState
  <1>2. ASSUME NEW step \in Step
        PROVE  /\ result(step) \in TaskState
               /\ result(step).step \in {step, "idle"}
               /\ t \in Calls => result(step).step = step /\ result(step).repo = r
    <2>1. /\ [task[t] EXCEPT !.step = step] \in TaskState
          /\ [task[t] EXCEPT !.step = step].step = step
          /\ [task[t] EXCEPT !.step = step].repo = r
      BY <1>1 DEF TaskState
    <2> QED  BY <2>1, IdleTaskType, CoordinatorAssumption DEF Finished, IdleTask
  <1>3. CASE state[r] \in {"Refreshing", "RefreshingAndDirty"}
    <2>1. /\ task' = [task EXCEPT ![t] = result("joined")]
          /\ sharing' = [sharing EXCEPT ![r] = @ \cup ({t} \cap Calls)]
      BY <1>3 DEF TryBeginRefresh
    <2>2. "joined" \in Step  BY DEF Step
    <2> HIDE DEF result
    <2>3. Others(t) /\ task'[t] = result("joined")  BY <1>2, <2>1, <2>2, Replaced
    <2>4. /\ sharing'[r] = sharing[r] \cup ({t} \cap Calls)
          /\ \A q \in Repos : sharing[q] \subseteq sharing'[q]
      BY <1>1, <2>1 DEF TypeOK
    <2> HIDE DEF r
    <2>5. ASSUME NEW u \in Calls, task'[u].step = "joined"
          PROVE  u \in sharing'[task'[u].repo]
      <3>1. CASE u = t
        <4>1. task'[u].repo = r  BY <1>2, <2>2, <2>3, <3>1
        <4> QED  BY <2>4, <3>1, <4>1
      <3>2. CASE u # t
        <4>1. task'[u] = task[u]  BY <2>3, <3>2 DEF Others, Tasks
        <4>2. u \in sharing[task[u].repo]  BY <2>5, <4>1 DEF JoinedShare, At
        <4>3. task[u].repo \in Repos  BY DEF TypeOK, TaskState, Tasks
        <4> QED  BY <2>4, <4>1, <4>2, <4>3
      <3> QED  BY <3>1, <3>2
    <2> QED  BY <2>5 DEF JoinedShare, At
  <1>4. CASE state[r] = "Disposed"
    <2>1. task' = [task EXCEPT ![t] = result("refused")] /\ UNCHANGED sharing
      BY <1>4 DEF TryBeginRefresh, tracker
    <2>2. "refused" \in Step  BY DEF Step
    <2> HIDE DEF result
    <2>3. Others(t) /\ task'[t] = result("refused")  BY <1>2, <2>1, <2>2, Replaced
    <2>4. task'[t].step # "joined"  BY <1>2, <2>2, <2>3
    <2> QED  BY <2>1, <2>3, <2>4, JoinedStay
  <1>5. CASE state[r] \in {"Clean", "Dirty"}
    BY <1>5, MoveShares DEF TryBeginRefresh, Step
  <1> QED  BY <1>1, <1>3, <1>4, <1>5 DEF TypeOK, State

(* The end of a scan answers all who share it, and no others. *)
LEMMA EndShares ==
  ASSUME IInv, JoinedShare, NEW t \in Tasks, EndRefresh(t)
  PROVE  JoinedShare'
  <1> DEFINE r == task[t].repo
  <1>1. TypeOK /\ ShareInv /\ FreshInv /\ r \in Repos  BY DEF IInv, TypeOK, TaskState
  <1>2. CASE state[r] = "RefreshingAndDirty"
    BY <1>1, <1>2, MoveShares DEF EndRefresh, Step
  <1>3. CASE state[r] # "RefreshingAndDirty"
    <2>1. /\ \A u \in sharing[r] : task'[u].step = "answered"
          /\ \A u \in Tasks : u # t /\ u \notin sharing[r] => task'[u] = task[u]
          /\ task'[t].step \in {"answered", "idle"}
      BY <1>1, <1>3, Answered
    <2>2. \A q \in Repos : q # r => sharing'[q] = sharing[q]
      BY <1>1, <1>3 DEF EndRefresh, TypeOK
    <2> SUFFICES ASSUME NEW u \in Calls, task'[u].step = "joined"
                 PROVE  u \in sharing'[task'[u].repo]
      BY DEF JoinedShare, At
    <2>3. u \in Tasks /\ u # t /\ u \notin sharing[r] /\ task'[u] = task[u]
      BY <2>1 DEF Tasks
    <2>4. task[u].repo \in Repos /\ u \in sharing[task[u].repo]
      BY <1>1, <2>3 DEF JoinedShare, At, TypeOK, TaskState
    <2> QED  BY <2>2, <2>3, <2>4
  <1> QED  BY <1>2, <1>3

LEMMA DisposeShares ==
  ASSUME TypeOK, Dispose
  PROVE  JoinedShare'
  <1> SUFFICES ASSUME NEW u \in Calls PROVE task'[u].step # "joined"
    BY DEF JoinedShare, At
  <1>1. task[u] \in TaskState /\ u \in Tasks  BY DEF TypeOK, Tasks
  <1>2. [task[u] EXCEPT !.step = "threw"].step = "threw"  BY <1>1 DEF TaskState
  <1> QED  BY <1>1, <1>2 DEF Dispose, At

LEMMA SharesStep == IInv /\ JoinedShare /\ [Next]_vars => JoinedShare'
  <1> SUFFICES ASSUME IInv, JoinedShare, [Next]_vars PROVE JoinedShare'  OBVIOUS
  <1>1. TypeOK /\ FreshInv  BY DEF IInv
  <1>2. CASE \E r \in Repos : Change(r) \/ Touch(r) \/ MarkDirty(r)
    BY <1>2 DEF Change, Touch, MarkDirty, tracker, JoinedShare, At
  <1>3. CASE \E r \in Repos, t \in Callbacks : Elapse(r, t)
    BY <1>1, <1>3, BeginShares DEF Elapse, Tasks
  <1>4. CASE \E r \in Repos, t \in Calls : Request(r, t)
    BY <1>1, <1>4, BeginShares DEF Request, Tasks, tracker
  <1>5. ASSUME NEW t \in Tasks, TaskNext(t) PROVE JoinedShare'
    <2>1. CASE TryBeginRefresh(t)  BY <1>1, <2>1, TryBeginShares
    <2>2. CASE EnterGate(t)  BY <1>1, <2>2, MoveShares DEF EnterGate, Step, tracker
    <2>3. CASE ReadStatus(t)
      <3>1. PICK ok \in BOOLEAN :
              task' = [task EXCEPT ![t].step = "read", ![t].ok = ok,
                                   ![t].seen = disk[task[t].repo]]
        BY <2>3 DEF ReadStatus
      <3>2. task[t] \in TaskState  BY <1>1 DEF TypeOK
      <3>3. Others(t) /\ task'[t].step = "read"
        BY <1>1, <3>1, <3>2 DEF Others, TypeOK, TaskState
      <3> QED  BY <2>3, <3>3, JoinedStay DEF ReadStatus, tracker
    <2>4. CASE PublishSnapshot(t)
      <3>1. UNCHANGED sharing /\ Others(t) /\ task'[t].step \in {"end", "threw", "idle"}
        BY <1>1, <2>4, Published
      <3> QED  BY <3>1, JoinedStay
    <2>5. CASE EndRefresh(t)  BY <2>5, EndShares
    <2>6. CASE CancelRequest(t)  BY <1>1, <2>6, MoveShares DEF CancelRequest, Step, tracker
    <2> QED  BY <1>5, <2>1, <2>2, <2>3, <2>4, <2>5, <2>6 DEF TaskNext
  <1>6. CASE Dispose  BY <1>1, <1>6, DisposeShares
  <1>7. CASE UNCHANGED vars  BY <1>7 DEF vars, tracker, JoinedShare, At
  <1> QED  BY <1>2, <1>3, <1>4, <1>5, <1>6, <1>7 DEF Next

(* In every state a request that waits for the scan of another has been noted in the
   completion of the tracker, and a scan that will complete it runs - unless the
   tracker was left behind by a cancelled command (finding 2 of the README). *)
THEOREM WaitersAreServed == Spec => []NoWaiterLeftBehind
  <1>1. Init => JoinedShare
    BY DEF Init, JoinedShare, At, IdleTask, Tasks
  <1>2. IInv /\ JoinedShare => NoWaiterLeftBehind
    <2> SUFFICES ASSUME IInv, JoinedShare, NEW u \in Calls, At(u, "joined")
                 PROVE  /\ u \in sharing[task[u].repo]
                        /\ \/ Stuck(task[u].repo)
                           \/ \E t \in Tasks : task[t].repo = task[u].repo /\ Active(t)
      BY DEF NoWaiterLeftBehind
    <2>1. u \in sharing[task[u].repo] /\ task[u].repo \in Repos
      BY DEF JoinedShare, IInv, TypeOK, TaskState, Tasks
    <2>2. state[task[u].repo] \in {"Refreshing", "RefreshingAndDirty"}
      BY <2>1 DEF IInv, ShareInv
    <2> QED  BY <2>1, <2>2 DEF Stuck
  <1> QED  BY <1>1, <1>2, SharesStep, Invariance, PTL DEF Spec
=============================================================================
