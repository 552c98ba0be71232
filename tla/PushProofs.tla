------------------------------ MODULE PushProofs ------------------------------
(***************************************************************************)
(* Proofs about WorkspacePush, for every number of repositories and jobs,  *)
(* every set of graphs and every limit on the pushes at once.              *)
(***************************************************************************)
EXTENDS WorkspacePush, DependencyProofs

-----------------------------------------------------------------------------
(* The jobs. *)

LEMMA NextJobStep == Next => JobStep \/ UNCHANGED jobVars
<1> SUFFICES ASSUME Next PROVE JobStep \/ UNCHANGED jobVars
  OBVIOUS
<1>1. ASSUME NEW j \in Jobs, Start(j) PROVE JobStep
  BY <1>1 DEF Start, JobStep
<1>2. ASSUME NEW j \in Jobs, Begin(j) PROVE JobStep \/ UNCHANGED jobVars
  BY <1>2 DEF Begin, End, JobStep
<1>3. ASSUME NEW j \in Jobs, Plan(j) PROVE JobStep \/ UNCHANGED jobVars
  BY <1>3 DEF Plan, End, JobStep
<1>4. ASSUME NEW j \in Jobs, NextLevel(j) \/ WaitDone(j) \/ LevelDone(j) PROVE UNCHANGED jobVars
  BY <1>4 DEF NextLevel, WaitDone, LevelDone
<1>5. ASSUME NEW j \in Jobs, WaitFails(j) \/ LevelThrows(j) PROVE JobStep
  BY <1>5 DEF WaitFails, LevelThrows, End, JobStep
<1>6. ASSUME NEW j \in Jobs, UpdateCounts(j) PROVE JobStep \/ UNCHANGED jobVars
  BY <1>6 DEF UpdateCounts, End, JobStep
<1>7. ASSUME NEW j \in Jobs, Unwind(j) PROVE JobStep
  BY <1>7 DEF Unwind, End, JobStep
<1>8. ASSUME NEW j \in Jobs, NEW r \in Repos, SendPush(j, r) \/ RefusePush(j, r) \/ LoseAnswer(j, r) \/ AgentPushes(j, r)
      PROVE  UNCHANGED jobVars
  BY <1>8 DEF SendPush, RefusePush, LoseAnswer, AgentPushes
<1>9. ASSUME NEW r \in Repos, Publish(r) PROVE UNCHANGED jobVars
  BY <1>9 DEF Publish
<1>10. ASSUME User PROVE JobStep
  BY <1>10 DEF User, JobStep
<1> QED BY <1>1, <1>2, <1>3, <1>4, <1>5, <1>6, <1>7, <1>8, <1>9, <1>10 DEF Next, WorkNext

LEMMA JobInvHolds == Spec => []JobInv
<1>1. Init => JobInv
  BY JobInvInit DEF Init
<1>2. JobInv /\ [Next]_vars => JobInv'
  BY NextJobStep, JobInvStep DEF vars, jobVars
<1> QED BY <1>1, <1>2, PTL DEF Spec

(* Of the jobs of a workspace at most one works that has not been cancelled, for
   any number of jobs started while aborted ones still run (BackgroundJobHandle:
   Abort says "aborted" at once). *)
THEOREM OneLiveJobHolds == Spec => []OneLiveJob
<1>1. JobInv => OneLiveJob
  BY DEF JobInv, AbandonedIsCancelled, OneLiveJob
<1> QED BY JobInvHolds, <1>1, PTL

-----------------------------------------------------------------------------
(* Type correctness. *)

Sent(j) == {r \in Repos : push[j].task[r] = "sent"}

WorkOK(j) ==
  /\ push[j].left \subseteq push[j].repos
  /\ push[j].step # "none" <=> j \in working
  /\ Cardinality(Sent(j)) <= MaxConcurrent

WorldOK ==
  /\ uses \in Graph
  /\ level \in [Repos -> Nat]
  /\ published \subseteq Repos
  /\ remote \subseteq Repos
  /\ agent \subseteq Jobs \X Repos
  /\ push \in [Jobs -> Work]
  /\ db \in [Repos -> Outgoing]

LEMMA TypeParts == TypeOK <=> JobsTypeOK /\ WorldOK /\ \A j \in Jobs : WorkOK(j)
BY DEF TypeOK, WorldOK, WorkOK, Sent

LEMMA TypePartsNext ==
  ASSUME JobsTypeOK', WorldOK', \A j \in Jobs : WorkOK(j)'
  PROVE  TypeOK'
BY DEF TypeOK, WorldOK, WorkOK, Sent

(* What the parts of a record of push are after a step. *)
LEMMA PushParts ==
  ASSUME push \in [Jobs -> Work], NEW j \in Jobs
  PROVE  /\ push[j] \in Work
         /\ push[j].step \in Step /\ push[j].sync \in BOOLEAN
         /\ push[j].repos \in SUBSET Repos /\ push[j].left \in SUBSET Repos
         /\ push[j].task \in [Repos -> Answer]
BY DEF Work

Same(k) == push'[k] = push[k]

SameOthers(j) == \A k \in Jobs \ {j} : Same(k)

LEMMA AfterMove ==
  ASSUME push \in [Jobs -> Work], NEW j \in Jobs, NEW s \in Step, Move(j, s)
  PROVE  /\ push' \in [Jobs -> Work] /\ SameOthers(j)
         /\ push'[j].step = s /\ push'[j].sync = push[j].sync
         /\ push'[j].repos = push[j].repos /\ push'[j].left = push[j].left
         /\ push'[j].task = push[j].task
<1>1. push' = [push EXCEPT ![j] = [push[j] EXCEPT !.step = s]]
  BY DEF Move
<1>2. [push[j] EXCEPT !.step = s] \in Work
  BY PushParts DEF Work
<1> QED BY <1>1, <1>2 DEF Work, SameOthers, Same

LEMMA NoWorkIsWork ==
  /\ NoWork \in Work
  /\ NoWork.step = "none" /\ NoWork.sync = FALSE /\ NoWork.repos = {} /\ NoWork.left = {}
  /\ \A r \in Repos : NoWork.task[r] = "unsent"
BY DEF NoWork, Work, Step, Answer

LEMMA AfterEnd ==
  ASSUME push \in [Jobs -> Work], NEW j \in Jobs, NEW how, End(j, how)
  PROVE  /\ push' \in [Jobs -> Work] /\ SameOthers(j)
         /\ push'[j] = NoWork
BY NoWorkIsWork DEF End, SameOthers, Same

SetTask(j, r, a) == push' = [push EXCEPT ![j].task[r] = a]

LEMMA AfterTask ==
  ASSUME push \in [Jobs -> Work], NEW j \in Jobs, NEW r \in Repos, NEW a \in Answer,
         SetTask(j, r, a)
  PROVE  /\ push' \in [Jobs -> Work] /\ SameOthers(j)
         /\ push'[j].step = push[j].step /\ push'[j].sync = push[j].sync
         /\ push'[j].repos = push[j].repos /\ push'[j].left = push[j].left
         /\ push'[j].task[r] = a
         /\ \A s \in Repos \ {r} : push'[j].task[s] = push[j].task[s]
<1> DEFINE t == [push[j].task EXCEPT ![r] = a]
           w == [push[j] EXCEPT !.task = t]
<1>1. push' = [push EXCEPT ![j] = w]
  BY DEF SetTask
<1>2. t \in [Repos -> Answer] /\ t[r] = a /\ \A s \in Repos \ {r} : t[s] = push[j].task[s]
  BY PushParts
<1> HIDE DEF t
<1>3. /\ w \in Work /\ w.task = t /\ w.step = push[j].step /\ w.sync = push[j].sync
      /\ w.repos = push[j].repos /\ w.left = push[j].left
  BY <1>2, PushParts DEF Work
<1> HIDE DEF w
<1> QED BY <1>1, <1>2, <1>3 DEF SameOthers, Same

LEMMA AfterPlan ==
  ASSUME push \in [Jobs -> Work], NEW j \in Jobs, NEW sync \in BOOLEAN,
         NEW repos \in SUBSET Repos,
         push' = [push EXCEPT ![j] =
                    [@ EXCEPT !.step = "next", !.sync = sync, !.repos = repos, !.left = repos]]
  PROVE  /\ push' \in [Jobs -> Work] /\ SameOthers(j)
         /\ push'[j].step = "next" /\ push'[j].sync = sync
         /\ push'[j].repos = repos /\ push'[j].left = repos
         /\ push'[j].task = push[j].task
<1> DEFINE w == [push[j] EXCEPT !.step = "next", !.sync = sync, !.repos = repos, !.left = repos]
<1>1. push' = [push EXCEPT ![j] = w]
  OBVIOUS
<1>2. /\ w \in Work /\ w.task = push[j].task /\ w.step = "next" /\ w.sync = sync
      /\ w.repos = repos /\ w.left = repos
  BY PushParts DEF Work, Step
<1> HIDE DEF w
<1> QED BY <1>1, <1>2 DEF SameOthers, Same

LEMMA AfterLevel ==
  ASSUME push \in [Jobs -> Work], NEW j \in Jobs, NEW left \in SUBSET Repos,
         push' = [push EXCEPT ![j].step = "next", ![j].left = left]
  PROVE  /\ push' \in [Jobs -> Work] /\ SameOthers(j)
         /\ push'[j].step = "next" /\ push'[j].sync = push[j].sync
         /\ push'[j].repos = push[j].repos /\ push'[j].left = left
         /\ push'[j].task = push[j].task
<1> DEFINE w == [push[j] EXCEPT !.step = "next"]
           v == [w EXCEPT !.left = left]
<1>1. /\ w \in Work /\ w.task = push[j].task /\ w.step = "next" /\ w.sync = push[j].sync
      /\ w.repos = push[j].repos
  BY PushParts DEF Work, Step
<1>2. push' = [push EXCEPT ![j] = v]
  BY DEF w
<1> HIDE DEF w
<1>3. /\ v \in Work /\ v.task = w.task /\ v.step = "next" /\ v.sync = w.sync
      /\ v.repos = w.repos /\ v.left = left
  BY <1>1 DEF Work
<1> HIDE DEF v
<1> QED BY <1>1, <1>2, <1>3 DEF SameOthers, Same

LEMMA SentIsFinite ==
  ASSUME NEW j
  PROVE  /\ IsFiniteSet(Sent(j)) /\ Cardinality(Sent(j)) \in Nat
         /\ IsFiniteSet(Sent(j)') /\ Cardinality(Sent(j)') \in Nat
<1>1. Sent(j) \in SUBSET Repos /\ Sent(j)' \in SUBSET Repos
  BY DEF Sent
<1>2. IsFiniteSet(Sent(j)) /\ IsFiniteSet(Sent(j)')
  BY <1>1, ReposAssumption, FS_Subset
<1> QED BY <1>2, FS_CardinalityType

LEMMA OneMore ==
  ASSUME NEW S, NEW x, IsFiniteSet(S)
  PROVE  Cardinality(S \cup {x}) <= Cardinality(S) + 1
<1>1. Cardinality(S) \in Nat
  BY FS_CardinalityType
<1>2. CASE x \in S
  BY <1>1, <1>2, FS_AddElement
<1>3. CASE x \notin S
  <2>1. Cardinality(S \cup {x}) = Cardinality(S) + 1
    BY <1>3, FS_AddElement
  <2> QED BY <1>1, <2>1
<1> QED BY <1>2, <1>3

LEMMA FewerSent ==
  ASSUME NEW j, Cardinality(Sent(j)) <= MaxConcurrent, Sent(j)' \subseteq Sent(j)
  PROVE  Cardinality(Sent(j)') <= MaxConcurrent
<1>1. Cardinality(Sent(j)') <= Cardinality(Sent(j))
  BY SentIsFinite, FS_Subset
<1> QED BY <1>1, SentIsFinite, PushAssumption

LEMMA WorkStaysOK ==
  ASSUME NEW k, WorkOK(k),
         push'[k].left \subseteq push'[k].repos, push'[k].task = push[k].task,
         push'[k].step # "none" <=> k \in working'
  PROVE  WorkOK(k)'
<1>1. Sent(k)' = Sent(k)
  BY DEF Sent
<1> QED BY <1>1 DEF WorkOK

LEMMA OthersStayOK ==
  ASSUME NEW j, \A k \in Jobs : WorkOK(k), SameOthers(j),
         \A k \in Jobs \ {j} : k \in working' <=> k \in working
  PROVE  \A k \in Jobs \ {j} : WorkOK(k)'
<1>1. ASSUME NEW k \in Jobs \ {j} PROVE WorkOK(k)'
  <2>1. push'[k] = push[k] /\ WorkOK(k)
    BY DEF SameOthers, Same
  <2>2. push'[k].step # "none" <=> k \in working'
    BY <2>1 DEF WorkOK
  <2> QED BY <2>1, <2>2, WorkStaysOK DEF WorkOK
<1> QED BY <1>1

LEMMA EndStaysOK ==
  ASSUME push \in [Jobs -> Work], \A k \in Jobs : WorkOK(k), NEW j \in Jobs, NEW how, End(j, how)
  PROVE  push' \in [Jobs -> Work] /\ \A k \in Jobs : WorkOK(k)'
<1>1. push' \in [Jobs -> Work] /\ SameOthers(j) /\ push'[j] = NoWork
  BY AfterEnd
<1>2. working' = working \ {j}
  BY DEF End, EndWork
<1>3. \A k \in Jobs \ {j} : WorkOK(k)'
  BY <1>1, <1>2, OthersStayOK
<1>4. Sent(j)' = {}
  BY <1>1, NoWorkIsWork DEF Sent
<1>5. WorkOK(j)'
  BY <1>1, <1>2, <1>4, NoWorkIsWork, FS_EmptySet, PushAssumption DEF WorkOK
<1> QED BY <1>1, <1>3, <1>5

LEMMA MoveStaysOK ==
  ASSUME push \in [Jobs -> Work], \A k \in Jobs : WorkOK(k), NEW j \in Jobs,
         NEW s \in Step \ {"none"}, Move(j, s),
         working' = working \cup {j}
  PROVE  push' \in [Jobs -> Work] /\ \A k \in Jobs : WorkOK(k)'
<1>1. /\ push' \in [Jobs -> Work] /\ SameOthers(j)
      /\ push'[j].step = s
      /\ push'[j].repos = push[j].repos /\ push'[j].left = push[j].left
      /\ push'[j].task = push[j].task
  BY AfterMove
<1>2. \A k \in Jobs \ {j} : WorkOK(k)'
  BY <1>1, OthersStayOK
<1>3. WorkOK(j)'
  BY <1>1, WorkStaysOK DEF WorkOK
<1> QED BY <1>1, <1>2, <1>3

LEMMA TypeInit == Init => TypeOK
<1> SUFFICES ASSUME Init PROVE TypeOK
  OBVIOUS
<1>1. JobsTypeOK
  BY DEF Init, JobsInit, JobsTypeOK, JobState
<1>2. uses \in Graph /\ level \in [Repos -> Nat]
  BY PushAssumption, LevelsType DEF Init
<1>3. push \in [Jobs -> Work] /\ \A j \in Jobs : push[j] = NoWork
  BY NoWorkIsWork DEF Init
<1>4. WorldOK
  BY <1>2, <1>3 DEF Init, WorldOK, Outgoing
<1>5. ASSUME NEW j \in Jobs PROVE WorkOK(j)
  <2>1. Sent(j) = {}
    BY <1>3, NoWorkIsWork DEF Sent
  <2>2. working = {}
    BY DEF Init, JobsInit
  <2> QED BY <1>3, <2>1, <2>2, NoWorkIsWork, FS_EmptySet, PushAssumption DEF WorkOK
<1> QED BY <1>1, <1>4, <1>5, TypeParts

LEMMA TypeStep == TypeOK /\ Next => TypeOK'
<1> SUFFICES ASSUME TypeOK, Next PROVE TypeOK'
  OBVIOUS
<1> DEFINE OK == /\ push' \in [Jobs -> Work] /\ \A k \in Jobs : WorkOK(k)'
<1>1. JobsTypeOK'
  BY NextJobStep, JobTypeStep, TypeParts
<1>2. WorldOK /\ push \in [Jobs -> Work] /\ \A k \in Jobs : WorkOK(k)
  BY TypeParts DEF WorldOK
<1> DEFINE World == /\ uses' \in Graph /\ level' \in [Repos -> Nat]
                    /\ published' \subseteq Repos /\ remote' \subseteq Repos
                    /\ agent' \subseteq Jobs \X Repos /\ db' \in [Repos -> Outgoing]
<1>3. SUFFICES World /\ OK
  BY <1>1, TypePartsNext DEF WorldOK
<1>4. ASSUME UNCHANGED <<plan, world, db>> PROVE World
  BY <1>2, <1>4 DEF WorldOK, plan, world
<1>5. ASSUME UNCHANGED jobVars, NEW j \in Jobs, push[j].step # "none"
      PROVE  working' = working /\ working' = working \cup {j}
  BY <1>2, <1>5 DEF jobVars, WorkOK
<1>6. ASSUME NEW j \in Jobs, NEW s \in Step, At(j, s), s # "none" PROVE push[j].step # "none"
  BY <1>6 DEF At
<1>7. ASSUME NEW j \in Jobs, Start(j) PROVE World /\ OK
  <2>1. Move(j, "queued") /\ working' = working \cup {j} /\ "queued" \in Step \ {"none"}
    BY <1>7 DEF Start, StartJob, Move, Step
  <2> QED BY <1>2, <1>4, <1>7, <2>1, MoveStaysOK DEF Start
<1>8. ASSUME NEW j \in Jobs, Begin(j) PROVE World /\ OK
  <2>1. World
    BY <1>4, <1>8 DEF Begin
  <2>2. CASE TokenDisposed(j)
    <3>1. End(j, "Faulted")
      BY <1>8, <2>2 DEF Begin
    <3> QED BY <1>2, <2>1, <3>1, EndStaysOK
  <2>3. CASE ~TokenDisposed(j)
    <3>1. Move(j, "plan") /\ UNCHANGED jobVars /\ push[j].step # "none" /\ "plan" \in Step \ {"none"}
      BY <1>8, <2>3 DEF Begin, Step
    <3> QED BY <1>2, <1>5, <2>1, <3>1, MoveStaysOK
  <2> QED BY <2>2, <2>3
<1>9. ASSUME NEW j \in Jobs, Plan(j) PROVE World /\ OK
  <2>1. World
    BY <1>4, <1>9 DEF Plan
  <2>2. ASSUME NEW how, End(j, how) PROVE World /\ OK
    BY <1>2, <2>1, <2>2, EndStaysOK
  <2>3. ASSUME NEW sync \in BOOLEAN, NEW repos \in SUBSET Repos, UNCHANGED jobVars,
               push' = [push EXCEPT ![j] =
                 [@ EXCEPT !.step = "next", !.sync = sync, !.repos = repos, !.left = repos]]
        PROVE  World /\ OK
    <3>1. /\ push' \in [Jobs -> Work] /\ SameOthers(j) /\ push'[j].step = "next"
          /\ push'[j].repos = repos /\ push'[j].left = repos /\ push'[j].task = push[j].task
      BY <1>2, <2>3, AfterPlan
    <3>2. working' = working /\ j \in working'
      BY <1>2, <1>5, <1>9, <2>3 DEF Plan, At
    <3>3. \A k \in Jobs \ {j} : WorkOK(k)'
      BY <1>2, <3>1, <3>2, OthersStayOK
    <3>4. WorkOK(j)'
      BY <1>2, <3>1, <3>2, WorkStaysOK
    <3> QED BY <2>1, <3>1, <3>3, <3>4
  <2> QED BY <1>9, <2>2, <2>3 DEF Plan
<1>10. ASSUME NEW j \in Jobs, NextLevel(j) \/ WaitDone(j) \/ LevelDone(j) PROVE World /\ OK
  <2>1. World /\ UNCHANGED jobVars /\ push[j].step # "none"
    <3>1. CASE LevelDone(j)
      BY <1>2, <3>1 DEF LevelDone, Save, At, WorldOK, plan, world
    <3> QED BY <1>4, <1>10, <3>1 DEF NextLevel, WaitDone, At
  <2>2. \E s \in Step \ {"none"} : Move(j, s)
    BY <1>10 DEF NextLevel, WaitDone, LevelDone, Step
  <2> QED BY <1>2, <1>5, <2>1, <2>2, MoveStaysOK
<1>11. ASSUME NEW j \in Jobs, WaitFails(j) \/ LevelThrows(j) \/ Unwind(j) PROVE World /\ OK
  <2>1. World
    BY <1>4, <1>11 DEF WaitFails, LevelThrows, Unwind
  <2>2. End(j, "Aborted") \/ End(j, "Faulted")
    BY <1>11 DEF WaitFails, LevelThrows, Unwind
  <2> QED BY <1>2, <2>1, <2>2, EndStaysOK
<1>12. ASSUME NEW j \in Jobs, UpdateCounts(j) PROVE World /\ OK
  <2>1. World
    BY <1>2, <1>12 DEF UpdateCounts, Save, WorldOK, plan, world
  <2>2. CASE End(j, "Completed")
    BY <1>2, <2>1, <2>2, EndStaysOK
  <2>3. CASE ~End(j, "Completed")
    <3> DEFINE left == push[j].left \ Group(j)
    <3>1. /\ push' = [push EXCEPT ![j].step = "next", ![j].left = left]
          /\ UNCHANGED jobVars /\ push[j].step # "none"
      BY <1>12, <2>3 DEF UpdateCounts, At
    <3>2. left \in SUBSET Repos /\ left \subseteq push[j].left
      BY <1>2, PushParts
    <3> HIDE DEF left
    <3>3. /\ push' \in [Jobs -> Work] /\ SameOthers(j) /\ push'[j].step = "next"
          /\ push'[j].repos = push[j].repos /\ push'[j].left = left
          /\ push'[j].task = push[j].task
      BY <1>2, <3>1, <3>2, AfterLevel
    <3>4. working' = working /\ j \in working'
      BY <1>2, <1>5, <3>1
    <3>5. \A k \in Jobs \ {j} : WorkOK(k)'
      BY <1>2, <3>3, <3>4, OthersStayOK
    <3>6. push'[j].left \subseteq push'[j].repos
      BY <1>2, <3>2, <3>3 DEF WorkOK
    <3>7. WorkOK(j)'
      BY <1>2, <3>3, <3>4, <3>6, WorkStaysOK
    <3> QED BY <2>1, <3>3, <3>5, <3>7
  <2> QED BY <2>2, <2>3
<1>13. ASSUME NEW j \in Jobs, NEW r \in Repos, NEW a \in Answer, UNCHANGED jobVars,
              SetTask(j, r, a),
              Cardinality(Sent(j)') <= MaxConcurrent
       PROVE  OK
  <2>1. /\ push' \in [Jobs -> Work] /\ SameOthers(j) /\ push'[j].step = push[j].step
        /\ push'[j].repos = push[j].repos /\ push'[j].left = push[j].left
    BY <1>2, <1>13, AfterTask
  <2>2. working' = working
    BY <1>13 DEF jobVars
  <2>3. \A k \in Jobs \ {j} : WorkOK(k)'
    BY <1>2, <2>1, <2>2, OthersStayOK
  <2>4. WorkOK(j)'
    BY <1>2, <1>13, <2>1, <2>2 DEF WorkOK
  <2> QED BY <2>1, <2>3, <2>4
<1>14. ASSUME NEW j \in Jobs, NEW r \in Repos, NEW a \in Answer, a # "sent",
              SetTask(j, r, a)
       PROVE  Cardinality(Sent(j)') <= MaxConcurrent
  <2>1. push'[j].task[r] = a /\ \A s \in Repos \ {r} : push'[j].task[s] = push[j].task[s]
    BY <1>2, <1>14, AfterTask
  <2>2. Sent(j)' \subseteq Sent(j)
    BY <1>14, <2>1 DEF Sent
  <2> QED BY <1>2, <2>2, FewerSent DEF WorkOK
<1>15. ASSUME NEW j \in Jobs, NEW r \in Repos, SendPush(j, r) PROVE World /\ OK
  <2>1. World
    BY <1>2, <1>15 DEF SendPush, WorldOK, plan
  <2>2. SetTask(j, r, "sent") /\ UNCHANGED jobVars /\ "sent" \in Answer
    BY <1>15 DEF SendPush, HasPlace, SetTask, Answer
  <2>3. push'[j].task[r] = "sent" /\ \A s \in Repos \ {r} : push'[j].task[s] = push[j].task[s]
    BY <1>2, <2>2, AfterTask
  <2>4. Sent(j)' = Sent(j) \cup {r} /\ Cardinality(Sent(j)) < MaxConcurrent
    BY <1>15, <2>3 DEF SendPush, HasPlace, Sent
  <2>5. Cardinality(Sent(j)') <= Cardinality(Sent(j)) + 1
    <3>1. IsFiniteSet(Sent(j))
      BY SentIsFinite
    <3>2. Cardinality(Sent(j) \cup {r}) <= Cardinality(Sent(j)) + 1
      BY <3>1, OneMore
    <3> QED BY <2>4, <3>2
  <2>6. Cardinality(Sent(j)') <= MaxConcurrent
    BY <2>4, <2>5, SentIsFinite, PushAssumption
  <2> QED BY <1>13, <2>1, <2>2, <2>6
<1>16. ASSUME NEW j \in Jobs, NEW r \in Repos, LoseAnswer(j, r) \/ RefusePush(j, r)
       PROVE  World /\ OK
  <2>1. UNCHANGED jobVars /\ \E a \in Answer : a # "sent" /\ SetTask(j, r, a)
    BY <1>16 DEF LoseAnswer, RefusePush, SetTask, Answer
  <2>2. World
    BY <1>4, <1>16 DEF LoseAnswer, RefusePush
  <2> QED BY <1>13, <1>14, <2>1, <2>2
<1>17. ASSUME NEW j \in Jobs, NEW r \in Repos, AgentPushes(j, r) PROVE World /\ OK
  <2>1. World /\ UNCHANGED jobVars
    BY <1>2, <1>17 DEF AgentPushes, WorldOK, plan
  <2>2. PICK a \in {"ok", "failed"} : Answered(j, r, a)
    BY <1>17 DEF AgentPushes
  <2> DEFINE b == IF push[j].task[r] = "sent" /\ j \notin cancelled THEN a ELSE push[j].task[r]
  <2>3. SetTask(j, r, b) /\ b \in Answer
    BY <1>2, <2>2, PushParts DEF Answered, SetTask, Answer
  <2> HIDE DEF b
  <2>4. Cardinality(Sent(j)') <= MaxConcurrent
    <3>1. push'[j].task[r] = b /\ \A s \in Repos \ {r} : push'[j].task[s] = push[j].task[s]
      BY <1>2, <2>3, AfterTask
    <3>2. b = "sent" => push[j].task[r] = "sent"
      BY <2>2 DEF b
    <3>3. Sent(j)' \subseteq Sent(j)
      BY <3>1, <3>2 DEF Sent
    <3> QED BY <1>2, <3>3, FewerSent DEF WorkOK
  <2> QED BY <1>13, <2>1, <2>3, <2>4
<1>18. ASSUME UNCHANGED push, working' = working PROVE OK
  <2>1. push' \in [Jobs -> Work] /\ \A k \in Jobs : push'[k] = push[k]
    BY <1>2, <1>18
  <2>2. ASSUME NEW k \in Jobs PROVE WorkOK(k)'
    BY <1>2, <1>18, <2>1, WorkStaysOK DEF WorkOK
  <2> QED BY <2>1, <2>2
<1>19. ASSUME NEW r \in Repos, Publish(r) PROVE World /\ OK
  <2>1. World
    BY <1>2, <1>19 DEF Publish, WorldOK, plan
  <2>2. UNCHANGED push /\ working' = working
    BY <1>19 DEF Publish, jobVars
  <2> QED BY <1>18, <2>1, <2>2
<1>20. ASSUME User PROVE World /\ OK
  <2>1. World
    BY <1>4, <1>20 DEF User
  <2>2. UNCHANGED push /\ working' = working
    BY <1>20 DEF User, Abort, CloseTab
  <2> QED BY <1>18, <2>1, <2>2
<1> HIDE DEF World, OK
<1> QED BY <1>7, <1>8, <1>9, <1>10, <1>11, <1>12, <1>15, <1>16, <1>17, <1>19, <1>20
        DEF Next, WorkNext

(* The types, and that no push ever has more commands under way than
   MaxParallelOperations allows. *)
THEOREM PushTypeCorrect == Spec => []TypeOK
<1>1. TypeOK /\ UNCHANGED vars => TypeOK'
  <2> SUFFICES ASSUME TypeOK, UNCHANGED vars PROVE TypeOK'
    OBVIOUS
  <2> USE DEF vars, jobVars, plan, world
  <2>1. JobsTypeOK'
    BY JobTypeStep, TypeParts
  <2>2. WorldOK'
    BY TypeParts DEF WorldOK
  <2>3. ASSUME NEW k \in Jobs PROVE WorkOK(k)'
    BY TypeParts, WorkStaysOK DEF WorkOK
  <2> QED BY <2>1, <2>2, <2>3, TypePartsNext
<1> QED BY TypeInit, TypeStep, <1>1, PTL DEF Spec
-----------------------------------------------------------------------------
(* The order of a synchronized push.  What the two invariants say of a moment
   follows from what a job has done on the levels below and what it may do next. *)

Done(j) == push[j].repos \ push[j].left

Begun(j, r) == push[j].task[r] # "unsent"

Ended(j, r) == push[j].task[r] \in {"ok", "failed"}

LevelInv(j) ==
  /\ \A r \in Done(j) : Ended(j, r)
  /\ \A r \in Done(j), s \in push[j].left : level[r] < level[s]
  /\ \A r \in Repos : Begun(j, r) =>
       /\ r \in push[j].repos
       /\ Required(r) \subseteq published
       /\ r \in push[j].left => r \in Group(j) /\ push[j].step \in {"push", "count"}
  /\ push[j].step = "push" => \A r \in Group(j) : Required(r) \subseteq published
  /\ push[j].step = "count" => \A r \in Group(j) : Ended(j, r)

WorkInv(j) ==
  /\ push[j].step \in {"none", "queued", "plan"} =>
       ~push[j].sync /\ \A r \in Repos : ~Begun(j, r)
  /\ push[j].sync => LevelInv(j)

OrderInv ==
  /\ level = Levels(uses)
  /\ StartedInv
  /\ \A j \in Jobs : WorkInv(j)

LEMMA PlanIsFixed == Next => UNCHANGED plan /\ published \subseteq published'
<1> DEFINE Kept == plan' = plan /\ published \subseteq published'
<1> SUFFICES ASSUME Next PROVE Kept
  OBVIOUS
<1>1. ASSUME NEW j \in Jobs, Start(j) PROVE Kept
  BY <1>1 DEF Start, world
<1>2. ASSUME NEW j \in Jobs, WorkNext(j) PROVE Kept
  <2>1. CASE \E r \in Repos : SendPush(j, r) \/ RefusePush(j, r) \/ LoseAnswer(j, r)
    BY <2>1 DEF SendPush, RefusePush, LoseAnswer, world
  <2> QED BY <1>2, <2>1 DEF WorkNext, Begin, Plan, NextLevel, WaitDone, WaitFails, LevelDone,
                            LevelThrows, UpdateCounts, Unwind, world
<1>3. ASSUME NEW j \in Jobs, NEW r \in Repos, AgentPushes(j, r) PROVE Kept
  BY <1>3 DEF AgentPushes
<1>4. ASSUME NEW r \in Repos, Publish(r) PROVE Kept
  BY <1>4 DEF Publish
<1>5. ASSUME User PROVE Kept
  BY <1>5 DEF User, world
<1> HIDE DEF Kept
<1> QED BY <1>1, <1>2, <1>3, <1>4, <1>5 DEF Next

LEMMA SameRequired ==
  ASSUME UNCHANGED plan
  PROVE  \A r : Required(r)' = Required(r)
BY DEF plan, Required

LEMMA SameGroup ==
  ASSUME NEW j, UNCHANGED plan, push'[j].sync = push[j].sync, push'[j].left = push[j].left
  PROVE  Group(j)' = Group(j)
BY DEF plan, Group

LEMMA GroupIsLeft ==
  ASSUME NEW j
  PROVE  Group(j) \subseteq push[j].left
BY DEF Group

(* What another job does, or the registry, does not disturb the work of a job. *)
LEMMA WorkInvFrame ==
  ASSUME NEW k, WorkInv(k), push'[k] = push[k], UNCHANGED plan, published \subseteq published'
  PROVE  WorkInv(k)'
<1>1. Group(k)' = Group(k) /\ \A r : Required(r)' = Required(r)
  BY SameGroup, SameRequired
<1> QED BY <1>1 DEF WorkInv, LevelInv, Done, Begun, Ended, plan

LEMMA WorkInvOfNoWork ==
  ASSUME NEW j, push'[j] = NoWork
  PROVE  WorkInv(j)'
BY NoWorkIsWork DEF WorkInv, Begun

(* A step of the work that neither starts nor ends a task, and stays on its
   level. *)
LEMMA WorkInvMove ==
  ASSUME push \in [Jobs -> Work], NEW j \in Jobs, NEW s \in Step \ {"none", "queued"}, Move(j, s),
         WorkInv(j), UNCHANGED plan, published \subseteq published',
         s # "plan" \/ (push[j].step \in {"none", "queued", "plan"}),
         push[j].sync /\ s = "push" => \A r \in Group(j) : Required(r) \subseteq published,
         push[j].sync /\ s = "count" => \A r \in Group(j) : Ended(j, r),
         push[j].step \in {"push", "count"} => s \in {"push", "count"}
  PROVE  WorkInv(j)'
<1>1. /\ push'[j].step = s /\ push'[j].sync = push[j].sync /\ push'[j].repos = push[j].repos
      /\ push'[j].left = push[j].left /\ push'[j].task = push[j].task
  BY AfterMove
<1>2. Group(j)' = Group(j) /\ \A r : Required(r)' = Required(r)
  BY <1>1, SameGroup, SameRequired
<1>3. /\ Done(j)' = Done(j) /\ \A r : Begun(j, r)' = Begun(j, r) /\ Ended(j, r)' = Ended(j, r)
  BY <1>1 DEF Done, Begun, Ended
<1>4. s = "plan" => ~push[j].sync /\ \A r \in Repos : ~Begun(j, r)
  BY DEF WorkInv
<1>5. ASSUME push[j].sync PROVE LevelInv(j)'
  <2>1. LevelInv(j)
    BY <1>5 DEF WorkInv
  <2> QED BY <1>1, <1>2, <1>3, <1>5, <2>1 DEF LevelInv, plan
<1> QED BY <1>1, <1>3, <1>4, <1>5 DEF WorkInv

(* A task that is answered for, or left as it is. *)
LEMMA WorkInvAnswer ==
  ASSUME push \in [Jobs -> Work], NEW j \in Jobs, NEW r \in Repos, NEW a \in Answer,
         SetTask(j, r, a), WorkInv(j), UNCHANGED plan, published' = published,
         a = push[j].task[r] \/ (push[j].task[r] = "sent" /\ a \in {"ok", "failed"})
  PROVE  WorkInv(j)'
<1>1. /\ push'[j].step = push[j].step /\ push'[j].sync = push[j].sync
      /\ push'[j].repos = push[j].repos /\ push'[j].left = push[j].left
      /\ push'[j].task[r] = a /\ \A s \in Repos \ {r} : push'[j].task[s] = push[j].task[s]
  BY AfterTask
<1>2. Group(j)' = Group(j) /\ \A s : Required(s)' = Required(s)
  BY <1>1, SameGroup, SameRequired
<1>3. \A s \in Repos : (Begun(j, s)' <=> Begun(j, s)) /\ (Ended(j, s) => Ended(j, s)')
  BY <1>1 DEF Begun, Ended
<1>4. Done(j)' = Done(j) /\ Done(j) \subseteq Repos /\ Group(j) \subseteq Repos
  BY <1>1, PushParts, GroupIsLeft DEF Done
<1>5. ASSUME push[j].sync PROVE LevelInv(j)'
  <2>1. LevelInv(j)
    BY <1>5 DEF WorkInv
  <2> QED BY <1>1, <1>2, <1>3, <1>4, <2>1 DEF LevelInv, plan
<1> QED BY <1>1, <1>3, <1>5 DEF WorkInv

LEMMA WorkInvBegin ==
  ASSUME push \in [Jobs -> Work], NEW j \in Jobs, NEW r \in Repos, WorkOK(j), WorkInv(j),
         HasPlace(j, r), NEW a \in Answer, SetTask(j, r, a), UNCHANGED plan, published' = published
  PROVE  WorkInv(j)'
<1>1. push[j].step = "push" /\ r \in Group(j)
  BY DEF HasPlace, At
<1>2. /\ push'[j].step = push[j].step /\ push'[j].sync = push[j].sync
      /\ push'[j].repos = push[j].repos /\ push'[j].left = push[j].left
      /\ \A s \in Repos \ {r} : push'[j].task[s] = push[j].task[s]
  BY <1>1, AfterTask
<1>3. Group(j)' = Group(j) /\ \A s : Required(s)' = Required(s)
  BY <1>1, <1>2, SameGroup, SameRequired
<1>4. r \in push[j].left /\ r \in push[j].repos
  BY <1>1, GroupIsLeft DEF WorkOK
<1>5. Done(j)' = Done(j) /\ Done(j) \subseteq Repos \ {r}
  BY <1>2, <1>4, PushParts DEF Done
<1>6. \A s \in Repos \ {r} : (Begun(j, s)' <=> Begun(j, s)) /\ (Ended(j, s)' <=> Ended(j, s))
  BY <1>2 DEF Begun, Ended
<1>7. ASSUME push[j].sync PROVE LevelInv(j)'
  <2>1. LevelInv(j)
    BY <1>7 DEF WorkInv
  <2>2. Required(r) \subseteq published
    BY <1>1, <2>1 DEF LevelInv
  <2>3. \A s \in Repos : Begun(j, s)' =>
          /\ s \in push'[j].repos
          /\ Required(s)' \subseteq published'
          /\ s \in push'[j].left => s \in Group(j)' /\ push'[j].step \in {"push", "count"}
    BY <1>1, <1>2, <1>3, <1>4, <1>6, <2>1, <2>2 DEF LevelInv
  <2> QED BY <1>1, <1>2, <1>3, <1>5, <1>6, <2>1, <2>3 DEF LevelInv, plan
<1> QED BY <1>1, <1>2, <1>7 DEF WorkInv

LEMMA WorkInvPlan ==
  ASSUME push \in [Jobs -> Work], NEW j \in Jobs, NEW sync \in BOOLEAN, NEW repos \in SUBSET Repos,
         push' = [push EXCEPT ![j] =
                    [@ EXCEPT !.step = "next", !.sync = sync, !.repos = repos, !.left = repos]],
         WorkInv(j), push[j].step = "plan"
  PROVE  WorkInv(j)'
<1>1. /\ push'[j].step = "next" /\ push'[j].repos = repos /\ push'[j].left = repos
      /\ push'[j].task = push[j].task
  BY AfterPlan
<1>2. Done(j)' = {} /\ \A r \in Repos : ~Begun(j, r)'
  BY <1>1 DEF Done, Begun, WorkInv
<1> QED BY <1>1, <1>2 DEF WorkInv, LevelInv

(* The level is done: its tasks have been answered for, and what is left lies
   above it. *)
LEMMA WorkInvLevel ==
  ASSUME push \in [Jobs -> Work], level \in [Repos -> Nat], NEW j \in Jobs, WorkInv(j),
         push' = [push EXCEPT ![j].step = "next", ![j].left = push[j].left \ Group(j)],
         push[j].step = "count", push[j].sync, UNCHANGED plan, published' = published
  PROVE  WorkInv(j)'
<1> DEFINE left == push[j].left \ Group(j)
<1>1. left \in SUBSET Repos /\ push[j].left \subseteq Repos /\ push[j].repos \subseteq Repos
  BY PushParts
<1>2. /\ push'[j].step = "next" /\ push'[j].sync = push[j].sync
      /\ push'[j].repos = push[j].repos /\ push'[j].left = left
      /\ push'[j].task = push[j].task
  <2>1. push' = [push EXCEPT ![j].step = "next", ![j].left = left]
    OBVIOUS
  <2> HIDE DEF left
  <2> QED BY <1>1, <2>1, AfterLevel
<1>3. LevelInv(j) /\ \A s : Required(s)' = Required(s)
  BY SameRequired DEF WorkInv
<1>4. Done(j)' \subseteq Done(j) \cup Group(j)
  BY <1>2 DEF Done
<1>5. \A r \in Repos : (Begun(j, r)' <=> Begun(j, r)) /\ (Ended(j, r)' <=> Ended(j, r))
  BY <1>2 DEF Begun, Ended
<1>6. Done(j)' \subseteq Repos
  BY <1>1, <1>2 DEF Done
<1>7. \A r \in Done(j)' : Ended(j, r)'
  BY <1>3, <1>4, <1>5, <1>6 DEF LevelInv
<1>8. \A r \in Group(j), s \in left : level[r] < level[s]
  <2>1. ASSUME NEW r \in Group(j), NEW s \in left PROVE level[r] < level[s]
    <3>1. s \in push[j].left /\ s \notin Group(j)
      OBVIOUS
    <3>2. PICK t \in push[j].left : ~(level[s] <= level[t])
      BY <3>1 DEF Group
    <3>3. level[r] <= level[t]
      BY DEF Group
    <3>4. level[r] \in Nat /\ level[s] \in Nat /\ level[t] \in Nat
      BY <1>1, <3>1, GroupIsLeft
    <3> QED BY <3>2, <3>3, <3>4
  <2> QED BY <2>1
<1>9. \A r \in Done(j)', s \in left : level[r] < level[s]
  BY <1>3, <1>4, <1>8 DEF LevelInv
<1>10. \A r \in Repos : Begun(j, r)' => r \in push[j].repos /\ Required(r)' \subseteq published'
                                        /\ r \notin left
  BY <1>3, <1>5 DEF LevelInv
<1> HIDE DEF left
<1>11. LevelInv(j)'
  BY <1>2, <1>7, <1>9, <1>10 DEF LevelInv, plan
<1> QED BY <1>2, <1>11 DEF WorkInv

LEMMA OrderInit == Init => OrderInv
<1> SUFFICES ASSUME Init PROVE OrderInv
  OBVIOUS
<1>1. StartedInv
  BY DEF Init, JobsInit, StartedInv
<1>2. ASSUME NEW j \in Jobs PROVE WorkInv(j)
  BY NoWorkIsWork DEF Init, WorkInv, Begun
<1> QED BY <1>1, <1>2 DEF Init, OrderInv

LEMMA OrderStep == TypeOK /\ OrderInv /\ Next => OrderInv'
<1> SUFFICES ASSUME TypeOK, OrderInv, Next PROVE OrderInv'
  OBVIOUS
<1>1. /\ JobsTypeOK /\ push \in [Jobs -> Work] /\ level \in [Repos -> Nat]
      /\ \A k \in Jobs : WorkOK(k) /\ WorkInv(k)
  BY TypeParts DEF WorldOK, OrderInv
<1>2. UNCHANGED plan /\ published \subseteq published'
  BY PlanIsFixed
<1>3. (level = Levels(uses))' /\ StartedInv'
  BY <1>1, <1>2, NextJobStep, StartedStep DEF OrderInv, plan
<1> DEFINE OK == \A k \in Jobs : WorkInv(k)'
<1>4. SUFFICES OK
  BY <1>3 DEF OrderInv
<1>5. ASSUME NEW j \in Jobs, SameOthers(j), WorkInv(j)' PROVE OK
  <2>1. ASSUME NEW k \in Jobs \ {j} PROVE WorkInv(k)'
    BY <1>1, <1>2, <1>5, WorkInvFrame DEF SameOthers, Same
  <2> QED BY <1>5, <2>1
<1>6. ASSUME NEW j \in Jobs, NEW how, End(j, how) PROVE OK
  BY <1>1, <1>5, <1>6, AfterEnd, WorkInvOfNoWork
<1>7. ASSUME NEW j \in Jobs, Start(j) PROVE OK
  <2>1. Move(j, "queued") /\ "queued" \in Step /\ shown[j] = "None"
    BY <1>7 DEF Start, StartJob, Move, Step
  <2>2. push[j].step = "none"
    BY <1>1, <2>1 DEF OrderInv, StartedInv, WorkOK
  <2>3. /\ SameOthers(j) /\ push'[j].step = "queued" /\ push'[j].sync = push[j].sync
        /\ push'[j].task = push[j].task
    BY <1>1, <2>1, AfterMove
  <2>4. WorkInv(j)'
    BY <1>1, <2>2, <2>3 DEF WorkInv, Begun
  <2> QED BY <1>5, <2>3, <2>4
<1>8. ASSUME NEW j \in Jobs, NEW s \in Step \ {"none", "queued"}, Move(j, s),
             s # "plan" \/ push[j].step \in {"none", "queued", "plan"},
             push[j].sync /\ s = "push" => \A r \in Group(j) : Required(r) \subseteq published,
             push[j].sync /\ s = "count" => \A r \in Group(j) : Ended(j, r),
             push[j].step \in {"push", "count"} => s \in {"push", "count"}
      PROVE  OK
  <2>1. SameOthers(j)
    BY <1>1, <1>8, AfterMove
  <2>2. WorkInv(j)'
    BY <1>1, <1>2, <1>8, WorkInvMove
  <2> QED BY <1>5, <2>1, <2>2
<1>9. ASSUME NEW j \in Jobs, Begin(j) PROVE OK
  <2>1. End(j, "Faulted") \/ Move(j, "plan")
    BY <1>9 DEF Begin
  <2>2. CASE Move(j, "plan")
    BY <1>8, <1>9, <2>2 DEF Begin, Step
  <2> QED BY <1>6, <2>1, <2>2
<1>10. ASSUME NEW j \in Jobs, Plan(j) PROVE OK
  <2>1. ASSUME NEW sync \in BOOLEAN, NEW repos \in SUBSET Repos,
               push' = [push EXCEPT ![j] =
                 [@ EXCEPT !.step = "next", !.sync = sync, !.repos = repos, !.left = repos]]
        PROVE  OK
    <3>1. SameOthers(j)
      BY <1>1, <2>1, AfterPlan
    <3>2. WorkInv(j)'
      BY <1>1, <1>10, <2>1, WorkInvPlan DEF Plan, At
    <3> QED BY <1>5, <3>1, <3>2
  <2>2. ASSUME NEW how, End(j, how) PROVE OK
    BY <1>6, <2>2
  <2> QED BY <1>10, <2>1, <2>2 DEF Plan
<1>11. ASSUME NEW j \in Jobs, NextLevel(j) PROVE OK
  <2>1. push[j].step = "next"
    BY <1>11 DEF NextLevel, At
  <2>2. CASE push[j].left # {} /\ push[j].sync /\ Move(j, "wait")
    BY <1>8, <2>1, <2>2 DEF Step
  <2>3. CASE ~push[j].sync /\ Move(j, "push")
    BY <1>8, <2>1, <2>3 DEF Step
  <2>4. CASE push[j].left = {} /\ Move(j, "count")
    <3>1. Group(j) = {}
      BY <2>4, GroupIsLeft
    <3> QED BY <1>8, <2>1, <2>4, <3>1 DEF Step
  <2> QED BY <1>1, <1>11, <2>2, <2>3, <2>4, PushParts DEF NextLevel
<1>12. ASSUME NEW j \in Jobs, WaitDone(j) PROVE OK
  BY <1>8, <1>12 DEF WaitDone, At, Step
<1>13. ASSUME NEW j \in Jobs, LevelDone(j) PROVE OK
  BY <1>8, <1>13 DEF LevelDone, At, Step, Ended
<1>14. ASSUME NEW j \in Jobs, WaitFails(j) \/ LevelThrows(j) \/ Unwind(j) PROVE OK
  BY <1>6, <1>14 DEF WaitFails, LevelThrows, Unwind
<1>15. ASSUME NEW j \in Jobs, UpdateCounts(j) PROVE OK
  <2>1. CASE End(j, "Completed")
    BY <1>6, <2>1
  <2>2. CASE ~End(j, "Completed")
    <3>1. /\ push' = [push EXCEPT ![j].step = "next", ![j].left = push[j].left \ Group(j)]
          /\ push[j].step = "count" /\ push[j].sync /\ published' = published
      BY <1>15, <2>2 DEF UpdateCounts, At, world
    <3>2. push[j].left \ Group(j) \in SUBSET Repos
      BY <1>1, PushParts
    <3>3. SameOthers(j)
      BY <1>1, <3>1, <3>2, AfterLevel
    <3>4. WorkInv(j)'
      BY <1>1, <1>2, <3>1, WorkInvLevel
    <3> QED BY <1>5, <3>3, <3>4
  <2> QED BY <2>1, <2>2
<1>16. ASSUME NEW j \in Jobs, NEW r \in Repos, SendPush(j, r) \/ RefusePush(j, r) PROVE OK
  <2>1. PICK a \in Answer : SetTask(j, r, a)
    BY <1>16 DEF SendPush, RefusePush, SetTask, Answer
  <2>2. HasPlace(j, r) /\ published' = published
    BY <1>16 DEF SendPush, RefusePush, world
  <2>3. SameOthers(j)
    BY <1>1, <2>1, AfterTask
  <2>4. WorkInv(j)'
    BY <1>1, <1>2, <2>1, <2>2, WorkInvBegin
  <2> QED BY <1>5, <2>3, <2>4
<1>17. ASSUME NEW j \in Jobs, NEW r \in Repos, NEW a \in Answer, SetTask(j, r, a),
              published' = published,
              a = push[j].task[r] \/ (push[j].task[r] = "sent" /\ a \in {"ok", "failed"})
       PROVE  OK
  <2>1. SameOthers(j)
    BY <1>1, <1>17, AfterTask
  <2>2. WorkInv(j)'
    BY <1>1, <1>2, <1>17, WorkInvAnswer
  <2> QED BY <1>5, <2>1, <2>2
<1>18. ASSUME NEW j \in Jobs, NEW r \in Repos, LoseAnswer(j, r) PROVE OK
  BY <1>17, <1>18 DEF LoseAnswer, SetTask, Answer, world
<1>19. ASSUME NEW j \in Jobs, NEW r \in Repos, AgentPushes(j, r) PROVE OK
  <2>1. PICK a \in {"ok", "failed"} : Answered(j, r, a)
    BY <1>19 DEF AgentPushes
  <2> DEFINE b == IF push[j].task[r] = "sent" /\ j \notin cancelled THEN a ELSE push[j].task[r]
  <2>2. SetTask(j, r, b) /\ b \in Answer /\ published' = published
    BY <1>1, <1>19, <2>1, PushParts DEF Answered, AgentPushes, SetTask, Answer
  <2>3. b = push[j].task[r] \/ (push[j].task[r] = "sent" /\ b \in {"ok", "failed"})
    OBVIOUS
  <2> HIDE DEF b
  <2> QED BY <1>17, <2>2, <2>3
<1>20. ASSUME UNCHANGED push PROVE OK
  BY <1>1, <1>2, <1>20, WorkInvFrame
<1>21. ASSUME NEW r \in Repos, Publish(r) PROVE OK
  BY <1>20, <1>21 DEF Publish
<1>22. ASSUME User PROVE OK
  BY <1>20, <1>22 DEF User
<1> HIDE DEF OK
<1> QED BY <1>7, <1>9, <1>10, <1>11, <1>12, <1>13, <1>14, <1>15, <1>16, <1>18, <1>19, <1>21, <1>22
        DEF Next, WorkNext

LEMMA OrderInvHolds == Spec => [](TypeOK /\ OrderInv)
<1>1. TypeOK /\ OrderInv /\ UNCHANGED vars => OrderInv'
  <2> SUFFICES ASSUME TypeOK, OrderInv, UNCHANGED vars PROVE OrderInv'
    OBVIOUS
  <2>1. UNCHANGED plan /\ published' = published /\ push' = push /\ UNCHANGED jobVars
    BY DEF vars, plan, world, jobVars
  <2>2. ASSUME NEW k \in Jobs PROVE WorkInv(k)'
    BY <2>1, WorkInvFrame DEF OrderInv
  <2>3. (level = Levels(uses))' /\ StartedInv'
    BY <2>1, StartedStep, TypeParts DEF OrderInv, plan
  <2> QED BY <2>2, <2>3 DEF OrderInv
<1> QED BY OrderInit, OrderStep, <1>1, PushTypeCorrect, PTL DEF Spec

LEMMA BegunIsInOrder ==
  ASSUME TypeOK, OrderInv, Acyclic(uses), NEW j \in Jobs, NEW r \in Repos,
         push[j].sync, Begun(j, r)
  PROVE  /\ uses[r] \cap Packaged \subseteq published
         /\ \A s \in uses[r] \cap push[j].repos : Ended(j, s)
<1>1. /\ uses \in Graph /\ level \in [Repos -> Nat] /\ push \in [Jobs -> Work]
  BY TypeParts DEF WorldOK
<1>2. /\ LevelInv(j) /\ level = Levels(uses)
  BY DEF OrderInv, WorkInv
<1>3. \A s \in uses[r] : level[s] < level[r]
  BY <1>1, <1>2, LevelsRight DEF LevelsAreRight
<1>4. uses[r] \cap Packaged \subseteq published
  BY <1>2, <1>3 DEF LevelInv, Required
<1>5. ASSUME NEW s \in uses[r] \cap push[j].repos, s \in push[j].left PROVE FALSE
  <2>1. level[s] \in Nat /\ level[r] \in Nat /\ level[s] < level[r]
    BY <1>1, <1>3, PushParts
  <2>2. CASE r \in push[j].left
    BY <1>2, <1>5, <2>1, <2>2 DEF LevelInv, Group
  <2>3. CASE r \notin push[j].left
    <3>1. r \in Done(j)
      BY <1>2, <2>3 DEF LevelInv, Done
    <3> QED BY <1>2, <1>5, <2>1, <3>1 DEF LevelInv
  <2> QED BY <2>2, <2>3
<1> QED BY <1>2, <1>4, <1>5 DEF LevelInv, Done

(* For every acyclic graph: a synchronized push has nothing to do with a
   repository before the packages it uses are in the registry. *)
THEOREM PackagesBeforePushHolds == Spec => []PackagesBeforePush
<1>1. TypeOK /\ OrderInv => PackagesBeforePush
  BY BegunIsInOrder DEF PackagesBeforePush, Begun
<1> QED BY OrderInvHolds, <1>1, PTL

(* ... and before the pushes of the chosen repositories it uses have ended. *)
THEOREM LevelsInOrderHolds == Spec => []LevelsInOrder
<1>1. TypeOK /\ OrderInv => LevelsInOrder
  BY BegunIsInOrder DEF LevelsInOrder, Begun, Ended
<1> QED BY OrderInvHolds, <1>1, PTL

-----------------------------------------------------------------------------
(* What the push plan is told of repositories that are not on the remote.       *)

(* The counts that are saved are those of the remote as it is: a repository whose
   counts are not read keeps what was said of it. *)
LEMMA SaveKeepsUneven ==
  ASSUME UnpushedIsNotEven, NEW repos, Save(repos), remote' = remote
  PROVE  UnpushedIsNotEven'
<1> SUFFICES ASSUME NEW r \in Repos, r \notin remote PROVE db'[r] # "even"
  BY DEF UnpushedIsNotEven
<1>1. CASE r \in repos
  BY <1>1 DEF Save, Counts
<1>2. CASE r \notin repos
  BY <1>2 DEF Save, UnpushedIsNotEven
<1> QED BY <1>1, <1>2

(* Nothing is taken off the remote, so what is said of a repository stays true. *)
LEMMA RemoteGrowsKeepsUneven ==
  ASSUME UnpushedIsNotEven, db' = db, remote \subseteq remote'
  PROVE  UnpushedIsNotEven'
BY DEF UnpushedIsNotEven

LEMMA UnevenStep == UnpushedIsNotEven /\ Next => UnpushedIsNotEven'
<1> SUFFICES ASSUME UnpushedIsNotEven, Next PROVE UnpushedIsNotEven'
  OBVIOUS
<1>1. ASSUME NEW j \in Jobs, LevelDone(j) PROVE UnpushedIsNotEven'
  BY <1>1, SaveKeepsUneven DEF LevelDone, world
<1>2. ASSUME NEW j \in Jobs, UpdateCounts(j) PROVE UnpushedIsNotEven'
  BY <1>2, SaveKeepsUneven DEF UpdateCounts, world
<1>3. ASSUME NEW j \in Jobs, NEW r \in Repos, AgentPushes(j, r) PROVE UnpushedIsNotEven'
  BY <1>3, RemoteGrowsKeepsUneven DEF AgentPushes
<1>4. ASSUME NEW j \in Jobs,
             Start(j) \/ Begin(j) \/ Plan(j) \/ NextLevel(j) \/ WaitDone(j)
               \/ WaitFails(j) \/ LevelThrows(j) \/ Unwind(j)
      PROVE  UnpushedIsNotEven'
  <2>1. UNCHANGED <<world, db>>
    BY <1>4 DEF Start, Begin, Plan, NextLevel, WaitDone, WaitFails, LevelThrows, Unwind
  <2> QED BY <2>1, RemoteGrowsKeepsUneven DEF world
<1>5. ASSUME NEW j \in Jobs, NEW r \in Repos,
             SendPush(j, r) \/ RefusePush(j, r) \/ LoseAnswer(j, r)
      PROVE  UnpushedIsNotEven'
  <2>1. UNCHANGED <<remote, db>>
    BY <1>5 DEF SendPush, RefusePush, LoseAnswer, world
  <2> QED BY <2>1, RemoteGrowsKeepsUneven
<1>6. ASSUME NEW r \in Repos, Publish(r) PROVE UnpushedIsNotEven'
  BY <1>6, RemoteGrowsKeepsUneven DEF Publish
<1>7. ASSUME User PROVE UnpushedIsNotEven'
  BY <1>7, RemoteGrowsKeepsUneven DEF User, world
<1> QED BY <1>1, <1>2, <1>3, <1>4, <1>5, <1>6, <1>7 DEF Next, WorkNext

(* Whatever was refused, lost or aborted, a repository that is not on the remote is
   never shown as one that has nothing to push: the plan can only miss it as one
   whose commits could not be counted. *)
THEOREM UnpushedNeverEven == Spec => []UnpushedIsNotEven
<1>1. Init => UnpushedIsNotEven
  BY DEF Init, UnpushedIsNotEven
<1>2. UnpushedIsNotEven /\ UNCHANGED vars => UnpushedIsNotEven'
  BY DEF UnpushedIsNotEven, vars, world
<1> QED BY <1>1, <1>2, UnevenStep, PTL DEF Spec
===============================================================================
