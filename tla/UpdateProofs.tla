------------------------------ MODULE UpdateProofs ------------------------------
(***************************************************************************)
(* Proofs about DependencyUpdate, for every number of repositories, jobs   *)
(* and commits of the developer, and every set of graphs and requests.     *)
(***************************************************************************)
EXTENDS DependencyUpdate, DependencyProofs

-----------------------------------------------------------------------------
(* The jobs. *)

LEMMA NextJobStep == Next => JobStep \/ UNCHANGED jobVars
<1> SUFFICES ASSUME Next PROVE JobStep \/ UNCHANGED jobVars
  OBVIOUS
<1>1. ASSUME NEW j \in Jobs, Start(j) PROVE JobStep
  BY <1>1 DEF Start, JobStep
<1>2. ASSUME NEW j \in Jobs, NEW how \in {"Completed", "Faulted", "Aborted"}, End(j, how) PROVE JobStep
  BY <1>2 DEF End, JobStep
<1>3. ASSUME NEW j \in Jobs, Begin(j) \/ BeginSync(j) PROVE JobStep \/ UNCHANGED jobVars
  BY <1>2, <1>3 DEF Begin, BeginSync
<1>4. ASSUME NEW j \in Jobs, ReadDone(j) \/ SyncDone(j) \/ CommitDone(j) \/ VersionDone(j)
      PROVE  JobStep \/ UNCHANGED jobVars
  BY <1>2, <1>4 DEF ReadDone, SyncDone, CommitDone, VersionDone
<1>5. ASSUME NEW j \in Jobs, NextLevel(j) \/ BeginCommit(j) \/ SkipCommit(j) PROVE UNCHANGED jobVars
  BY <1>5 DEF NextLevel, BeginCommit, SkipCommit
<1>6. ASSUME NEW j \in Jobs, Final(j) \/ Unwind(j) PROVE JobStep
  BY <1>2, <1>6 DEF Final, Unwind
<1>7. ASSUME NEW j \in Jobs, NEW r \in Repos, LoseAnswer(j, r) \/ SaveVersion(j, r) PROVE UNCHANGED jobVars
  BY <1>7 DEF LoseAnswer, SaveVersion
<1>8. ASSUME AgentNext PROVE UNCHANGED jobVars
  BY <1>8 DEF AgentNext, AgentReads, AgentSyncs, AgentCommits, AgentVersions, AgentFails, HookReads, HookLost
<1>9. ASSUME NEW n \in notes, Notified(n) PROVE UNCHANGED jobVars
  BY <1>9 DEF Notified
<1>10. ASSUME NEW r \in Edited, Edit(r) PROVE UNCHANGED jobVars
  BY <1>10 DEF Edit
<1>11. ASSUME User PROVE JobStep
  BY <1>11 DEF User, JobStep
<1> QED BY <1>1, <1>3, <1>4, <1>5, <1>6, <1>7, <1>8, <1>9, <1>10, <1>11 DEF Next, WorkNext

-----------------------------------------------------------------------------
(* The record of a job's work after a step. *)

Same(k) == work'[k] = work[k]

SameOthers(j) == \A k \in Jobs \ {j} : Same(k)

LEMMA WorkParts ==
  ASSUME NEW w \in Work
  PROVE  /\ w.step \in Step /\ w.hope \in Hope
         /\ w.scope \in SUBSET Repos /\ w.left \in SUBSET Repos /\ w.done \in SUBSET Repos
         /\ w.planned \in SUBSET Repos
         /\ w.to \in [Repos -> Refs] /\ w.task \in [Repos -> Answer] /\ w.got \in [Repos -> Refs]
BY DEF Work

LEMMA NoWorkIsWork ==
  /\ NoWork \in Work
  /\ NoWork.step = "none" /\ NoWork.hope = "nothing"
  /\ NoWork.scope = {} /\ NoWork.left = {} /\ NoWork.done = {} /\ NoWork.planned = {}
  /\ NoWork.to \in [Repos -> Refs] /\ NoWork.task \in [Repos -> Answer] /\ NoWork.got \in [Repos -> Refs]
  /\ \A r \in Repos : NoWork.task[r] = "none"
BY DEF NoWork, Work, Step, Answer, Hope, Refs, NoRefs, NoVersion

LEMMA AfterSet ==
  ASSUME work \in [Jobs -> Work], NEW j \in Jobs, NEW w \in Work, Set(j, w)
  PROVE  work' \in [Jobs -> Work] /\ SameOthers(j) /\ work'[j] = w
BY DEF Set, SameOthers, Same

LEMMA MoveParts ==
  ASSUME NEW w \in Work, NEW s \in Step
  PROVE  /\ Move(w, s) \in Work
         /\ Move(w, s).step = s /\ Move(w, s).hope = w.hope
         /\ Move(w, s).scope = w.scope /\ Move(w, s).left = w.left /\ Move(w, s).done = w.done
         /\ Move(w, s).planned = w.planned /\ Move(w, s).to = w.to
         /\ \A r \in Repos : Move(w, s).task[r] = "none"
<1> DEFINE t == NoWork.task
           g == NoWork.got
<1>1. t \in [Repos -> Answer] /\ g \in [Repos -> Refs] /\ \A r \in Repos : t[r] = "none"
  BY NoWorkIsWork
<1>2. Move(w, s) = [w EXCEPT !.step = s, !.task = t, !.got = g]
  BY DEF Move
<1> HIDE DEF t, g
<1> QED BY <1>1, <1>2 DEF Work

LEMMA AfterMove ==
  ASSUME work \in [Jobs -> Work], NEW j \in Jobs, NEW s \in Step, Set(j, Move(work[j], s))
  PROVE  /\ work' \in [Jobs -> Work] /\ SameOthers(j)
         /\ work'[j].step = s /\ work'[j].hope = work[j].hope
         /\ work'[j].scope = work[j].scope /\ work'[j].left = work[j].left
         /\ work'[j].done = work[j].done /\ work'[j].planned = work[j].planned
         /\ work'[j].to = work[j].to
         /\ \A r \in Repos : work'[j].task[r] = "none"
<1>1. work[j] \in Work
  OBVIOUS
<1>2. Move(work[j], s) \in Work
  BY <1>1, MoveParts
<1>3. work' \in [Jobs -> Work] /\ SameOthers(j) /\ work'[j] = Move(work[j], s)
  BY <1>2, AfterSet
<1> QED BY <1>1, <1>3, MoveParts

LEMMA AfterMovePlanned ==
  ASSUME work \in [Jobs -> Work], NEW j \in Jobs, NEW s \in Step, NEW planned \in SUBSET Repos,
         Set(j, [Move(work[j], s) EXCEPT !.planned = planned])
  PROVE  /\ work' \in [Jobs -> Work] /\ SameOthers(j)
         /\ work'[j].step = s /\ work'[j].hope = work[j].hope
         /\ work'[j].scope = work[j].scope /\ work'[j].left = work[j].left
         /\ work'[j].done = work[j].done /\ work'[j].planned = planned
         /\ work'[j].to = work[j].to
         /\ \A r \in Repos : work'[j].task[r] = "none"
<1> DEFINE v == Move(work[j], s)
           w == [v EXCEPT !.planned = planned]
<1>1. /\ v \in Work
      /\ v.step = s /\ v.hope = work[j].hope
      /\ v.scope = work[j].scope /\ v.left = work[j].left /\ v.done = work[j].done
      /\ v.to = work[j].to
      /\ \A r \in Repos : v.task[r] = "none"
  BY MoveParts
<1> HIDE DEF v
<1>2. /\ w \in Work
      /\ w.step = v.step /\ w.hope = v.hope
      /\ w.scope = v.scope /\ w.left = v.left /\ w.done = v.done
      /\ w.planned = planned /\ w.to = v.to /\ w.task = v.task
  BY <1>1 DEF Work
<1>3. Set(j, w)
  BY DEF v
<1> HIDE DEF w
<1>4. work' \in [Jobs -> Work] /\ SameOthers(j) /\ work'[j] = w
  BY <1>2, <1>3, AfterSet
<1> QED BY <1>1, <1>2, <1>4

(* Ask, of work that differs from that of the job in what it hopes and sends. *)
LEMMA AfterAsk ==
  ASSUME work \in [Jobs -> Work], NEW j \in Jobs, NEW w \in Work, NEW do \in Command,
         NEW repos \in SUBSET Repos, Ask(j, w, do, repos)
  PROVE  /\ work' \in [Jobs -> Work] /\ SameOthers(j)
         /\ work'[j].step = do /\ work'[j].hope = w.hope
         /\ work'[j].scope = w.scope /\ work'[j].left = w.left
         /\ work'[j].done = w.done /\ work'[j].planned = w.planned
         /\ work'[j].to = w.to
         /\ \A r \in Repos : work'[j].task[r] = IF r \in repos THEN "sent" ELSE "none"
<1> DEFINE v == Move(w, do)
           t == [r \in Repos |-> IF r \in repos THEN "sent" ELSE "none"]
           u == [v EXCEPT !.task = t]
<1>1. /\ v \in Work
      /\ v.step = do /\ v.hope = w.hope
      /\ v.scope = w.scope /\ v.left = w.left /\ v.done = w.done
      /\ v.planned = w.planned /\ v.to = w.to
  BY MoveParts DEF Command, Step
<1>2. t \in [Repos -> Answer] /\ \A r \in Repos : t[r] = IF r \in repos THEN "sent" ELSE "none"
  BY DEF Answer
<1> HIDE DEF v, t
<1>3. /\ u \in Work
      /\ u.step = v.step /\ u.hope = v.hope
      /\ u.scope = v.scope /\ u.left = v.left /\ u.done = v.done
      /\ u.planned = v.planned /\ u.to = v.to /\ u.task = t
  BY <1>1, <1>2 DEF Work
<1>4. Set(j, u)
  BY DEF Ask, v, t
<1> HIDE DEF u
<1>5. work' \in [Jobs -> Work] /\ SameOthers(j) /\ work'[j] = u
  BY <1>3, <1>4, AfterSet
<1> QED BY <1>1, <1>2, <1>3, <1>5

LEMMA GroupIsLeft ==
  ASSUME NEW j
  PROVE  Group(j) \subseteq work[j].left
BY DEF Group

LEMMA AfterLevelUp ==
  ASSUME work \in [Jobs -> Work], NEW j \in Jobs, NEW w \in Work, LevelUp(j, w),
         w.left = work[j].left, w.done = work[j].done
  PROVE  /\ work' \in [Jobs -> Work] /\ SameOthers(j)
         /\ work'[j].step = "level" /\ work'[j].hope = w.hope
         /\ work'[j].scope = w.scope /\ work'[j].left = work[j].left \ Group(j)
         /\ work'[j].done = work[j].done \cup Group(j)
         /\ \A r \in Repos : work'[j].task[r] = "none"
<1> DEFINE v == Move(w, "level")
           left == v.left \ Group(j)
           done == v.done \cup Group(j)
           to == NoWork.to
           u == [v EXCEPT !.left = left, !.done = done, !.planned = {}, !.to = to]
<1>1. /\ v \in Work
      /\ v.step = "level" /\ v.hope = w.hope
      /\ v.scope = w.scope /\ v.left = w.left /\ v.done = w.done
      /\ \A r \in Repos : v.task[r] = "none"
  BY MoveParts DEF Step
<1>2. v.left \in SUBSET Repos /\ v.done \in SUBSET Repos /\ Group(j) \in SUBSET Repos
  <2>1. work[j].left \in SUBSET Repos
    BY WorkParts
  <2> QED BY <1>1, <2>1, WorkParts, GroupIsLeft
<1>3. Set(j, u)
  BY DEF LevelUp
<1> HIDE DEF v
<1>4. left \in SUBSET Repos /\ done \in SUBSET Repos /\ to \in [Repos -> Refs]
  BY <1>2, NoWorkIsWork
<1>5. left = work[j].left \ Group(j) /\ done = work[j].done \cup Group(j)
  BY <1>1
<1> HIDE DEF left, done, to
<1>6. /\ u \in Work
      /\ u.step = v.step /\ u.hope = v.hope /\ u.scope = v.scope
      /\ u.left = left /\ u.done = done /\ u.task = v.task
  BY <1>1, <1>4 DEF Work
<1> HIDE DEF u
<1>7. work' \in [Jobs -> Work] /\ SameOthers(j) /\ work'[j] = u
  BY <1>3, <1>6, AfterSet
<1> QED BY <1>1, <1>5, <1>6, <1>7

LEMMA AfterEnd ==
  ASSUME work \in [Jobs -> Work], NEW j \in Jobs, NEW how, End(j, how)
  PROVE  work' \in [Jobs -> Work] /\ SameOthers(j) /\ work'[j] = NoWork
BY NoWorkIsWork, AfterSet DEF End

(* What became of one command, and what came with it. *)
Kept(j) ==
  /\ work'[j].step = work[j].step
  /\ work'[j].scope = work[j].scope /\ work'[j].left = work[j].left
  /\ work'[j].done = work[j].done /\ work'[j].planned = work[j].planned
  /\ work'[j].to = work[j].to

LEMMA WithTask ==
  ASSUME NEW w \in Work, NEW r \in Repos, NEW a \in Answer
  PROVE  LET v == [w EXCEPT !.task[r] = a] IN
         /\ v \in Work
         /\ v.step = w.step /\ v.hope = w.hope
         /\ v.scope = w.scope /\ v.left = w.left /\ v.done = w.done
         /\ v.planned = w.planned /\ v.to = w.to /\ v.got = w.got
         /\ v.task[r] = a
         /\ \A s \in Repos \ {r} : v.task[s] = w.task[s]
<1> DEFINE t == [w.task EXCEPT ![r] = a]
           v == [w EXCEPT !.task = t]
<1>1. t \in [Repos -> Answer] /\ t[r] = a /\ \A s \in Repos \ {r} : t[s] = w.task[s]
  BY WorkParts
<1>2. [w EXCEPT !.task[r] = a] = v
  OBVIOUS
<1> HIDE DEF t
<1> QED BY <1>1, <1>2 DEF Work

LEMMA WithGot ==
  ASSUME NEW w \in Work, NEW r \in Repos, NEW g \in Refs
  PROVE  LET v == [w EXCEPT !.got[r] = g] IN
         /\ v \in Work
         /\ v.step = w.step /\ v.hope = w.hope
         /\ v.scope = w.scope /\ v.left = w.left /\ v.done = w.done
         /\ v.planned = w.planned /\ v.to = w.to /\ v.task = w.task
         /\ v.got[r] = g
         /\ \A s \in Repos \ {r} : v.got[s] = w.got[s]
<1> DEFINE t == [w.got EXCEPT ![r] = g]
           v == [w EXCEPT !.got = t]
<1>1. t \in [Repos -> Refs] /\ t[r] = g /\ \A s \in Repos \ {r} : t[s] = w.got[s]
  BY WorkParts
<1>2. [w EXCEPT !.got[r] = g] = v
  OBVIOUS
<1> HIDE DEF t
<1> QED BY <1>1, <1>2 DEF Work

LEMMA AfterEnds ==
  ASSUME work \in [Jobs -> Work], NEW c, c.job \in Jobs, c.repo \in Repos,
         NEW answer \in Answer, NEW got \in Refs, Ends(c, answer, got)
  PROVE  LET j == c.job
             r == c.repo
             waits == At(j, c.do) /\ work[j].task[r] = "sent"
         IN
         /\ work' \in [Jobs -> Work] /\ SameOthers(j)
         /\ Kept(j) /\ work'[j].hope = work[j].hope
         /\ work'[j].task[r] = IF waits THEN answer ELSE work[j].task[r]
         /\ work'[j].got[r] = IF waits THEN got ELSE work[j].got[r]
         /\ \A s \in Repos \ {r} : work'[j].task[s] = work[j].task[s] /\ work'[j].got[s] = work[j].got[s]
<1> DEFINE j == c.job
           r == c.repo
           w == work[j]
           v == [w EXCEPT !.task[r] = answer]
           u == [v EXCEPT !.got[r] = got]
<1>1. CASE At(j, c.do) /\ w.task[r] = "sent"
  <2>1. work' = [work EXCEPT ![j] = u]
    BY <1>1 DEF Ends
  <2>2. w \in Work /\ j \in Jobs /\ r \in Repos
    OBVIOUS
  <2> HIDE DEF w, j, r
  <2>3. /\ v \in Work
        /\ v.step = w.step /\ v.hope = w.hope
        /\ v.scope = w.scope /\ v.left = w.left /\ v.done = w.done
        /\ v.planned = w.planned /\ v.to = w.to /\ v.got = w.got
        /\ v.task[r] = answer
        /\ \A s \in Repos \ {r} : v.task[s] = w.task[s]
    BY <2>2, WithTask
  <2> HIDE DEF v
  <2>4. /\ u \in Work
        /\ u.step = v.step /\ u.hope = v.hope
        /\ u.scope = v.scope /\ u.left = v.left /\ u.done = v.done
        /\ u.planned = v.planned /\ u.to = v.to /\ u.task = v.task
        /\ u.got[r] = got
        /\ \A s \in Repos \ {r} : u.got[s] = v.got[s]
    BY <2>2, <2>3, WithGot
  <2> HIDE DEF u
  <2>5. work' \in [Jobs -> Work] /\ SameOthers(j) /\ work'[j] = u
    BY <2>1, <2>2, <2>4 DEF SameOthers, Same
  <2>6. Kept(j) /\ work'[j].hope = work[j].hope
    BY <2>3, <2>4, <2>5 DEF Kept, w
  <2> QED BY <1>1, <2>3, <2>4, <2>5, <2>6 DEF w, j, r
<1>2. CASE ~(At(j, c.do) /\ w.task[r] = "sent")
  BY <1>2 DEF Ends, SameOthers, Same, Kept
<1> QED BY <1>1, <1>2

(* An answer to one command, and what may still be hoped. *)
WithAnswer(j, r, a, h) == [work[j] EXCEPT !.task[r] = a, !.hope = h]

LEMMA AfterTask ==
  ASSUME work \in [Jobs -> Work], NEW j \in Jobs, NEW r \in Repos, NEW a \in Answer, NEW h \in Hope,
         Set(j, WithAnswer(j, r, a, h))
  PROVE  /\ work' \in [Jobs -> Work] /\ SameOthers(j)
         /\ Kept(j) /\ work'[j].hope = h
         /\ work'[j].task[r] = a /\ work'[j].got = work[j].got
         /\ \A s \in Repos \ {r} : work'[j].task[s] = work[j].task[s]
<1> DEFINE w == work[j]
           v == [w EXCEPT !.task[r] = a]
           u == [v EXCEPT !.hope = h]
<1>1. work' = [work EXCEPT ![j] = u]
  BY DEF Set, WithAnswer
<1>2. w \in Work
  OBVIOUS
<1> HIDE DEF w
<1>3. /\ v \in Work
      /\ v.step = w.step /\ v.hope = w.hope
      /\ v.scope = w.scope /\ v.left = w.left /\ v.done = w.done
      /\ v.planned = w.planned /\ v.to = w.to /\ v.got = w.got
      /\ v.task[r] = a
      /\ \A s \in Repos \ {r} : v.task[s] = w.task[s]
  BY <1>2, WithTask
<1> HIDE DEF v
<1>4. /\ u \in Work
      /\ u.step = v.step /\ u.hope = h
      /\ u.scope = v.scope /\ u.left = v.left /\ u.done = v.done
      /\ u.planned = v.planned /\ u.to = v.to /\ u.task = v.task /\ u.got = v.got
  BY <1>3 DEF Work
<1> HIDE DEF u
<1>5. work' \in [Jobs -> Work] /\ SameOthers(j) /\ work'[j] = u
  BY <1>1, <1>4 DEF SameOthers, Same
<1> QED BY <1>3, <1>4, <1>5 DEF Kept, w

LEMMA LostAnswer ==
  ASSUME work \in [Jobs -> Work], NEW j \in Jobs, NEW r \in Repos, NEW a \in Answer
  PROVE  [work[j] EXCEPT !.task[r] = a] = WithAnswer(j, r, a, work[j].hope)
<1> DEFINE v == [work[j] EXCEPT !.task[r] = a]
<1>1. work[j] \in Work
  OBVIOUS
<1>2. v \in Work /\ v.hope = work[j].hope
  BY <1>1, WithTask
<1>3. WithAnswer(j, r, a, work[j].hope) = [v EXCEPT !.hope = work[j].hope]
  BY DEF WithAnswer
<1> HIDE DEF v
<1>4. [v EXCEPT !.hope = work[j].hope] = v
  BY <1>2 DEF Work
<1> QED BY <1>3, <1>4 DEF v

LEMMA AfterDisturb ==
  ASSUME work \in [Jobs -> Work], Disturb
  PROVE  /\ work' \in [Jobs -> Work]
         /\ \A j \in Jobs : /\ Kept(j) /\ work'[j].hope = "nothing"
                            /\ work'[j].task = work[j].task /\ work'[j].got = work[j].got
<1>1. ASSUME NEW j \in Jobs
      PROVE  LET v == [work[j] EXCEPT !.hope = "nothing"] IN
             /\ v \in Work
             /\ v.step = work[j].step /\ v.hope = "nothing"
             /\ v.scope = work[j].scope /\ v.left = work[j].left /\ v.done = work[j].done
             /\ v.planned = work[j].planned /\ v.to = work[j].to
             /\ v.task = work[j].task /\ v.got = work[j].got
  <2>1. work[j] \in Work
    OBVIOUS
  <2> QED BY <2>1 DEF Work, Hope
<1> QED BY <1>1 DEF Disturb, Kept

-----------------------------------------------------------------------------
(* The types of everything but the jobs.  TypeOK says more of the work, which
   takes the order of the levels: see ShapeInv. *)

AgentCommand == [job : Jobs, repo : Repos, do : Command, to : Refs]
Hook         == [repo : Repos, id : Nat]
Note         == [repo : Repos, id : Nat, version : Nat, refs : Refs]

WorldOK ==
  /\ uses \in Graph /\ level \in [Repos -> Nat]
  /\ head \in [Repos -> Nat] /\ known \in [Repos -> Nat]
  /\ file \in [Repos -> Refs] /\ commit \in [Repos -> Refs] /\ refs \in [Repos -> Refs]
  /\ agent \subseteq AgentCommand
  /\ hooks \subseteq Hook
  /\ notes \subseteq Note
  /\ edits \in 0 .. MaxEdits
  /\ work \in [Jobs -> Work]

LEMMA UpdatedType ==
  ASSUME NEW old \in Refs, NEW to \in Refs
  PROVE  /\ Updated(old, to) \in Refs
         /\ \A s \in Repos : Updated(old, to)[s] = IF to[s] # NoVersion THEN to[s] ELSE old[s]
BY DEF Updated, Refs

LEMMA PayloadType ==
  ASSUME known \in [Repos -> Nat]
  PROVE  /\ NoRefs \in Refs
         /\ \A r : Payload(r) \in Refs
BY DEF Payload, Refs, NoRefs, NoVersion

LEMMA AskedAgent ==
  ASSUME agent \subseteq AgentCommand, NEW j \in Jobs, NEW w \in Work, NEW do \in Command,
         NEW repos \in SUBSET Repos, Ask(j, w, do, repos)
  PROVE  agent' \subseteq AgentCommand
<1>1. \A r \in repos : w.to[r] \in Refs
  BY WorkParts
<1>2. ASSUME NEW r \in repos
      PROVE  [job |-> j, repo |-> r, do |-> do, to |-> w.to[r]] \in AgentCommand
  BY <1>1 DEF AgentCommand
<1> QED BY <1>2 DEF Ask

LEMMA EndWorld ==
  ASSUME work \in [Jobs -> Work], agent \subseteq AgentCommand, NEW j \in Jobs, NEW how, End(j, how)
  PROVE  work' \in [Jobs -> Work] /\ agent' \subseteq agent
BY AfterEnd DEF End

LEMMA LevelUpWorld ==
  ASSUME work \in [Jobs -> Work], NEW j \in Jobs, LevelUp(j, work[j])
  PROVE  work' \in [Jobs -> Work]
<1>1. work[j] \in Work
  OBVIOUS
<1> QED BY <1>1, AfterLevelUp

LEMMA AskWorld ==
  ASSUME work \in [Jobs -> Work], agent \subseteq AgentCommand, NEW j \in Jobs, NEW w \in Work,
         NEW do \in Command, NEW repos \in SUBSET Repos, Ask(j, w, do, repos)
  PROVE  work' \in [Jobs -> Work] /\ agent' \subseteq AgentCommand
BY AfterAsk, AskedAgent

LEMMA EndsWorld ==
  ASSUME WorldOK, NEW c \in agent, NEW answer \in Answer, NEW got \in Refs, Ends(c, answer, got)
  PROVE  work' \in [Jobs -> Work] /\ agent' \subseteq agent
<1>1. c.job \in Jobs /\ c.repo \in Repos /\ work \in [Jobs -> Work]
  BY DEF WorldOK, AgentCommand
<1>2. work' \in [Jobs -> Work]
  BY <1>1, AfterEnds
<1> QED BY <1>2 DEF Ends

(* Work that begins is taken for what nothing hopes, or hopes for files or commits. *)
WithHope(j, h) == [work[j] EXCEPT !.hope = h]

LEMMA WithHopeParts ==
  ASSUME work \in [Jobs -> Work], NEW j \in Jobs, NEW h \in Hope
  PROVE  /\ WithHope(j, h) \in Work
         /\ WithHope(j, h).step = work[j].step /\ WithHope(j, h).hope = h
         /\ WithHope(j, h).scope = work[j].scope /\ WithHope(j, h).left = work[j].left
         /\ WithHope(j, h).done = work[j].done /\ WithHope(j, h).planned = work[j].planned
         /\ WithHope(j, h).to = work[j].to
<1>1. work[j] \in Work
  OBVIOUS
<1> QED BY <1>1 DEF WithHope, Work

WithTo(j, to) == [work[j] EXCEPT !.to = to]

LEMMA WithToParts ==
  ASSUME work \in [Jobs -> Work], NEW j \in Jobs, NEW to \in [Repos -> Refs]
  PROVE  /\ WithTo(j, to) \in Work
         /\ WithTo(j, to).step = work[j].step /\ WithTo(j, to).hope = work[j].hope
         /\ WithTo(j, to).scope = work[j].scope /\ WithTo(j, to).left = work[j].left
         /\ WithTo(j, to).done = work[j].done /\ WithTo(j, to).planned = work[j].planned
         /\ WithTo(j, to).to = to
<1>1. work[j] \in Work
  OBVIOUS
<1> QED BY <1>1 DEF WithTo, Work

(* What the actions do, in terms of the above. *)
LEMMA StartDoes ==
  ASSUME NEW j \in Jobs, Start(j)
  PROVE  /\ StartJob(j) /\ UNCHANGED <<plan, tree, db, wire>>
         /\ \E w \in Work :
              /\ Set(j, w)
              /\ w.step = "queued" /\ w.hope = "nothing" /\ w.left \subseteq w.scope
              /\ w.done = {} /\ \A r \in Repos : w.task[r] = "none"
<1>1. PICK request \in Requests :
        LET scope == request[1]  maxLevel == request[2] IN
        Set(j, [NoWork EXCEPT !.step = "queued", !.scope = scope,
                              !.left = {r \in scope : level[r] <= maxLevel}])
  BY DEF Start
<1> DEFINE scope == request[1]
           left == {r \in scope : level[r] <= request[2]}
           w == [NoWork EXCEPT !.step = "queued", !.scope = scope, !.left = left]
<1>2. scope \in SUBSET Repos /\ left \in SUBSET Repos /\ left \subseteq scope
  BY UpdateAssumption
<1>3. Set(j, w)
  BY <1>1
<1> HIDE DEF scope, left
<1>4. /\ w \in Work
      /\ w.step = "queued" /\ w.hope = "nothing" /\ w.scope = scope /\ w.left = left
      /\ w.done = {} /\ \A r \in Repos : w.task[r] = "none"
  BY <1>2, NoWorkIsWork DEF Work, Step
<1> HIDE DEF w
<1> QED BY <1>2, <1>3, <1>4 DEF Start

LEMMA BeginDoes ==
  ASSUME work \in [Jobs -> Work], NEW j \in Jobs, Begin(j)
  PROVE  /\ work[j].step = "queued" /\ UNCHANGED <<plan, tree, db, hooks, notes>>
         /\ \/ End(j, "Faulted")
            \/ \E h \in Hope :
                 /\ h # "nothing" => AllOver
                 /\ h = "commits" => file = commit
                 /\ Ask(j, WithHope(j, h), "read", work[j].scope)
                 /\ UNCHANGED jobVars
BY DEF Begin, Hope, WithHope

(* What is asked for by a payload. *)
Todo(j) == {r \in Group(j) : Mismatched(r) # {}}
PayloadOf(repos) == [r \in Repos |-> IF r \in repos THEN Payload(r) ELSE NoRefs]

LEMMA BeginSyncDoes ==
  ASSUME WorldOK, NEW j \in Jobs, BeginSync(j)
  PROVE  /\ At(j, "payload") /\ UNCHANGED <<plan, tree, db, hooks, notes>>
         /\ Todo(j) \in SUBSET Repos /\ PayloadOf(Todo(j)) \in [Repos -> Refs]
         /\ \/ End(j, "Faulted")
            \/ Todo(j) = {} /\ LevelUp(j, work[j]) /\ UNCHANGED <<jobVars, agent>>
            \/ /\ Todo(j) # {} /\ Ask(j, WithTo(j, PayloadOf(Todo(j))), "sync", Todo(j))
               /\ UNCHANGED jobVars
<1>1. work[j].left \in SUBSET Repos
  BY WorkParts DEF WorldOK
<1>2. Todo(j) \in SUBSET Repos
  BY <1>1, GroupIsLeft DEF Todo
<1>3. PayloadOf(Todo(j)) \in [Repos -> Refs]
  BY PayloadType DEF WorldOK, PayloadOf
<1>4. \/ End(j, "Faulted")
      \/ Todo(j) = {} /\ LevelUp(j, work[j]) /\ UNCHANGED <<jobVars, agent>>
      \/ /\ Todo(j) # {} /\ Ask(j, WithTo(j, PayloadOf(Todo(j))), "sync", Todo(j))
         /\ UNCHANGED jobVars
  BY DEF BeginSync, Todo, PayloadOf, WithTo
<1> QED BY <1>2, <1>3, <1>4 DEF BeginSync

LEMMA CommitsTypes ==
  ASSUME WorldOK, NEW r \in Repos, NEW names \in Refs, Commits(r, names)
  PROVE  head' \in [Repos -> Nat] /\ commit' \in [Repos -> Refs] /\ hooks' \subseteq Hook
<1>1. head[r] + 1 \in Nat
  BY DEF WorldOK
<1>2. [repo |-> r, id |-> head[r] + 1] \in Hook
  BY <1>1 DEF Hook
<1> QED BY <1>1, <1>2 DEF WorldOK, Commits

LEMMA GotVersion ==
  ASSUME NEW r \in Repos, NEW v \in Nat
  PROVE  [NoRefs EXCEPT ![r] = v] \in Refs /\ [NoRefs EXCEPT ![r] = v][r] = v
BY DEF NoRefs, Refs, NoVersion

LEMMA WorldInit == Init => WorldOK
<1> SUFFICES ASSUME Init PROVE WorldOK
  OBVIOUS
<1>1. uses \in Graph /\ level \in [Repos -> Nat]
  BY UpdateAssumption, LevelsType DEF Init
<1>2. file \in [Repos -> Refs]
  BY DEF Init, Refs, NoVersion
<1>3. work \in [Jobs -> Work]
  BY NoWorkIsWork DEF Init
<1> QED BY <1>1, <1>2, <1>3, UpdateAssumption DEF Init, WorldOK

LEMMA WorldStep == WorldOK /\ Next => WorldOK'
<1> SUFFICES ASSUME WorldOK, Next PROVE WorldOK'
  OBVIOUS
<1> DEFINE PlanTree == /\ uses' \in Graph /\ level' \in [Repos -> Nat]
                       /\ head' \in [Repos -> Nat]
                       /\ file' \in [Repos -> Refs] /\ commit' \in [Repos -> Refs]
                       /\ edits' \in 0 .. MaxEdits
           Db   == known' \in [Repos -> Nat] /\ refs' \in [Repos -> Refs]
           Wire == agent' \subseteq AgentCommand /\ hooks' \subseteq Hook /\ notes' \subseteq Note
           Jobs_ == work' \in [Jobs -> Work]
<1> SUFFICES PlanTree /\ Db /\ Wire /\ Jobs_
  BY DEF WorldOK
<1>1. /\ work \in [Jobs -> Work] /\ agent \subseteq AgentCommand
      /\ hooks \subseteq Hook /\ notes \subseteq Note
  BY DEF WorldOK
<1>2. ASSUME UNCHANGED <<plan, tree>> PROVE PlanTree
  BY <1>2 DEF WorldOK, plan, tree
<1>3. ASSUME UNCHANGED db PROVE Db
  BY <1>3 DEF WorldOK, db
<1>4. ASSUME NEW j \in Jobs, Start(j) PROVE PlanTree /\ Db /\ Wire /\ Jobs_
  <2>1. PICK w \in Work : Set(j, w)
    BY <1>4, StartDoes
  <2>2. UNCHANGED <<plan, tree, db, wire>>
    BY <1>4 DEF Start
  <2> QED BY <1>1, <1>2, <1>3, <2>1, <2>2, AfterSet DEF wire
<1>5. ASSUME NEW j \in Jobs, NEW how, End(j, how), UNCHANGED <<hooks, notes>> PROVE Wire /\ Jobs_
  BY <1>1, <1>5, EndWorld
<1>6. ASSUME NEW j \in Jobs, LevelUp(j, work[j]), UNCHANGED <<agent, hooks, notes>> PROVE Wire /\ Jobs_
  BY <1>1, <1>6, LevelUpWorld
<1>7. ASSUME NEW j \in Jobs, NEW s \in Step, Set(j, Move(work[j], s)), UNCHANGED <<agent, hooks, notes>>
      PROVE  Wire /\ Jobs_
  BY <1>1, <1>7, AfterMove
<1>8. ASSUME NEW j \in Jobs, NEW w \in Work, NEW do \in Command, NEW repos \in SUBSET Repos,
             Ask(j, w, do, repos), UNCHANGED <<hooks, notes>>
      PROVE  Wire /\ Jobs_
  BY <1>1, <1>8, AskWorld
<1>9. ASSUME NEW j \in Jobs, Begin(j) PROVE PlanTree /\ Db /\ Wire /\ Jobs_
  <2>1. PlanTree /\ Db
    BY <1>2, <1>3, <1>9 DEF Begin
  <2>2. CASE End(j, "Faulted")
    BY <1>5, <1>9, <2>1, <2>2 DEF Begin
  <2>3. ASSUME NEW h \in Hope, Ask(j, WithHope(j, h), "read", work[j].scope)
        PROVE  Wire /\ Jobs_
    <3>1. WithHope(j, h) \in Work /\ work[j].scope \in SUBSET Repos /\ "read" \in Command
      BY <1>1, WithHopeParts, WorkParts DEF Command
    <3> QED BY <1>8, <1>9, <2>3, <3>1 DEF Begin
  <2> QED BY <1>1, <1>9, <2>1, <2>2, <2>3, BeginDoes
<1>10. ASSUME NEW j \in Jobs, ReadDone(j) PROVE PlanTree /\ Db /\ Wire /\ Jobs_
  <2>1. PlanTree /\ Wire /\ Jobs_
    BY <1>2, <1>5, <1>7, <1>10 DEF ReadDone, Step
  <2>2. \A r \in Repos : work[j].got[r] \in Refs /\ refs[r] \in Refs
    BY <1>1, WorkParts DEF WorldOK
  <2>3. Db
    BY <1>10, <2>2 DEF ReadDone, WorldOK
  <2> QED BY <2>1, <2>3
<1>11. ASSUME NEW j \in Jobs, NextLevel(j) PROVE PlanTree /\ Db /\ Wire /\ Jobs_
  <2>1. PlanTree /\ Db /\ UNCHANGED <<agent, hooks, notes>>
    BY <1>2, <1>3, <1>11 DEF NextLevel, wire
  <2>2. CASE Set(j, Move(work[j], "final")) \/ LevelUp(j, work[j])
    BY <1>6, <1>7, <2>1, <2>2 DEF Step
  <2>3. CASE Set(j, [Move(work[j], "payload") EXCEPT !.planned = Todo(j)])
    <3>1. work[j].left \in SUBSET Repos /\ "payload" \in Step
      BY <1>1, WorkParts DEF Step
    <3>2. Todo(j) \in SUBSET Repos
      BY <3>1, GroupIsLeft DEF Todo
    <3> QED BY <1>1, <2>1, <2>3, <3>1, <3>2, AfterMovePlanned
  <2> QED BY <1>11, <2>2, <2>3 DEF NextLevel, Todo
<1>12. ASSUME NEW j \in Jobs, BeginSync(j) PROVE PlanTree /\ Db /\ Wire /\ Jobs_
  <2>1. PlanTree /\ Db /\ UNCHANGED <<hooks, notes>>
    BY <1>2, <1>3, <1>12 DEF BeginSync
  <2>2. CASE Ask(j, WithTo(j, PayloadOf(Todo(j))), "sync", Todo(j))
    <3>1. Todo(j) \in SUBSET Repos /\ PayloadOf(Todo(j)) \in [Repos -> Refs] /\ "sync" \in Command
      BY <1>12, BeginSyncDoes DEF Command
    <3> QED BY <1>1, <1>8, <2>1, <2>2, <3>1, WithToParts
  <2> QED BY <1>5, <1>6, <1>12, <2>1, <2>2, BeginSyncDoes
<1>13. ASSUME NEW j \in Jobs, SyncDone(j) PROVE PlanTree /\ Db /\ Wire /\ Jobs_
  <2>1. PlanTree /\ UNCHANGED <<hooks, notes>>
    BY <1>2, <1>13 DEF SyncDone
  <2>2. \A r \in Repos : work[j].to[r] \in Refs /\ refs[r] \in Refs
    BY <1>1, WorkParts DEF WorldOK
  <2>3. Db
    BY <1>13, <2>2, UpdatedType DEF SyncDone, WorldOK
  <2> DEFINE toCommit == work[j].planned \cap With(j, "ok")
  <2>4. CASE Set(j, [Move(work[j], "stage") EXCEPT !.planned = toCommit]) /\ agent' = agent
    <3>1. toCommit \in SUBSET Repos /\ "stage" \in Step
      BY DEF With, Step
    <3> HIDE DEF toCommit
    <3> QED BY <1>1, <2>1, <2>3, <2>4, <3>1, AfterMovePlanned
  <2> QED BY <1>5, <1>6, <1>13, <2>1, <2>3, <2>4 DEF SyncDone
<1>14. ASSUME NEW j \in Jobs, BeginCommit(j) PROVE PlanTree /\ Db /\ Wire /\ Jobs_
  <2>1. work[j] \in Work /\ work[j].planned \in SUBSET Repos /\ "commit" \in Command
    BY <1>1, WorkParts DEF Command
  <2> QED BY <1>2, <1>3, <1>8, <1>14, <2>1 DEF BeginCommit
<1>15. ASSUME NEW j \in Jobs, SkipCommit(j) PROVE PlanTree /\ Db /\ Wire /\ Jobs_
  <2> DEFINE h == IF work[j].hope = "commits" THEN "files" ELSE work[j].hope
  <2>1. LevelUp(j, WithHope(j, h)) /\ h \in Hope
    BY <1>1, <1>15, WorkParts DEF SkipCommit, WithHope, Hope
  <2> HIDE DEF h
  <2>2. Jobs_
    BY <1>1, <2>1, WithHopeParts, AfterLevelUp
  <2> QED BY <1>1, <1>2, <1>3, <1>15, <2>2 DEF SkipCommit, wire
<1>16. ASSUME NEW j \in Jobs, CommitDone(j) PROVE PlanTree /\ Db /\ Wire /\ Jobs_
  <2>1. work[j] \in Work /\ With(j, "ok") \in SUBSET Repos /\ "version" \in Command
    BY <1>1 DEF With, Command
  <2>2. PlanTree /\ Db /\ UNCHANGED <<hooks, notes>>
    BY <1>2, <1>3, <1>16 DEF CommitDone
  <2> QED BY <1>5, <1>6, <1>8, <1>16, <2>1, <2>2 DEF CommitDone
<1>17. ASSUME NEW j \in Jobs, VersionDone(j) \/ Final(j) \/ Unwind(j) PROVE PlanTree /\ Db /\ Wire /\ Jobs_
  <2>1. PlanTree /\ Db /\ UNCHANGED <<hooks, notes>>
    BY <1>2, <1>3, <1>17 DEF VersionDone, Final, Unwind
  <2>2. (\E how : End(j, how)) \/ (LevelUp(j, work[j]) /\ UNCHANGED agent)
    BY <1>17 DEF VersionDone, Final, Unwind
  <2> QED BY <1>5, <1>6, <2>1, <2>2
<1>18. ASSUME NEW j \in Jobs, NEW r \in Repos, LoseAnswer(j, r) PROVE PlanTree /\ Db /\ Wire /\ Jobs_
  <2>1. work[j] \in Work
    BY <1>1
  <2>2. [work[j] EXCEPT !.task[r] = "failed"] \in Work
    BY <2>1, WithTask DEF Answer
  <2> QED BY <1>1, <1>2, <1>3, <1>18, <2>2, AfterSet DEF LoseAnswer, wire
<1>19. ASSUME NEW j \in Jobs, NEW r \in Repos, SaveVersion(j, r) PROVE PlanTree /\ Db /\ Wire /\ Jobs_
  <2> DEFINE v == work[j].got[r][r]
             h == IF v = NoVersion THEN "nothing" ELSE work[j].hope
  <2>1. v \in Nat /\ h \in Hope /\ "ok" \in Answer
    BY <1>1, WorkParts DEF Refs, Hope, Answer
  <2>2. Set(j, WithAnswer(j, r, "ok", h)) /\ known' = [known EXCEPT ![r] = v]
    BY <1>19 DEF SaveVersion, WithAnswer
  <2> HIDE DEF v, h
  <2>3. Jobs_
    BY <1>1, <2>1, <2>2, AfterTask
  <2>4. Db
    BY <1>19, <2>1, <2>2 DEF SaveVersion, WorldOK
  <2> QED BY <1>1, <1>2, <1>19, <2>3, <2>4 DEF SaveVersion, wire
<1>20. ASSUME NEW c \in agent, NEW answer \in Answer, NEW got \in Refs, Ends(c, answer, got)
       PROVE  agent' \subseteq AgentCommand /\ Jobs_
  BY <1>1, <1>20, EndsWorld
<1>21. ASSUME NEW c \in agent
       PROVE  c.repo \in Repos /\ c.to \in Refs /\ file[c.repo] \in Refs
  BY <1>21 DEF WorldOK, AgentCommand
<1>22. NoRefs \in Refs /\ {"ok", "same", "answered", "failed"} \subseteq Answer
  BY DEF NoRefs, Refs, NoVersion, Answer
<1>23. ASSUME NEW c \in agent, AgentReads(c) PROVE PlanTree /\ Db /\ Wire /\ Jobs_
  <2>1. Ends(c, "ok", file[c.repo]) /\ "ok" \in Answer
    BY <1>22, <1>23 DEF AgentReads
  <2> QED BY <1>1, <1>2, <1>3, <1>20, <1>21, <1>23, <2>1 DEF AgentReads
<1>24. ASSUME NEW c \in agent, AgentSyncs(c) PROVE PlanTree /\ Db /\ Wire /\ Jobs_
  <2>1. \E a \in Answer : Ends(c, a, NoRefs)
    BY <1>22, <1>24 DEF AgentSyncs
  <2>2. file' \in [Repos -> Refs]
    BY <1>21, <1>24, UpdatedType DEF AgentSyncs, WorldOK
  <2> QED BY <1>1, <1>3, <1>20, <1>22, <1>24, <2>1, <2>2 DEF AgentSyncs, WorldOK, plan
<1>25. ASSUME NEW c \in agent, AgentCommits(c) PROVE PlanTree /\ Db /\ Wire /\ Jobs_
  <2>1. \E a \in Answer : Ends(c, a, NoRefs)
    BY <1>22, <1>25 DEF AgentCommits
  <2>2. UNCHANGED <<head, commit, hooks>> \/ Commits(c.repo, file[c.repo])
    BY <1>25 DEF AgentCommits
  <2>3. head' \in [Repos -> Nat] /\ commit' \in [Repos -> Refs] /\ hooks' \subseteq Hook
    BY <1>21, <2>2, CommitsTypes DEF WorldOK
  <2> QED BY <1>1, <1>3, <1>20, <1>22, <1>25, <2>1, <2>3 DEF AgentCommits, WorldOK, plan
<1>26. ASSUME NEW c \in agent, AgentVersions(c) PROVE PlanTree /\ Db /\ Wire /\ Jobs_
  <2>1. PICK v \in {head[c.repo], NoVersion} : Ends(c, "answered", [NoRefs EXCEPT ![c.repo] = v])
    BY <1>26 DEF AgentVersions
  <2>2. v \in Nat
    BY <1>21 DEF WorldOK, NoVersion
  <2>3. [NoRefs EXCEPT ![c.repo] = v] \in Refs
    BY <1>21, <2>2, GotVersion
  <2> QED BY <1>1, <1>2, <1>3, <1>20, <1>22, <1>26, <2>1, <2>3 DEF AgentVersions
<1>27. ASSUME NEW c \in agent, AgentFails(c) PROVE PlanTree /\ Db /\ Wire /\ Jobs_
  <2>1. Ends(c, "failed", NoRefs)
    BY <1>27 DEF AgentFails
  <2>2. PICK part \in SUBSET uses[c.repo] :
          file' = IF c.do = "sync"
                    THEN [file EXCEPT ![c.repo] =
                            Updated(@, [s \in Repos |-> IF s \in part THEN c.to[s] ELSE NoVersion])]
                    ELSE file
    BY <1>27 DEF AgentFails
  <2>3. [s \in Repos |-> IF s \in part THEN c.to[s] ELSE NoVersion] \in Refs
    BY <1>21 DEF Refs, NoVersion
  <2>4. file' \in [Repos -> Refs]
    BY <1>21, <2>2, <2>3, UpdatedType DEF WorldOK
  <2> QED BY <1>1, <1>3, <1>20, <1>22, <1>27, <2>1, <2>4 DEF AgentFails, WorldOK, plan
<1>28. ASSUME NEW h \in hooks, HookReads(h) \/ HookLost(h) PROVE PlanTree /\ Db /\ Wire /\ Jobs_
  <2>1. PlanTree /\ Db /\ Jobs_ /\ hooks' \subseteq Hook /\ agent' \subseteq AgentCommand
    BY <1>1, <1>2, <1>3, <1>28 DEF HookReads, HookLost
  <2>2. notes' \subseteq Note
    <3>1. h.repo \in Repos /\ h.id \in Nat
      BY <1>1 DEF Hook
    <3>2. ASSUME NEW v \in {head[h.repo], NoVersion}
          PROVE  [repo |-> h.repo, id |-> h.id, version |-> v, refs |-> file[h.repo]] \in Note
      BY <3>1 DEF WorldOK, Note, NoVersion
    <3> QED BY <1>1, <1>28, <3>2 DEF HookReads, HookLost
  <2> QED BY <2>1, <2>2
<1>29. ASSUME NEW n \in notes, Notified(n) PROVE PlanTree /\ Db /\ Wire /\ Jobs_
  <2>1. n.repo \in Repos /\ n.version \in Nat /\ n.refs \in Refs
    BY <1>1 DEF Note
  <2>2. Jobs_
    BY <1>1, <1>29, AfterDisturb DEF Notified
  <2>3. Db
    BY <1>29, <2>1 DEF Notified, WorldOK
  <2> QED BY <1>1, <1>2, <1>29, <2>2, <2>3 DEF Notified
<1>30. ASSUME NEW r \in Edited, Edit(r) PROVE PlanTree /\ Db /\ Wire /\ Jobs_
  <2>1. r \in Repos
    BY UpdateAssumption
  <2>2. PICK names \in {file[r], commit[r]} : Commits(r, names)
    BY <1>30 DEF Edit
  <2>3. names \in Refs
    BY <2>1, <2>2 DEF WorldOK
  <2>4. head' \in [Repos -> Nat] /\ commit' \in [Repos -> Refs] /\ hooks' \subseteq Hook
    BY <2>1, <2>2, <2>3, CommitsTypes
  <2>5. edits' \in 0 .. MaxEdits
    BY <1>30, UpdateAssumption DEF Edit, WorldOK
  <2>6. Jobs_
    BY <1>1, <1>30, AfterDisturb DEF Edit
  <2>7. uses' \in Graph /\ level' \in [Repos -> Nat] /\ file' \in [Repos -> Refs]
    BY <1>30 DEF Edit, WorldOK, plan
  <2> QED BY <1>1, <1>3, <1>30, <2>4, <2>5, <2>6, <2>7 DEF Edit
<1>31. ASSUME User PROVE PlanTree /\ Db /\ Wire /\ Jobs_
  BY <1>1, <1>2, <1>3, <1>31 DEF User, wire
<1> HIDE DEF PlanTree, Db, Wire, Jobs_
<1> QED BY <1>4, <1>9, <1>10, <1>11, <1>12, <1>13, <1>14, <1>15, <1>16, <1>17, <1>18, <1>19, <1>23,
           <1>24, <1>25, <1>26, <1>27, <1>28, <1>29, <1>30, <1>31
        DEF Next, WorkNext, AgentNext

-----------------------------------------------------------------------------
(* What a step of the work has walked, planned and asked for. *)

(* The answers that a step of the work may have been given. *)
Answers(s) ==
  CASE s = "read"    -> {"none", "sent", "ok", "failed"}
    [] s = "version" -> {"none", "sent", "answered", "ok", "failed"}
    [] s \in Writing -> {"none", "sent", "ok", "same", "failed"}
    [] OTHER         -> {"none"}

ShapeInv(j) ==
  /\ work[j].step # "none" <=> j \in working
  /\ work[j].left \cup work[j].done \subseteq work[j].scope
  /\ \A r \in work[j].done, s \in work[j].left : level[r] < level[s]
  /\ work[j].step \in {"queued", "read"} => work[j].done = {}
  /\ work[j].step = "queued" => work[j].hope = "nothing"
  /\ work[j].step = "read" => Asked(j) = work[j].scope
  /\ work[j].step = "stage" => work[j].planned # {} /\ work[j].planned \subseteq Group(j)
  /\ work[j].step \in {"sync", "commit", "version"} => Asked(j) # {} /\ Asked(j) \subseteq Group(j)
  /\ \A r \in Repos : work[j].task[r] \in Answers(work[j].step)

LEMMA AnswersAre ==
  /\ Answers("read") = {"none", "sent", "ok", "failed"}
  /\ Answers("version") = {"none", "sent", "answered", "ok", "failed"}
  /\ Answers("sync") = {"none", "sent", "ok", "same", "failed"}
  /\ Answers("commit") = {"none", "sent", "ok", "same", "failed"}
  /\ \A s \in Step \ Command : Answers(s) = {"none"}
BY DEF Answers, Writing, Command

LEMMA GroupStays ==
  ASSUME NEW j, UNCHANGED plan, work'[j].left = work[j].left
  PROVE  Group(j)' = Group(j)
BY DEF Group, plan

LEMMA ShapeFrame ==
  ASSUME NEW k \in Jobs, ShapeInv(k), Same(k), UNCHANGED plan, k \in working' <=> k \in working
  PROVE  ShapeInv(k)'
<1>1. Group(k)' = Group(k) /\ Asked(k)' = Asked(k)
  BY GroupStays DEF Same, Asked
<1> QED BY <1>1 DEF ShapeInv, Same, plan

LEMMA ShapeOthers ==
  ASSUME NEW j \in Jobs, \A k \in Jobs : ShapeInv(k), SameOthers(j), UNCHANGED plan,
         \A k \in Jobs \ {j} : k \in working' <=> k \in working,
         ShapeInv(j)'
  PROVE  \A k \in Jobs : ShapeInv(k)'
BY ShapeFrame DEF SameOthers

LEMMA ShapeEnd ==
  ASSUME work \in [Jobs -> Work], NEW j \in Jobs, NEW how, \A k \in Jobs : ShapeInv(k),
         UNCHANGED plan, End(j, how)
  PROVE  \A k \in Jobs : ShapeInv(k)'
<1>1. SameOthers(j) /\ work'[j] = NoWork
  BY AfterEnd
<1>2. working' = working \ {j}
  BY DEF End, EndWork
<1>3. Asked(j)' = {}
  BY <1>1, NoWorkIsWork DEF Asked
<1>4. ShapeInv(j)'
  BY <1>1, <1>2, <1>3, NoWorkIsWork, AnswersAre DEF ShapeInv, Step, Command
<1> QED BY <1>1, <1>2, <1>4, ShapeOthers

LEMMA ShapeMove ==
  ASSUME NEW j \in Jobs, ShapeInv(j), UNCHANGED plan, j \in working',
         work'[j].scope = work[j].scope, work'[j].left = work[j].left, work'[j].done = work[j].done,
         work'[j].step \in {"level", "payload", "stage", "final"},
         work'[j].step = "stage" => work'[j].planned # {} /\ work'[j].planned \subseteq Group(j),
         \A r \in Repos : work'[j].task[r] = "none"
  PROVE  ShapeInv(j)'
<1>1. Group(j)' = Group(j)
  BY GroupStays
<1>2. Answers(work'[j].step) = {"none"}
  BY AnswersAre DEF Step, Command
<1> QED BY <1>1, <1>2 DEF ShapeInv, plan

LEMMA ShapeLevelUp ==
  ASSUME WorldOK, NEW j \in Jobs, ShapeInv(j), UNCHANGED plan, j \in working',
         work'[j].step = "level", work'[j].scope = work[j].scope,
         work'[j].left = work[j].left \ Group(j), work'[j].done = work[j].done \cup Group(j),
         \A r \in Repos : work'[j].task[r] = "none"
  PROVE  ShapeInv(j)'
<1>1. work[j].left \in SUBSET Repos /\ work[j].done \in SUBSET Repos
  BY WorkParts DEF WorldOK
<1>2. ASSUME NEW r \in work'[j].done, NEW s \in work'[j].left PROVE level[r] < level[s]
  <2>1. s \in work[j].left /\ s \notin Group(j)
    OBVIOUS
  <2>2. CASE r \in work[j].done
    BY <2>1, <2>2 DEF ShapeInv
  <2>3. CASE r \in Group(j)
    <3>1. PICK t \in work[j].left : ~(level[s] <= level[t])
      BY <2>1 DEF Group
    <3>2. level[r] <= level[t]
      BY <2>3, <3>1 DEF Group
    <3>3. level[r] \in Nat /\ level[s] \in Nat /\ level[t] \in Nat
      BY <1>1, <2>1, <2>3, <3>1, GroupIsLeft DEF WorldOK
    <3> QED BY <3>1, <3>2, <3>3
  <2> QED BY <2>2, <2>3
<1>3. work'[j].left \cup work'[j].done \subseteq work'[j].scope
  BY GroupIsLeft DEF ShapeInv
<1>4. Answers(work'[j].step) = {"none"}
  BY AnswersAre DEF Step, Command
<1>5. level' = level
  BY DEF plan
<1> QED BY <1>2, <1>3, <1>4, <1>5 DEF ShapeInv

LEMMA ShapeAsk ==
  ASSUME NEW j \in Jobs, ShapeInv(j), UNCHANGED plan, j \in working',
         NEW repos \in SUBSET Repos,
         work'[j].scope = work[j].scope, work'[j].left = work[j].left, work'[j].done = work[j].done,
         work'[j].step \in Command,
         work'[j].step = "read" => repos = work[j].scope /\ work[j].done = {},
         work'[j].step # "read" => repos # {} /\ repos \subseteq Group(j),
         \A r \in Repos : work'[j].task[r] = IF r \in repos THEN "sent" ELSE "none"
  PROVE  ShapeInv(j)'
<1>1. Group(j)' = Group(j)
  BY GroupStays
<1>2. Asked(j)' = repos
  BY DEF Asked
<1>3. {"none", "sent"} \subseteq Answers(work'[j].step)
  BY AnswersAre DEF Command
<1> QED BY <1>1, <1>2, <1>3 DEF ShapeInv, Command, plan

LEMMA ShapeTask ==
  ASSUME NEW j \in Jobs, ShapeInv(j), UNCHANGED plan, j \in working' <=> j \in working,
         Kept(j),
         work'[j].hope = work[j].hope \/ work'[j].hope = "nothing",
         \A r \in Repos : /\ work'[j].task[r] \in Answers(work[j].step)
                          /\ work'[j].task[r] # "none" <=> work[j].task[r] # "none"
  PROVE  ShapeInv(j)'
<1>1. Group(j)' = Group(j)
  BY GroupStays DEF Kept
<1>2. Asked(j)' = Asked(j)
  BY DEF Asked
<1> QED BY <1>1, <1>2 DEF ShapeInv, Kept, plan

LEMMA ShapeEnds ==
  ASSUME WorldOK, NEW c \in agent, NEW answer \in Answers(c.do) \ {"none"}, answer \in Answer,
         NEW got \in Refs, Ends(c, answer, got),
         \A k \in Jobs : ShapeInv(k), UNCHANGED <<plan, jobVars>>
  PROVE  \A k \in Jobs : ShapeInv(k)'
<1> DEFINE j == c.job
           r == c.repo
<1>1. j \in Jobs /\ r \in Repos /\ work \in [Jobs -> Work]
  BY DEF WorldOK, AgentCommand
<1>2. /\ SameOthers(j) /\ Kept(j) /\ work'[j].hope = work[j].hope
      /\ work'[j].task[r] = IF At(j, c.do) /\ work[j].task[r] = "sent" THEN answer ELSE work[j].task[r]
      /\ \A s \in Repos \ {r} : work'[j].task[s] = work[j].task[s]
  BY <1>1, AfterEnds
<1>3. working' = working
  BY DEF jobVars
<1>4. ASSUME NEW s \in Repos
      PROVE  /\ work'[j].task[s] \in Answers(work[j].step)
             /\ work'[j].task[s] # "none" <=> work[j].task[s] # "none"
  <2>1. work[j].task[s] \in Answers(work[j].step)
    BY <1>1 DEF ShapeInv
  <2> QED BY <1>2, <2>1 DEF At
<1>5. ShapeInv(j)'
  <2>1. ShapeInv(j) /\ UNCHANGED plan
    BY <1>1
  <2> HIDE DEF j, r
  <2> QED BY <1>1, <1>2, <1>3, <1>4, <2>1, ShapeTask
<1> QED BY <1>1, <1>2, <1>3, <1>5, ShapeOthers

LEMMA WithIsAsked ==
  ASSUME NEW j, NEW answer, answer # "none"
  PROVE  With(j, answer) \subseteq Asked(j) /\ With(j, answer) \in SUBSET Repos
BY DEF With, Asked

LEMMA ShapeDisturb ==
  ASSUME work \in [Jobs -> Work], Disturb, \A k \in Jobs : ShapeInv(k), UNCHANGED <<plan, jobVars>>
  PROVE  \A k \in Jobs : ShapeInv(k)'
<1>1. ASSUME NEW k \in Jobs PROVE ShapeInv(k)'
  <2>1. Kept(k) /\ work'[k].hope = "nothing" /\ work'[k].task = work[k].task
    BY AfterDisturb
  <2>2. \A r \in Repos : work[k].task[r] \in Answers(work[k].step)
    BY DEF ShapeInv
  <2>3. working' = working
    BY DEF jobVars
  <2> QED BY <2>1, <2>2, <2>3, ShapeTask
<1> QED BY <1>1

LEMMA PlanIsFixed == Next => UNCHANGED plan
<1> SUFFICES ASSUME Next PROVE UNCHANGED plan
  OBVIOUS
<1>1. ASSUME NEW j \in Jobs, Start(j) \/ WorkNext(j) PROVE UNCHANGED plan
  BY <1>1 DEF Start, WorkNext, Begin, ReadDone, NextLevel, BeginSync, SyncDone, BeginCommit,
              SkipCommit, CommitDone, VersionDone, Final, Unwind, LoseAnswer, SaveVersion
<1>2. ASSUME AgentNext PROVE UNCHANGED plan
  BY <1>2 DEF AgentNext, AgentReads, AgentSyncs, AgentCommits, AgentVersions, AgentFails, HookReads, HookLost
<1> QED BY <1>1, <1>2 DEF Next, Notified, Edit, User

LEMMA ShapeInit == Init => \A j \in Jobs : ShapeInv(j)
<1> SUFFICES ASSUME Init, NEW j \in Jobs PROVE ShapeInv(j)
  OBVIOUS
<1>1. work[j] = NoWork /\ working = {}
  BY DEF Init, JobsInit
<1>2. Answers("none") = {"none"}
  BY AnswersAre DEF Step, Command
<1> QED BY <1>1, <1>2, NoWorkIsWork DEF ShapeInv

LEMMA ShapeStep ==
  ASSUME WorldOK, StartedInv, \A k \in Jobs : ShapeInv(k), Next
  PROVE  \A k \in Jobs : ShapeInv(k)'
<1> DEFINE Goal == \A k \in Jobs : ShapeInv(k)'
<1>1. work \in [Jobs -> Work] /\ UNCHANGED plan
  BY PlanIsFixed DEF WorldOK
<1>2. ASSUME NEW j \in Jobs, NEW how, End(j, how) PROVE Goal
  BY <1>1, <1>2, ShapeEnd
<1>3. ASSUME UNCHANGED jobVars PROVE working' = working
  BY <1>3 DEF jobVars
<1>4. ASSUME NEW j \in Jobs, work[j].step # "none" PROVE j \in working
  BY <1>4 DEF ShapeInv
<1>5. ASSUME NEW j \in Jobs, NEW w \in Work, LevelUp(j, w),
             w.left = work[j].left, w.done = work[j].done, w.scope = work[j].scope,
             UNCHANGED jobVars, work[j].step # "none"
      PROVE  Goal
  <2>1. /\ SameOthers(j) /\ work'[j].step = "level" /\ work'[j].scope = work[j].scope
        /\ work'[j].left = work[j].left \ Group(j) /\ work'[j].done = work[j].done \cup Group(j)
        /\ \A r \in Repos : work'[j].task[r] = "none"
    BY <1>1, <1>5, AfterLevelUp
  <2>2. ShapeInv(j)'
    BY <1>1, <1>3, <1>4, <1>5, <2>1, ShapeLevelUp
  <2> QED BY <1>1, <1>3, <1>5, <2>1, <2>2, ShapeOthers
<1>6. ASSUME NEW j \in Jobs, NEW s \in {"level", "final"}, Set(j, Move(work[j], s)),
             UNCHANGED jobVars, work[j].step # "none"
      PROVE  Goal
  <2>1. /\ SameOthers(j) /\ work'[j].step = s
        /\ work'[j].scope = work[j].scope /\ work'[j].left = work[j].left
        /\ work'[j].done = work[j].done
        /\ \A r \in Repos : work'[j].task[r] = "none"
    BY <1>1, <1>6, AfterMove DEF Step
  <2>2. ShapeInv(j)'
    BY <1>1, <1>3, <1>4, <1>6, <2>1, ShapeMove
  <2> QED BY <1>1, <1>3, <1>6, <2>1, <2>2, ShapeOthers
<1>7. ASSUME NEW j \in Jobs, NEW s \in {"payload", "stage"}, NEW planned \in SUBSET Repos,
             Set(j, [Move(work[j], s) EXCEPT !.planned = planned]),
             planned # {}, planned \subseteq Group(j), UNCHANGED jobVars, work[j].step # "none"
      PROVE  Goal
  <2>1. /\ SameOthers(j) /\ work'[j].step = s
        /\ work'[j].scope = work[j].scope /\ work'[j].left = work[j].left
        /\ work'[j].done = work[j].done /\ work'[j].planned = planned
        /\ \A r \in Repos : work'[j].task[r] = "none"
    BY <1>1, <1>7, AfterMovePlanned DEF Step
  <2>2. ShapeInv(j)'
    BY <1>1, <1>3, <1>4, <1>7, <2>1, ShapeMove
  <2> QED BY <1>1, <1>3, <1>7, <2>1, <2>2, ShapeOthers
<1>8. ASSUME NEW j \in Jobs, NEW w \in Work, NEW do \in Command, NEW repos \in SUBSET Repos,
             Ask(j, w, do, repos),
             w.left = work[j].left, w.done = work[j].done, w.scope = work[j].scope,
             do = "read" => repos = work[j].scope /\ work[j].done = {},
             do # "read" => repos # {} /\ repos \subseteq Group(j),
             UNCHANGED jobVars, work[j].step # "none"
      PROVE  Goal
  <2>1. /\ SameOthers(j) /\ work'[j].step = do
        /\ work'[j].scope = work[j].scope /\ work'[j].left = work[j].left
        /\ work'[j].done = work[j].done
        /\ \A r \in Repos : work'[j].task[r] = IF r \in repos THEN "sent" ELSE "none"
    BY <1>1, <1>8, AfterAsk
  <2>2. ShapeInv(j)'
    BY <1>1, <1>3, <1>4, <1>8, <2>1, ShapeAsk
  <2> QED BY <1>1, <1>3, <1>8, <2>1, <2>2, ShapeOthers
<1>9. ASSUME NEW j \in Jobs, Start(j) PROVE Goal
  <2>1. PICK w \in Work :
          /\ Set(j, w)
          /\ w.step = "queued" /\ w.hope = "nothing" /\ w.left \subseteq w.scope
          /\ w.done = {} /\ \A r \in Repos : w.task[r] = "none"
    BY <1>9, StartDoes
  <2>2. SameOthers(j) /\ work'[j] = w
    BY <1>1, <2>1, AfterSet
  <2>3. working' = working \cup {j}
    BY <1>9 DEF Start, StartJob
  <2>4. Answers("queued") = {"none"}
    BY AnswersAre DEF Step, Command
  <2>5. ShapeInv(j)'
    BY <2>1, <2>2, <2>3, <2>4 DEF ShapeInv
  <2> QED BY <1>1, <2>2, <2>3, <2>5, ShapeOthers
<1>10. ASSUME NEW j \in Jobs, Begin(j) PROVE Goal
  <2>1. ASSUME NEW h \in Hope, Ask(j, WithHope(j, h), "read", work[j].scope), UNCHANGED jobVars,
               work[j].step = "queued"
        PROVE  Goal
    <3>1. work[j].done = {} /\ work[j].scope \in SUBSET Repos /\ "read" \in Command
      BY <1>1, <2>1, WorkParts DEF ShapeInv, Command
    <3> QED BY <1>1, <1>8, <2>1, <3>1, WithHopeParts
  <2> QED BY <1>1, <1>2, <1>10, <2>1, BeginDoes
<1>11. ASSUME NEW j \in Jobs, ReadDone(j) PROVE Goal
  BY <1>2, <1>6, <1>11 DEF ReadDone, At
<1>12. ASSUME NEW j \in Jobs PROVE work[j] \in Work /\ Group(j) \in SUBSET Repos
  <2>1. work[j] \in Work
    BY <1>1
  <2> QED BY <2>1, WorkParts, GroupIsLeft
<1>13. ASSUME NEW j \in Jobs, NextLevel(j) PROVE Goal
  <2>1. UNCHANGED jobVars /\ work[j].step # "none"
    BY <1>13 DEF NextLevel, At
  <2>2. \/ Set(j, Move(work[j], "final")) \/ LevelUp(j, work[j])
        \/ Todo(j) # {} /\ Set(j, [Move(work[j], "payload") EXCEPT !.planned = Todo(j)])
    BY <1>13 DEF NextLevel, Todo
  <2>3. Todo(j) \in SUBSET Repos /\ Todo(j) \subseteq Group(j)
    BY <1>12 DEF Todo
  <2> QED BY <1>5, <1>6, <1>7, <1>12, <2>1, <2>2, <2>3
<1>14. ASSUME NEW j \in Jobs, BeginSync(j) PROVE Goal
  <2>1. Todo(j) \in SUBSET Repos /\ Todo(j) \subseteq Group(j)
    BY <1>12 DEF Todo
  <2>2. CASE /\ Todo(j) # {} /\ Ask(j, WithTo(j, PayloadOf(Todo(j))), "sync", Todo(j))
             /\ UNCHANGED jobVars
    <3>1. PayloadOf(Todo(j)) \in [Repos -> Refs] /\ "sync" \in Command /\ work[j].step # "none"
      BY <1>14, BeginSyncDoes DEF Command, At
    <3> DEFINE w == WithTo(j, PayloadOf(Todo(j)))
    <3>2. w \in Work /\ w.scope = work[j].scope /\ w.left = work[j].left /\ w.done = work[j].done
      BY <1>1, <3>1, WithToParts
    <3> HIDE DEF w
    <3> QED BY <1>8, <2>1, <2>2, <3>1, <3>2 DEF w
  <2> QED BY <1>2, <1>5, <1>12, <1>14, <2>2, BeginSyncDoes DEF At
<1>15. ASSUME NEW j \in Jobs, SyncDone(j) PROVE Goal
  <2> DEFINE toCommit == work[j].planned \cap With(j, "ok")
  <2>1. At(j, "sync") /\ work[j].step # "none"
    BY <1>15 DEF SyncDone, At
  <2>2. \/ End(j, "Completed")
        \/ LevelUp(j, work[j]) /\ UNCHANGED jobVars
        \/ /\ toCommit # {} /\ Set(j, [Move(work[j], "stage") EXCEPT !.planned = toCommit])
           /\ UNCHANGED jobVars
    BY <1>15 DEF SyncDone
  <2>3. toCommit \in SUBSET Repos /\ toCommit \subseteq Group(j)
    BY <2>1, WithIsAsked DEF ShapeInv, At
  <2> HIDE DEF toCommit
  <2> QED BY <1>2, <1>5, <1>7, <1>12, <2>1, <2>2, <2>3
<1>16. ASSUME NEW j \in Jobs, BeginCommit(j) PROVE Goal
  <2>1. /\ Ask(j, work[j], "commit", work[j].planned) /\ UNCHANGED jobVars
        /\ work[j].step = "stage" /\ "commit" \in Command
    BY <1>16 DEF BeginCommit, At, Command
  <2>2. work[j].planned # {} /\ work[j].planned \subseteq Group(j)
    BY <2>1 DEF ShapeInv
  <2> QED BY <1>8, <1>12, <2>1, <2>2
<1>17. ASSUME NEW j \in Jobs, SkipCommit(j) PROVE Goal
  <2> DEFINE h == IF work[j].hope = "commits" THEN "files" ELSE work[j].hope
  <2>1. LevelUp(j, WithHope(j, h)) /\ h \in Hope /\ UNCHANGED jobVars /\ work[j].step # "none"
    BY <1>12, <1>17, WorkParts DEF SkipCommit, WithHope, Hope, At
  <2> HIDE DEF h
  <2> QED BY <1>1, <1>5, <2>1, WithHopeParts
<1>18. ASSUME NEW j \in Jobs, CommitDone(j) PROVE Goal
  <2>1. work[j].step = "commit" /\ "version" \in Command
    BY <1>18 DEF CommitDone, At, Command
  <2>2. With(j, "ok") \subseteq Group(j) /\ With(j, "ok") \in SUBSET Repos
    BY <2>1, WithIsAsked DEF ShapeInv
  <2>3. \/ End(j, "Completed")
        \/ LevelUp(j, work[j]) /\ UNCHANGED jobVars
        \/ With(j, "ok") # {} /\ Ask(j, work[j], "version", With(j, "ok")) /\ UNCHANGED jobVars
    BY <1>18 DEF CommitDone
  <2> QED BY <1>2, <1>5, <1>8, <1>12, <2>1, <2>2, <2>3
<1>19. ASSUME NEW j \in Jobs, VersionDone(j) \/ Final(j) \/ Unwind(j) PROVE Goal
  BY <1>2, <1>5, <1>12, <1>19 DEF VersionDone, Final, Unwind, At
<1>20. ASSUME NEW j \in Jobs, NEW r \in Repos, NEW a \in Answer, NEW h \in Hope,
              Set(j, WithAnswer(j, r, a, h)),
              h = work[j].hope \/ h = "nothing",
              a \in Answers(work[j].step), a # "none", work[j].task[r] # "none",
              UNCHANGED jobVars
       PROVE  Goal
  <2>1. /\ SameOthers(j) /\ Kept(j) /\ work'[j].hope = h
        /\ work'[j].task[r] = a
        /\ \A s \in Repos \ {r} : work'[j].task[s] = work[j].task[s]
    BY <1>1, <1>20, AfterTask
  <2>2. ASSUME NEW s \in Repos
        PROVE  /\ work'[j].task[s] \in Answers(work[j].step)
               /\ work'[j].task[s] # "none" <=> work[j].task[s] # "none"
    BY <1>20, <2>1 DEF ShapeInv
  <2>3. ShapeInv(j)'
    BY <1>1, <1>3, <1>20, <2>1, <2>2, ShapeTask
  <2> QED BY <1>1, <1>3, <1>20, <2>1, <2>3, ShapeOthers
<1>21. ASSUME NEW j \in Jobs, NEW r \in Repos, LoseAnswer(j, r) PROVE Goal
  <2>1. work[j].task[r] = "sent" /\ UNCHANGED jobVars /\ work[j].step \in Step /\ work[j].hope \in Hope
    BY <1>12, <1>21, WorkParts DEF LoseAnswer
  <2>2. "sent" \in Answers(work[j].step)
    BY <2>1 DEF ShapeInv
  <2>3. "failed" \in Answers(work[j].step) /\ "failed" \in Answer
    BY <2>1, <2>2, AnswersAre DEF Command, Answer
  <2>4. Set(j, WithAnswer(j, r, "failed", work[j].hope))
    BY <1>1, <1>21, <2>3, LostAnswer DEF LoseAnswer
  <2> QED BY <1>20, <2>1, <2>3, <2>4
<1>22. ASSUME NEW j \in Jobs, NEW r \in Repos, SaveVersion(j, r) PROVE Goal
  <2> DEFINE v == work[j].got[r][r]
             h == IF v = NoVersion THEN "nothing" ELSE work[j].hope
  <2>1. /\ work[j].step = "version" /\ work[j].task[r] = "answered" /\ UNCHANGED jobVars
        /\ h \in Hope /\ "ok" \in Answer /\ "ok" \in Answers("version")
    BY <1>12, <1>22, WorkParts, AnswersAre DEF SaveVersion, At, Hope, Answer
  <2>2. Set(j, WithAnswer(j, r, "ok", h))
    BY <1>22 DEF SaveVersion, WithAnswer
  <2>3. h = work[j].hope \/ h = "nothing"
    OBVIOUS
  <2> HIDE DEF h
  <2> QED BY <1>20, <2>1, <2>2, <2>3
<1>23. ASSUME NEW c \in agent
       PROVE  c.repo \in Repos /\ file[c.repo] \in Refs /\ NoRefs \in Refs
  BY PayloadType DEF WorldOK, AgentCommand
<1>24. {"ok", "same", "answered", "failed"} \subseteq Answer
  BY DEF Answer
<1>25. ASSUME NEW c \in agent, AgentReads(c) PROVE Goal
  <2>1. "ok" \in Answers(c.do) /\ Ends(c, "ok", file[c.repo]) /\ UNCHANGED jobVars
    BY <1>25, AnswersAre DEF AgentReads
  <2> QED BY <1>1, <1>23, <1>24, <2>1, ShapeEnds
<1>26. ASSUME NEW c \in agent, AgentSyncs(c) PROVE Goal
  <2>1. /\ {"ok", "same"} \subseteq Answers(c.do) /\ UNCHANGED jobVars
        /\ Ends(c, "same", NoRefs) \/ Ends(c, "ok", NoRefs)
    BY <1>26, AnswersAre DEF AgentSyncs
  <2> QED BY <1>1, <1>23, <1>24, <2>1, ShapeEnds
<1>27. ASSUME NEW c \in agent, AgentCommits(c) PROVE Goal
  <2>1. /\ {"ok", "same"} \subseteq Answers(c.do) /\ UNCHANGED jobVars
        /\ Ends(c, "same", NoRefs) \/ Ends(c, "ok", NoRefs)
    BY <1>27, AnswersAre DEF AgentCommits
  <2> QED BY <1>1, <1>23, <1>24, <2>1, ShapeEnds
<1>28. ASSUME NEW c \in agent, AgentVersions(c) PROVE Goal
  <2>1. "answered" \in Answers(c.do) /\ UNCHANGED jobVars
    BY <1>28, AnswersAre DEF AgentVersions
  <2>2. PICK v \in {head[c.repo], NoVersion} : Ends(c, "answered", [NoRefs EXCEPT ![c.repo] = v])
    BY <1>28 DEF AgentVersions
  <2>3. [NoRefs EXCEPT ![c.repo] = v] \in Refs
    BY <1>23, <2>2, GotVersion DEF WorldOK, NoVersion
  <2> QED BY <1>1, <1>24, <2>1, <2>2, <2>3, ShapeEnds
<1>29. ASSUME NEW c \in agent, AgentFails(c) PROVE Goal
  <2>1. c.do \in Command
    BY DEF WorldOK, AgentCommand
  <2>2. "failed" \in Answers(c.do) /\ Ends(c, "failed", NoRefs) /\ UNCHANGED jobVars
    BY <1>29, <2>1, AnswersAre DEF AgentFails, Command
  <2> QED BY <1>1, <1>23, <1>24, <2>2, ShapeEnds
<1>30. ASSUME work' = work, working' = working PROVE Goal
  BY <1>1, <1>30, ShapeFrame DEF Same
<1>31. ASSUME NEW h \in hooks, HookReads(h) \/ HookLost(h) PROVE Goal
  BY <1>3, <1>30, <1>31 DEF HookReads, HookLost
<1>32. ASSUME NEW n \in notes, Notified(n) PROVE Goal
  BY <1>1, <1>3, <1>30, <1>32, ShapeDisturb DEF Notified
<1>33. ASSUME NEW r \in Edited, Edit(r) PROVE Goal
  BY <1>1, <1>33, ShapeDisturb DEF Edit
<1>34. ASSUME User PROVE Goal
  BY <1>30, <1>34 DEF User, Abort, CloseTab
<1> HIDE DEF Goal
<1>35. Goal
  BY <1>9, <1>10, <1>11, <1>13, <1>14, <1>15, <1>16, <1>17, <1>18, <1>19, <1>21, <1>22, <1>25, <1>26,
     <1>27, <1>28, <1>29, <1>31, <1>32, <1>33, <1>34
     DEF Next, WorkNext, AgentNext
<1> QED BY <1>35 DEF Goal

-----------------------------------------------------------------------------
(* Whose commands the agent has. *)

Live(j) == j \in working \ cancelled

CommandOK(c) ==
  /\ shown[c.job] # "None"
  /\ Live(c.job) =>
       /\ work[c.job].step = c.do
       /\ work[c.job].task[c.repo] \in {"sent", "failed"}
       /\ c.to = work[c.job].to[c.repo]

CommandInv == \A c \in agent : CommandOK(c)

(* A job that has been started stays so, and does not come back to life. *)
LEMMA LiveStep ==
  ASSUME JobsTypeOK, JobStep \/ UNCHANGED jobVars, NEW k \in Jobs, shown[k] # "None"
  PROVE  shown'[k] # "None" /\ (Live(k)' => Live(k))
<1> USE DEF JobsTypeOK, Live
<1>1. ASSUME NEW j \in Jobs, StartJob(j) PROVE shown'[k] # "None" /\ (Live(k)' => Live(k))
  BY <1>1 DEF StartJob
<1>2. ASSUME NEW j \in Jobs, NEW how \in {"Completed", "Faulted", "Aborted"}, EndWork(j, how)
      PROVE  shown'[k] # "None" /\ (Live(k)' => Live(k))
  BY <1>2 DEF EndWork
<1>3. ASSUME Abort \/ CloseTab PROVE shown'[k] # "None" /\ (Live(k)' => Live(k))
  BY <1>3 DEF Abort, CloseTab
<1>4. ASSUME UNCHANGED jobVars PROVE shown'[k] # "None" /\ (Live(k)' => Live(k))
  BY <1>4 DEF jobVars
<1> QED BY <1>1, <1>2, <1>3, <1>4 DEF JobStep

LEMMA CommandParts ==
  ASSUME WorldOK, NEW c \in agent
  PROVE  c.job \in Jobs /\ c.repo \in Repos /\ c.do \in Command /\ c.to \in Refs
BY DEF WorldOK, AgentCommand

(* A command of a job whose work has not changed, or only its hope. *)
LEMMA CommandFrame ==
  ASSUME WorldOK, JobsTypeOK, JobStep \/ UNCHANGED jobVars, NEW c \in agent, CommandOK(c),
         work'[c.job].step = work[c.job].step, work'[c.job].to = work[c.job].to,
         work'[c.job].task[c.repo] = work[c.job].task[c.repo]
  PROVE  CommandOK(c)'
<1>1. c.job \in Jobs /\ shown[c.job] # "None"
  BY CommandParts DEF CommandOK
<1>2. shown'[c.job] # "None" /\ (Live(c.job)' => Live(c.job))
  BY <1>1, LiveStep
<1> QED BY <1>2 DEF CommandOK

(* A command of a job that does no live work any more. *)
LEMMA CommandOfDead ==
  ASSUME WorldOK, JobsTypeOK, JobStep \/ UNCHANGED jobVars, NEW c \in agent, CommandOK(c),
         ~Live(c.job)'
  PROVE  CommandOK(c)'
<1>1. c.job \in Jobs /\ shown[c.job] # "None"
  BY CommandParts DEF CommandOK
<1> QED BY <1>1, LiveStep DEF CommandOK

LEMMA LiveWorks ==
  ASSUME NEW j \in Jobs, ShapeInv(j), NEW s \in Step, At(j, s), s # "none"
  PROVE  Live(j)
BY DEF At, ShapeInv, Live

(* Work that waits for no command has none with the agent. *)
LEMMA NoneLeft ==
  ASSUME WorldOK, CommandInv, NEW j \in Jobs, Live(j),
         work[j].step \notin Command \/ (AllAnswered(j) /\ ~AnyFailed(j)),
         NEW c \in agent
  PROVE  c.job # j
<1>1. SUFFICES ASSUME c.job = j PROVE FALSE
  OBVIOUS
<1>2. work[j].step = c.do /\ work[j].task[c.repo] \in {"sent", "failed"}
  BY <1>1 DEF CommandInv, CommandOK
<1> QED BY <1>2, CommandParts DEF AllAnswered, AnyFailed, With

LEMMA CommandsFrame ==
  ASSUME WorldOK, JobsTypeOK, JobStep \/ UNCHANGED jobVars, CommandInv, NEW j \in Jobs, SameOthers(j),
         agent' \subseteq agent,
         ~Live(j)' \/ \A c \in agent : c.job # j
  PROVE  CommandInv'
<1>1. ASSUME NEW c \in agent' PROVE CommandOK(c)'
  <2>1. c \in agent /\ CommandOK(c) /\ c.job \in Jobs
    BY CommandParts DEF CommandInv
  <2>2. CASE c.job = j
    BY <2>1, <2>2, CommandOfDead
  <2>3. CASE c.job # j
    <3>1. work'[c.job] = work[c.job]
      BY <2>1, <2>3 DEF SameOthers, Same
    <3> QED BY <2>1, <3>1, CommandFrame
  <2> QED BY <2>2, <2>3
<1> QED BY <1>1 DEF CommandInv

LEMMA CommandsSame ==
  ASSUME WorldOK, JobsTypeOK, JobStep \/ UNCHANGED jobVars, CommandInv, agent' \subseteq agent,
         \A k \in Jobs : Kept(k) /\ work'[k].task = work[k].task
  PROVE  CommandInv'
<1>1. ASSUME NEW c \in agent' PROVE CommandOK(c)'
  <2>1. c \in agent /\ CommandOK(c) /\ c.job \in Jobs
    BY CommandParts DEF CommandInv
  <2> QED BY <2>1, CommandFrame DEF Kept
<1> QED BY <1>1 DEF CommandInv

LEMMA CommandsEnd ==
  ASSUME WorldOK, JobsTypeOK, CommandInv, NEW j \in Jobs,
         NEW how \in {"Completed", "Faulted", "Aborted"}, End(j, how)
  PROVE  CommandInv'
<1>1. SameOthers(j) /\ agent' \subseteq agent
  BY AfterEnd DEF WorldOK, End
<1>2. ~Live(j)' /\ JobStep
  BY DEF End, EndWork, Live, JobStep
<1> QED BY <1>1, <1>2, CommandsFrame

LEMMA CommandsAsk ==
  ASSUME WorldOK, JobsTypeOK, StartedInv, CommandInv, NEW j \in Jobs, ShapeInv(j), ShapeInv(j)',
         NEW w \in Work, NEW do \in Command, NEW repos \in SUBSET Repos, Ask(j, w, do, repos),
         UNCHANGED jobVars, work[j].step # "none",
         Live(j) => \A c \in agent : c.job # j
  PROVE  CommandInv'
<1>1. /\ SameOthers(j) /\ work'[j].step = do /\ work'[j].to = w.to
      /\ \A r \in Repos : work'[j].task[r] = IF r \in repos THEN "sent" ELSE "none"
  BY AfterAsk DEF WorldOK
<1>2. shown[j] # "None" /\ shown'[j] # "None" /\ (Live(j)' <=> Live(j))
  BY DEF ShapeInv, StartedInv, Live, jobVars
<1>3. ASSUME NEW c \in agent PROVE CommandOK(c)'
  <2>1. CommandOK(c) /\ c.job \in Jobs
    BY CommandParts DEF CommandInv
  <2>2. CASE c.job = j
    BY <1>2, <2>1, <2>2, CommandOfDead
  <2>3. CASE c.job # j
    <3>1. work'[c.job] = work[c.job]
      BY <1>1, <2>1, <2>3 DEF SameOthers, Same
    <3> QED BY <2>1, <3>1, CommandFrame
  <2> QED BY <2>2, <2>3
<1>4. ASSUME NEW r \in repos, NEW c, c = [job |-> j, repo |-> r, do |-> do, to |-> w.to[r]]
      PROVE  CommandOK(c)'
  BY <1>1, <1>2, <1>4 DEF CommandOK
<1> QED BY <1>3, <1>4 DEF CommandInv, Ask

(* What a command is for says which one it is. *)
LEMMA OneCommand ==
  ASSUME WorldOK, CommandInv, NEW c \in agent, NEW d \in agent,
         c.job = d.job, c.repo = d.repo, Live(c.job)
  PROVE  c = d
<1>1. c.do = d.do /\ c.to = d.to
  BY DEF CommandInv, CommandOK
<1>2. c \in AgentCommand /\ d \in AgentCommand
  BY DEF WorldOK
<1> QED BY <1>1, <1>2 DEF AgentCommand

LEMMA CommandsEnds ==
  ASSUME WorldOK, JobsTypeOK, CommandInv, UNCHANGED jobVars, NEW c \in agent,
         NEW answer \in Answer, NEW got \in Refs, Ends(c, answer, got)
  PROVE  CommandInv'
<1> DEFINE j == c.job
           r == c.repo
<1>1. j \in Jobs /\ r \in Repos
  BY CommandParts
<1>2. /\ SameOthers(j) /\ Kept(j)
      /\ \A s \in Repos \ {r} : work'[j].task[s] = work[j].task[s]
  BY <1>1, AfterEnds DEF WorldOK
<1>3. ASSUME NEW d \in agent' PROVE CommandOK(d)'
  <2>1. d \in agent /\ d # c /\ CommandOK(d) /\ d.job \in Jobs /\ d.repo \in Repos
    <3>1. d \in agent /\ d # c
      BY DEF Ends
    <3> QED BY <3>1, CommandParts DEF CommandInv
  <2>2. CASE d.job # j
    <3>1. work'[d.job] = work[d.job]
      BY <1>2, <2>1, <2>2 DEF SameOthers, Same
    <3> QED BY <2>1, <3>1, CommandFrame
  <2>3. CASE d.job = j /\ d.repo # r
    BY <1>2, <2>1, <2>3, CommandFrame DEF Kept
  <2>4. CASE d.job = j /\ d.repo = r
    <3>1. ~Live(j)
      BY <2>1, <2>4, OneCommand
    <3>2. ~Live(d.job)'
      BY <2>4, <3>1 DEF Live, jobVars
    <3> QED BY <2>1, <3>2, CommandOfDead
  <2> QED BY <2>2, <2>3, <2>4
<1> QED BY <1>3 DEF CommandInv

LEMMA CommandStep ==
  ASSUME WorldOK, JobsTypeOK, StartedInv, \A k \in Jobs : ShapeInv(k), \A k \in Jobs : ShapeInv(k)',
         CommandInv, Next
  PROVE  CommandInv'
<1> USE DEF WorldOK
<1>1. JobStep \/ UNCHANGED jobVars
  BY NextJobStep
<1>2. ASSUME NEW j \in Jobs, NEW how \in {"Completed", "Faulted", "Aborted"}, End(j, how) PROVE CommandInv'
  BY <1>2, CommandsEnd
<1>3. ASSUME NEW j \in Jobs, SameOthers(j), agent' \subseteq agent, Live(j),
             work[j].step \notin Command \/ (AllAnswered(j) /\ ~AnyFailed(j))
      PROVE  CommandInv'
  BY <1>1, <1>3, NoneLeft, CommandsFrame
<1>4. ASSUME NEW j \in Jobs PROVE work[j] \in Work /\ Group(j) \in SUBSET Repos
  <2>1. work[j] \in Work
    OBVIOUS
  <2> QED BY <2>1, WorkParts, GroupIsLeft
<1>5. ASSUME NEW j \in Jobs, Start(j) PROVE CommandInv'
  <2>1. SameOthers(j) /\ agent' = agent
    BY <1>5, StartDoes, AfterSet DEF wire
  <2>2. shown[j] = "None"
    BY <1>5 DEF Start, StartJob
  <2> QED BY <1>1, <2>1, <2>2, CommandsFrame DEF CommandInv, CommandOK
<1>6. ASSUME NEW j \in Jobs, NEW s \in Step, s # "none", At(j, s) PROVE Live(j) /\ work[j].step = s
  BY <1>6, LiveWorks DEF At
<1>7. ASSUME NEW j \in Jobs, Begin(j) PROVE CommandInv'
  <2>1. ASSUME NEW h \in Hope, Ask(j, WithHope(j, h), "read", work[j].scope), UNCHANGED jobVars,
               work[j].step = "queued"
        PROVE  CommandInv'
    <3>1. WithHope(j, h) \in Work /\ work[j].scope \in SUBSET Repos /\ "read" \in Command
      BY <1>4, WithHopeParts, WorkParts DEF Command
    <3>2. Live(j) => \A c \in agent : c.job # j
      BY <2>1, NoneLeft DEF Command
    <3> QED BY <2>1, <3>1, <3>2, CommandsAsk
  <2> QED BY <1>2, <1>7, <2>1, BeginDoes
<1>8. ASSUME NEW j \in Jobs, ReadDone(j) PROVE CommandInv'
  <2>1. Live(j) /\ AllAnswered(j)
    BY <1>6, <1>8 DEF ReadDone, Step, Command
  <2>2. CASE AnyFailed(j)
    BY <1>2, <1>8, <2>2 DEF ReadDone
  <2>3. CASE ~AnyFailed(j)
    <3>1. SameOthers(j) /\ agent' = agent
      BY <1>8, <2>3, AfterMove DEF ReadDone, Step
    <3> QED BY <1>3, <2>1, <2>3, <3>1
  <2> QED BY <2>2, <2>3
<1>9. ASSUME NEW j \in Jobs, NextLevel(j) PROVE CommandInv'
  <2>1. Live(j) /\ work[j].step \notin Command
    BY <1>6, <1>9 DEF NextLevel, Step, Command
  <2>2. Todo(j) \in SUBSET Repos
    BY <1>4 DEF Todo
  <2>3. \/ Set(j, Move(work[j], "final")) \/ LevelUp(j, work[j])
        \/ Set(j, [Move(work[j], "payload") EXCEPT !.planned = Todo(j)])
    BY <1>9 DEF NextLevel, Todo
  <2>4. SameOthers(j)
    BY <1>4, <2>2, <2>3, AfterMove, AfterMovePlanned, AfterLevelUp DEF Step
  <2> QED BY <1>3, <1>9, <2>1, <2>4 DEF NextLevel, wire
<1>10. ASSUME NEW j \in Jobs, BeginSync(j) PROVE CommandInv'
  <2>1. Live(j) /\ work[j].step = "payload" /\ work[j].step \notin Command
    BY <1>6, <1>10 DEF BeginSync, Step, Command
  <2>2. /\ Todo(j) \in SUBSET Repos /\ PayloadOf(Todo(j)) \in [Repos -> Refs] /\ "sync" \in Command
    BY <1>10, BeginSyncDoes DEF Command
  <2>3. CASE LevelUp(j, work[j]) /\ UNCHANGED <<jobVars, agent>>
    <3>1. SameOthers(j)
      BY <1>4, <2>3, AfterLevelUp
    <3> QED BY <1>3, <2>1, <2>3, <3>1
  <2>4. CASE Ask(j, WithTo(j, PayloadOf(Todo(j))), "sync", Todo(j)) /\ UNCHANGED jobVars
    <3>1. WithTo(j, PayloadOf(Todo(j))) \in Work
      BY <2>2, WithToParts
    <3>2. \A c \in agent : c.job # j
      BY <2>1, NoneLeft
    <3> QED BY <2>1, <2>2, <2>4, <3>1, <3>2, CommandsAsk
  <2> QED BY <1>2, <1>10, <2>3, <2>4, BeginSyncDoes
<1>11. ASSUME NEW j \in Jobs, SyncDone(j) PROVE CommandInv'
  <2> DEFINE toCommit == work[j].planned \cap With(j, "ok")
  <2>1. Live(j) /\ AllAnswered(j)
    BY <1>6, <1>11 DEF SyncDone, Step, Command
  <2>2. CASE AnyFailed(j)
    BY <1>2, <1>11, <2>2 DEF SyncDone
  <2>3. CASE ~AnyFailed(j)
    <3>1. /\ agent' = agent
          /\ \/ LevelUp(j, work[j])
             \/ Set(j, [Move(work[j], "stage") EXCEPT !.planned = toCommit])
      BY <1>11, <2>3 DEF SyncDone
    <3>2. toCommit \in SUBSET Repos
      BY DEF With
    <3> HIDE DEF toCommit
    <3>3. SameOthers(j)
      BY <1>4, <3>1, <3>2, AfterLevelUp, AfterMovePlanned DEF Step
    <3> QED BY <1>3, <2>1, <2>3, <3>1, <3>3
  <2> QED BY <2>2, <2>3
<1>12. ASSUME NEW j \in Jobs, BeginCommit(j) PROVE CommandInv'
  <2>1. Live(j) /\ work[j].step = "stage" /\ work[j].step \notin Command /\ "commit" \in Command
    BY <1>6, <1>12 DEF BeginCommit, Step, Command
  <2>2. Ask(j, work[j], "commit", work[j].planned) /\ UNCHANGED jobVars
    BY <1>12 DEF BeginCommit
  <2>3. work[j] \in Work /\ work[j].planned \in SUBSET Repos
    BY <1>4, WorkParts
  <2>4. \A c \in agent : c.job # j
    BY <2>1, NoneLeft
  <2> QED BY <2>1, <2>2, <2>3, <2>4, CommandsAsk
<1>13. ASSUME NEW j \in Jobs, SkipCommit(j) PROVE CommandInv'
  <2> DEFINE h == IF work[j].hope = "commits" THEN "files" ELSE work[j].hope
  <2>1. LevelUp(j, WithHope(j, h)) /\ h \in Hope
    BY <1>4, <1>13, WorkParts DEF SkipCommit, WithHope, Hope
  <2>2. Live(j) /\ work[j].step \notin Command
    BY <1>6, <1>13 DEF SkipCommit, Step, Command
  <2> HIDE DEF h
  <2>3. SameOthers(j)
    BY <2>1, WithHopeParts, AfterLevelUp
  <2> QED BY <1>3, <1>13, <2>2, <2>3 DEF SkipCommit, wire
<1>14. ASSUME NEW j \in Jobs, CommitDone(j) PROVE CommandInv'
  <2>1. Live(j) /\ AllAnswered(j) /\ work[j].step = "commit" /\ "version" \in Command
    BY <1>6, <1>14 DEF CommitDone, Step, Command
  <2>2. CASE AnyFailed(j)
    BY <1>2, <1>14, <2>2 DEF CommitDone
  <2>3. CASE ~AnyFailed(j)
    <3>1. With(j, "ok") \in SUBSET Repos
      BY DEF With
    <3>2. UNCHANGED jobVars
      BY <1>14, <2>3 DEF CommitDone
    <3>3. CASE LevelUp(j, work[j]) /\ agent' = agent
      <4>1. SameOthers(j)
        BY <1>4, <3>3, AfterLevelUp
      <4> QED BY <1>3, <2>1, <2>3, <3>3, <4>1
    <3>4. CASE Ask(j, work[j], "version", With(j, "ok"))
      <4>1. \A c \in agent : c.job # j
        BY <2>1, <2>3, NoneLeft
      <4> QED BY <1>4, <2>1, <3>1, <3>2, <3>4, <4>1, CommandsAsk
    <3> QED BY <1>14, <2>3, <3>3, <3>4 DEF CommitDone
  <2> QED BY <2>2, <2>3
<1>15. ASSUME NEW j \in Jobs, VersionDone(j) PROVE CommandInv'
  <2>1. Live(j) /\ AllAnswered(j)
    BY <1>6, <1>15 DEF VersionDone, Step, Command
  <2>2. CASE AnyFailed(j)
    BY <1>2, <1>15, <2>2 DEF VersionDone
  <2>3. CASE ~AnyFailed(j)
    <3>1. LevelUp(j, work[j]) /\ agent' = agent
      BY <1>15, <2>3 DEF VersionDone
    <3>2. SameOthers(j)
      BY <1>4, <3>1, AfterLevelUp
    <3> QED BY <1>3, <2>1, <2>3, <3>1, <3>2
  <2> QED BY <2>2, <2>3
<1>16. ASSUME NEW j \in Jobs, Final(j) \/ Unwind(j) PROVE CommandInv'
  BY <1>2, <1>16 DEF Final, Unwind
<1>17. ASSUME NEW j \in Jobs, NEW r \in Repos, NEW a \in Answer, NEW h \in Hope,
              Set(j, WithAnswer(j, r, a, h)), agent' = agent,
              a = "failed" \/ work[j].task[r] \notin {"sent", "failed"}
       PROVE  CommandInv'
  <2>1. /\ SameOthers(j) /\ Kept(j) /\ work'[j].task[r] = a
        /\ \A s \in Repos \ {r} : work'[j].task[s] = work[j].task[s]
    BY <1>17, AfterTask
  <2>2. ASSUME NEW c \in agent PROVE CommandOK(c)'
    <3>1. CommandOK(c) /\ c.job \in Jobs /\ c.repo \in Repos
      BY CommandParts DEF CommandInv
    <3>2. CASE c.job # j
      <4>1. work'[c.job] = work[c.job]
        BY <2>1, <3>1, <3>2 DEF SameOthers, Same
      <4> QED BY <1>1, <3>1, <4>1, CommandFrame
    <3>3. CASE c.job = j /\ c.repo # r
      BY <1>1, <2>1, <3>1, <3>3, CommandFrame DEF Kept
    <3>4. CASE c.job = j /\ c.repo = r
      <4>1. shown'[j] # "None" /\ (Live(j)' => Live(j))
        BY <1>1, <3>1, <3>4, LiveStep DEF CommandOK
      <4> QED BY <1>17, <2>1, <3>1, <3>4, <4>1 DEF CommandOK, Kept
    <3> QED BY <3>2, <3>3, <3>4
  <2> QED BY <1>17, <2>2 DEF CommandInv
<1>18. ASSUME NEW j \in Jobs, NEW r \in Repos, LoseAnswer(j, r) PROVE CommandInv'
  <2>1. "failed" \in Answer /\ work[j].hope \in Hope /\ agent' = agent
    BY <1>4, <1>18, WorkParts DEF LoseAnswer, Answer, wire
  <2>2. Set(j, WithAnswer(j, r, "failed", work[j].hope))
    BY <1>18, <2>1, LostAnswer DEF LoseAnswer
  <2> QED BY <1>17, <2>1, <2>2
<1>19. ASSUME NEW j \in Jobs, NEW r \in Repos, SaveVersion(j, r) PROVE CommandInv'
  <2> DEFINE v == work[j].got[r][r]
             h == IF v = NoVersion THEN "nothing" ELSE work[j].hope
  <2>1. work[j].task[r] = "answered" /\ h \in Hope /\ "ok" \in Answer /\ agent' = agent
    BY <1>4, <1>19, WorkParts DEF SaveVersion, Hope, Answer, wire
  <2>2. Set(j, WithAnswer(j, r, "ok", h))
    BY <1>19 DEF SaveVersion, WithAnswer
  <2> HIDE DEF h
  <2> QED BY <1>17, <2>1, <2>2
<1>20. ASSUME NEW c \in agent
       PROVE  c.repo \in Repos /\ file[c.repo] \in Refs /\ NoRefs \in Refs /\ head[c.repo] \in Nat
  BY CommandParts, PayloadType
<1>21. {"ok", "same", "answered", "failed"} \subseteq Answer
  BY DEF Answer
<1>22. ASSUME NEW c \in agent,
              AgentReads(c) \/ AgentSyncs(c) \/ AgentCommits(c) \/ AgentVersions(c) \/ AgentFails(c)
       PROVE  CommandInv'
  <2>1. UNCHANGED jobVars
    BY <1>22 DEF AgentReads, AgentSyncs, AgentCommits, AgentVersions, AgentFails
  <2>2. \E a \in Answer, g \in Refs : Ends(c, a, g)
    <3>1. CASE AgentVersions(c)
      <4>1. PICK v \in {head[c.repo], NoVersion} : Ends(c, "answered", [NoRefs EXCEPT ![c.repo] = v])
        BY <3>1 DEF AgentVersions
      <4>2. [NoRefs EXCEPT ![c.repo] = v] \in Refs
        BY <1>20, <4>1, GotVersion DEF NoVersion
      <4> QED BY <1>21, <4>1, <4>2
    <3>2. CASE AgentReads(c)
      BY <1>20, <1>21, <3>2 DEF AgentReads
    <3>3. CASE AgentSyncs(c) \/ AgentCommits(c) \/ AgentFails(c)
      BY <1>20, <1>21, <3>3 DEF AgentSyncs, AgentCommits, AgentFails
    <3> QED BY <1>22, <3>1, <3>2, <3>3
  <2> QED BY <2>1, <2>2, CommandsEnds
<1>23. ASSUME UNCHANGED <<agent, work>> PROVE CommandInv'
  BY <1>1, <1>23, CommandsSame DEF Kept
<1>24. ASSUME agent' = agent, Disturb PROVE CommandInv'
  BY <1>1, <1>24, AfterDisturb, CommandsSame
<1>25. ASSUME NEW h \in hooks, HookReads(h) \/ HookLost(h) PROVE CommandInv'
  BY <1>23, <1>25 DEF HookReads, HookLost
<1>26. ASSUME NEW n \in notes, Notified(n) PROVE CommandInv'
  BY <1>23, <1>24, <1>26 DEF Notified
<1>27. ASSUME NEW r \in Edited, Edit(r) PROVE CommandInv'
  BY <1>24, <1>27 DEF Edit
<1>28. ASSUME User PROVE CommandInv'
  BY <1>23, <1>28 DEF User, wire
<1> QED BY <1>5, <1>7, <1>8, <1>9, <1>10, <1>11, <1>12, <1>13, <1>14, <1>15, <1>16, <1>18, <1>19, <1>22,
           <1>25, <1>26, <1>27, <1>28
        DEF Next, WorkNext, AgentNext

-----------------------------------------------------------------------------
(* What is known of files, commits and versions while an update runs of which
   something may be expected. *)

Trusted(j) == Live(j) /\ work[j].hope # "nothing"

(* What the payload of the step, or the lack of one, makes of the references. *)
Due(j, r) == IF r \in Asked(j) THEN Updated(refs[r], work[j].to[r]) ELSE refs[r]

(* Nothing that is under way changes the repository any more. *)
Quiet(j, r) ==
  \/ r \in work[j].done
  \/ /\ r \in Group(j) /\ work[j].step \in {"commit", "version"}
     /\ \A c \in agent : c.repo = r => c.do \notin Writing

(* Only this job writes, and a hook reads what stays as it is. *)
WireInv(j) ==
  /\ \A c \in agent : c.do \in Writing => c.job = j
  /\ \A h \in hooks : Quiet(j, h.repo)
  /\ \A n \in notes : /\ Quiet(j, n.repo)
                      /\ n.version \in {head[n.repo], NoVersion}
                      /\ n.refs = file[n.repo]

(* The version is known of every repository but those just committed. *)
KnownInv(j) ==
  /\ \A r \in Repos :
       \/ known[r] = head[r]
       \/ (work[j].step = "commit" /\ work[j].task[r] \in {"ok", "failed"})
       \/ (work[j].step = "version" /\ work[j].task[r] \in {"sent", "answered", "failed"})
  /\ work[j].step = "version" =>
       \A r \in Repos : work[j].task[r] = "answered" => work[j].got[r][r] \in {head[r], NoVersion}

(* The database has the references of the files but for those just written. *)
RefsInv(j) ==
  /\ work[j].step = "read" =>
       \A r \in Repos : work[j].task[r] = "ok" => work[j].got[r] = file[r]
  /\ work[j].step # "read" =>
       \A r \in work[j].scope : refs[r] = file[r] \/ (work[j].step = "sync" /\ r \in Asked(j))
  /\ work[j].step = "sync" =>
       \A r \in Repos : /\ work[j].task[r] = "sent" => file[r] = refs[r]
                        /\ work[j].task[r] \in {"ok", "same"} => file[r] = Due(j, r)

(* The levels that are done refer to the versions there are, and so will the level
   that is worked on. *)
FilesInv(j) ==
  Acyclic(uses) =>
    /\ \A r \in work[j].done : \A s \in uses[r] : file[r][s] = head[s]
    /\ work[j].step = "sync" => \A r \in Group(j) : \A s \in uses[r] : Due(j, r)[s] = head[s]
    /\ work[j].step \in {"stage", "commit", "version"} =>
         \A r \in Group(j) : \A s \in uses[r] : file[r][s] = head[s]

(* What is written will be committed: the plan is the payload. *)
CommitsInv(j) ==
  /\ work[j].step = "payload" => work[j].planned = Todo(j)
  /\ work[j].step = "sync" => work[j].planned = Asked(j)
  /\ work[j].hope = "commits" =>
       \A r \in Repos :
         \/ commit[r] = file[r]
         \/ (work[j].step = "sync" /\ work[j].task[r] \in {"ok", "failed"})
         \/ (work[j].step = "stage" /\ r \in work[j].planned)
         \/ (work[j].step = "commit" /\ work[j].task[r] \in {"sent", "failed"})

TrustParts(j) == WireInv(j) /\ KnownInv(j) /\ RefsInv(j) /\ FilesInv(j) /\ CommitsInv(j)

TrustInv(j) == Trusted(j) => TrustParts(j)

HeadInv == \A r \in Repos : head[r] >= 1

(* All of the invariant but the trust. *)
BaseInv ==
  /\ WorldOK /\ JobInv /\ StartedInv
  /\ level = Levels(uses)
  /\ HeadInv
  /\ \A j \in Jobs : ShapeInv(j)
  /\ CommandInv

LEMMA OneLive ==
  ASSUME JobInv, NEW j \in Jobs, NEW k \in Jobs, Live(j), Live(k)
  PROVE  j = k
BY DEF JobInv, AbandonedIsCancelled, Live

LEMMA LeftIsNotDone ==
  ASSUME WorldOK, NEW j \in Jobs, ShapeInv(j)
  PROVE  /\ work[j].left \cap work[j].done = {}
         /\ Group(j) \subseteq work[j].left /\ Group(j) \cap work[j].done = {}
         /\ Group(j) \subseteq work[j].scope /\ Group(j) \in SUBSET Repos
         /\ work[j].done \in SUBSET Repos /\ work[j].scope \in SUBSET Repos
<1>1. /\ work[j].left \in SUBSET Repos /\ work[j].done \in SUBSET Repos
      /\ work[j].scope \in SUBSET Repos
  BY WorkParts DEF WorldOK
<1>2. \A r \in Repos : ~(level[r] < level[r])
  <2>1. \A r \in Repos : level[r] \in Nat
    BY DEF WorldOK
  <2> QED BY <2>1
<1> QED BY <1>1, <1>2, GroupIsLeft DEF ShapeInv

(* What a level refers to is neither on it nor above. *)
LEMMA UsesBelow ==
  ASSUME WorldOK, level = Levels(uses), Acyclic(uses), NEW j \in Jobs, ShapeInv(j),
         NEW r \in work[j].done \cup Group(j), NEW s \in uses[r]
  PROVE  s \in Repos /\ s \notin Group(j)
<1>1. r \in Repos /\ uses \in Graph
  BY LeftIsNotDone DEF WorldOK
<1>2. s \in Repos
  BY <1>1 DEF Graph
<1>3. level[s] < level[r]
  BY <1>1, LevelsRight DEF LevelsAreRight
<1>4. level[s] \in Nat /\ level[r] \in Nat
  BY <1>1, <1>2 DEF WorldOK
<1>5. CASE r \in work[j].done
  <2>1. s \in work[j].left => level[r] < level[s]
    BY <1>5 DEF ShapeInv
  <2> QED BY <1>2, <1>3, <1>4, <2>1, GroupIsLeft
<1>6. CASE r \in Group(j)
  <2>1. s \in work[j].left => level[r] <= level[s]
    BY <1>6 DEF Group
  <2> QED BY <1>2, <1>3, <1>4, <2>1, GroupIsLeft
<1> QED BY <1>5, <1>6

(* A repository that is written to is on the level, and not quiet. *)
LEMMA WritesOnGroup ==
  ASSUME BaseInv, NEW c \in agent, c.do \in Writing, Live(c.job)
  PROVE  /\ c.repo \in Group(c.job) /\ c.repo \in Asked(c.job)
         /\ ~Quiet(c.job, c.repo)
<1>1. c.job \in Jobs /\ c.repo \in Repos /\ WorldOK /\ ShapeInv(c.job)
  BY CommandParts DEF BaseInv
<1>2. work[c.job].step = c.do /\ work[c.job].task[c.repo] # "none"
  BY DEF BaseInv, CommandInv, CommandOK
<1>3. c.repo \in Asked(c.job) /\ Asked(c.job) \subseteq Group(c.job)
  BY <1>1, <1>2 DEF Asked, ShapeInv, Writing
<1>4. c.repo \notin work[c.job].done
  BY <1>1, <1>3, LeftIsNotDone
<1> QED BY <1>3, <1>4 DEF Quiet

-----------------------------------------------------------------------------
(* Steps that leave the trust as it is. *)

LEMMA TrustFrame ==
  ASSUME NEW k \in Jobs, TrustInv(k), Trusted(k)' => Trusted(k), Same(k),
         UNCHANGED <<plan, tree, db, hooks, notes>>,
         \A c \in agent' : c.do \in Writing => c \in agent
  PROVE  TrustInv(k)'
<1> SUFFICES ASSUME Trusted(k)' PROVE TrustParts(k)'
  BY DEF TrustInv
<1>1. TrustParts(k)
  BY DEF TrustInv
<1>2. Group(k)' = Group(k) /\ Asked(k)' = Asked(k) /\ \A r : Due(k, r)' = Due(k, r)
  BY GroupStays DEF Same, Asked, Due, Updated, db
<1>3. Todo(k)' = Todo(k)
  BY <1>2 DEF Todo, Mismatched, plan, db
<1>4. \A r : Quiet(k, r) => Quiet(k, r)'
  BY <1>2 DEF Quiet, Same
<1>5. WireInv(k)'
  BY <1>1, <1>4 DEF TrustParts, WireInv, tree
<1>6. KnownInv(k)' /\ RefsInv(k)' /\ FilesInv(k)' /\ CommitsInv(k)'
  BY <1>1, <1>2, <1>3 DEF TrustParts, KnownInv, RefsInv, FilesInv, CommitsInv, Same, plan, tree, db
<1> QED BY <1>5, <1>6 DEF TrustParts

(* A step of live work: no other job is trusted. *)
LEMMA TrustOthers ==
  ASSUME JobInv, NEW j \in Jobs, Live(j), UNCHANGED jobVars,
         Trusted(j)' => TrustParts(j)'
  PROVE  \A k \in Jobs : TrustInv(k)'
<1>1. ASSUME NEW k \in Jobs, Trusted(k)' PROVE k = j
  BY <1>1, OneLive DEF Trusted, Live, jobVars
<1> QED BY <1>1 DEF TrustInv

LEMMA TrustEndLive ==
  ASSUME JobInv, NEW j \in Jobs, Live(j), NEW how, End(j, how)
  PROVE  \A k \in Jobs : TrustInv(k)'
<1>1. working' = working \ {j} /\ cancelled' = cancelled
  BY DEF End, EndWork
<1>2. ASSUME NEW k \in Jobs, Trusted(k)' PROVE FALSE
  <2>1. Live(k) /\ k # j
    BY <1>1, <1>2 DEF Trusted, Live
  <2> QED BY <2>1, OneLive
<1> QED BY <1>2 DEF TrustInv

LEMMA TrustEnd ==
  ASSUME WorldOK, NEW j \in Jobs, NEW how, End(j, how), \A k \in Jobs : TrustInv(k),
         UNCHANGED <<plan, tree, db, hooks, notes>>
  PROVE  \A k \in Jobs : TrustInv(k)'
<1>1. SameOthers(j) /\ work'[j] = NoWork
  BY AfterEnd DEF WorldOK
<1>2. working' = working \ {j} /\ cancelled' = cancelled /\ agent' \subseteq agent
  BY DEF End, EndWork
<1>3. ASSUME NEW k \in Jobs PROVE TrustInv(k)'
  <2>1. CASE k = j
    BY <1>2, <2>1 DEF TrustInv, Trusted, Live
  <2>2. CASE k # j
    <3>1. Same(k) /\ (Trusted(k)' => Trusted(k))
      BY <1>1, <1>2, <2>2 DEF SameOthers, Same, Trusted, Live
    <3> QED BY <1>2, <3>1, TrustFrame
  <2> QED BY <2>1, <2>2
<1> QED BY <1>3

(* Between the commands of the steps: everything that was asked for is over. *)
LEMMA TrustRest ==
  ASSUME BaseInv, NEW j \in Jobs, ShapeInv(j)', WireInv(j),
         UNCHANGED <<plan, tree, known, agent, hooks, notes>>,
         work'[j].step \in {"level", "payload", "stage", "final"},
         work'[j].scope = work[j].scope,
         \A r \in Repos : Quiet(j, r) => r \in work'[j].done,
         \A r \in Repos : known[r] = head[r],
         \A r \in work[j].scope : refs'[r] = file[r],
         Acyclic(uses) =>
           \A r \in work'[j].done : \A s \in uses[r] : file[r][s] = head[s],
         work'[j].step = "stage" =>
           /\ Group(j)' = Group(j)
           /\ Acyclic(uses) => \A r \in Group(j) : \A s \in uses[r] : file[r][s] = head[s],
         work'[j].step = "payload" => work'[j].planned = Todo(j)',
         work'[j].hope = "commits" =>
           \A r \in Repos : commit[r] = file[r] \/ (work'[j].step = "stage" /\ r \in work'[j].planned)
  PROVE  TrustParts(j)'
<1>1. \A h \in hooks : h.repo \in Repos
  BY DEF BaseInv, WorldOK, Hook
<1>2. \A n \in notes : n.repo \in Repos
  BY DEF BaseInv, WorldOK, Note
<1>3. WireInv(j)'
  BY <1>1, <1>2 DEF WireInv, Quiet, tree
<1>4. KnownInv(j)'
  BY DEF KnownInv, tree
<1>5. RefsInv(j)'
  BY DEF RefsInv, tree
<1>6. FilesInv(j)'
  BY DEF FilesInv, plan, tree
<1>7. CommitsInv(j)'
  BY DEF CommitsInv, tree
<1> QED BY <1>3, <1>4, <1>5, <1>6, <1>7 DEF TrustParts

-----------------------------------------------------------------------------
(* The steps of the work.  Nothing else is trusted while they are taken, so what
   holds afterwards has to hold of this job only. *)

LEMMA TrustBegin ==
  ASSUME BaseInv, NEW j \in Jobs, NEW h \in Hope, work[j].step = "queued",
         h # "nothing" => AllOver, h = "commits" => file = commit,
         Ask(j, WithHope(j, h), "read", work[j].scope),
         UNCHANGED <<plan, tree, db, hooks, notes>>, UNCHANGED jobVars,
         \A k \in Jobs : TrustInv(k)
  PROVE  \A k \in Jobs : TrustInv(k)'
<1>1. WithHope(j, h) \in Work /\ work[j].scope \in SUBSET Repos /\ "read" \in Command
  BY WithHopeParts, WorkParts DEF Command, BaseInv, WorldOK
<1>2. /\ SameOthers(j) /\ work'[j].step = "read" /\ work'[j].hope = h
      /\ work'[j].done = work[j].done
      /\ \A r \in Repos : work'[j].task[r] \in {"sent", "none"}
  BY <1>1, AfterAsk, WithHopeParts DEF BaseInv, WorldOK
<1>3. \A c \in agent' : c \in agent \/ c.do = "read"
  BY DEF Ask
<1>4. ASSUME NEW k \in Jobs, k # j PROVE TrustInv(k)'
  <2>1. Same(k) /\ (Trusted(k)' => Trusted(k))
    BY <1>2, <1>4 DEF SameOthers, Same, Trusted, Live, jobVars
  <2> QED BY <1>3, <2>1, TrustFrame DEF Writing
<1>5. ASSUME Trusted(j)' PROVE TrustParts(j)'
  <2>1. AllOver /\ (work'[j].hope = "commits" => file = commit)
    BY <1>2, <1>5 DEF Trusted
  <2>2. work'[j].done = {}
    BY <1>2 DEF BaseInv, ShapeInv
  <2>3. WireInv(j)'
    BY <1>3, <2>1 DEF WireInv, AllOver, Writing
  <2>4. KnownInv(j)'
    BY <1>2, <2>1 DEF KnownInv, AllOver, tree, db
  <2>5. RefsInv(j)'
    BY <1>2 DEF RefsInv
  <2>6. FilesInv(j)'
    BY <1>2, <2>2 DEF FilesInv
  <2>7. CommitsInv(j)'
    BY <1>2, <2>1 DEF CommitsInv, tree
  <2> QED BY <2>3, <2>4, <2>5, <2>6, <2>7 DEF TrustParts
<1> QED BY <1>4, <1>5 DEF TrustInv

LEMMA TrustReadDone ==
  ASSUME BaseInv, NEW j \in Jobs, ReadDone(j), TrustInv(j), ShapeInv(j)'
  PROVE  \A k \in Jobs : TrustInv(k)'
<1> USE DEF BaseInv
<1>1. Live(j) /\ work[j].step = "read" /\ AllAnswered(j)
  <2>1. At(j, "read") /\ AllAnswered(j)
    BY DEF ReadDone
  <2> QED BY <2>1, LiveWorks DEF At, Step, Command
<1>2. CASE AnyFailed(j)
  BY <1>1, <1>2, TrustEndLive DEF ReadDone
<1>3. CASE ~AnyFailed(j)
  <2>1. Set(j, Move(work[j], "level")) /\ UNCHANGED <<jobVars, agent>>
    BY <1>3 DEF ReadDone
  <2>2. /\ work'[j].step = "level" /\ work'[j].hope = work[j].hope
        /\ work'[j].scope = work[j].scope /\ work'[j].done = work[j].done
    BY <2>1, AfterMove DEF WorldOK, Step
  <2>3. ASSUME Trusted(j)' PROVE TrustParts(j)'
    <3>1. TrustParts(j)
      BY <1>1, <2>3, <2>2 DEF Trusted, TrustInv
    <3>2. work[j].done = {} /\ Asked(j) = work[j].scope
      BY <1>1 DEF ShapeInv
    <3>3. \A r \in Repos : ~Quiet(j, r)
      BY <1>1, <3>2 DEF Quiet
    <3>4. \A r \in work[j].scope : refs'[r] = file[r]
      <4>1. ASSUME NEW r \in work[j].scope PROVE refs'[r] = file[r]
        <5>1. r \in Repos /\ work[j].task[r] \in {"sent", "ok", "failed"}
          BY <1>1, <3>2, AnswersAre DEF Asked, ShapeInv
        <5>2. work[j].task[r] = "ok"
          BY <1>1, <1>3, <5>1 DEF AllAnswered, AnyFailed, With
        <5>3. refs'[r] = work[j].got[r]
          BY <5>1, <5>2 DEF ReadDone, With
        <5> QED BY <1>1, <3>1, <5>1, <5>2, <5>3 DEF TrustParts, RefsInv
      <4> QED BY <4>1
    <3>5. \A r \in Repos : known[r] = head[r]
      BY <1>1, <3>1 DEF TrustParts, KnownInv
    <3>6. work'[j].hope = "commits" => \A r \in Repos : commit[r] = file[r]
      BY <1>1, <2>2, <3>1 DEF TrustParts, CommitsInv
    <3>7. WireInv(j) /\ UNCHANGED <<plan, tree, known, agent, hooks, notes>>
      BY <2>1, <3>1 DEF TrustParts, ReadDone
    <3> QED BY <2>2, <3>2, <3>3, <3>4, <3>5, <3>6, <3>7, TrustRest
  <2> QED BY <1>1, <2>1, <2>3, TrustOthers
<1> QED BY <1>2, <1>3

(* Where the references are those of the files, and all versions known. *)
LEMMA NothingMismatched ==
  ASSUME BaseInv, NEW j \in Jobs, TrustParts(j), work[j].step \in {"level", "payload"}
  PROVE  /\ \A r \in Repos : known[r] = head[r]
         /\ \A r \in work[j].scope : refs[r] = file[r]
         /\ \A r \in Repos : Quiet(j, r) => r \in work[j].done
         /\ \A r \in Group(j) \ Todo(j) : \A s \in uses[r] : refs[r][s] = head[s]
<1> USE DEF BaseInv
<1>1. /\ \A r \in Repos : known[r] = head[r]
      /\ \A r \in work[j].scope : refs[r] = file[r]
  BY DEF TrustParts, KnownInv, RefsInv
<1>2. \A r \in Repos : Quiet(j, r) => r \in work[j].done
  BY DEF Quiet
<1>3. ASSUME NEW r \in Group(j) \ Todo(j), NEW s \in uses[r] PROVE refs[r][s] = head[s]
  <2>1. s \in Repos
    <3>1. r \in Repos
      BY LeftIsNotDone
    <3> QED BY <3>1 DEF WorldOK, Graph
  <2>2. head[s] \in Nat /\ head[s] >= 1
    BY <2>1 DEF WorldOK, HeadInv
  <2>3. known[s] = head[s] /\ known[s] # NoVersion
    BY <1>1, <2>1, <2>2 DEF NoVersion
  <2> QED BY <1>3, <2>3 DEF Todo, Mismatched
<1> QED BY <1>1, <1>2, <1>3

LEMMA TrustLevelUp ==
  ASSUME BaseInv, NEW j \in Jobs, Live(j), NEW w \in Work, LevelUp(j, w),
         w.left = work[j].left, w.done = work[j].done, w.scope = work[j].scope,
         w.hope = work[j].hope \/ w.hope = "files",
         UNCHANGED <<plan, tree, known, agent, hooks, notes>>, UNCHANGED jobVars,
         TrustInv(j), ShapeInv(j)',
         Trusted(j) =>
           /\ \A r \in Repos : known[r] = head[r]
           /\ \A r \in work[j].scope : refs'[r] = file[r]
           /\ Acyclic(uses) => \A r \in Group(j) : \A s \in uses[r] : file[r][s] = head[s]
           /\ w.hope = "commits" => \A r \in Repos : commit[r] = file[r],
         w.hope = "nothing" <=> work[j].hope = "nothing"
  PROVE  \A k \in Jobs : TrustInv(k)'
<1> USE DEF BaseInv
<1>1. /\ work'[j].step = "level" /\ work'[j].hope = w.hope
      /\ work'[j].scope = work[j].scope /\ work'[j].done = work[j].done \cup Group(j)
  BY AfterLevelUp DEF WorldOK
<1>2. ASSUME Trusted(j)' PROVE TrustParts(j)'
  <2>1. Trusted(j) /\ TrustParts(j)
    BY <1>1, <1>2 DEF Trusted, TrustInv, Live, jobVars
  <2>2. \A r \in Repos : Quiet(j, r) => r \in work'[j].done
    BY <1>1 DEF Quiet
  <2>3. Acyclic(uses) => \A r \in work'[j].done : \A s \in uses[r] : file[r][s] = head[s]
    BY <1>1, <2>1 DEF TrustParts, FilesInv
  <2>4. WireInv(j)
    BY <2>1 DEF TrustParts
  <2> QED BY <1>1, <2>1, <2>2, <2>3, <2>4, TrustRest
<1> QED BY <1>2, TrustOthers

LEMMA TrustNextLevel ==
  ASSUME BaseInv, NEW j \in Jobs, NextLevel(j), TrustInv(j), ShapeInv(j)'
  PROVE  \A k \in Jobs : TrustInv(k)'
<1> USE DEF BaseInv
<1>1. Live(j) /\ work[j].step = "level" /\ work[j] \in Work
  BY LiveWorks DEF NextLevel, At, Step, WorldOK
<1>2. UNCHANGED <<plan, tree, known, refs, agent, hooks, notes>> /\ UNCHANGED jobVars
  BY DEF NextLevel, db, wire
<1>3. Trusted(j) => TrustParts(j)
  BY DEF TrustInv
<1>4. Trusted(j) => (work[j].hope = "commits" => \A r \in Repos : commit[r] = file[r])
  BY <1>1, <1>3 DEF TrustParts, CommitsInv
<1>5. CASE LevelUp(j, work[j]) /\ Todo(j) = {}
  <2>1. Trusted(j) => (Acyclic(uses) => \A r \in Group(j) : \A s \in uses[r] : file[r][s] = head[s])
    BY <1>1, <1>3, <1>5, NothingMismatched, LeftIsNotDone
  <2> QED BY <1>1, <1>2, <1>3, <1>4, <1>5, <2>1, NothingMismatched, TrustLevelUp
<1>6. ASSUME NEW s \in {"final", "payload"}, work'[j].step = s, work'[j].hope = work[j].hope,
             work'[j].scope = work[j].scope, work'[j].left = work[j].left,
             work'[j].done = work[j].done, s = "payload" => work'[j].planned = Todo(j)
      PROVE  \A k \in Jobs : TrustInv(k)'
  <2>1. ASSUME Trusted(j)' PROVE TrustParts(j)'
    <3>1. Trusted(j) /\ TrustParts(j)
      BY <1>2, <1>3, <1>6, <2>1 DEF Trusted, Live, jobVars
    <3>2. Todo(j)' = Todo(j)
      BY <1>2, <1>6, GroupStays DEF Todo, Mismatched, plan
    <3>3. WireInv(j) /\ (Acyclic(uses) => \A r \in work[j].done : \A t \in uses[r] : file[r][t] = head[t])
      BY <3>1 DEF TrustParts, FilesInv
    <3> QED BY <1>1, <1>2, <1>4, <1>6, <3>1, <3>2, <3>3, NothingMismatched, TrustRest
  <2> QED BY <1>1, <1>2, <2>1, TrustOthers
<1>7. CASE Set(j, Move(work[j], "final"))
  BY <1>6, <1>7, AfterMove DEF WorldOK, Step
<1>8. CASE Set(j, [Move(work[j], "payload") EXCEPT !.planned = Todo(j)])
  <2>1. Todo(j) \in SUBSET Repos /\ work \in [Jobs -> Work] /\ "payload" \in Step
    BY LeftIsNotDone DEF Todo, WorldOK, Step
  <2>2. /\ work'[j].step = "payload" /\ work'[j].hope = work[j].hope
        /\ work'[j].scope = work[j].scope /\ work'[j].left = work[j].left
        /\ work'[j].done = work[j].done /\ work'[j].planned = Todo(j)
    BY <1>8, <2>1, AfterMovePlanned
  <2> QED BY <1>6, <2>2
<1> QED BY <1>5, <1>7, <1>8 DEF NextLevel, Todo

LEMMA TrustBeginSync ==
  ASSUME BaseInv, NEW j \in Jobs, BeginSync(j), TrustInv(j), ShapeInv(j)'
  PROVE  \A k \in Jobs : TrustInv(k)'
<1> USE DEF BaseInv
<1>1. Live(j) /\ work[j].step = "payload" /\ work[j] \in Work
  BY LiveWorks DEF BeginSync, At, Step, WorldOK
<1>2. UNCHANGED <<plan, tree, db, known, refs, hooks, notes>>
  BY DEF BeginSync, db
<1>3. Trusted(j) => TrustParts(j)
  BY DEF TrustInv
<1>4. CASE Todo(j) = {} /\ LevelUp(j, work[j]) /\ UNCHANGED <<jobVars, agent>>
  <2>1. Trusted(j) => (Acyclic(uses) => \A r \in Group(j) : \A s \in uses[r] : file[r][s] = head[s])
    BY <1>1, <1>3, <1>4, NothingMismatched, LeftIsNotDone
  <2>2. Trusted(j) => (work[j].hope = "commits" => \A r \in Repos : commit[r] = file[r])
    BY <1>1, <1>3 DEF TrustParts, CommitsInv
  <2> QED BY <1>1, <1>2, <1>3, <1>4, <2>1, <2>2, NothingMismatched, TrustLevelUp
<1>5. CASE Ask(j, WithTo(j, PayloadOf(Todo(j))), "sync", Todo(j)) /\ UNCHANGED jobVars
  <2> DEFINE to == PayloadOf(Todo(j))
             w == WithTo(j, to)
  <2>1. Todo(j) \in SUBSET Repos /\ to \in [Repos -> Refs] /\ "sync" \in Command
    BY BeginSyncDoes DEF Command
  <2>2. /\ w \in Work /\ w.hope = work[j].hope /\ w.scope = work[j].scope /\ w.left = work[j].left
        /\ w.done = work[j].done /\ w.planned = work[j].planned /\ w.to = to
    BY <2>1, WithToParts DEF WorldOK
  <2> HIDE DEF w
  <2>3. Ask(j, w, "sync", Todo(j))
    BY <1>5 DEF w
  <2>4. /\ work'[j].step = "sync" /\ work'[j].hope = work[j].hope
        /\ work'[j].scope = work[j].scope /\ work'[j].left = work[j].left
        /\ work'[j].done = work[j].done /\ work'[j].planned = work[j].planned /\ work'[j].to = to
        /\ \A r \in Repos : work'[j].task[r] = IF r \in Todo(j) THEN "sent" ELSE "none"
    BY <2>1, <2>2, <2>3, AfterAsk DEF WorldOK
  <2>5. \A c \in agent' : c \in agent \/ c.job = j
    BY <2>3 DEF Ask
  <2>6. ASSUME Trusted(j)' PROVE TrustParts(j)'
    <3>1. TrustParts(j)
      BY <1>3, <1>5, <2>4, <2>6 DEF Trusted, Live, jobVars
    <3>2. /\ \A r \in Repos : known[r] = head[r]
          /\ \A r \in work[j].scope : refs[r] = file[r]
          /\ \A r \in Repos : Quiet(j, r) => r \in work[j].done
          /\ \A r \in Group(j) \ Todo(j) : \A s \in uses[r] : refs[r][s] = head[s]
      BY <1>1, <3>1, NothingMismatched
    <3>3. Asked(j)' = Todo(j) /\ Group(j)' = Group(j) /\ Todo(j) \subseteq work[j].scope
      BY <1>2, <2>1, <2>4, GroupStays, LeftIsNotDone DEF Asked, Todo
    <3>4. WireInv(j)'
      <4>1. \A h \in hooks : h.repo \in Repos
        BY DEF WorldOK, Hook
      <4>2. \A n \in notes : n.repo \in Repos
        BY DEF WorldOK, Note
      <4> QED BY <1>2, <2>4, <2>5, <3>1, <3>2, <4>1, <4>2 DEF TrustParts, WireInv, Quiet, tree
    <3>5. KnownInv(j)'
      BY <1>2, <2>4, <3>2 DEF KnownInv, tree
    <3>6. RefsInv(j)'
      BY <1>2, <2>4, <3>2, <3>3 DEF RefsInv, tree
    <3>7. ASSUME NEW r \in Group(j), NEW s \in uses[r] PROVE Due(j, r)'[s] = head[s]
      <4>1. r \in Repos /\ s \in Repos
        <5>1. r \in Repos
          BY LeftIsNotDone
        <5> QED BY <5>1 DEF WorldOK, Graph
      <4>2. CASE r \in Todo(j)
        <5>1. to[r] = Payload(r) /\ Payload(r) \in Refs /\ refs[r] \in Refs
          BY <4>1, <4>2, PayloadType DEF PayloadOf, WorldOK
        <5>2. Due(j, r)' = Updated(refs[r], Payload(r))
          BY <1>2, <2>4, <3>3, <4>2, <5>1 DEF Due, Updated
        <5>3. Updated(refs[r], Payload(r))[s]
                = IF Payload(r)[s] # NoVersion THEN Payload(r)[s] ELSE refs[r][s]
          BY <4>1, <5>1, UpdatedType
        <5>4. Payload(r)[s] = IF s \in Mismatched(r) THEN known[s] ELSE NoVersion
          BY <4>1 DEF Payload
        <5>5. known[s] = head[s] /\ known[s] # NoVersion
          <6>1. head[s] \in Nat /\ head[s] >= 1
            BY <4>1 DEF WorldOK, HeadInv
          <6> QED BY <3>2, <4>1, <6>1 DEF NoVersion
        <5> QED BY <3>7, <5>2, <5>3, <5>4, <5>5 DEF Mismatched
      <4>3. CASE r \notin Todo(j)
        <5>1. Due(j, r)' = refs[r]
          BY <1>2, <3>3, <4>3 DEF Due
        <5> QED BY <3>2, <3>7, <4>3, <5>1
      <4> QED BY <4>2, <4>3
    <3>8. FilesInv(j)'
      BY <1>2, <2>4, <3>1, <3>3, <3>7 DEF TrustParts, FilesInv, plan, tree
    <3>9. CommitsInv(j)'
      BY <1>1, <1>2, <2>4, <3>1, <3>3 DEF TrustParts, CommitsInv, tree
    <3> QED BY <3>4, <3>5, <3>6, <3>8, <3>9 DEF TrustParts
  <2> QED BY <1>1, <1>5, <2>6, TrustOthers
<1>6. CASE End(j, "Faulted")
  BY <1>1, <1>6, TrustEndLive
<1> QED BY <1>4, <1>5, <1>6, BeginSyncDoes

LEMMA TrustSyncDone ==
  ASSUME BaseInv, NEW j \in Jobs, SyncDone(j), TrustInv(j), ShapeInv(j)'
  PROVE  \A k \in Jobs : TrustInv(k)'
<1> USE DEF BaseInv
<1>1. Live(j) /\ work[j].step = "sync" /\ work[j] \in Work /\ AllAnswered(j)
  <2>1. At(j, "sync") /\ AllAnswered(j)
    BY DEF SyncDone
  <2> QED BY <2>1, LiveWorks DEF At, Step, Command, WorldOK
<1>2. UNCHANGED <<plan, tree, known, hooks, notes>>
  BY DEF SyncDone
<1>3. CASE AnyFailed(j)
  BY <1>1, <1>3, TrustEndLive DEF SyncDone
<1>4. CASE ~AnyFailed(j)
  <2> DEFINE toCommit == work[j].planned \cap With(j, "ok")
  <2>1. /\ UNCHANGED <<jobVars, agent>>
        /\ \/ toCommit = {} /\ LevelUp(j, work[j])
           \/ Set(j, [Move(work[j], "stage") EXCEPT !.planned = toCommit])
    BY <1>4 DEF SyncDone
  <2>2. \A r \in Repos : work[j].task[r] \in {"none", "ok", "same"}
    <3>1. \A r \in Repos : work[j].task[r] \in {"none", "sent", "ok", "same", "failed"}
      BY <1>1, AnswersAre DEF ShapeInv
    <3> QED BY <1>1, <1>4, <3>1 DEF AllAnswered, AnyFailed, With
  <2>3. \A r \in Repos : refs'[r] = Due(j, r)
    BY <1>4 DEF SyncDone, Due, AnyFailed, With
  <2>4. ASSUME Trusted(j)
        PROVE  /\ TrustParts(j)
               /\ \A r \in Repos : known[r] = head[r]
               /\ \A r \in work[j].scope : refs'[r] = file[r]
               /\ Acyclic(uses) => \A r \in Group(j) : \A s \in uses[r] : file[r][s] = head[s]
               /\ \A r \in Repos : Quiet(j, r) => r \in work[j].done
               /\ work[j].hope = "commits" =>
                    \A r \in Repos : commit[r] = file[r] \/ r \in toCommit
    <3>1. TrustParts(j)
      BY <2>4 DEF TrustInv
    <3>2. \A r \in Repos : known[r] = head[r]
      BY <1>1, <3>1 DEF TrustParts, KnownInv
    <3>3. ASSUME NEW r \in work[j].scope PROVE Due(j, r) = file[r]
      <4>1. r \in Repos
        BY LeftIsNotDone
      <4>2. CASE r \in Asked(j)
        <5>1. work[j].task[r] \in {"ok", "same"}
          BY <2>2, <4>1, <4>2 DEF Asked
        <5> QED BY <1>1, <3>1, <4>1, <5>1 DEF TrustParts, RefsInv
      <4>3. CASE r \notin Asked(j)
        <5>1. refs[r] = file[r]
          BY <1>1, <3>1, <3>3, <4>3 DEF TrustParts, RefsInv
        <5> QED BY <4>3, <5>1 DEF Due
      <4> QED BY <4>2, <4>3
    <3>4. \A r \in work[j].scope : r \in Repos
      BY LeftIsNotDone
    <3>5. Acyclic(uses) => \A r \in Group(j) : \A s \in uses[r] : file[r][s] = head[s]
      BY <1>1, <3>1, <3>3, LeftIsNotDone DEF TrustParts, FilesInv
    <3>6. \A r \in Repos : Quiet(j, r) => r \in work[j].done
      BY <1>1 DEF Quiet
    <3>7. work[j].hope = "commits" => \A r \in Repos : commit[r] = file[r] \/ r \in toCommit
      <4>1. work[j].planned = Asked(j)
        BY <1>1, <3>1 DEF TrustParts, CommitsInv
      <4>2. \A r \in Repos : work[j].task[r] = "ok" => r \in toCommit
        BY <4>1 DEF With, Asked
      <4> HIDE DEF toCommit
      <4> QED BY <1>1, <2>2, <3>1, <4>2 DEF TrustParts, CommitsInv
    <3> HIDE DEF toCommit
    <3> QED BY <2>3, <3>1, <3>2, <3>3, <3>4, <3>5, <3>6, <3>7
  <2>5. CASE toCommit = {} /\ LevelUp(j, work[j])
    <3> HIDE DEF toCommit
    <3> QED BY <1>1, <1>2, <2>1, <2>4, <2>5, TrustLevelUp
  <2>6. CASE Set(j, [Move(work[j], "stage") EXCEPT !.planned = toCommit])
    <3>1. toCommit \in SUBSET Repos /\ work \in [Jobs -> Work] /\ "stage" \in Step
      BY DEF With, WorldOK, Step
    <3> HIDE DEF toCommit, BaseInv
    <3>2. /\ work'[j].step = "stage" /\ work'[j].hope = work[j].hope
          /\ work'[j].scope = work[j].scope /\ work'[j].left = work[j].left
          /\ work'[j].done = work[j].done /\ work'[j].planned = toCommit
      BY <2>6, <3>1, AfterMovePlanned
    <3> USE DEF BaseInv
    <3>3. Group(j)' = Group(j)
      BY <1>2, <3>2, GroupStays
    <3>4. ASSUME Trusted(j)' PROVE TrustParts(j)'
      <4>1. Trusted(j)
        BY <2>1, <3>2, <3>4 DEF Trusted, Live, jobVars
      <4>2. WireInv(j) /\ (Acyclic(uses) => \A r \in work[j].done : \A s \in uses[r] : file[r][s] = head[s])
        BY <2>4, <4>1 DEF TrustParts, FilesInv
      <4> QED BY <1>2, <2>1, <2>4, <3>2, <3>3, <4>1, <4>2, TrustRest
    <3> QED BY <1>1, <2>1, <3>4, TrustOthers
  <2> QED BY <2>1, <2>5, <2>6
<1> QED BY <1>3, <1>4

LEMMA TrustBeginCommit ==
  ASSUME BaseInv, NEW j \in Jobs, BeginCommit(j), TrustInv(j), ShapeInv(j)'
  PROVE  \A k \in Jobs : TrustInv(k)'
<1> USE DEF BaseInv
<1>1. Live(j) /\ work[j].step = "stage" /\ work[j] \in Work
  BY LiveWorks DEF BeginCommit, At, Step, WorldOK
<1>2. /\ Ask(j, work[j], "commit", work[j].planned)
      /\ UNCHANGED <<plan, tree, db, hooks, notes>> /\ UNCHANGED jobVars
  BY DEF BeginCommit
<1>3. work[j].planned \in SUBSET Repos /\ "commit" \in Command
  BY <1>1, WorkParts DEF Command
<1>4. /\ work'[j].step = "commit" /\ work'[j].hope = work[j].hope
      /\ work'[j].scope = work[j].scope /\ work'[j].left = work[j].left
      /\ work'[j].done = work[j].done
      /\ \A r \in Repos : work'[j].task[r] = IF r \in work[j].planned THEN "sent" ELSE "none"
  BY <1>1, <1>2, <1>3, AfterAsk DEF WorldOK
<1>5. \A c \in agent' : c \in agent \/ c.job = j
  BY <1>2 DEF Ask
<1>6. Group(j)' = Group(j)
  BY <1>2, <1>4, GroupStays
<1>7. ASSUME Trusted(j)' PROVE TrustParts(j)'
  <2>1. TrustParts(j)
    BY <1>2, <1>4, <1>7 DEF Trusted, TrustInv, Live, jobVars
  <2>2. WireInv(j)'
    BY <1>1, <1>2, <1>4, <1>5, <2>1 DEF TrustParts, WireInv, Quiet, tree
  <2>3. KnownInv(j)'
    BY <1>1, <1>2, <1>4, <2>1 DEF TrustParts, KnownInv, tree, db
  <2>4. RefsInv(j)'
    BY <1>1, <1>2, <1>4, <2>1 DEF TrustParts, RefsInv, tree, db
  <2>5. FilesInv(j)'
    BY <1>1, <1>2, <1>4, <1>6, <2>1 DEF TrustParts, FilesInv, plan, tree
  <2>6. CommitsInv(j)'
    BY <1>1, <1>2, <1>4, <2>1 DEF TrustParts, CommitsInv, tree
  <2> QED BY <2>2, <2>3, <2>4, <2>5, <2>6 DEF TrustParts
<1> QED BY <1>1, <1>2, <1>7, TrustOthers

LEMMA TrustSkipCommit ==
  ASSUME BaseInv, NEW j \in Jobs, SkipCommit(j), TrustInv(j), ShapeInv(j)'
  PROVE  \A k \in Jobs : TrustInv(k)'
<1> USE DEF BaseInv
<1>1. Live(j) /\ work[j].step = "stage" /\ work[j] \in Work
  BY LiveWorks DEF SkipCommit, At, Step, WorldOK
<1> DEFINE h == IF work[j].hope = "commits" THEN "files" ELSE work[j].hope
           w == WithHope(j, h)
<1>2. LevelUp(j, w) /\ h \in Hope /\ h # "commits" /\ (h = "nothing" <=> work[j].hope = "nothing")
  BY <1>1, WorkParts DEF SkipCommit, WithHope, Hope
<1>3. h = work[j].hope \/ h = "files"
  OBVIOUS
<1> HIDE DEF h
<1>4. /\ w \in Work /\ w.hope = h /\ w.left = work[j].left /\ w.done = work[j].done
      /\ w.scope = work[j].scope
  BY <1>2, WithHopeParts DEF WorldOK
<1> HIDE DEF w
<1>5. UNCHANGED <<plan, tree, known, refs, agent, hooks, notes>> /\ UNCHANGED jobVars
  BY DEF SkipCommit, db, wire
<1>6. ASSUME Trusted(j)
      PROVE  /\ \A r \in Repos : known[r] = head[r]
             /\ \A r \in work[j].scope : refs'[r] = file[r]
             /\ Acyclic(uses) => \A r \in Group(j) : \A s \in uses[r] : file[r][s] = head[s]
  BY <1>1, <1>5, <1>6 DEF TrustInv, TrustParts, KnownInv, RefsInv, FilesInv
<1> QED BY <1>1, <1>2, <1>3, <1>4, <1>5, <1>6, TrustLevelUp

LEMMA TrustCommitDone ==
  ASSUME BaseInv, NEW j \in Jobs, CommitDone(j), TrustInv(j), ShapeInv(j)'
  PROVE  \A k \in Jobs : TrustInv(k)'
<1> USE DEF BaseInv
<1>1. Live(j) /\ work[j].step = "commit" /\ work[j] \in Work /\ AllAnswered(j)
  <2>1. At(j, "commit") /\ AllAnswered(j)
    BY DEF CommitDone
  <2> QED BY <2>1, LiveWorks DEF At, Step, Command, WorldOK
<1>2. CASE AnyFailed(j)
  BY <1>1, <1>2, TrustEndLive DEF CommitDone
<1>3. CASE ~AnyFailed(j)
  <2>1. /\ UNCHANGED <<plan, tree, db, known, refs, hooks, notes>> /\ UNCHANGED jobVars
        /\ \/ With(j, "ok") = {} /\ LevelUp(j, work[j]) /\ agent' = agent
           \/ Ask(j, work[j], "version", With(j, "ok"))
    BY <1>3 DEF CommitDone, db
  <2>2. \A r \in Repos : work[j].task[r] \in {"none", "ok", "same"}
    <3>1. \A r \in Repos : work[j].task[r] \in {"none", "sent", "ok", "same", "failed"}
      BY <1>1, AnswersAre DEF ShapeInv
    <3> QED BY <1>1, <1>3, <3>1 DEF AllAnswered, AnyFailed, With
  <2>3. ASSUME Trusted(j)
        PROVE  /\ TrustParts(j)
               /\ \A r \in Repos : known[r] = head[r] \/ r \in With(j, "ok")
               /\ \A r \in work[j].scope : refs[r] = file[r]
               /\ Acyclic(uses) => \A r \in Group(j) : \A s \in uses[r] : file[r][s] = head[s]
               /\ work[j].hope = "commits" => \A r \in Repos : commit[r] = file[r]
    <3>1. TrustParts(j)
      BY <2>3 DEF TrustInv
    <3>2. \A r \in Repos : known[r] = head[r] \/ r \in With(j, "ok")
      BY <1>1, <2>2, <3>1 DEF TrustParts, KnownInv, With
    <3>3. /\ \A r \in work[j].scope : refs[r] = file[r]
          /\ Acyclic(uses) => \A r \in Group(j) : \A s \in uses[r] : file[r][s] = head[s]
      BY <1>1, <3>1 DEF TrustParts, RefsInv, FilesInv
    <3>4. work[j].hope = "commits" => \A r \in Repos : commit[r] = file[r]
      BY <1>1, <2>2, <3>1 DEF TrustParts, CommitsInv
    <3> QED BY <3>1, <3>2, <3>3, <3>4
  <2>4. CASE With(j, "ok") = {} /\ LevelUp(j, work[j]) /\ agent' = agent
    BY <1>1, <2>1, <2>3, <2>4, TrustLevelUp
  <2>5. CASE Ask(j, work[j], "version", With(j, "ok"))
    <3>1. With(j, "ok") \in SUBSET Repos /\ "version" \in Command
      BY DEF With, Command
    <3>2. /\ work'[j].step = "version" /\ work'[j].hope = work[j].hope
          /\ work'[j].scope = work[j].scope /\ work'[j].left = work[j].left
          /\ work'[j].done = work[j].done
          /\ \A r \in Repos : work'[j].task[r] = IF r \in With(j, "ok") THEN "sent" ELSE "none"
      BY <1>1, <2>5, <3>1, AfterAsk DEF WorldOK
    <3>3. \A c \in agent' : c \in agent \/ (c.job = j /\ c.do \notin Writing)
      BY <2>5 DEF Ask, Writing
    <3>4. Group(j)' = Group(j)
      BY <2>1, <3>2, GroupStays
    <3>5. ASSUME Trusted(j)' PROVE TrustParts(j)'
      <4>1. Trusted(j) /\ TrustParts(j)
        BY <2>1, <2>3, <3>2, <3>5 DEF Trusted, Live, jobVars
      <4>2. \A r : Quiet(j, r) => Quiet(j, r)'
        BY <1>1, <3>2, <3>3, <3>4 DEF Quiet
      <4>3. WireInv(j)'
        BY <2>1, <3>3, <4>1, <4>2 DEF TrustParts, WireInv, tree
      <4>4. KnownInv(j)'
        BY <2>1, <2>3, <3>2, <4>1 DEF KnownInv, tree
      <4>5. RefsInv(j)'
        BY <2>1, <2>3, <3>2, <4>1 DEF RefsInv, tree
      <4>6. FilesInv(j)'
        BY <2>1, <2>3, <3>2, <3>4, <4>1 DEF TrustParts, FilesInv, plan, tree
      <4>7. CommitsInv(j)'
        BY <2>1, <2>3, <3>2, <4>1 DEF CommitsInv, tree
      <4> QED BY <4>3, <4>4, <4>5, <4>6, <4>7 DEF TrustParts
    <3> QED BY <1>1, <2>1, <3>5, TrustOthers
  <2> QED BY <2>1, <2>4, <2>5
<1> QED BY <1>2, <1>3

LEMMA TrustVersionDone ==
  ASSUME BaseInv, NEW j \in Jobs, VersionDone(j), TrustInv(j), ShapeInv(j)'
  PROVE  \A k \in Jobs : TrustInv(k)'
<1> USE DEF BaseInv
<1>1. Live(j) /\ work[j].step = "version" /\ work[j] \in Work /\ AllAnswered(j)
  <2>1. At(j, "version") /\ AllAnswered(j)
    BY DEF VersionDone
  <2> QED BY <2>1, LiveWorks DEF At, Step, Command, WorldOK
<1>2. CASE AnyFailed(j)
  BY <1>1, <1>2, TrustEndLive DEF VersionDone
<1>3. CASE ~AnyFailed(j)
  <2>1. /\ UNCHANGED <<plan, tree, known, refs, agent, hooks, notes>> /\ UNCHANGED jobVars
        /\ LevelUp(j, work[j])
    BY <1>3 DEF VersionDone, db
  <2>2. \A r \in Repos : work[j].task[r] \notin {"sent", "answered", "failed"}
    BY <1>1, <1>3 DEF AllAnswered, AnyFailed, With
  <2>3. ASSUME Trusted(j)
        PROVE  /\ \A r \in Repos : known[r] = head[r]
               /\ \A r \in work[j].scope : refs[r] = file[r]
               /\ Acyclic(uses) => \A r \in Group(j) : \A s \in uses[r] : file[r][s] = head[s]
               /\ work[j].hope = "commits" => \A r \in Repos : commit[r] = file[r]
    <3>1. TrustParts(j)
      BY <2>3 DEF TrustInv
    <3> QED BY <1>1, <2>2, <3>1 DEF TrustParts, KnownInv, RefsInv, FilesInv, CommitsInv
  <2> QED BY <1>1, <2>1, <2>3, TrustLevelUp
<1> QED BY <1>2, <1>3

(* What does not depend on the answers to the commands. *)
LEMMA KeptParts ==
  ASSUME NEW j \in Jobs, Kept(j), UNCHANGED plan
  PROVE  Group(j)' = Group(j)
BY GroupStays DEF Kept

LEMMA TrustLoseAnswer ==
  ASSUME BaseInv, NEW j \in Jobs, NEW r \in Repos, LoseAnswer(j, r), TrustInv(j)
  PROVE  \A k \in Jobs : TrustInv(k)'
<1> USE DEF BaseInv
<1>1. work[j].task[r] = "sent" /\ UNCHANGED <<jobVars, plan, tree, db, wire>>
  BY DEF LoseAnswer
<1>2. work[j].step \in Command
  <2>1. work[j].step \in Step /\ "sent" \in Answers(work[j].step)
    BY <1>1, WorkParts DEF ShapeInv, WorldOK
  <2> QED BY <2>1, AnswersAre
<1>3. Live(j)
  BY <1>2 DEF LoseAnswer, ShapeInv, Live, Command
<1>4. "failed" \in Answer /\ work[j].hope \in Hope
  BY WorkParts DEF Answer, WorldOK
<1>5. Set(j, WithAnswer(j, r, "failed", work[j].hope))
  BY <1>4, LostAnswer DEF LoseAnswer, WorldOK
<1>6. /\ Kept(j) /\ work'[j].hope = work[j].hope /\ work'[j].got = work[j].got
      /\ work'[j].task[r] = "failed"
      /\ \A s \in Repos \ {r} : work'[j].task[s] = work[j].task[s]
  BY <1>4, <1>5, AfterTask DEF WorldOK
<1>7. Group(j)' = Group(j)
  BY <1>1, <1>6, KeptParts
<1>8. Asked(j)' = Asked(j)
  BY <1>1, <1>6 DEF Asked
<1>9. \A s : Due(j, s)' = Due(j, s)
  BY <1>1, <1>6, <1>8 DEF Due, Updated, Kept, db
<1>10. Todo(j)' = Todo(j)
  BY <1>1, <1>7 DEF Todo, Mismatched, plan, db
<1>11. ASSUME Trusted(j)' PROVE TrustParts(j)'
  <2>1. TrustParts(j)
    BY <1>3, <1>6, <1>11 DEF Trusted, TrustInv
  <2>2. WireInv(j)'
    BY <1>1, <1>6, <1>7, <2>1 DEF TrustParts, WireInv, Quiet, Kept, tree, wire
  <2>3. KnownInv(j)'
    BY <1>1, <1>6, <2>1 DEF TrustParts, KnownInv, Kept, tree, db
  <2>4. RefsInv(j)'
    BY <1>1, <1>6, <1>8, <1>9, <2>1 DEF TrustParts, RefsInv, Kept, tree, db
  <2>5. FilesInv(j)'
    BY <1>1, <1>6, <1>7, <1>9, <2>1 DEF TrustParts, FilesInv, Kept, plan, tree
  <2>6. CommitsInv(j)'
    BY <1>1, <1>6, <1>8, <1>10, <2>1 DEF TrustParts, CommitsInv, Kept, tree
  <2> QED BY <2>2, <2>3, <2>4, <2>5, <2>6 DEF TrustParts
<1> QED BY <1>1, <1>3, <1>11, TrustOthers

LEMMA TrustSaveVersion ==
  ASSUME BaseInv, NEW j \in Jobs, NEW r \in Repos, SaveVersion(j, r), TrustInv(j)
  PROVE  \A k \in Jobs : TrustInv(k)'
<1> USE DEF BaseInv
<1> DEFINE v == work[j].got[r][r]
           h == IF v = NoVersion THEN "nothing" ELSE work[j].hope
<1>1. /\ work[j].task[r] = "answered" /\ work[j].step = "version" /\ Live(j)
      /\ UNCHANGED <<jobVars, plan, tree, refs, wire>>
      /\ known' = [known EXCEPT ![r] = v]
  <2>1. At(j, "version")
    BY DEF SaveVersion
  <2>2. Live(j)
    BY <2>1, LiveWorks DEF Step, Command
  <2> QED BY <2>1, <2>2 DEF SaveVersion, At
<1>2. Set(j, WithAnswer(j, r, "ok", h)) /\ "ok" \in Answer /\ h \in Hope
  <2>1. work[j].hope \in Hope
    BY WorkParts DEF WorldOK
  <2> QED BY <2>1 DEF SaveVersion, WithAnswer, Answer, Hope
<1>3. /\ Kept(j) /\ work'[j].hope = h /\ work'[j].got = work[j].got
      /\ work'[j].task[r] = "ok"
      /\ \A s \in Repos \ {r} : work'[j].task[s] = work[j].task[s]
  <2> HIDE DEF h
  <2> QED BY <1>2, AfterTask DEF WorldOK
<1>4. Group(j)' = Group(j)
  BY <1>1, <1>3, KeptParts
<1>5. ASSUME Trusted(j)' PROVE TrustParts(j)'
  <2>1. v # NoVersion /\ TrustParts(j)
    BY <1>1, <1>3, <1>5 DEF Trusted, TrustInv
  <2>2. v = head[r]
    BY <1>1, <2>1 DEF TrustParts, KnownInv
  <2>3. /\ h = work[j].hope
        /\ known'[r] = head[r] /\ \A s \in Repos \ {r} : known'[s] = known[s]
    BY <1>1, <2>1, <2>2 DEF WorldOK
  <2> HIDE DEF v, h
  <2>4. WireInv(j)'
    BY <1>1, <1>3, <1>4, <2>1 DEF TrustParts, WireInv, Quiet, Kept, tree, wire
  <2>5. KnownInv(j)'
    BY <1>1, <1>3, <2>1, <2>3 DEF TrustParts, KnownInv, Kept, tree
  <2>6. RefsInv(j)'
    BY <1>1, <1>3, <2>1 DEF TrustParts, RefsInv, Kept, tree
  <2>7. FilesInv(j)'
    BY <1>1, <1>3, <1>4, <2>1 DEF TrustParts, FilesInv, Kept, plan, tree
  <2>8. CommitsInv(j)'
    BY <1>1, <1>3, <2>1, <2>3 DEF TrustParts, CommitsInv, Kept, tree
  <2> QED BY <2>4, <2>5, <2>6, <2>7, <2>8 DEF TrustParts
<1> QED BY <1>1, <1>5, TrustOthers

-----------------------------------------------------------------------------
(* The steps of the agent and what it sends, and everything else. *)

(* A command of another job, or of this one that does not write. *)
LEMMA TrustForeign ==
  ASSUME BaseInv, NEW c \in agent, NEW answer \in Answer, NEW got \in Refs, Ends(c, answer, got),
         NEW k \in Jobs, k # c.job, TrustInv(k), UNCHANGED <<jobVars, plan, db, notes>>,
         c.do \notin Writing => UNCHANGED <<tree, hooks>>
  PROVE  TrustInv(k)'
<1>1. c.job \in Jobs /\ c.repo \in Repos
  BY CommandParts DEF BaseInv
<1>2. SameOthers(c.job) /\ agent' \subseteq agent
  BY <1>1, AfterEnds DEF Ends, BaseInv, WorldOK
<1>3. Same(k) /\ (Trusted(k)' <=> Trusted(k))
  BY <1>2 DEF SameOthers, Same, Trusted, Live, jobVars
<1>4. CASE Trusted(k)
  <2>1. c.do \notin Writing
    BY <1>4 DEF TrustInv, TrustParts, WireInv
  <2> QED BY <1>2, <1>3, <2>1, TrustFrame
<1>5. CASE ~Trusted(k)
  BY <1>3, <1>5 DEF TrustInv
<1> QED BY <1>4, <1>5

(* What an answer to a command of trusted work leaves as it is. *)
LEMMA EndsKept ==
  ASSUME BaseInv, NEW c \in agent, NEW answer \in Answer, answer # "none", NEW got \in Refs,
         Ends(c, answer, got), UNCHANGED <<jobVars, plan, db>>
  PROVE  LET j == c.job
             r == c.repo
         IN
         /\ Kept(j) /\ work'[j].hope = work[j].hope /\ (Trusted(j)' <=> Trusted(j))
         /\ Group(j)' = Group(j) /\ Asked(j)' = Asked(j)
         /\ \A s : Due(j, s)' = Due(j, s)
         /\ Todo(j)' = Todo(j)
         /\ agent' = agent \ {c}
         /\ \A s \in Repos : Quiet(j, s) => Quiet(j, s)'
         /\ \A s \in Repos \ {r} : work'[j].task[s] = work[j].task[s] /\ work'[j].got[s] = work[j].got[s]
         /\ Live(j) =>
              /\ work[j].step = c.do /\ c.to = work[j].to[r]
              /\ \/ work[j].task[r] = "sent" /\ work'[j].task[r] = answer /\ work'[j].got[r] = got
                 \/ work[j].task[r] = "failed" /\ work'[j].task[r] = "failed"
<1> DEFINE j == c.job
           r == c.repo
<1>1. j \in Jobs /\ r \in Repos
  BY CommandParts DEF BaseInv
<1>2. /\ Kept(j) /\ work'[j].hope = work[j].hope
      /\ work'[j].task[r] = IF At(j, c.do) /\ work[j].task[r] = "sent" THEN answer ELSE work[j].task[r]
      /\ work'[j].got[r] = IF At(j, c.do) /\ work[j].task[r] = "sent" THEN got ELSE work[j].got[r]
      /\ \A s \in Repos \ {r} : work'[j].task[s] = work[j].task[s] /\ work'[j].got[s] = work[j].got[s]
  BY <1>1, AfterEnds DEF BaseInv, WorldOK
<1>3. Live(j) =>
        /\ work[j].step = c.do /\ c.to = work[j].to[r] /\ j \notin cancelled
        /\ work[j].task[r] \in {"sent", "failed"}
  BY DEF BaseInv, CommandInv, CommandOK, Live
<1>4. agent' = agent \ {c}
  BY DEF Ends
<1> HIDE DEF j, r
<1>5. Group(j)' = Group(j) /\ (Trusted(j)' <=> Trusted(j))
  BY <1>1, <1>2, KeptParts DEF Trusted, Live, jobVars
<1>6. Asked(j)' = Asked(j)
  <2>1. \A s \in Repos : work'[j].task[s] # "none" <=> work[j].task[s] # "none"
    BY <1>2
  <2> QED BY <2>1 DEF Asked
<1>7. \A s : Due(j, s)' = Due(j, s)
  BY <1>2, <1>6 DEF Due, Updated, Kept, db
<1>8. Todo(j)' = Todo(j)
  BY <1>5 DEF Todo, Mismatched, plan, db
<1>9. \A s \in Repos : Quiet(j, s) => Quiet(j, s)'
  BY <1>2, <1>4, <1>5 DEF Quiet, Kept
<1>10. Live(j) =>
         /\ work[j].step = c.do /\ c.to = work[j].to[r]
         /\ \/ work[j].task[r] = "sent" /\ work'[j].task[r] = answer /\ work'[j].got[r] = got
            \/ work[j].task[r] = "failed" /\ work'[j].task[r] = "failed"
  BY <1>2, <1>3 DEF At
<1> QED BY <1>2, <1>4, <1>5, <1>6, <1>7, <1>8, <1>9, <1>10 DEF j, r

(* Hooks and notes are of repositories. *)
LEMMA WireRepos ==
  ASSUME WorldOK
  PROVE  (\A h \in hooks : h.repo \in Repos) /\ (\A n \in notes : n.repo \in Repos)
BY DEF WorldOK, Hook, Note

(* What only reads ends, or what fails before it has changed anything. *)
LEMMA TrustEndsReading ==
  ASSUME BaseInv, NEW c \in agent, NEW answer \in Answer, answer # "none", NEW got \in Refs,
         Ends(c, answer, got), UNCHANGED <<jobVars, plan, tree, db, hooks, notes>>,
         \A k \in Jobs : TrustInv(k),
         \/ c.do = "read" /\ answer = "ok" /\ got = file[c.repo]
         \/ c.do = "version" /\ answer = "answered" /\ got[c.repo] \in {head[c.repo], NoVersion}
         \/ answer = "failed"
  PROVE  \A k \in Jobs : TrustInv(k)'
<1> DEFINE j == c.job
           r == c.repo
<1>1. j \in Jobs /\ r \in Repos
  BY CommandParts DEF BaseInv
<1>2. /\ Kept(j) /\ work'[j].hope = work[j].hope /\ (Trusted(j)' <=> Trusted(j))
      /\ Group(j)' = Group(j) /\ Asked(j)' = Asked(j)
      /\ \A s : Due(j, s)' = Due(j, s)
      /\ Todo(j)' = Todo(j)
      /\ agent' = agent \ {c}
      /\ \A s \in Repos : Quiet(j, s) => Quiet(j, s)'
      /\ \A s \in Repos \ {r} : work'[j].task[s] = work[j].task[s] /\ work'[j].got[s] = work[j].got[s]
      /\ Live(j) =>
           /\ work[j].step = c.do
           /\ \/ work[j].task[r] = "sent" /\ work'[j].task[r] = answer /\ work'[j].got[r] = got
              \/ work[j].task[r] = "failed" /\ work'[j].task[r] = "failed"
  BY EndsKept
<1>3. ASSUME Trusted(j)' PROVE TrustParts(j)'
  <2>1. TrustParts(j) /\ Live(j)
    BY <1>1, <1>2, <1>3 DEF Trusted, TrustInv
  <2> HIDE DEF j, r
  <2>2. WireInv(j)'
    BY <1>2, <2>1, WireRepos DEF TrustParts, WireInv, BaseInv, tree
  <2>3. KnownInv(j)'
    BY <1>1, <1>2, <2>1 DEF TrustParts, KnownInv, Kept, tree, db, r
  <2>4. RefsInv(j)'
    BY <1>1, <1>2, <2>1 DEF TrustParts, RefsInv, Kept, tree, db, r
  <2>5. FilesInv(j)'
    BY <1>2, <2>1 DEF TrustParts, FilesInv, Kept, plan, tree
  <2>6. CommitsInv(j)'
    BY <1>1, <1>2, <2>1 DEF TrustParts, CommitsInv, Kept, tree
  <2> QED BY <2>2, <2>3, <2>4, <2>5, <2>6 DEF TrustParts
<1>4. ASSUME NEW k \in Jobs, k # j PROVE TrustInv(k)'
  BY <1>4, TrustForeign
<1> HIDE DEF j
<1> QED BY <1>3, <1>4 DEF TrustInv

(* The files of a repository are written, in whole or in part. *)
LEMMA TrustEndsWriting ==
  ASSUME BaseInv, NEW c \in agent, NEW answer \in Answer, Ends(c, answer, NoRefs),
         c.do = "sync", NEW new \in Refs, file' = [file EXCEPT ![c.repo] = new],
         UNCHANGED <<jobVars, plan, head, commit, db, hooks, notes>>,
         \A k \in Jobs : TrustInv(k),
         \/ answer = "failed"
         \/ answer = "ok" /\ new = Updated(file[c.repo], c.to)
         \/ answer = "same" /\ new = Updated(file[c.repo], c.to) /\ file' = file
  PROVE  \A k \in Jobs : TrustInv(k)'
<1> DEFINE j == c.job
           r == c.repo
<1>1. j \in Jobs /\ r \in Repos /\ NoRefs \in Refs /\ answer # "none"
  BY CommandParts, PayloadType DEF BaseInv, WorldOK
<1>2. /\ Kept(j) /\ work'[j].hope = work[j].hope /\ (Trusted(j)' <=> Trusted(j))
      /\ Group(j)' = Group(j) /\ Asked(j)' = Asked(j)
      /\ \A s : Due(j, s)' = Due(j, s)
      /\ Todo(j)' = Todo(j)
      /\ agent' = agent \ {c}
      /\ \A s \in Repos : Quiet(j, s) => Quiet(j, s)'
      /\ \A s \in Repos \ {r} : work'[j].task[s] = work[j].task[s] /\ work'[j].got[s] = work[j].got[s]
      /\ Live(j) =>
           /\ work[j].step = c.do /\ c.to = work[j].to[r]
           /\ \/ work[j].task[r] = "sent" /\ work'[j].task[r] = answer
              \/ work[j].task[r] = "failed" /\ work'[j].task[r] = "failed"
  BY <1>1, EndsKept
<1>3. /\ file'[r] = new /\ \A s \in Repos \ {r} : file'[s] = file[s]
  BY <1>1 DEF BaseInv, WorldOK
<1>4. ASSUME Trusted(j)' PROVE TrustParts(j)'
  <2>1. TrustParts(j) /\ Live(j) /\ work[j].step = "sync"
    BY <1>1, <1>2, <1>4 DEF Trusted, TrustInv
  <2>2. r \in Group(j) /\ r \in Asked(j) /\ ~Quiet(j, r)
    BY <2>1, WritesOnGroup DEF Writing
  <2>3. r \notin work[j].done
    BY <2>2 DEF Quiet
  <2>4. Due(j, r) = Updated(refs[r], c.to)
    BY <1>2, <2>1, <2>2 DEF Due
  <2> HIDE DEF j, r
  <2>5. WireInv(j)'
    BY <1>2, <1>3, <2>1, <2>2, WireRepos DEF TrustParts, WireInv, BaseInv
  <2>6. KnownInv(j)'
    BY <1>2, <2>1 DEF TrustParts, KnownInv, Kept, db
  <2>7. RefsInv(j)'
    <3>1. \A s \in work[j].scope : refs[s] = file'[s] \/ s \in Asked(j)
      <4>1. \A s \in work[j].scope : s \in Repos
        BY <1>1, LeftIsNotDone DEF BaseInv
      <4> QED BY <1>3, <2>1, <2>2, <4>1 DEF TrustParts, RefsInv
    <3>2. \A s \in Repos : work'[j].task[s] = "sent" => file'[s] = refs[s]
      BY <1>1, <1>2, <1>3, <2>1 DEF TrustParts, RefsInv
    <3>3. ASSUME NEW s \in Repos, work'[j].task[s] \in {"ok", "same"} PROVE file'[s] = Due(j, s)
      <4>1. CASE s = r
        <5>1. work[j].task[r] = "sent" /\ work'[j].task[r] = answer
          BY <1>2, <2>1, <3>3, <4>1
        <5>2. new = Updated(file[r], c.to)
          BY <3>3, <4>1, <5>1 DEF r
        <5>3. file[r] = refs[r]
          BY <1>1, <2>1, <5>1 DEF TrustParts, RefsInv
        <5> QED BY <1>3, <2>4, <4>1, <5>2, <5>3
      <4>2. CASE s # r
        BY <1>2, <1>3, <2>1, <3>3, <4>2 DEF TrustParts, RefsInv
      <4> QED BY <4>1, <4>2
    <3> QED BY <1>2, <2>1, <3>1, <3>2, <3>3 DEF RefsInv, Kept, db
  <2>8. FilesInv(j)'
    <3>1. \A s \in work[j].done : s \in Repos /\ s # r
      BY <1>1, <2>3, LeftIsNotDone DEF BaseInv
    <3> QED BY <1>2, <1>3, <2>1, <3>1 DEF TrustParts, FilesInv, Kept, plan
  <2>9. CommitsInv(j)'
    <3>1. ASSUME work[j].hope = "commits", NEW s \in Repos
          PROVE  commit[s] = file'[s] \/ work'[j].task[s] \in {"ok", "failed"}
      <4>1. commit[s] = file[s] \/ work[j].task[s] \in {"ok", "failed"}
        BY <2>1, <3>1 DEF TrustParts, CommitsInv
      <4>2. CASE s # r
        BY <1>2, <1>3, <4>1, <4>2
      <4>3. CASE s = r
        BY <1>2, <2>1, <4>1, <4>3
      <4> QED BY <4>2, <4>3
    <3> QED BY <1>2, <2>1, <3>1 DEF TrustParts, CommitsInv, Kept
  <2> QED BY <2>5, <2>6, <2>7, <2>8, <2>9 DEF TrustParts
<1>5. ASSUME NEW k \in Jobs, k # j PROVE TrustInv(k)'
  BY <1>1, <1>5, TrustForeign DEF Writing
<1> HIDE DEF j
<1> QED BY <1>4, <1>5 DEF TrustInv

(* A repository is committed, or has nothing to commit. *)
LEMMA TrustCommits ==
  ASSUME BaseInv, NEW c \in agent, AgentCommits(c), \A k \in Jobs : TrustInv(k)
  PROVE  \A k \in Jobs : TrustInv(k)'
<1> DEFINE j == c.job
           r == c.repo
           answer == IF file[r] = commit[r] THEN "same" ELSE "ok"
<1>1. j \in Jobs /\ r \in Repos /\ NoRefs \in Refs /\ answer \in Answer /\ answer # "none"
  BY CommandParts, PayloadType DEF BaseInv, WorldOK, Answer
<1>2. c.do = "commit" /\ Ends(c, answer, NoRefs) /\ UNCHANGED <<jobVars, plan, file, edits, db, notes>>
  BY DEF AgentCommits
<1>3. IF file[r] = commit[r] THEN UNCHANGED <<head, commit, hooks>> ELSE Commits(r, file[r])
  BY DEF AgentCommits
<1> HIDE DEF answer
<1>4. /\ Kept(j) /\ work'[j].hope = work[j].hope /\ (Trusted(j)' <=> Trusted(j))
      /\ Group(j)' = Group(j) /\ Asked(j)' = Asked(j)
      /\ \A s : Due(j, s)' = Due(j, s)
      /\ Todo(j)' = Todo(j)
      /\ agent' = agent \ {c}
      /\ \A s \in Repos : Quiet(j, s) => Quiet(j, s)'
      /\ \A s \in Repos \ {r} : work'[j].task[s] = work[j].task[s] /\ work'[j].got[s] = work[j].got[s]
      /\ Live(j) =>
           /\ work[j].step = c.do
           /\ \/ work[j].task[r] = "sent" /\ work'[j].task[r] = answer
              \/ work[j].task[r] = "failed" /\ work'[j].task[r] = "failed"
  BY <1>1, <1>2, EndsKept
<1>5. ASSUME Trusted(j)' PROVE TrustParts(j)'
  <2>1. TrustParts(j) /\ Live(j) /\ work[j].step = "commit"
    BY <1>1, <1>2, <1>4, <1>5 DEF Trusted, TrustInv
  <2>2. r \in Group(j) /\ r \in Asked(j) /\ ~Quiet(j, r)
    BY <1>2, <2>1, WritesOnGroup DEF Writing
  <2>3. Quiet(j, r)'
    <3>1. ASSUME NEW d \in agent', d.repo = r, d.do \in Writing PROVE FALSE
      <4>1. d \in agent /\ d # c
        BY <1>4, <3>1
      <4>2. d.job = j
        BY <2>1, <3>1, <4>1 DEF TrustParts, WireInv
      <4> QED BY <2>1, <3>1, <4>1, <4>2, OneCommand DEF BaseInv
    <3> QED BY <1>4, <2>1, <2>2, <3>1 DEF Quiet, Kept
  <2>4. /\ \A s \in Repos \ {r} : head'[s] = head[s] /\ commit'[s] = commit[s]
        /\ \A h \in hooks' : h \in hooks \/ h.repo = r
        /\ \/ head'[r] = head[r] /\ commit'[r] = commit[r] /\ file[r] = commit[r]
           \/ commit'[r] = file[r] /\ answer = "ok"
    BY <1>1, <1>3 DEF Commits, BaseInv, WorldOK, answer
  <2> HIDE DEF j, r
  <2>5. WireInv(j)'
    <3>1. \A n \in notes : n.repo \in Repos /\ n.repo # r
      BY <2>1, <2>2, WireRepos DEF TrustParts, WireInv, BaseInv
    <3>2. \A h \in hooks : h.repo \in Repos
      BY WireRepos DEF BaseInv
    <3>3. /\ \A d \in agent' : d.do \in Writing => d.job = j
          /\ \A h \in hooks' : Quiet(j, h.repo)'
      BY <1>4, <2>1, <2>3, <2>4, <3>2 DEF TrustParts, WireInv
    <3>4. \A n \in notes' : /\ Quiet(j, n.repo)'
                            /\ n.version \in {head'[n.repo], NoVersion}
                            /\ n.refs = file'[n.repo]
      BY <1>2, <1>4, <2>1, <2>4, <3>1 DEF TrustParts, WireInv
    <3> QED BY <3>3, <3>4 DEF WireInv
  <2>6. KnownInv(j)'
    <3>1. known' = known
      BY <1>2 DEF db
    <3>2. ASSUME NEW s \in Repos
          PROVE  known[s] = head'[s] \/ work'[j].task[s] \in {"ok", "failed"}
      <4>1. known[s] = head[s] \/ work[j].task[s] \in {"ok", "failed"}
        BY <2>1 DEF TrustParts, KnownInv
      <4>2. CASE s # r
        BY <1>4, <2>4, <4>1, <4>2
      <4>3. CASE s = r
        BY <1>4, <2>1, <2>4, <4>1, <4>3
      <4> QED BY <4>2, <4>3
    <3> QED BY <1>4, <2>1, <3>1, <3>2 DEF KnownInv, Kept
  <2>7. RefsInv(j)'
    BY <1>2, <1>4, <2>1 DEF TrustParts, RefsInv, Kept, db
  <2>8. FilesInv(j)'
    <3>1. ASSUME Acyclic(uses), NEW s \in work[j].done \cup Group(j), NEW t \in uses[s]
          PROVE  head'[t] = head[t]
      BY <1>1, <2>2, <2>4, <3>1, UsesBelow DEF BaseInv
    <3> QED BY <1>2, <1>4, <2>1, <3>1 DEF TrustParts, FilesInv, Kept, plan
  <2>9. CommitsInv(j)'
    <3>1. ASSUME work[j].hope = "commits", NEW s \in Repos
          PROVE  commit'[s] = file[s] \/ work'[j].task[s] \in {"sent", "failed"}
      <4>1. commit[s] = file[s] \/ work[j].task[s] \in {"sent", "failed"}
        BY <2>1, <3>1 DEF TrustParts, CommitsInv
      <4> QED BY <1>4, <2>4, <4>1
    <3> QED BY <1>2, <1>4, <2>1, <3>1 DEF TrustParts, CommitsInv, Kept
  <2> QED BY <2>5, <2>6, <2>7, <2>8, <2>9 DEF TrustParts
<1>6. ASSUME NEW k \in Jobs, k # j PROVE TrustInv(k)'
  BY <1>1, <1>2, <1>6, TrustForeign DEF Writing
<1> HIDE DEF j
<1> QED BY <1>5, <1>6 DEF TrustInv

(* What hooks and the user do leaves the work as it is. *)
LEMMA TrustSame ==
  ASSUME BaseInv, NEW k \in Jobs, TrustInv(k), Trusted(k)' => Trusted(k), Same(k),
         UNCHANGED <<plan, tree, db, agent>>,
         hooks' \subseteq hooks,
         \A n \in notes' : \/ n \in notes
                           \/ \E h \in hooks : /\ n.repo = h.repo /\ n.refs = file[n.repo]
                                               /\ n.version \in {head[n.repo], NoVersion}
  PROVE  TrustInv(k)'
<1> SUFFICES ASSUME Trusted(k)' PROVE TrustParts(k)'
  BY DEF TrustInv
<1>1. TrustParts(k)
  BY DEF TrustInv
<1>2. Group(k)' = Group(k) /\ Asked(k)' = Asked(k) /\ \A r : Due(k, r)' = Due(k, r)
  BY GroupStays DEF Same, Asked, Due, Updated, db
<1>3. Todo(k)' = Todo(k)
  BY <1>2 DEF Todo, Mismatched, plan, db
<1>4. \A r : Quiet(k, r)' <=> Quiet(k, r)
  BY <1>2 DEF Quiet, Same
<1>5. WireInv(k)'
  BY <1>1, <1>4 DEF TrustParts, WireInv, tree
<1>6. KnownInv(k)' /\ RefsInv(k)' /\ FilesInv(k)' /\ CommitsInv(k)'
  BY <1>1, <1>2, <1>3 DEF TrustParts, KnownInv, RefsInv, FilesInv, CommitsInv, Same, plan, tree, db
<1> QED BY <1>5, <1>6 DEF TrustParts

LEMMA TrustHook ==
  ASSUME BaseInv, NEW h \in hooks, HookReads(h) \/ HookLost(h), \A k \in Jobs : TrustInv(k)
  PROVE  \A k \in Jobs : TrustInv(k)'
<1>1. /\ hooks' \subseteq hooks
      /\ \A n \in notes' : \/ n \in notes
                           \/ /\ n.repo = h.repo /\ n.refs = file[n.repo]
                              /\ n.version \in {head[n.repo], NoVersion}
  BY DEF HookReads, HookLost
<1>2. UNCHANGED <<jobVars, plan, tree, db, agent, work>>
  BY DEF HookReads, HookLost
<1>3. ASSUME NEW k \in Jobs PROVE Same(k) /\ (Trusted(k)' <=> Trusted(k))
  BY <1>2 DEF Same, Trusted, Live, jobVars
<1> QED BY <1>1, <1>2, <1>3, TrustSame

LEMMA TrustUser ==
  ASSUME BaseInv, User, \A k \in Jobs : TrustInv(k)
  PROVE  \A k \in Jobs : TrustInv(k)'
<1>1. UNCHANGED <<plan, tree, db, wire, work>> /\ working' = working /\ cancelled \subseteq cancelled'
  BY DEF User, Abort, CloseTab
<1>2. ASSUME NEW k \in Jobs PROVE Same(k) /\ (Trusted(k)' => Trusted(k))
  BY <1>1 DEF Same, Trusted, Live
<1> QED BY <1>1, <1>2, TrustSame DEF wire

LEMMA TrustStart ==
  ASSUME BaseInv, NEW j \in Jobs, Start(j), \A k \in Jobs : TrustInv(k)
  PROVE  \A k \in Jobs : TrustInv(k)'
<1>1. PICK w \in Work : Set(j, w) /\ w.hope = "nothing"
  BY StartDoes
<1>2. SameOthers(j) /\ work'[j] = w
  BY <1>1, AfterSet DEF BaseInv, WorldOK
<1>3. working' = working \cup {j} /\ cancelled' = cancelled /\ UNCHANGED <<plan, tree, db, wire>>
  BY DEF Start, StartJob
<1>4. ASSUME NEW k \in Jobs PROVE TrustInv(k)'
  <2>1. CASE k = j
    BY <1>1, <1>2, <2>1 DEF TrustInv, Trusted
  <2>2. CASE k # j
    <3>1. Same(k) /\ (Trusted(k)' => Trusted(k))
      BY <1>2, <1>3, <2>2 DEF SameOthers, Same, Trusted, Live
    <3> QED BY <1>3, <3>1, TrustSame DEF wire
  <2> QED BY <2>1, <2>2
<1> QED BY <1>4

(* Nothing is expected any more. *)
LEMMA TrustDisturb ==
  ASSUME BaseInv, Disturb
  PROVE  \A k \in Jobs : TrustInv(k)'
BY AfterDisturb DEF TrustInv, Trusted, BaseInv, WorldOK

(* What a hook has read is what is known, or what is known is put right. *)
LEMMA TrustNotified ==
  ASSUME BaseInv, NEW n \in notes, Notified(n), \A k \in Jobs : TrustInv(k)
  PROVE  \A k \in Jobs : TrustInv(k)'
<1> DEFINE r == n.repo
<1>1. CASE n.version = NoVersion
  BY <1>1, TrustDisturb DEF Notified
<1>2. CASE n.version # NoVersion
  <2>1. /\ UNCHANGED <<jobVars, plan, tree, agent, hooks, work>> /\ notes' \subseteq notes
        /\ known' = [known EXCEPT ![r] = n.version] /\ refs' = [refs EXCEPT ![r] = n.refs]
    BY <1>2 DEF Notified
  <2>2. r \in Repos
    BY WireRepos DEF BaseInv
  <2>3. /\ known'[r] = n.version /\ \A s \in Repos \ {r} : known'[s] = known[s]
        /\ refs'[r] = n.refs /\ \A s \in Repos \ {r} : refs'[s] = refs[s]
    BY <2>1, <2>2 DEF BaseInv, WorldOK
  <2>4. ASSUME NEW k \in Jobs, Trusted(k)' PROVE TrustParts(k)'
    <3>1. TrustParts(k)
      BY <2>1, <2>4 DEF TrustInv, Trusted, Live, jobVars
    <3>2. Quiet(k, r) /\ n.version = head[r] /\ n.refs = file[r]
      BY <1>2, <3>1 DEF TrustParts, WireInv
    <3>3. ShapeInv(k) /\ WorldOK
      BY DEF BaseInv
    <3>4. work[k].step \notin {"commit", "version"} => r \in work[k].done /\ r \notin Group(k)
      BY <3>2, <3>3, LeftIsNotDone DEF Quiet
    <3>5. Same(k) /\ Group(k)' = Group(k) /\ Asked(k)' = Asked(k)
          /\ \A s : Quiet(k, s)' <=> Quiet(k, s)
      BY <2>1 DEF Same, Group, Asked, Quiet, plan
    <3> HIDE DEF r
    <3>6. WireInv(k)'
      BY <2>1, <3>1, <3>5 DEF TrustParts, WireInv, tree
    <3>7. KnownInv(k)'
      BY <2>1, <2>3, <3>1, <3>2, <3>5 DEF TrustParts, KnownInv, Same, tree
    <3>8. work[k].step = "sync" => \A s \in Group(k) : Due(k, s)' = Due(k, s)
      <4>1. ASSUME work[k].step = "sync", NEW s \in Group(k) PROVE refs'[s] = refs[s]
        <5>1. s \in Repos /\ s # r
          BY <3>3, <3>4, <4>1, LeftIsNotDone
        <5> QED BY <2>3, <5>1
      <4> QED BY <3>5, <4>1 DEF Due, Updated, Same
    <3>9. RefsInv(k)'
      <4>1. \A s \in work[k].scope : s \in Repos
        BY <3>3, LeftIsNotDone
      <4>2. work[k].step # "read" =>
              \A s \in work[k].scope : refs'[s] = file[s] \/ (work[k].step = "sync" /\ s \in Asked(k))
        BY <2>3, <3>1, <3>2, <4>1 DEF TrustParts, RefsInv
      <4>3. ASSUME work[k].step = "sync", NEW s \in Repos
            PROVE  /\ work[k].task[s] = "sent" => file[s] = refs'[s]
                   /\ work[k].task[s] \in {"ok", "same"} => file[s] = Due(k, s)'
        <5>1. work[k].task[s] # "none" => s \in Group(k)
          BY <3>3, <4>3 DEF ShapeInv, Asked
        <5> QED BY <2>3, <3>1, <3>2, <3>8, <4>3, <5>1 DEF TrustParts, RefsInv
      <4> QED BY <2>1, <3>1, <3>5, <4>2, <4>3 DEF TrustParts, RefsInv, Same, tree
    <3>10. FilesInv(k)'
      BY <2>1, <3>1, <3>5, <3>8 DEF TrustParts, FilesInv, Same, plan, tree
    <3>11. work[k].step = "payload" => Todo(k)' = Todo(k)
      <4>1. ASSUME work[k].step = "payload" PROVE known' = known
        <5>1. known[r] = head[r]
          BY <2>2, <3>1, <4>1 DEF TrustParts, KnownInv
        <5> QED BY <2>1, <2>2, <3>2, <5>1 DEF BaseInv, WorldOK
      <4>2. ASSUME work[k].step = "payload", NEW s \in Group(k) PROVE refs'[s] = refs[s]
        <5>1. s \in Repos /\ s # r
          BY <3>3, <3>4, <4>2, LeftIsNotDone
        <5> QED BY <2>3, <5>1
      <4> QED BY <2>1, <3>5, <4>1, <4>2 DEF Todo, Mismatched, plan
    <3>12. CommitsInv(k)'
      BY <2>1, <3>1, <3>5, <3>11 DEF TrustParts, CommitsInv, Same, tree
    <3> QED BY <3>6, <3>7, <3>9, <3>10, <3>12 DEF TrustParts
  <2> QED BY <2>4 DEF TrustInv
<1> QED BY <1>1, <1>2

LEMMA TrustAgent ==
  ASSUME BaseInv, NEW c \in agent, \A k \in Jobs : TrustInv(k),
         AgentReads(c) \/ AgentSyncs(c) \/ AgentCommits(c) \/ AgentVersions(c) \/ AgentFails(c)
  PROVE  \A k \in Jobs : TrustInv(k)'
<1>1. /\ c.repo \in Repos /\ c.to \in Refs
      /\ file[c.repo] \in Refs /\ NoRefs \in Refs /\ head[c.repo] \in Nat /\ NoVersion \in Nat
  BY CommandParts, PayloadType DEF BaseInv, WorldOK, NoVersion
<1>2. {"ok", "same", "answered", "failed"} \subseteq Answer \ {"none"}
  BY DEF Answer
<1>3. CASE AgentReads(c)
  BY <1>1, <1>2, <1>3, TrustEndsReading DEF AgentReads
<1>4. CASE AgentSyncs(c)
  <2> DEFINE new == Updated(file[c.repo], c.to)
             answer == IF file' = file THEN "same" ELSE "ok"
  <2>1. /\ c.do = "sync" /\ file' = [file EXCEPT ![c.repo] = new] /\ Ends(c, answer, NoRefs)
        /\ UNCHANGED <<jobVars, plan, head, commit, edits, db, hooks, notes>>
    BY <1>4 DEF AgentSyncs
  <2>2. new \in Refs /\ answer \in Answer
    BY <1>1, <1>2, UpdatedType
  <2>3. answer = "ok" \/ (answer = "same" /\ file' = file)
    OBVIOUS
  <2> HIDE DEF answer
  <2> QED BY <2>1, <2>2, <2>3, TrustEndsWriting
<1>5. CASE AgentCommits(c)
  BY <1>5, TrustCommits
<1>6. CASE AgentVersions(c)
  <2>1. PICK v \in {head[c.repo], NoVersion} : Ends(c, "answered", [NoRefs EXCEPT ![c.repo] = v])
    BY <1>6 DEF AgentVersions
  <2> DEFINE got == [NoRefs EXCEPT ![c.repo] = v]
  <2>2. got \in Refs /\ got[c.repo] = v
    BY <1>1, <2>1, GotVersion
  <2>3. Ends(c, "answered", got)
    BY <2>1
  <2> HIDE DEF got
  <2> QED BY <1>2, <1>6, <2>1, <2>2, <2>3, TrustEndsReading DEF AgentVersions
<1>7. CASE AgentFails(c)
  <2>1. Ends(c, "failed", NoRefs) /\ UNCHANGED <<jobVars, plan, head, commit, edits, db, hooks, notes>>
    BY <1>7 DEF AgentFails
  <2>2. CASE c.do = "sync"
    <3>1. PICK part \in SUBSET uses[c.repo] :
            file' = [file EXCEPT ![c.repo] =
                       Updated(@, [s \in Repos |-> IF s \in part THEN c.to[s] ELSE NoVersion])]
      BY <1>7, <2>2 DEF AgentFails
    <3> DEFINE to  == [s \in Repos |-> IF s \in part THEN c.to[s] ELSE NoVersion]
               new == Updated(file[c.repo], to)
    <3>2. to \in Refs
      BY <1>1 DEF Refs
    <3>3. file' = [file EXCEPT ![c.repo] = new]
      BY <3>1
    <3> HIDE DEF to
    <3>4. new \in Refs
      BY <1>1, <3>2, UpdatedType
    <3> HIDE DEF new
    <3> QED BY <1>2, <2>1, <2>2, <3>3, <3>4, TrustEndsWriting
  <2>3. CASE c.do # "sync"
    <3>1. file' = file
      BY <1>7, <2>3 DEF AgentFails
    <3> QED BY <1>1, <1>2, <2>1, <3>1, TrustEndsReading DEF tree
  <2> QED BY <2>2, <2>3
<1> QED BY <1>3, <1>4, <1>5, <1>6, <1>7

LEMMA TrustStep ==
  ASSUME BaseInv, \A k \in Jobs : ShapeInv(k)', \A k \in Jobs : TrustInv(k), Next
  PROVE  \A k \in Jobs : TrustInv(k)'
<1>1. ASSUME NEW j \in Jobs, Start(j) PROVE \A k \in Jobs : TrustInv(k)'
  BY <1>1, TrustStart
<1>2. ASSUME NEW j \in Jobs, NEW how, End(j, how), UNCHANGED <<plan, tree, db, hooks, notes>>
      PROVE  \A k \in Jobs : TrustInv(k)'
  BY <1>2, TrustEnd DEF BaseInv
<1>3. ASSUME NEW j \in Jobs, Begin(j) PROVE \A k \in Jobs : TrustInv(k)'
  <2>1. work \in [Jobs -> Work]
    BY DEF BaseInv, WorldOK
  <2> QED BY <1>2, <1>3, <2>1, BeginDoes, TrustBegin
<1>4. ASSUME NEW j \in Jobs, Final(j) \/ Unwind(j) PROVE \A k \in Jobs : TrustInv(k)'
  BY <1>2, <1>4 DEF Final, Unwind
<1>5. ASSUME NEW j \in Jobs, ReadDone(j) \/ NextLevel(j) \/ BeginSync(j) \/ SyncDone(j)
      PROVE  \A k \in Jobs : TrustInv(k)'
  BY <1>5, TrustReadDone, TrustNextLevel, TrustBeginSync, TrustSyncDone
<1>6. ASSUME NEW j \in Jobs, BeginCommit(j) \/ SkipCommit(j) \/ CommitDone(j) \/ VersionDone(j)
      PROVE  \A k \in Jobs : TrustInv(k)'
  BY <1>6, TrustBeginCommit, TrustSkipCommit, TrustCommitDone, TrustVersionDone
<1>7. ASSUME NEW j \in Jobs, NEW r \in Repos, LoseAnswer(j, r) \/ SaveVersion(j, r)
      PROVE  \A k \in Jobs : TrustInv(k)'
  BY <1>7, TrustLoseAnswer, TrustSaveVersion
<1>8. ASSUME AgentNext PROVE \A k \in Jobs : TrustInv(k)'
  BY <1>8, TrustAgent, TrustHook DEF AgentNext
<1>9. ASSUME NEW n \in notes, Notified(n) PROVE \A k \in Jobs : TrustInv(k)'
  BY <1>9, TrustNotified
<1>10. ASSUME NEW r \in Edited, Edit(r) PROVE \A k \in Jobs : TrustInv(k)'
  BY <1>10, TrustDisturb DEF Edit
<1>11. ASSUME User PROVE \A k \in Jobs : TrustInv(k)'
  BY <1>11, TrustUser
<1> QED BY <1>1, <1>3, <1>4, <1>5, <1>6, <1>7, <1>8, <1>9, <1>10, <1>11 DEF Next, WorkNext

-----------------------------------------------------------------------------
(* The invariant, and what it says. *)

IInv == BaseInv /\ \A j \in Jobs : TrustInv(j)

LEMMA HeadStep ==
  ASSUME WorldOK, HeadInv, Next
  PROVE  HeadInv'
<1>1. ASSUME NEW r \in Repos, NEW names, Commits(r, names) PROVE HeadInv'
  <2>1. ASSUME NEW s \in Repos PROVE head'[s] >= 1
    <3>1. head[s] \in Nat /\ head[s] >= 1 /\ head' = [head EXCEPT ![r] = head[r] + 1]
      BY <1>1 DEF WorldOK, HeadInv, Commits
    <3> QED BY <3>1 DEF WorldOK
  <2> QED BY <2>1 DEF HeadInv
<1>2. ASSUME head' = head PROVE HeadInv'
  BY <1>2 DEF HeadInv
<1>3. ASSUME NEW c \in agent, AgentCommits(c) PROVE HeadInv'
  BY <1>1, <1>2, <1>3, CommandParts DEF AgentCommits
<1>4. ASSUME NEW r \in Edited, Edit(r) PROVE HeadInv'
  BY <1>1, <1>4, UpdateAssumption DEF Edit
<1>5. ASSUME NEW c \in agent, AgentReads(c) \/ AgentSyncs(c) \/ AgentVersions(c) \/ AgentFails(c)
      PROVE  head' = head
  BY <1>5 DEF AgentReads, AgentSyncs, AgentVersions, AgentFails, tree
<1>6. ASSUME NEW h \in hooks, HookReads(h) \/ HookLost(h) PROVE head' = head
  BY <1>6 DEF HookReads, HookLost, tree
<1>7. ASSUME NEW j \in Jobs, Start(j) \/ WorkNext(j) PROVE head' = head
  BY <1>7 DEF Start, WorkNext, Begin, ReadDone, NextLevel, BeginSync, SyncDone, BeginCommit, SkipCommit,
              CommitDone, VersionDone, Final, Unwind, LoseAnswer, SaveVersion, tree
<1>8. ASSUME User \/ \E n \in notes : Notified(n) PROVE head' = head
  BY <1>8 DEF User, Notified, tree
<1> QED BY <1>2, <1>3, <1>4, <1>5, <1>6, <1>7, <1>8 DEF Next, AgentNext

LEMMA IInit == Init => IInv
<1> SUFFICES ASSUME Init PROVE IInv
  OBVIOUS
<1>1. WorldOK /\ JobInv /\ \A j \in Jobs : ShapeInv(j)
  BY WorldInit, JobInvInit, ShapeInit DEF Init
<1>2. working = {} /\ agent = {} /\ level = Levels(uses) /\ head = [r \in Repos |-> 1]
  BY DEF Init, JobsInit
<1>3. StartedInv /\ HeadInv /\ CommandInv
  BY <1>2 DEF StartedInv, HeadInv, CommandInv
<1>4. \A j \in Jobs : TrustInv(j)
  BY <1>2 DEF TrustInv, Trusted, Live
<1> QED BY <1>1, <1>2, <1>3, <1>4 DEF IInv, BaseInv

LEMMA INext == IInv /\ Next => IInv'
<1> SUFFICES ASSUME IInv, Next PROVE IInv'
  OBVIOUS
<1> USE DEF BaseInv
<1>1. BaseInv
  BY DEF IInv
<1>2. JobStep \/ UNCHANGED jobVars
  BY NextJobStep
<1>3. JobInv' /\ StartedInv'
  BY <1>1, <1>2, JobInvStep, StartedStep DEF JobInv
<1>4. WorldOK' /\ HeadInv'
  BY <1>1, WorldStep, HeadStep
<1>5. level' = Levels(uses)'
  BY <1>1, PlanIsFixed DEF plan
<1>6. \A j \in Jobs : ShapeInv(j)'
  BY <1>1, ShapeStep
<1>7. CommandInv'
  BY <1>1, <1>6, CommandStep DEF JobInv
<1>8. \A j \in Jobs : TrustInv(j)'
  BY <1>1, <1>6, TrustStep DEF IInv
<1> QED BY <1>3, <1>4, <1>5, <1>6, <1>7, <1>8 DEF IInv

LEMMA IStutter == IInv /\ UNCHANGED vars => IInv'
<1> SUFFICES ASSUME IInv, UNCHANGED vars PROVE IInv'
  OBVIOUS
<1>1. BaseInv /\ UNCHANGED <<jobVars, plan, tree, db, wire, work>>
  BY DEF IInv, vars
<1>2. \A k \in Jobs : Same(k) /\ (Trusted(k)' <=> Trusted(k))
  BY <1>1 DEF Same, Trusted, Live, jobVars
<1>3. JobInv' /\ StartedInv'
  BY <1>1, JobInvStep, StartedStep DEF BaseInv, JobInv
<1>4. WorldOK' /\ HeadInv' /\ level' = Levels(uses)'
  BY <1>1 DEF BaseInv, WorldOK, HeadInv, plan, tree, db, wire
<1>5. \A k \in Jobs : ShapeInv(k)'
  BY <1>1, <1>2, ShapeFrame DEF BaseInv, jobVars
<1>6. CommandInv'
  BY <1>1, CommandsSame DEF BaseInv, JobInv, Kept, wire
<1>7. \A k \in Jobs : TrustInv(k)'
  BY <1>1, <1>2, TrustSame DEF IInv, wire
<1> QED BY <1>3, <1>4, <1>5, <1>6, <1>7 DEF IInv, BaseInv

LEMMA IInvHolds == Spec => []IInv
BY IInit, INext, IStutter, PTL DEF Spec

(* Every variable of an update keeps its type: what the work has to do and what it
   has done are apart, and it waits for commands of repositories that it has to do
   (DependencyUpdateOrchestrator.RunAsync). *)
THEOREM UpdateTypeCorrect == Spec => []TypeOK
<1>1. IInv => TypeOK
  <2> SUFFICES ASSUME IInv PROVE TypeOK
    OBVIOUS
  <2>1. WorldOK /\ JobsTypeOK /\ \A j \in Jobs : ShapeInv(j)
    BY DEF IInv, BaseInv, JobInv
  <2>2. ASSUME NEW j \in Jobs
        PROVE  /\ work[j].step # "none" <=> j \in working
               /\ work[j].left \cup work[j].done \subseteq work[j].scope
               /\ work[j].left \cap work[j].done = {}
               /\ work[j].step \in {"sync", "commit", "version"} =>
                    Asked(j) # {} /\ Asked(j) \subseteq work[j].left
    BY <2>1, LeftIsNotDone DEF ShapeInv
  <2> QED BY <2>1, <2>2 DEF TypeOK, WorldOK, AgentCommand, Hook, Note
<1> QED BY IInvHolds, <1>1, PTL

(* On every graph without a cycle: an update that began when everything before it
   was over, and that nobody has disturbed, leaves on the levels it has done only
   references to the versions there are. *)
THEOREM LevelsAreCompleteHolds == Spec => []LevelsAreComplete
<1>1. IInv => LevelsAreComplete
  <2>1. ASSUME IInv, Acyclic(uses), NEW j \in working \ cancelled, work[j].hope # "nothing",
               NEW r \in work[j].done, NEW s \in uses[r]
        PROVE  file[r][s] = head[s]
    <3>1. j \in Jobs /\ TrustParts(j)
      BY <2>1 DEF IInv, BaseInv, JobInv, JobsTypeOK, TrustInv, Trusted, Live
    <3> QED BY <2>1, <3>1 DEF TrustParts, FilesInv
  <2> QED BY <2>1 DEF LevelsAreComplete
<1> QED BY IInvHolds, <1>1, PTL

(* ... and, when the files were clean and the agent was there, these references are
   committed and the versions of the commits are known. *)
THEOREM DoneIsCommittedHolds == Spec => []DoneIsCommitted
<1>1. IInv => DoneIsCommitted
  <2>1. ASSUME IInv, NEW j \in working \ cancelled, work[j].hope = "commits", NEW r \in work[j].done
        PROVE  commit[r] = file[r] /\ known[r] = head[r]
    <3>1. j \in Jobs /\ WorldOK /\ ShapeInv(j) /\ TrustParts(j)
      BY <2>1 DEF IInv, BaseInv, JobInv, JobsTypeOK, TrustInv, Trusted, Live
    <3>2. r \in Repos /\ r \notin Group(j)
      BY <2>1, <3>1, LeftIsNotDone
    <3>3. work[j].step \in {"sync", "commit", "version"} => work[j].task[r] = "none"
      BY <3>1, <3>2 DEF ShapeInv, Asked
    <3>4. work[j].step = "stage" => r \notin work[j].planned
      BY <3>1, <3>2 DEF ShapeInv
    <3> QED BY <2>1, <3>1, <3>2, <3>3, <3>4 DEF TrustParts, CommitsInv, KnownInv
  <2> QED BY <2>1 DEF DoneIsCommitted
<1> QED BY IInvHolds, <1>1, PTL

(* On every graph of the repositories: the levels exist exactly when there is no
   cycle, every repository is one level above what it refers to, and the picker of
   custom dependencies offers exactly what closes no cycle. *)
THEOREM GraphsAlwaysRight == Spec => []GraphsAreRight
<1>1. GraphsAreRight
  BY LevelsRight, PickerRight DEF GraphsAreRight
<1> QED BY <1>1, PTL
===============================================================================
