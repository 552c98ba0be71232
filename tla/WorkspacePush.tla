---------------------------- MODULE WorkspacePush ----------------------------
(***************************************************************************)
(* WorkspacePushService (App): the repositories of a workspace are pushed  *)
(* by background jobs, either all in parallel or synchronized with their   *)
(* dependencies: level by level, and a level only when the packages it     *)
(* needs are in the registry.                                              *)
(*                                                                         *)
(* A job can be aborted at every await, and while its work winds up the    *)
(* next one may run.  What the agent was asked to do it may still do, also *)
(* when the App no longer waits for the answer.                            *)
(***************************************************************************)
EXTENDS DependencyLevels, BackgroundJobs

CONSTANTS
  Graphs,         (* the dependency graphs a workspace may have              *)
  Packaged,       (* repositories that are referred to by their packages; the
                     others by version files or the user's choice            *)
  MaxConcurrent   (* WorkspaceOptions.MaxParallelOperations                  *)

ASSUME PushAssumption ==
  /\ Graphs \subseteq Graph
  /\ Packaged \subseteq Repos
  /\ MaxConcurrent \in Nat \ {0}

VARIABLES
  uses,         (* the dependency graph, fixed while repositories are pushed *)
  level,        (* WorkspaceRepositoryLink.DependencyLevel                   *)
  published,    (* repositories whose wanted packages are in the registry    *)
  remote,       (* repositories whose commits are on the remote              *)
  agent,        (* PushRepository commands the agent has not ended           *)
  push,         (* the work of a job                                         *)
  db            (* OutgoingCommits and BranchHasUpstream of a repository     *)

plan  == <<uses, level>>
world == <<published, remote, agent>>
vars  == <<jobVars, plan, world, push, db>>

Step    == {"none", "queued", "plan", "next", "wait", "push", "count"}
(* threw: the task of the push has ended with an exception. *)
Answer  == {"unsent", "sent", "ok", "failed", "threw"}
(* ahead: the push plan offers the repository; even: nothing to push; unknown:
   the counts could not be read, and the plan does not offer it. *)
Outgoing == {"ahead", "even", "unknown"}

(* sync: synchronized; repos: the payload; left: its repositories of the levels
   that are not done; task: the push of each. *)
Work ==
  [step : Step, sync : BOOLEAN, repos : SUBSET Repos, left : SUBSET Repos,
   task : [Repos -> Answer]]

NoWork ==
  [step |-> "none", sync |-> FALSE, repos |-> {}, left |-> {},
   task |-> [r \in Repos |-> "unsent"]]

TypeOK ==
  /\ JobsTypeOK
  /\ uses \in Graph
  /\ level \in [Repos -> Nat]
  /\ published \subseteq Repos
  /\ remote \subseteq Repos
  /\ agent \subseteq Jobs \X Repos
  /\ push \in [Jobs -> Work]
  /\ db \in [Repos -> Outgoing]
  /\ \A j \in Jobs :
       /\ push[j].left \subseteq push[j].repos
       /\ push[j].step # "none" <=> j \in working
       /\ Cardinality({r \in Repos : push[j].task[r] = "sent"}) <= MaxConcurrent

Init ==
  /\ JobsInit
  /\ uses \in Graphs
  /\ level = Levels(uses)
  /\ published = {}
  /\ remote = {}
  /\ agent = {}
  /\ push = [j \in Jobs |-> NoWork]
  /\ db = [r \in Repos |-> "ahead"]

-----------------------------------------------------------------------------
Move(j, step) == push' = [push EXCEPT ![j].step = step]

(* GetPushPlanPayloadAsync: the packages of the repositories on lower levels. *)
Required(r) == {s \in uses[r] \cap Packaged : level[s] < level[r]}

(* The repositories of the lowest level that is left; all of them at once in a
   push that is not synchronized. *)
Group(j) ==
  IF push[j].sync
    THEN {r \in push[j].left : \A s \in push[j].left : level[r] <= level[s]}
    ELSE push[j].left

(* Mutant: the work goes on after its task has ended. *)
EndKeeps(j, how) ==
  /\ EndWork(j, how)
  /\ UNCHANGED push

(* The work of a job ends; how is what its task ends in. *)
End(j, how) ==
  /\ EndWork(j, how)
  /\ push' = [push EXCEPT ![j] = NoWork]

(* Every await of the work is given the job's token: work that has been
   cancelled does nothing more than wind up (Unwind). *)
At(j, step) == push[j].step = step /\ j \notin cancelled

(* The user starts a push of what the page has chosen. *)
Start(j) ==
  /\ StartJob(j)
  /\ push' = [push EXCEPT ![j].step = "queued"]
  /\ UNCHANGED <<plan, world, db>>

(* Task.Run begins: the token of a disposed source cannot be read. *)
Begin(j) ==
  /\ push[j].step = "queued"
  /\ IF TokenDisposed(j)
       THEN End(j, "Faulted")
       ELSE Move(j, "plan") /\ UNCHANGED jobVars
  /\ UNCHANGED <<plan, world, db>>

(* GetPushPlanPayloadAsync, and the payload is what the page chose; or there is
   nothing to push, or no agent.  A package without a connector makes a
   synchronized push impossible: the exception is handled in the job, which
   offers a push that is not synchronized. *)
Plan(j) ==
  /\ At(j, "plan")
  /\ \/ \E sync \in BOOLEAN, repos \in (SUBSET Repos) \ {{}} :
          /\ push' = [push EXCEPT ![j] =
                [@ EXCEPT !.step = "next", !.sync = sync, !.repos = repos, !.left = repos]]
          /\ UNCHANGED jobVars
     \/ \E how \in {"Completed", "Faulted"} : End(j, how)
  /\ UNCHANGED <<plan, world, db>>

(* The next level, when there is one; else the counts of all repositories are
   read once more (only after a synchronized push). *)
NextLevel(j) ==
  /\ At(j, "next")
  /\ \/ push[j].left # {} /\ Move(j, IF push[j].sync THEN "wait" ELSE "push")
     \/ push[j].left = {} /\ Move(j, "count")
  /\ UNCHANGED <<jobVars, plan, world, db>>

(* Mutant: when the time is up the level is pushed all the same. *)
WaitGoesOn(j) ==
  /\ At(j, "wait")
  /\ Move(j, "push")
  /\ UNCHANGED <<jobVars, plan, world, db>>

(* Every package the level needs has been found; its repositories are restored
   (best effort), and pushed. *)
WaitDone(j) ==
  /\ At(j, "wait")
  /\ \A r \in Group(j) : Required(r) \subseteq published
  /\ Move(j, "push")
  /\ UNCHANGED <<jobVars, plan, world, db>>

(* A package had not been found at the deadline, which ends as a cancellation
   does; or the registry cannot be asked. *)
WaitFails(j) ==
  /\ At(j, "wait")
  /\ \E r \in Group(j) : Required(r) # {}
  /\ \/ End(j, "Aborted")
     \/ End(j, "Faulted")
  /\ UNCHANGED <<plan, world, db>>

(* A task of PushReposAsync gets its place in the semaphore. *)
HasPlace(j, r) ==
  /\ At(j, "push")
  /\ r \in Group(j)
  /\ push[j].task[r] = "unsent"
  /\ Cardinality({s \in Repos : push[j].task[s] = "sent"}) < MaxConcurrent

SendPush(j, r) ==
  /\ HasPlace(j, r)
  /\ push' = [push EXCEPT ![j].task[r] = "sent"]
  /\ agent' = agent \cup {<<j, r>>}
  /\ UNCHANGED <<jobVars, plan, published, remote, db>>

(* EnsureConnectorHealthyForRepositoryAsync: the connector is not healthy, or two
   tasks have asked the database at the same time. *)
RefusePush(j, r) ==
  /\ HasPlace(j, r)
  /\ push' = [push EXCEPT ![j].task[r] = "threw"]
  /\ UNCHANGED <<jobVars, plan, world, db>>

(* The answer of the agent reaches the task that waits for it, if one does. *)
Answered(j, r, answer) ==
  push' = [push EXCEPT ![j].task[r] =
             IF @ = "sent" /\ j \notin cancelled THEN answer ELSE @]

(* git push succeeds, or is refused. *)
AgentPushes(j, r) ==
  /\ <<j, r>> \in agent
  /\ agent' = agent \ {<<j, r>>}
  /\ \/ remote' = remote \cup {r} /\ Answered(j, r, "ok")
     \/ UNCHANGED remote /\ Answered(j, r, "failed")
  /\ UNCHANGED <<jobVars, plan, published, db>>

(* The App gives up on the answer (timeout, disconnect): a failure. *)
LoseAnswer(j, r) ==
  /\ At(j, "push")
  /\ push[j].task[r] = "sent"
  /\ push' = [push EXCEPT ![j].task[r] = "failed"]
  /\ UNCHANGED <<jobVars, plan, world, db>>

(* Mutant: the pushes of a level are started and not awaited. *)
LevelDoneEarly(j) ==
  /\ At(j, "push")
  /\ \A r \in Group(j) : push[j].task[r] # "unsent"
  /\ Move(j, "count")
  /\ UNCHANGED <<jobVars, plan, world, db>>

(* What GetCommitCounts says of a repository, or that it fails. *)
Counts(r) == {"unknown", IF r \in remote THEN "even" ELSE "ahead"}

(* The counts of these repositories are saved. *)
Save(repos) ==
  /\ db' \in [Repos -> Outgoing]
  /\ \A r \in Repos : IF r \in repos THEN db'[r] \in Counts(r) ELSE db'[r] = db[r]

(* All tasks of the level have ended.  A failure is only reported, and the
   counts of the repositories whose remote has new commits are read again. *)
LevelDone(j) ==
  /\ At(j, "push")
  /\ \A r \in Group(j) : push[j].task[r] \in {"ok", "failed"}
  /\ Move(j, "count")
  /\ \E rejected \in SUBSET {r \in Group(j) : push[j].task[r] = "failed"} : Save(rejected)
  /\ UNCHANGED <<jobVars, plan, world>>

(* All have ended, and one has thrown: the work ends with its exception. *)
LevelThrows(j) ==
  /\ At(j, "push")
  /\ \A r \in Group(j) : push[j].task[r] \notin {"unsent", "sent"}
  /\ \E r \in Group(j) : push[j].task[r] = "threw"
  /\ End(j, "Faulted")
  /\ UNCHANGED <<plan, world, db>>

(* The repositories whose counts are updated now. *)
Counted(j) == IF push[j].left = {} THEN push[j].repos ELSE Group(j)

(* UpdateCommitCountsAndUpstreamAfterPushAsync: asks for the counts of every
   repository of the level, also of those that could not be pushed, and saves
   them.  The level is done, and with the last update the work: it is the only
   one of a push that is not synchronized. *)
UpdateCounts(j) ==
  /\ At(j, "count")
  /\ Save(Counted(j))
  /\ IF push[j].left = {} \/ ~push[j].sync
       THEN End(j, "Completed")
       ELSE /\ push' = [push EXCEPT ![j].step = "next", ![j].left = @ \ Group(j)]
            /\ UNCHANGED jobVars
  /\ UNCHANGED <<plan, world>>

(* OperationCanceledException out of what the work awaits, or what a push has
   thrown before. *)
Unwind(j) ==
  /\ push[j].step \notin {"none", "queued"}
  /\ j \in cancelled
  /\ \/ End(j, "Aborted")
     \/ (\E r \in Repos : push[j].task[r] = "threw") /\ End(j, "Faulted")
  /\ UNCHANGED <<plan, world, db>>

(* CI publishes a package, of a push of this workspace or of anyone else. *)
Publish(r) ==
  /\ r \in Packaged \ published
  /\ published' = published \cup {r}
  /\ UNCHANGED <<jobVars, plan, remote, agent, push, db>>

-----------------------------------------------------------------------------
User == (Abort \/ CloseTab) /\ UNCHANGED <<plan, world, push, db>>

WorkNext(j) ==
  \/ Begin(j) \/ Plan(j) \/ NextLevel(j) \/ WaitDone(j) \/ WaitFails(j)
  \/ LevelDone(j) \/ LevelThrows(j) \/ UpdateCounts(j) \/ Unwind(j)
  \/ \E r \in Repos : SendPush(j, r) \/ RefusePush(j, r) \/ LoseAnswer(j, r)

Next ==
  \/ \E j \in Jobs : Start(j) \/ WorkNext(j)
  \/ \E j \in Jobs, r \in Repos : AgentPushes(j, r)
  \/ \E r \in Repos : Publish(r)
  \/ User

Spec == Init /\ [][Next]_vars
-----------------------------------------------------------------------------
(* A synchronized push in a workspace without cycles never hands a repository
   to the agent before every package it uses is in the registry - whatever was
   chosen for the push, whatever failed on the levels below, and also while the
   work of an aborted push still runs. *)
PackagesBeforePush ==
  Acyclic(uses) =>
    \A j \in Jobs, r \in Repos :
      push[j].sync /\ push[j].task[r] # "unsent" => uses[r] \cap Packaged \subseteq published

(* ... nor before every chosen repository it uses has been answered for. *)
LevelsInOrder ==
  Acyclic(uses) =>
    \A j \in Jobs, r \in Repos :
      push[j].sync /\ push[j].task[r] # "unsent" =>
        \A s \in uses[r] \cap push[j].repos : push[j].task[s] \in {"ok", "failed"}

(* What the comment in UpdateCommitCountsAndUpstreamAfterPushAsync says it
   persists the remote branch for: "each pushed repo".  A repository whose push
   failed stays in the push plan. *)
UnpushedIsOffered ==
  \A r \in Repos : r \notin remote => db[r] = "ahead"

(* The part of it that the code keeps: a repository that is not on the remote may
   be shown as one whose commits nobody could count, but never as one that has
   nothing to push - whatever was refused, lost or aborted. *)
UnpushedIsNotEven ==
  \A r \in Repos : r \notin remote => db[r] # "even"
=============================================================================
