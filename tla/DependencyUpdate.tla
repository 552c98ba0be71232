-------------------------- MODULE DependencyUpdate --------------------------
(***************************************************************************)
(* DependencyUpdateOrchestrator (App): a background job walks the levels   *)
(* of a workspace from below.  On each it writes the versions that the     *)
(* database knows into the project files, commits them, and reads the      *)
(* versions those commits made, which the levels above are to name.        *)
(*                                                                         *)
(* What the database knows also changes by itself: every commit fires a    *)
(* hook of git, whose notification stores version and references           *)
(* (CommitHookSyncCommand, SyncCommandHandler).  The workspace has no      *)
(* version files.                                                          *)
(***************************************************************************)
EXTENDS DependencyLevels, BackgroundJobs

CONSTANTS
  Graphs,         (* the dependency graphs a workspace may have              *)
  Requests,       (* which repositories, up to which level, the page asks for *)
  Edited,         (* the repositories the developer commits in               *)
  MaxEdits        (* bound: how often                                        *)

ASSUME UpdateAssumption ==
  /\ Graphs \subseteq Graph
  /\ Requests \subseteq ((SUBSET Repos) \ {{}}) \X Nat
  /\ Edited \subseteq Repos
  /\ MaxEdits \in Nat

VARIABLES
  uses,         (* the dependency graph                                      *)
  level,        (* WorkspaceRepositoryLink.DependencyLevel                   *)
  head,         (* the version of a repository: grows with every commit      *)
  file,         (* the versions that its project files name                  *)
  commit,       (* ... in its last commit                                    *)
  known,        (* WorkspaceRepositoryLink.GitVersion                        *)
  refs,         (* ProjectDependency.Version                                 *)
  agent,        (* commands of the updates that the agent has not ended      *)
  hooks,        (* hook jobs the agent has not begun                         *)
  notes,        (* what hook jobs have read and the App has not stored       *)
  edits,        (* how often the developer has committed                     *)
  work          (* the work of a job                                         *)

plan  == <<uses, level>>
tree  == <<head, file, commit, edits>>
db    == <<known, refs>>
wire  == <<agent, hooks, notes>>     (* between the agent and the App         *)
vars  == <<jobVars, plan, tree, db, wire, work>>

NoVersion == 0     (* GitVersion is null; a reference that is not updated    *)
Refs      == [Repos -> Nat]
NoRefs    == [r \in Repos |-> NoVersion]

(* What the agent is asked to do, which is also the step of the work. *)
Command == {"read", "sync", "commit", "version"}
Writing == {"sync", "commit"}
Step    == {"none", "queued", "level", "payload", "stage", "final"} \cup Command
(* same: done, and nothing had to be changed or committed; answered: the answer
   has still to be stored. *)
Answer  == {"none", "sent", "ok", "same", "answered", "failed"}

(* What may be expected of a run, of which the code knows nothing: nothing, when
   it began before everything earlier was over, the developer has committed since,
   or a version could not be read; of the files only, when it found files that
   were changed and not committed, or the agent was away when it wanted to commit. *)
Hope == {"nothing", "files", "commits"}

(* left, done: the repositories of the levels to walk and of those walked; planned:
   those of the level that need an update, then those to commit; to: the payload;
   task: what became of the current command. *)
Work ==
  [step : Step, scope : SUBSET Repos, left : SUBSET Repos, done : SUBSET Repos,
   planned : SUBSET Repos, to : [Repos -> Refs], task : [Repos -> Answer],
   got : [Repos -> Refs], hope : Hope]

NoWork ==
  [step |-> "none", scope |-> {}, left |-> {}, done |-> {}, planned |-> {},
   to |-> [r \in Repos |-> NoRefs], task |-> [r \in Repos |-> "none"],
   got |-> [r \in Repos |-> NoRefs], hope |-> "nothing"]

(* The repositories that the agent has been asked about. *)
Asked(j) == {r \in Repos : work[j].task[r] # "none"}

TypeOK ==
  /\ JobsTypeOK
  /\ uses \in Graph /\ level \in [Repos -> Nat]
  /\ head \in [Repos -> Nat] /\ known \in [Repos -> Nat]
  /\ file \in [Repos -> Refs] /\ commit \in [Repos -> Refs] /\ refs \in [Repos -> Refs]
  /\ agent \subseteq [job : Jobs, repo : Repos, do : Command, to : Refs]
  /\ hooks \subseteq [repo : Repos, id : Nat]
  /\ notes \subseteq [repo : Repos, id : Nat, version : Nat, refs : Refs]
  /\ edits \in 0 .. MaxEdits
  /\ work \in [Jobs -> Work]
  /\ \A j \in Jobs :
       /\ work[j].step # "none" <=> j \in working
       /\ work[j].left \cup work[j].done \subseteq work[j].scope
       /\ work[j].left \cap work[j].done = {}
       /\ work[j].step \in {"sync", "commit", "version"} =>
            Asked(j) # {} /\ Asked(j) \subseteq work[j].left

(* A workspace in which everything is up to date. *)
Init ==
  /\ JobsInit
  /\ uses \in Graphs
  /\ level = Levels(uses)
  /\ head = [r \in Repos |-> 1]
  /\ file = [r \in Repos |-> [s \in Repos |-> IF s \in uses[r] THEN 1 ELSE NoVersion]]
  /\ commit = file
  /\ known = head
  /\ refs = file
  /\ agent = {} /\ hooks = {} /\ notes = {}
  /\ edits = 0
  /\ work = [j \in Jobs |-> NoWork]

-----------------------------------------------------------------------------
(* GetSyncDependenciesPayloadAsync: the references that do not name the version
   known of what they refer to; one whose version is not known is left alone. *)
Mismatched(r) == {s \in uses[r] : refs[r][s] # known[s] /\ known[s] # NoVersion}
Payload(r)    == [s \in Repos |-> IF s \in Mismatched(r) THEN known[s] ELSE NoVersion]

(* The references after an update to these versions. *)
Updated(old, to) == [s \in Repos |-> IF to[s] # NoVersion THEN to[s] ELSE old[s]]

(* The repositories of the lowest level that is left (GroupBy, OrderBy). *)
Group(j) == {r \in work[j].left : \A s \in work[j].left : level[r] <= level[s]}

(* Work that has been cancelled does nothing more than wind up (Unwind). *)
At(j, step) == work[j].step = step /\ j \notin cancelled

Set(j, w) == work' = [work EXCEPT ![j] = w]
Move(w, step) ==
  [w EXCEPT !.step = step, !.task = NoWork.task, !.got = NoWork.got]

(* A command for each of these repositories.  They are sent one after the other,
   at most MaxParallelOperations at a time; the agent takes them when it will. *)
Ask(j, w, do, repos) ==
  /\ Set(j, [Move(w, do) EXCEPT !.task = [r \in Repos |-> IF r \in repos THEN "sent" ELSE "none"]])
  /\ agent' = agent \cup {[job |-> j, repo |-> r, do |-> do, to |-> w.to[r]] : r \in repos}

(* The level is done. *)
LevelUp(j, w) ==
  Set(j, [Move(w, "level") EXCEPT !.left = @ \ Group(j), !.done = @ \cup Group(j),
                                  !.planned = {}, !.to = NoWork.to])

(* Mutant: the work goes on after its task has ended. *)
EndKeeps(j, how) ==
  /\ EndWork(j, how)
  /\ UNCHANGED <<work, agent>>

(* The work ends.  A command that only reads makes no difference any more; what
   writes may still be done. *)
End(j, how) ==
  /\ EndWork(j, how)
  /\ Set(j, NoWork)
  /\ agent' = {c \in agent : c.job # j \/ c.do \in Writing}

With(j, answer) == {r \in Repos : work[j].task[r] = answer}
(* Every command of the step has been answered for. *)
AllAnswered(j) == With(j, "sent") \cup With(j, "answered") = {}
AnyFailed(j)   == With(j, "failed") # {}

(* Nothing is to be expected of the updates that run. *)
Disturb ==
  work' = [j \in Jobs |-> [work[j] EXCEPT !.hope = "nothing"]]

-----------------------------------------------------------------------------
(* The user starts an update of these repositories, up to a level there is. *)
Start(j) ==
  /\ StartJob(j)
  /\ \E request \in Requests :
       LET scope == request[1]  maxLevel == request[2] IN
       /\ \E r \in Repos : level[r] <= maxLevel
       /\ Set(j, [NoWork EXCEPT !.step = "queued", !.scope = scope,
                                !.left = {r \in scope : level[r] <= maxLevel}])
  /\ UNCHANGED <<plan, tree, db, wire>>

(* Is everything over that was begun before, and known what came of it? *)
AllOver ==
  /\ \A c \in agent : c.do \notin Writing
  /\ hooks = {} /\ notes = {}
  /\ known = head

(* RunAsync begins, with an agent or without one. *)
Begin(j) ==
  /\ work[j].step = "queued"
  /\ \/ End(j, "Faulted")
     \/ /\ ~TokenDisposed(j)
        /\ LET hope == IF ~AllOver THEN "nothing"
                       ELSE IF file # commit THEN "files" ELSE "commits"
           IN  Ask(j, [work[j] EXCEPT !.hope = hope], "read", work[j].scope)
        /\ UNCHANGED jobVars
  /\ UNCHANGED <<plan, tree, db, hooks, notes>>

(* The agent ends a command; its answer reaches the work that waits for it. *)
Ends(c, answer, got) ==
  /\ c \in agent
  /\ agent' = agent \ {c}
  /\ work' = IF At(c.job, c.do) /\ work[c.job].task[c.repo] = "sent"
               THEN [work EXCEPT ![c.job].task[c.repo] = answer, ![c.job].got[c.repo] = got]
               ELSE work

(* RefreshRepositoryProjects: what the project files name now. *)
AgentReads(c) ==
  /\ c.do = "read"
  /\ Ends(c, "ok", file[c.repo])
  /\ UNCHANGED <<jobVars, plan, tree, db, hooks, notes>>

(* SyncRepositoryDependencies: the files are written. *)
AgentSyncs(c) ==
  /\ c.do = "sync"
  /\ file' = [file EXCEPT ![c.repo] = Updated(@, c.to)]
  /\ Ends(c, IF file' = file THEN "same" ELSE "ok", NoRefs)
  /\ UNCHANGED <<jobVars, plan, head, commit, edits, db, hooks, notes>>

(* A commit of a repository makes a version, and fires the hook. *)
Commits(r, names) ==
  /\ head' = [head EXCEPT ![r] = @ + 1]
  /\ commit' = [commit EXCEPT ![r] = names]
  /\ hooks' = hooks \cup {[repo |-> r, id |-> head[r] + 1]}

(* StageAndCommit: what the project files name, when that is not committed. *)
AgentCommits(c) ==
  /\ c.do = "commit"
  /\ IF file[c.repo] = commit[c.repo]
       THEN Ends(c, "same", NoRefs) /\ UNCHANGED <<head, commit, hooks>>
       ELSE Ends(c, "ok", NoRefs) /\ Commits(c.repo, file[c.repo])
  /\ UNCHANGED <<jobVars, plan, file, edits, db, notes>>

(* RefreshRepositoryVersion: the version; none when GitVersion cannot tell. *)
AgentVersions(c) ==
  /\ c.do = "version"
  /\ \E v \in {head[c.repo], NoVersion} :
       Ends(c, "answered", [NoRefs EXCEPT ![c.repo] = v])
  /\ UNCHANGED <<jobVars, plan, tree, db, hooks, notes>>

(* The command fails, or is cancelled; part of the files may have been written. *)
AgentFails(c) ==
  /\ Ends(c, "failed", NoRefs)
  /\ \E part \in SUBSET uses[c.repo] :
       file' = IF c.do = "sync"
                 THEN [file EXCEPT ![c.repo] =
                         Updated(@, [s \in Repos |-> IF s \in part THEN c.to[s] ELSE NoVersion])]
                 ELSE file
  /\ UNCHANGED <<jobVars, plan, head, commit, edits, db, hooks, notes>>

(* The App gives up on the answer (timeout, disconnect, no agent): a failure. *)
LoseAnswer(j, r) ==
  /\ j \notin cancelled
  /\ work[j].task[r] = "sent"
  /\ Set(j, [work[j] EXCEPT !.task[r] = "failed"])
  /\ UNCHANGED <<jobVars, plan, tree, db, wire>>
-----------------------------------------------------------------------------
(* RefreshWorkspaceProjectsAsync: what could be read is stored, and the run ends
   when something could not. *)
ReadDone(j) ==
  /\ At(j, "read") /\ AllAnswered(j)
  /\ refs' = [r \in Repos |-> IF r \in With(j, "ok") THEN work[j].got[r] ELSE refs[r]]
  /\ IF AnyFailed(j)
       THEN End(j, "Completed")
       ELSE Set(j, Move(work[j], "level")) /\ UNCHANGED <<jobVars, agent>>
  /\ UNCHANGED <<plan, tree, known, hooks, notes>>

(* The next level, when there is one: GetUpdatePlanAsync says which of its
   repositories need an update.  When none does the level is done. *)
NextLevel(j) ==
  /\ At(j, "level")
  /\ LET planned == {r \in Group(j) : Mismatched(r) # {}} IN
     IF work[j].left = {} THEN Set(j, Move(work[j], "final"))
     ELSE IF planned = {} THEN LevelUp(j, work[j])
     ELSE Set(j, [Move(work[j], "payload") EXCEPT !.planned = planned])
  /\ UNCHANGED <<jobVars, plan, tree, db, wire>>

(* SyncDependenciesAsync begins, unless there is no agent, and reads the database
   again: the payload need not be that of the plan. *)
BeginSync(j) ==
  /\ At(j, "payload")
  /\ LET todo == {r \in Group(j) : Mismatched(r) # {}}
         to   == [r \in Repos |-> IF r \in todo THEN Payload(r) ELSE NoRefs]
     IN
     \/ End(j, "Faulted")
     \/ todo = {} /\ LevelUp(j, work[j]) /\ UNCHANGED <<jobVars, agent>>
     \/ todo # {} /\ Ask(j, [work[j] EXCEPT !.to = to], "sync", todo) /\ UNCHANGED jobVars
  /\ UNCHANGED <<plan, tree, db, hooks, notes>>

(* The references of the repositories that did not fail are stored as updated.
   The run ends when one failed; those of the plan whose files have changed are to
   be committed. *)
SyncDone(j) ==
  /\ At(j, "sync") /\ AllAnswered(j)
  /\ refs' = [r \in Repos |-> IF r \in Asked(j) \ With(j, "failed")
                               THEN Updated(refs[r], work[j].to[r]) ELSE refs[r]]
  /\ LET toCommit == work[j].planned \cap With(j, "ok") IN
     IF AnyFailed(j) THEN End(j, "Completed")
     ELSE /\ IF toCommit = {} THEN LevelUp(j, work[j])
             ELSE Set(j, [Move(work[j], "stage") EXCEPT !.planned = toCommit])
          /\ UNCHANGED <<jobVars, agent>>
  /\ UNCHANGED <<plan, tree, known, hooks, notes>>

BeginCommit(j) ==
  /\ At(j, "stage")
  /\ Ask(j, work[j], "commit", work[j].planned)
  /\ UNCHANGED <<jobVars, plan, tree, db, hooks, notes>>

(* CommitDependencyUpdatesAsync finds no agent and returns no result, in which
   there is no error: the level is done. *)
SkipCommit(j) ==
  /\ At(j, "stage")
  /\ LevelUp(j, [work[j] EXCEPT !.hope = IF @ = "commits" THEN "files" ELSE @])
  /\ UNCHANGED <<jobVars, plan, tree, db, wire>>

(* Mutant: a repository that could not be committed is passed over. *)
CommitDoneAnyway(j) ==
  /\ At(j, "commit") /\ AllAnswered(j)
  /\ IF With(j, "ok") = {} THEN LevelUp(j, work[j]) /\ UNCHANGED agent
                           ELSE Ask(j, work[j], "version", With(j, "ok"))
  /\ UNCHANGED <<jobVars, plan, tree, db, hooks, notes>>

(* The run ends when one could not be committed, before the versions of the others
   are read. *)
CommitDone(j) ==
  /\ At(j, "commit") /\ AllAnswered(j)
  /\ \/ AnyFailed(j) /\ End(j, "Completed")
     \/ /\ ~AnyFailed(j)
        /\ IF With(j, "ok") = {} THEN LevelUp(j, work[j]) /\ UNCHANGED agent
                                 ELSE Ask(j, work[j], "version", With(j, "ok"))
        /\ UNCHANGED jobVars
  /\ UNCHANGED <<plan, tree, db, hooks, notes>>

(* SyncSingleRepositoryAsync stores the version as it was read.  Nobody takes it
   for a failure when there is none. *)
SaveVersion(j, r) ==
  /\ At(j, "version")
  /\ work[j].task[r] = "answered"
  /\ LET v == work[j].got[r][r] IN
     /\ known' = [known EXCEPT ![r] = v]
     /\ Set(j, [work[j] EXCEPT !.task[r] = "ok",
                               !.hope = IF v = NoVersion THEN "nothing" ELSE @])
  /\ UNCHANGED <<jobVars, plan, tree, refs, wire>>

(* Mutant: the versions are asked for, and the next level does not wait for them. *)
VersionDoneEarly(j) ==
  /\ At(j, "version")
  /\ LevelUp(j, work[j])
  /\ UNCHANGED <<jobVars, plan, tree, db, wire>>

VersionDone(j) ==
  /\ At(j, "version") /\ AllAnswered(j)
  /\ IF AnyFailed(j)
       THEN End(j, "Completed")
       ELSE LevelUp(j, work[j]) /\ UNCHANGED <<jobVars, agent>>
  /\ UNCHANGED <<plan, tree, db, hooks, notes>>

(* The counts are computed once more and the page is told. *)
Final(j) ==
  /\ At(j, "final")
  /\ End(j, "Completed")
  /\ UNCHANGED <<plan, tree, db, hooks, notes>>

(* OperationCanceledException out of what the work awaits. *)
Unwind(j) ==
  /\ work[j].step \notin {"none", "queued"}
  /\ j \in cancelled
  /\ End(j, "Aborted")
  /\ UNCHANGED <<plan, tree, db, hooks, notes>>

-----------------------------------------------------------------------------
(* The developer commits in a repository, with or without what the project files
   name. *)
Edit(r) ==
  /\ edits < MaxEdits
  /\ edits' = edits + 1
  /\ \E names \in {file[r], commit[r]} : Commits(r, names)
  /\ Disturb
  /\ UNCHANGED <<jobVars, plan, file, db, agent, notes>>

(* CommitHookSyncCommand, one of several that run at a time: reads the version, or
   none, and what the project files name. *)
HookReads(h) ==
  /\ h \in hooks
  /\ hooks' = hooks \ {h}
  /\ \E v \in {head[h.repo], NoVersion} :
       notes' = notes \cup
         {[repo |-> h.repo, id |-> h.id, version |-> v, refs |-> file[h.repo]]}
  /\ UNCHANGED <<jobVars, plan, tree, db, agent, work>>

(* The hook does not reach the agent, or the agent not the App. *)
HookLost(h) ==
  /\ h \in hooks
  /\ hooks' = hooks \ {h}
  /\ UNCHANGED <<jobVars, plan, tree, db, agent, notes, work>>

(* SyncCommandHandler stores it, whatever has been stored since it was read. *)
Notified(n) ==
  /\ n \in notes
  /\ notes' = notes \ {n}
  /\ known' = [known EXCEPT ![n.repo] = n.version]
  /\ refs' = [refs EXCEPT ![n.repo] = n.refs]
  /\ IF n.version = NoVersion THEN Disturb ELSE UNCHANGED work
  /\ UNCHANGED <<jobVars, plan, tree, agent, hooks>>

-----------------------------------------------------------------------------
User == (Abort \/ CloseTab) /\ UNCHANGED <<plan, tree, db, wire, work>>

WorkNext(j) ==
  \/ Begin(j) \/ ReadDone(j) \/ NextLevel(j) \/ BeginSync(j) \/ SyncDone(j)
  \/ BeginCommit(j) \/ SkipCommit(j) \/ CommitDone(j) \/ VersionDone(j) \/ Final(j) \/ Unwind(j)
  \/ \E r \in Repos : LoseAnswer(j, r) \/ SaveVersion(j, r)

AgentNext ==
  \/ \E c \in agent :
       AgentReads(c) \/ AgentSyncs(c) \/ AgentCommits(c) \/ AgentVersions(c) \/ AgentFails(c)
  \/ \E h \in hooks : HookReads(h) \/ HookLost(h)

Next ==
  \/ \E j \in Jobs : Start(j) \/ WorkNext(j)
  \/ AgentNext
  \/ \E n \in notes : Notified(n)
  \/ \E r \in Edited : Edit(r)
  \/ User

Spec == Init /\ [][Next]_vars
-----------------------------------------------------------------------------
(* For every graph of the repositories the levels are right - they exist exactly
   when there is no cycle, and every repository is one level above what it refers
   to (PersistRepositoryDependencyLevelAndDependenciesAsync) - and the picker of
   custom dependencies leaves out exactly what would close a cycle
   (GetCircularCustomDependencyRepoIdsAsync).  Graphs do not depend on the state:
   TLC looks at them before the first job and the first commit. *)
GraphsAreRight ==
  current = NoJob /\ edits = 0 =>
    \A g \in Graph : LevelsAreRight(g) /\ PickerIsRight(g)

(* Whatever earlier updates have left behind, half written and half committed: an
   update that begins when all that is over, and that nobody disturbs, leaves on
   every level that it has done only references to the versions there are now -
   also after the commits of the levels above and below. *)
LevelsAreComplete ==
  Acyclic(uses) =>
    \A j \in working \ cancelled :
      work[j].hope # "nothing" =>
        \A r \in work[j].done : \A s \in uses[r] : file[r][s] = head[s]

(* ... and these references are committed, and the version that made is known,
   when the files were clean and the agent was there. *)
DoneIsCommitted ==
  Acyclic(uses) =>
    \A j \in working \ cancelled :
      work[j].hope = "commits" =>
        \A r \in work[j].done : commit[r] = file[r] /\ known[r] = head[r]

(* The summary of DependencyUpdateOrchestrator: "Commits are required before moving
   to the next level." *)
CommittedBeforeNextLevel ==
  \A j \in working \ cancelled : \A r \in work[j].done : commit[r] = file[r]

(* No commit takes a reference back to an earlier version. *)
NeverBackwards ==
  [][\A r \in Repos : \A s \in uses[r] : commit'[r][s] >= commit[r][s]]_vars
=============================================================================
