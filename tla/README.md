# GrayMoon: TLA+ verification project

GrayMoon manages many git repositories as one workspace. `GrayMoon.App` is a
Blazor server with a SQLite database; `GrayMoon.Agent` is a process on the
developer's machine that runs git. The agent is the SignalR client of the App's
`AgentHub`, and everything the App does to a repository is a command sent over
that connection. This directory holds TLA+ models of the parts in which order,
failure and concurrency decide whether the program is right, the TLC runs that
check them on small instances, and TLAPS proofs of the main results for every
size.

## 1. Inventory

Paths are relative to `src/src/`.

| component | state it keeps | operations | hard behaviour |
|---|---|---|---|
| **Command bridge, App side** (`GrayMoon.App/Services/AgentBridge.cs`, `AgentResponseDelivery.cs`, `AgentCommandCancelSender.cs`, `AgentConnectionTracker.cs`, `Hubs/AgentHub.cs`) | pending requests with their completions, connection ids in order | `SendCommandAsync`, `Complete`, `Fail`, `FailAll`, cancel callback, `OnConnectedAsync`, `OnDisconnectedAsync` | five parties race to settle one request: reply, caller's cancel, timeout, send failure, disconnect |
| **Command bridge, agent side** (`GrayMoon.Agent/Hosted/SignalRConnectionHostedService.cs`, `JobBackgroundService.cs`, `ResponseCommandSendPipeline.cs`, `Services/CommandJobCancellationRegistry.cs`, `Queue/*.cs`) | cancellation tokens by request, bounded queues, workers | `RequestCommand`, `CancelCommand`, worker loop, response send with retry, reconnect loop | cancel before, during and after the command; a full queue; crash; lost acknowledgement and resend |
| **Agent queue telemetry** (`TrackedJobQueue.cs`, `AgentQueueStateService.cs`, `AgentHub.ReportQueueStatus`) | pending counts per workspace, the App's copy | enqueue, complete, report, clear on disconnect | write-then-increment against decrement; non-atomic decrement; reports in any order |
| **Git change refresh** (`GrayMoon.Agent/Services/GitChanges/GitStatusRefreshCoordinator.cs`) | state per repository, debounce timer, one shared completion | `MarkDirty`, `RefreshNowAsync`, scan loop, `Dispose` | coalescing; a change during a scan must lead to another scan; failure of a scan |
| **Watcher leases** (`GitRepositoryWatcherManager.cs`, `GitRepositoryWatcher.cs`) | lease count, idle timer | `Acquire`, `Release`, idle disposal | disposal racing a new lease |
| **Snapshot pipeline** (`GitChangesSnapshotCache.cs`, `GitChangesSnapshotPublisher.cs`, App `GitChangesSnapshotPushHandler.cs`, `WorkspaceGitChangesWriteQueue.cs`, `GitChangesWorkspaceScanner.cs`) | version counter, persisted snapshot | issue version, publish, persist if newer | reordering, restart of the agent |
| **Hook sync** (`HookListenerHostedService.cs`, `AgentSyncNotificationQueue.cs`, `SyncCommandHandler.cs`, `SyncBackgroundService.cs`) | notification queue, in-flight set | hook, enqueue, sync, persist | a trigger that arrives during the sync it duplicates |
| **Background jobs** (`BackgroundJobService.cs`, `BackgroundJobHandle.cs`) | one handle per key | start, report, abort, complete, closing of the tab | abort while the work still runs, beside the next job |
| **Push** (`WorkspacePushService.cs`, `PushOrchestrator.cs`, `WorkspaceProjectRepository.cs`) | push plan by dependency level | push by level, wait for packages, retry after rejection | partial failure, timeouts, dependency cycles |
| **Dependency update** (`DependencyUpdateOrchestrator.cs`, `WorkspaceGitService.cs`, `NewFeatureOrchestrator.cs`) | versions and references in the database, levels done | read, write, commit, read the version, level by level | partial failure between levels; hook notifications of its own commits; the work of an aborted run |
| **Git changes page** (`Components/Pages/WorkspaceGitChanges.Diff.cs`, `WorkspaceGitChanges.razor.cs`, `Components/GitChanges/GitDiffViewer.razor.cs` and `.razor.js`) | selected file, request version, the viewer and its Monaco editor in the browser | select, restore, load a diff, show it, remove the viewer, reload the page | answers of database, agent, browser and Monaco in any order, and exceptions; a viewer removed while it is created |
| **Git execution** (`GitProcessRunner.cs`, `GitCliRepositoryGitChangesService.cs`, `GitService.cs`) | write lock per repository, processes | run, time out, kill | lock order, timeouts |
| Connectors, pull requests, package registries, health checks, notifications | cached status of remote services | polling, HTTP | remote services |
| UI (`*.razor`, `wwwroot`), database migrations, CLI and installer | - | - | none a model checker reaches |

The App calls the agent only through `AgentBridge`; the agent calls the App
through the hub methods `ResponseCommand`, `CommandOutput`, `ReportSemVer`,
`SyncCommand`, `GitChangesSnapshotUpdated` and `ReportQueueStatus`. The hub
methods run on the connection's own dispatcher, and replies settle a completion the
caller awaits. The version and the state of a repository reach the database on several
ways that know nothing of each other: the workers of the sync queue
(`SyncBackgroundService`), the sync of a page (`WorkspaceGitService.SyncAsync`), jobs
that sync the repositories they have changed (`DependencyUpdateOrchestrator`,
`SyncToDefaultDirectAsync`), and the notifications of git hooks (`SyncCommandHandler`).
Only the snapshots of git changes, whether a scan of the agent pushes them or an answer
brings them, all go through one write queue with one worker.

### What makes each component correct

- **Command bridge.** A command is run at most once; a caller gets exactly one
  outcome and it is the true one; a caller is never left waiting, whatever is
  lost; nothing stays in a registry for ever; work nobody waits for is stopped.
- **Queue telemetry.** The counts shown are the jobs that exist.
- **Refresh coordinator.** One scan of a repository at a time; an answer is
  never older than its question; no change of the tree is forgotten; requests
  end.
- **Watcher leases.** A leased repository is watched; a watcher nobody leases
  is disposed; the table never holds a disposed one.
- **Snapshot pipeline.** When all is quiet the database shows the working tree;
  a version names one snapshot.
- **Sync queue, hook sync.** A repository is synced by one worker of the queue at a
  time, so that two of its syncs store in order, and never becomes impossible to sync; every accepted trigger is followed by a
  sync that shows what the trigger announced; one notification is persisted as
  a whole.
- **Background jobs.** Of the jobs of a key at most one works that has not been
  told to stop.
- **Push.** A repository is pushed only after what it uses: answered for, and its
  packages in the registry.
- **Dependency update.** What a level names are versions that exist, committed
  before the next level; no reference goes backwards.
- **Dependency graph.** Levels respect the edges, and an edge that would close a
  cycle is refused.
- **Git changes page.** The diff shown is that of the selected file, and the
  spinner goes away.
- **Git execution.** Two commands that write to one repository never overlap.

The hazards behind these properties are listed, each at its line, under
`hazards` in `PROJECT.json`.

## 2. Modules

| module | models | composed from |
|---|---|---|
| `AgentWire` | the SignalR connection: ordered delivery inside a connection, messages lost with it, reconnect under a new id | - |
| `AppBridge` | the App side of the bridge, one action per step between two awaits | `AgentWire` |
| `AppBridgeOpen` | `AppBridge` with an agent that may send any reply, or none; its properties and its inductive invariant | `AppBridge` |
| `AppBridgeProofs` | TLAPS proofs about `AppBridgeOpen`, with a lemma for each step of the App that `BridgeProofs` uses again | `AppBridgeOpen` |
| `AgentJobs` | the agent side: handlers, lanes, workers, registry, response retry, crash | `AgentWire` |
| `AgentJobsOpen` | `AgentJobs` with an App that sends any request and any cancel, in any order | `AgentJobs` |
| `CommandBridge` | both sides and the wire | `AppBridge`, `AgentJobs` |
| `AtMostOnceCall` | what a caller may rely on: a remote call is run at most once, and its outcome agrees with what was run | refined by `CommandBridge` |
| `BridgeProofs` | TLAPS proofs about the composition (it implements `AtMostOnceCall` and keeps the promises of the App) and about the agent with an arbitrary App | `CommandBridge`, `AgentJobsOpen`, `AppBridgeProofs` |
| `TrackedQueue` | `TrackedJobQueue` and the App's copy of its counts | - |
| `RefreshCoordinator` | `GitStatusRefreshCoordinator` with its trackers | - |
| `Mirror` | what a cache promises: the copy is a state its source has had, and never goes back to an older one | implemented by the scans of `RefreshCoordinator`, and by `SnapshotPipeline` without mutations |
| `RefreshProofs` | TLAPS proofs about `RefreshCoordinator` | `RefreshCoordinator` |
| `WatcherLeases` | `GitRepositoryWatcherManager` | - |
| `SnapshotPipeline` | version, scan, publish, queue, persist, for one repository | - |
| `SyncQueue` | `SyncBackgroundService`, with the syncs that store beside it | - |
| `SyncQueueProofs` | TLAPS proofs about the two queues with books of their own, `SyncQueue` and `TrackedQueue` | `SyncQueue`, `TrackedQueue` |
| `BackgroundJobs` | `BackgroundJobService` and its handles, for one key | - |
| `DependencyLevels` | the dependency graph, its levels, and the cycle test of the picker, as operators | - |
| `WorkspacePush` | the push of a workspace, level by level or all at once, by background jobs | `DependencyLevels`, `BackgroundJobs` |
| `DependencyUpdate` | the update of a workspace by background jobs, with the agent, git and the commit hooks | `DependencyLevels`, `BackgroundJobs` |
| `DependencyProofs` | TLAPS proofs about `DependencyLevels`, and the lemmas on jobs that both proofs below rest on | `DependencyLevels`, `BackgroundJobs` |
| `UpdateProofs` | TLAPS proofs about `DependencyUpdate` | `DependencyUpdate`, `DependencyProofs` |
| `PushProofs` | TLAPS proofs about `WorkspacePush` | `WorkspacePush`, `DependencyProofs` |
| `DiffViewer` | the diff pane: page, viewer component, script and Monaco | - |
| `GitChangesProofs` | TLAPS proofs about the three modules of the Git Changes page beside the coordinator | `WatcherLeases`, `SnapshotPipeline`, `DiffViewer` |
| `MC*` | values of the constants and symmetry sets for TLC | the module they check |

### State and actions against the code

*AppBridge.* `call` is the program counter of `SendCommandAsync` for a request;
`pending` is `AgentResponseDelivery.Pending`, `tcs` the
`TaskCompletionSource` of an entry, `fired` which of the two linked tokens have
been cancelled, `tracker` the list `AgentConnectionTracker._connectionIds`.
`BeginCall` reads the tracker and registers the callback; `AddPending` is
`TryAdd`, a separate action because the callback may run in between (`Fire`);
`SendRequest`, `SendCancelled` and `SendThrows` are the three ways the send
ends; `AwaitResult` is the end of `await task` with the exception filters in
the order the code has them. `ResponseCommand`, `OnConnected` and
`OnDisconnected` / `FailAllBegin` / `FailOne` / `FailAllEnd` are the hub
callbacks: `FailAll` enumerates a concurrent dictionary, so it visits the keys
one by one while others come and go.

*AgentJobs.* `reg` is the cancellation registry (`none`, `live`,
`cancelled`), `queue` the two lanes, `handler` the request the receive loop
is blocked on, `worker` the workers. A worker's steps are those of
`JobBackgroundService.ProcessAsync`: take, skip if cancelled, start, finish or
abort, send the reply, wait for its acknowledgement, unregister. `effect` says
what became of the git command itself and is what the abstract specification is
about. The command is opaque: it ends well, fails, is aborted or never ends.
The handler of a request registers its token, creates the job and waits for room in its
lane. A job that cannot be created is refused before the wait (`RefuseRequest`); the wait
ends when a worker takes a job from the lane (`Enqueue`), or with the process, and the
receive loop handles nothing meanwhile.

*TrackedQueue.* Each line of `EnqueueAsync` and `DecrementWorkspace` that touches
shared state is an action: write, increment, take, decrement, try-remove.

*RefreshCoordinator.* `state` and `timer` are the fields of a
`RepositoryRefreshTracker`; `sharing` the requests that await
`_pendingCompletion`; a task is one call of `RunScanAsync`, by a request or by a
timer callback. The methods that hold the tracker's lock (`MarkDirty`,
`TryBeginRefresh`, `EndRefresh`) are one action each; the scan between them is
four (gate, read, publish, end). `published` is the snapshot a scan has handed to the
publisher last. It is not the entry of `GitChangesSnapshotCache`: the commands that stage,
unstage and commit call `SetLatest` too, with versions they took before they changed the
tree, so that the entry can go back, and nothing is claimed of it (nothing reads it,
either). Their snapshots are in `SnapshotPipeline`. The content of a working tree is a
number that grows with each change.

*WatcherLeases.* `Acquire` is three steps (get or add, count, stop the timer),
`Release` two, the idle callback two; each entry of the table has an identity of
its own so that a disposed entry and its successor can be told apart.

*SnapshotPipeline.* A scan and a mutation each take a version, do their work and
read the tree; a snapshot travels through a bag (publisher calls overtake each
other), is dropped or queued, and is persisted when its version is newer or its
process another. Restarts of the agent and of the App reset what they hold in
memory.

*SyncQueue.* `inFlight`, `queue` and `open` are the concurrent dictionary, the
channel and its completion; `EnqueueSync` (check and add) and `WriteRequest` (write, or
take the key back) are two actions, as in the code. `other` are the syncs beside the queue:
`ReadOutside` is the agent's reading for a command of the page or of a job, or in a hook
job, and `PersistOutside` its arrival in the database at some later time; `storedBy` has
no counterpart in the code and tells which of the two ways stored last.

*BackgroundJobs.* `current` is the entry of `_jobs`, `shown` the `State` of a
handle, `cancelled` its token source, `working` the tasks that have not ended.
`StartJob`, `Abort` and `CloseTab` run on the dispatcher of the circuit and are
atomic; `EndWork` is the end of the task. The modules that extend this one say
what the work does.

*DependencyLevels.* `Placed` is the queue of
`PersistRepositoryDependencyLevelAndDependenciesAsync`, a round per step; `Round` and
`Levels` are `levelByRepo` and what is persisted. `Reached` is the search of
`WouldCreateCycleOnAdd`. Both are recursive functions.

*WorkspacePush.* `push[j]` is the program counter and the locals of
`RunPushAsync`: the plan, the levels left, and the task of each repository.
`agent` are the push commands the agent has not ended: it may push after the App
has given up. The wait for packages may end with its packages (`WaitDone`) or by
its timeout or an exception (`WaitFails`). `db` is what the next plan is made of.

*DependencyUpdate.* `work[j]` is the program counter and the locals of `RunAsync`
and of the methods of `WorkspaceGitService` it calls; `task` is what became of the
current command in each repository. `head`, `file` and `commit` are the repository
on disk, `known` and `refs` the database. A commit makes a hook job (`hooks`), which
reads version and project files at some later time and sends a notification
(`notes`), which the App stores without a look at what is there. `hope` has no
counterpart in the code: it records what a reader may expect of a run, so that the
properties can name their conditions (a run that began when everything earlier was
over; files clean; agent there) and demand everything else.

*DiffViewer.* `step` is where each load is in `LoadDiffAsync`, `requestVersion` is
`_diffRequestVersion`, `phase` the initialisation of a viewer, `calls` the ordered
calls to the browser, `awaiting` those that wait for `ensureMonacoLoaded`, `shows`
the models of an editor. `diff` and `error` are `_selectedDiff` and `_diffError`, which the
page may have and display at the same time; `failed` is `_errorMessage`, with which the
page shows no viewer although a file is selected (`ReloadFails`), until the next reload
creates a new one without a load (`ReloadBegins`). `LoadThrows` is the catch block of
`LoadDiffAsync`: it writes the error whatever has been selected meanwhile.

## 3. What the runs check

Every run is exhaustive for its bounds and finishes in at most a few minutes.
The last two are findings: the property says what a comment of the code says,
and the run ends with an execution of the code that does not satisfy it
(section 6).

| run | question | bounds |
|---|---|---|
| `AppBridge` | does one call see exactly one, true outcome, does it leave nothing behind, and does it return | 1 request, 2 connections, 2 messages under way: a reply on the old connection, a disconnect and a new connection can all meet the call |
| `AgentJobs` | do tokens and jobs fit; does a cancel before the start win, does a cancelled job leave its worker, and does a cancel on a live connection stop its command unless the receive loop is blocked for good | 3 requests, 1 worker, one lane of one place: with one command running and one queued, the third finds the lane full and blocks the receive loop, with the cancel of the first behind it; cancels of 1 of them; 2 connections, so that the agent may lose its connection or crash and forget its registry between any two steps |
| `CommandBridge` | do App, wire and agent together implement `AtMostOnceCall`, and has abandoned work a cancelled token or a cancel on its connection | 1 request, 2 connections, 1 worker; crash and lost acknowledgement between every two steps |
| `Refresh` | no stale answer, no forgotten change, are the published snapshots of scans a `Mirror` of the working trees, requests end, and a change of one repository reaches a snapshot although another keeps the gate busy | 2 repositories, a request and a timer callback, 1 place at the gate |
| `Watchers` | is the table right, and does an idle watcher leave | 3 leases and 3 entries of one repository |
| `Snapshots` | does the database end up with the working tree | 1 mutation, 2 changes, 3 versions, a write queue of 2, restarts of both programs at any time |
| `SyncQueue` | no repository stuck, do the syncs of the queue store in order beside syncs outside it, no request lost while queued | 2 repositories, 2 calls, 2 workers, 1 sync outside the queue of one of the repositories, 2 changes |
| `Push` | one live job; a repository is pushed only after the packages and the repositories it uses | 2 repositories, an acyclic and a cyclic graph, 2 jobs, 2 pushes at once |
| `DiffViewer` | an editor that is displayed never comes to rest on another file than the selected one, and the spinner goes away | 2 loads, 2 viewers, `TimelyPolls` |
| `Update` | the levels done name the versions there are, committed and known; levels and picker right on all graphs | a chain of 3 repositories, 2 jobs, 1 commit of the developer in the lowest; for the levels and the picker all 64 graphs on 3 nodes |
| `AppBridge_BlocksForever` | "never blocks forever" (finding 1) | 1 request, 1 connection |
| `Refresh_Stuck` | "after a debounce window, exactly one authoritative git status scan runs" (finding 2) | 1 repository, 1 request, 1 callback |

Further configurations are kept for runs by hand; they have been run to the end:
`AgentJobs_TwoConnections.cfg` (two workers over a crash and a reconnect; also
`OneWorkerPerJob` and `StartedOnce`) and `TrackedQueue.cfg` on `TrackedQueue` itself (the
total of the queue telemetry comes back to the work there is; 2 jobs, 2 workspaces,
2 workers). `CommandBridge`
has also been run with two calls that share a worker and a lane, on one connection. `DependencyUpdate` has also been
run with one job, any request, any repository edited and two edits.

Some properties that section 5 proves are in no configuration. TLC has checked them by
hand before they were proved, each in place of the properties of the named one:

| property | configuration, and what was changed |
|---|---|
| `AppBridgeOpen!DisconnectFailsPending` | `AppBridge.cfg`, `MaxReplies` 1 |
| `RefreshCoordinator!NoWaiterLeftBehind` | `Refresh.cfg`, specification `Spec` |
| `WatcherLeases!NoWatcherLeftBehind` | `Watchers.cfg`, specification `LeasesSpec` |
| `SnapshotPipeline!PageMirrorsTree` | `Snapshots.cfg` with `Mutations = {}`, `MaxContent` 3, `MaxVersion` 4, `MaxQueue` 2; with a mutation TLC finds it violated |
| `DiffViewer!EditorGoesWithViewer` | `DiffViewer.cfg`, specification `ViewerSpec` |
| `WorkspacePush!UnpushedIsNotEven` | `Push.cfg` |

*Why the bounds are enough.* The races are between two parties over one request,
entry, key or repository; each run has both parties and one more of whatever they
can meet (a second connection, worker, request, lease or job), and the queue length
at which a bounded queue is full. Two connections are enough for every stale
message because a third only repeats the second; two changes tell "older", "same"
and "newer" apart where one version can be compared with another. A chain of three
repositories has a level below, one between and one above; a second job is what an
aborted one can meet, and a third could start only after the second was aborted in
its turn. Of two loads one is stale and one selected; three, of which one is in between,
have been run with one viewer. The second viewer is the one created after the first has
left, with the selection or with a failed reload.

Every bound is a constant: `MaxInFlight` bounds the messages under way to the agent and
`MaxReplies` those to the App, `MaxConns` the connections ever opened, `MaxChanges` and `MaxContent` the
changes, `MaxVersion` the versions issued, `MaxQueue` is the App's write queue,
`Callbacks` the timer callbacks running at once, `Jobs` the jobs ever started,
`Edited` and `MaxEdits` the developer's commits,
`Requests` what the page may ask of an update, `Cancels` the commands that are cancelled
in `AgentJobsOpen`, `Others` and `Outside` the syncs beside the queue and their repositories, `MaxLoads` and `MaxViewers` the files
selected and the viewers created. `MaxConcurrent` is the code's own option.
`TimelyPolls` is an assumption: a call that waits for the editor polls every 25 ms,
and its next poll comes before the answers to a selection made later. Without it
`ShownIsSelected` is violated (section 6).

*Mutants.* Each module holds, next to an action, the ways in which that code
could plausibly be wrong (comments "Mutant: ..."); every checked property fails
for at least one of them. No specification uses them.

*Deadlock* is not checked where all calls may be over and nothing is left to do
(all jobs started, all files selected); `RefreshCoordinator` and `TrackedQueue` cannot
stop and are checked.

*Symmetry* permutes requests, jobs, tasks, leases or keys in safety runs only.

## 4. Fairness

- `AppFairness`: the App's threads go on after a completed await, hub callbacks
  run, and the timeout token of a call fires in the end (`CancelAfter`). Nothing
  is assumed of the agent or the wire: `CallsReturn` needs neither.
- `AgentFairness`: the receive loop and the workers go on, and a send ends
  (acknowledged, given up after the retries, or broken by the connection). The
  command itself is *not* assumed to end; it is assumed to react to its token,
  because `GitProcessRunner` kills the process. Nor is the wait of the handler for room in
  a full lane: it ends when a worker takes a job, and if the commands ahead do not end it
  never does. `CancelStopsCommand` names this case as its exception (`[]Blocked`).
- `RefreshCoordinator`: weak fairness for delivered events and started tasks;
  strong fairness for entering the gate (`SemaphoreSlim` is first come, first
  served) and for the timer (the number of callbacks is bounded only in the
  model). No assumption that a tree stops changing: `RequestsEnd` names that
  condition itself, `ChangesAreScanned` does not need it.
- `WatcherLeases`: a command that holds a lease ends and timers elapse. No
  assumption that anybody ever leases again.
- `SyncQueue`: a call of `EnqueueSync` that has begun goes on, and so do the
  workers; the sync ends because a bridge call does (`CallsReturn`). Nothing is assumed
  of the syncs outside the queue.
- `DiffViewer`: a call that waits polls again or gives up, the database and the
  agent answer or time out (`CallsReturn`), and so do calls of the browser (the default
  timeout of JS interop). Monaco may never be loaded.
- `WorkspacePush` and `DependencyUpdate` state no fairness: their properties are
  about what must not happen before something else has.

## 5. What is proved

All theorems hold for every value of the constants that satisfies the named
assumptions of the modules. Each follows the same plan: an inductive invariant
(`IInv`, `AppInv`, ...), one lemma per action with one step per part of `IInv`, a lemma
for the whole next-state relation, and the properties as corollaries. TLC checked
each invariant on small instances before it was proved. Some properties are proved
and no longer run: `CancelReleasesCaller`, `SettledOnce`, `OneSyncPerKey`,
`OneScanPerRepo`, `SnapshotsInOrder` (what `Mirror` says of the copy alone).

**`AppBridgeProofs`** assumes `Requests` and `Conns` of any size. The properties
are not inductive by themselves: `NoLostWaiter` fails after a step from a state
in which an entry is pending but its completion already settled. `AppInv` is
`AppOpenTypeOK` and, for each request, `WaitInv`: an entry is pending only while its
completion is open; an open completion of a call past `AddPending` is pending,
or its token fired early; a completion that is `canceled` has a fired token; the
outcome is set exactly when the call has returned and agrees with the
completion. `Invariance` proves `AppOpenInit`, each action and the stutter;
`TypeCorrect`, `WaitersCanBeReleased`, `CancellationReleases`,
`RegistryDoesNotLeak` and `OutcomesAreExplained` follow from `AppInv`,
`SettlementIsFinal` is the action property, from `AppInv` before the step.

`DisconnectSettles` is about two moments of one disconnect. `FailAll` copies the keys of
the registry and visits them while other threads add, remove and settle entries. `Doomed`
says of an entry that was in `Pending` when the connection left the tracker where it is
until then: settled; or still in `Pending` with `FailAll` not begun; or among the keys that
are still to be visited. No step leads out of it (`DoomedStays`), and when the hub is
done only the first is left. The comment promises it for every call in flight, which is
false (`DisconnectFailsInFlight`, section 6): the theorem names the part that is true.

**`BridgeProofs`** assumes `AgentAssumption` and `MaxConnsAssumption`: any calls, workers,
connections and capacities. It proves theorems about two specifications, the agent with
an arbitrary App (`AgentJobsOpen`) and the agent with the App of the code
(`CommandBridge`), from one invariant of the agent and the wire, `AgentInv`, which every
step of the agent keeps whatever the App is. Of each request it says (`JobInv`):

- `OnePlace`: a request is on the wire of one connection, or with the receive loop, or in
  one queue, or with one worker, and there once.
- `EffectFits`: until a worker has looked at the token of a request its command has not
  begun, and while a worker runs it, it is running.
- `TokenFits` ties the registry to the jobs; a cancel that comes early or late only leaves
  a `cancelled` token, never a `live` one.
- `OkIsDone`: wherever the agent or the wire says "ok" of a request, the command is done,
  and done is for ever, crashes included.

Each App adds what it knows. `OpenInv` adds to it that what has not been sent is nowhere;
`IInv` adds for each call that it is nowhere before it is sent (`Unsent`) and that
a completion with "ok" is true (`CallInv`). `SendRequest` is the only step that puts a
request anywhere, and in both it sends one that was nowhere. Most steps leave a request
as it is (`JobStill`, `StillKeeps`); a lemma per action says which request it does not, and
treats that one by itself.

- *The agent with any App.* `AgentTypeCorrect` and `AgentTokensFitJobs` are parts of
  `OpenInv`. `CancelAlwaysWins` looks at a whole step:
  a request that is sent, not done and cancelled keeps its token `cancelled` until a worker
  has looked at it, or has been lost with a connection or a crash and is nowhere
  (`Void`); no step takes it from there to a command that begins. `CommandsStartOnce`
  follows from `EffectFits`.
- *The composition.* `BridgeIsAtMostOnce` is a refinement: `CallerView` is what the
  caller knows of a call, the effect of a command is the agent's own variable. That every
  step is a step of `AtMostOnceCall` or none needs to know, when a worker starts a command,
  that it has not started before, and when a caller gets "ok", that the command is done.
  `TokensFitJobs` and `JobsHaveOneWorker` are the same facts with the App of the code.
- *The App's promises in the composition.* `AppBridgeProofs` lets the agent send anything,
  so that of the agent's steps its invariant needs no more than that the wire keeps its
  types and the App's variables are left alone. The types of the wire are part of `AgentInv`.
  `BridgeTypeCorrect`, `BridgeKeepsCallers`, `BridgeSettlesOnce` and
  `BridgeDisconnectSettles` follow: what was shown of the App alone holds with this agent,
  with no bound on the messages under way.
- *Abandoned work.* `AbandonedIsCancelled` joins both sides. Once a caller has given up
  and the agent is still on the connection of the call, the cancel is on that connection,
  or the token is cancelled, or the request is nowhere at the agent (`ToldInv`): a cancel
  leaves the wire only into the registry (`CancelArrives`), and a cancelled token is given
  up only with its job (`TokenStays`). That the cancel was sent to the right connection is
  `ConnInv`: `NotifyCancel` sends to the first one the tracker has, the call was sent to
  what was the first one then, and as long as the agent is on it nobody takes it out.
  A command runs only at a worker (`RunInv`), which is not nowhere.

The proof found `CancelBeforeStartWins` to be too strong as it was first written, and TLC
confirmed it with a second connection: the registry is in memory, so an agent that gets
the cancel, crashes and comes back has forgotten it, and a request that is sent after
that runs. The App of the code never does this (it cancels only what it has sent);
the property now says `r \in sent`, and the run has two connections.

**`SyncQueueProofs`** assumes that there is a repository (`SyncAssumption`); the
calls and the workers may be any number. `OneSyncPerKey` is not inductive: that
two workers never have the same key depends on the queue, which depends on who
may write to it. `OnePlace` says it all at once: a key in flight is held by one
caller that has still to write it, or is in the queue once, or is with one
worker. `AllInFlight` adds that wherever a key is, it is in `_inFlightRequests`,
which is what makes `EnqueueSync` skip it. `ReadIsNewer` relates what a worker has
read to what is stored: as long as the queue has stored last, what a worker has read and
not yet saved is not older than what is stored, because with one worker per key no other
one stores between its read and its save. `StoresInOrder` follows: where a save goes back,
a sync outside the queue has stored before it, or is the one that saves. Nothing of the
kind holds of those (section 6, `SyncQueue!NeverBackwards`). Two lemmas on
sequences (`QueueAppend`, `QueueTake`) say what a write and a read do to the queue
as a set.

For `TrackedQueue` the theorems assume that there are finitely many jobs. `CountsInv` is
what makes `TotalCountsWork` true between the steps as well: the total is the number of
jobs that have been added less the number that have been taken off, which may be another
job's turn. Nothing of the kind is true of the count of a workspace, which is kept from
going below zero and loses what is taken off before it is added (section 6).

**`RefreshProofs`** assumes `CoordinatorAssumption` (a repository, a place at the
gate, requests and callbacks told apart). Four parts strengthen the properties:

- `ScanInv`: a task that runs the scan loop of a repository is alone and the
  tracker's state says so; a tracker that is `Dirty` has its timer or a callback
  about to begin. Without it `TryBeginRefresh` could start a second scan.
- `ShareInv`: whoever shares a completion waits for it, and either another scan
  will follow (`RefreshingAndDirty`) or the scan that runs has not read the tree
  before the question. This is the reason why `EndRefresh` may hand out the result
  to all of them.
- `FreshInv`: nobody has seen what is not there, and what a scan is about to
  report is not older than the last report; with one scan at a time that gives
  `SnapshotsInOrder`, for the snapshots that scans publish (`InOrder`).
- `CurrentInv`: what a scan has read is current, or an event will say that it is
  not, or already has. This is what makes `NoChangeForgotten` inductive in
  `PublishSnapshot`.

`NoChangeForgotten` names its exceptions, `last[r] = "failed"`, `Stuck(r)` and
`Disposed`: the theorem therefore also says that there is no other way to lose a
change. `Stuck` is finding 2.

`PublishedIsMirror` is the refinement of `Mirror`, with `FreshInv` as the reason: what a scan
publishes lies between the snapshot published last and the tree. It is about the scans;
the entry of the snapshot cache has other writers and no such property. `WaitersAreServed` is the safety part of
`RequestsEnd`: a request that has joined is in the completion of its tracker
(`JoinedShare`, which only `EndRefresh` and `Dispose` could break), and by `ShareInv` the tracker
is `Refreshing`; so a scan runs that will complete it, or the tracker is `Stuck`.

**`DependencyProofs`** assumes `ReposAssumption` (finitely many repositories, at least
one). `Placed` and `Reached` are recursive functions, and no prover here applies an
induction theorem; the first lemmas prove instead, from a smallest counterexample,
that such a function exists and unfolds (`IterationExists`). A chain of subsets of a finite
set that stands still once stands still for ever and does so after as many steps as
there are members (`ChainStops`); what is left then is a set whose members each use
another one (`AllPlacedIffAcyclic`). `LevelsRight` and `PickerRight` are
`LevelsAreRight` and `PickerIsRight` for every graph, the formulas TLC evaluates on all
graphs of three nodes.

**`PushProofs`** assumes `PushAssumption`. `OneLiveJob` needs `AbandonedIsCancelled`:
work that nobody sees as running has been cancelled. `OrderInv` has for each job
`WorkInv`: a repository whose push has begun is of the lowest level left, or its level
is done; a level that is done has only answered pushes; and a level is entered when the
packages it requires are published. With `LevelsRight` what a repository uses is on a
lower level, which gives `LevelsInOrder` and `PackagesBeforePush`.
`UnpushedNeverEven` needs neither: the counts are read from the remote as it is, and
nothing is ever taken off it. It is what is left of the promise that section 6 refutes
(`UnpushedIsOffered`).

**`UpdateProofs`** assumes `UpdateAssumption`: any graphs, requests, repositories that
the developer commits in, and any number of jobs and commits. The invariant has three
layers.

- `ShapeInv` says of each job what its step makes of its locals: which answers its
  commands may have had, that the levels done are below those left, and that it asks
  and plans only on the lowest level left.
- `CommandInv` says that a command with the agent is one the live work still waits for
  or has given up on. A run whose answers are all in and none failed has therefore no
  command of its own with the agent, and work that has been cancelled is never live
  again, so that an aborted run can write into the files but not be trusted
  (`JobInv`: at most one job is live).
- `TrustInv` is about the live run of which something may be expected. `WireInv`: only
  its own commands write, and every hook job and notification under way is of a
  repository that is done or has just been committed, so that what it has read stays
  true. This is why the notification of a commit may be stored at any later time.
  `KnownInv`, `RefsInv` and `CommitsInv` name, for each step, the repositories of which
  the database or the last commit may differ from the files; `FilesInv` is
  `LevelsAreComplete` with the level under work added: what the payload makes of the
  references is right before it is written. Here `LevelsRight` is needed: what a level
  refers to is on none of the levels that are still to be committed.

`hope` names the conditions: a run that begins while something earlier is under way, or
is disturbed by a commit of the developer or by a version that cannot be read, is not
trusted, and nothing is proved of it.

`GraphsAlwaysRight` is `GraphsAreRight`, which the run evaluates on the 64 graphs of three
repositories, for any finite number of them: `LevelsRight` and `PickerRight` together.

**`GitChangesProofs`** has a part for each of three modules, each with an invariant of
its own (`LeasesInv`, `PipelineInv`, `ViewerInv`).

- *Leases.* `LeasesAssumption` (finitely many leases) gives the count its range: each
  lease increments once and decrements once, though not always the same entry.
  `RemovedIsDisposed` is not inductive, because of the entries that lost the race in
  `GetOrAdd`: they are alive, not in the table, and nobody disposes them.
  `AliveIsKnown` says what is special of them: nobody but the thread that created
  one has ever got hold of it. So an entry in use was in the table, and only its idle
  callback takes it out. `WatchersLeave` is the safety part of `IdleEntryLeaves`
  (`LeftInv`): `CountIsHeld` bounds the count of the watcher in the table by those who hold
  a lease and will take from it, which makes it zero or less when nobody does, so that the
  callback does not go away without effect; `TimedOrInUse` says that as long as its timer
  is not armed somebody will arm it. That is not inductive without `CountIsHeld`: a release
  arms the timer only when the count it leaves is not above zero.
- *Snapshots.* `PipelineAssumption` has a version to begin with (`MaxVersion` is at
  least 1). `OneSnapshotPerVersion` needs `UnreadIsFresh`: who has taken a version and
  not read yet has it alone; the version counter of a restarted agent begins at the
  clock, past all used ones (`VersionsUsed`). `ShownOrComing` follows from
  `RightIsCarried`: when nothing is due or missed there is a version from which on all
  snapshots show the tree, and one of them is shown or will be delivered. A
  mutation that took its version before a scan may well come with older content, and does
  not disturb this (compare `NoStaleWrite`, section 6). `ScansNeverGoBack` says when stale
  writes cannot happen: with `Mutations = {}` the pipeline implements `Mirror`. Its
  invariant is `VersionsAreOrder`: the order of the versions is the order of the contents,
  and a scan that has still to read has the newest version of all. The hypothesis is
  needed (TLC finds the counterexample with one mutation): who takes a version early and reads late is what
  breaks the order.
- *Diff pane.* `ShownIsAlwaysSelected` has the hypothesis `TimelyPolls`, without which it
  is false; the other parts of `ViewerInv` do without it. It is about the editor the page
  displays, also when superseded loads throw and reloads replace the viewer; of the alert
  it says nothing (section 6, `ErrorIsOfSelected`). `CallsInv` is about the order of
  the calls, which wait in two queues (on their way, and for Monaco): `init` comes once
  and before all else, `dispose` last, and nothing is sent before `init` has ended.
  `SentOnly` says whose `setDiff` may be under way: that of a load which has sent it, and
  whose end, or whose exception, does not take it back. A viewer that came with a reload
  has been sent nothing (`Untouched`) and shows nothing.
  `NewestInv` follows the newest load: when it gets to the editor no earlier load waits
  to set the same viewer (`EarlierIsReady`, `EarlierIsOver`), so that its call is the last
  one (`NewestIsLast`) and what is shown at rest is its diff, or nothing because
  `EnsureReadyAsync` gave up (`NewestIsShown`). `EditorsLeave` follows one viewer from the
  moment it has its editor on the page: either it is still there, or its `dispose` is on
  the way, or it is gone and nothing creates an editor for it again (`Released`), because
  only `init` does, and it came first.

**Only model-checked.** Liveness: it rests on fairness and `ENABLED`, which the prover
does not handle. What each of these properties needs in every single state is proved:

| only checked | its safety part, proved |
|---|---|
| `CallsReturn` | `NoLostWaiter`: a waiting caller has an entry, or a settled completion |
| `CancelledJobsLeave` | `TokensMatchJobs`: the job has a token |
| `CancelStopsCommand` | `TokensMatchJobs` and `CancelBeforeStartWins`: the cancel finds the token of the job, or keeps it from starting |
| `RequestsEnd` | `NoWaiterLeftBehind`: a scan runs that will answer |
| `ChangesAreScanned` | `NoChangeForgotten`: an event, a timer or a scan is on its way |
| `IdleEntryLeaves` | `NoWatcherLeftBehind`: its timer is armed and its count lets it go |
| `QueuedTriggersAreSynced` | `NoKeyStuck`: whoever holds a key will release it |
| `LoadingEnds` | `ViewerTypeOK`: the spinner is on only while the newest load awaits its answer |

## 6. Findings and known divergences

The runs with `"expect": "violation"` show two disagreements between the code
and its comments:

1. `AppBridge_BlocksForever`. `AgentResponseDelivery.WaitAsync` registers the
   cancellation callback before it adds the entry. A token that fires in between
   is forgotten; if the request is then lost, the caller waits for ever, although
   the comment promises that it never does. All theorems of `AppBridgeProofs`
   exclude this one case by name (`early`).
2. `Refresh_Stuck`. A `GetGitChangeStatus` command cancelled during its scan leaves
   the tracker in `Refreshing`; no event is scanned any more.

Further statements of comments or documents that the code does not satisfy, and
properties one would want of it that it does not have. Each has a configuration (run
`tlc -config <cfg> MC<module>`, or `DiffViewer` and `TrackedQueue` themselves), and TLC
finds a counterexample; where a configuration names several properties, check them one at a
time or with `-continue`:

| property | configuration | what happens |
|---|---|---|
| `AppBridgeOpen!DisconnectFailsInFlight` | `AppBridge_Divergences.cfg` | a call that read the connection id before the disconnect and adds its entry after `FailAll` waits out its timeout; what was pending before is failed (`DisconnectFailsPending`, proved) |
| `AppBridgeOpen!OneAgentConnection` | `AppBridge_Divergences.cfg` | an agent that reconnects before the server noticed the loss is tracked twice, and commands go to the first, dead id |
| `AgentJobsOpen!ReadsNotBehindWrites` | `AgentJobs_ReadLane.cfg` | `RequestCommand` waits for room in the main lane, and the receive loop with it: reads wait behind writes |
| `AgentJobsOpen!CancelAlwaysStops` | `AgentJobs.cfg`, with this in place of `CancelStopsCommand` | ... and so do cancels: a command that does not end fills its lane, the next request waits for room, and the cancel that would stop the command is behind it. The caller has its answer (`CallsReturn`), the agent works on or stands still until the connection is lost |
| `RefreshCoordinator!JoinedByNextScan` | `Refresh_Joined.cfg` | a joined caller gets the result of the scan after the one that completes next: the comment on `TryBeginRefresh` says otherwise, the one on `EndRefresh` and the code agree |
| `TrackedQueue!WorkspaceCountsWork` | `TrackedQueue_Workspace.cfg` | a job that ends before it was counted leaves its workspace's count wrong for good |
| `WatcherLeases!LeasedIsWatched` | `Watchers_Divergences.cfg` | the idle callback disposes a watcher that has just been leased |
| `WatcherLeases!WatchersAreReleased` | `Watchers_Divergences.cfg` | `GetOrAdd` runs its factory twice, and the second, started watcher is never disposed |
| `SnapshotPipeline!NoStaleWrite` | `Snapshots_Stale.cfg` | a mutation takes its version before it runs; a scan that starts later and reads earlier has the higher version and hides the mutation until the next scan; scans alone never go back (`ScansNeverGoBack`) |
| `SyncQueue!TriggersAreSynced` | `Sync_Skipped.cfg` | a request is skipped while its repository is in flight, also when the sync in progress has already read the repository; `SyncBackgroundService.cs:40` says "the sync will happen" |
| `SyncQueue!NeverBackwards` | `SyncQueue.cfg`, with this as its only property | the sync of a page (`WorkspaceGitService.cs:123`), of a job or of a hook stores what it has read over what a worker of the queue has read later, or the other way round; `QueueStoresInOrder` says that two workers do not |
| `WorkspacePush!UnpushedIsOffered` | `Push.cfg`, with this as its only invariant | after a level the upstream is recorded for "each pushed repo", also for one whose push failed; when its counts cannot be read it is offered for push no more; it is never shown as pushed (`UnpushedIsNotEven`, proved) |
| `DiffViewer!SelectedIsShown` | `DiffViewer_Divergences.cfg` | `EnsureReadyAsync` gives up after half a second; the diff of the selected file is then dropped without a message |
| `DiffViewer!ShownIsSelected` | `DiffViewer_Divergences.cfg` (`TimelyPolls = FALSE`) | two loads that have both passed the version test reach the editor in the wrong order when a poll comes late |
| `DiffViewer!ErrorIsOfSelected` | `DiffViewer_Divergences.cfg` | the catch block of `LoadDiffAsync` (`WorkspaceGitChanges.Diff.cs:104-107`) does not compare the version: the exception of a superseded load (a call of the browser that fails or times out, a query on the `DbContext` that the page shares with a reload) puts its alert above the diff of the file selected since. "Discard this stale response instead of clobbering the current selection's diff" (line 81) holds of answers, not of exceptions |
| `DiffViewer!EditorsAreReleased` | `DiffViewer_Divergences.cfg` | a viewer removed while its `init` awaits Monaco gets an editor that nobody disposes; no other viewer leaves one behind (`EditorGoesWithViewer`, proved) |
| `DiffViewer!SelectionIsKept` | `DiffViewer_Divergences.cfg` | the restore of the remembered selection clears a file the user has selected meanwhile |
| `DependencyUpdate!CommittedBeforeNextLevel` | `Update_Divergences.cfg` | "Commits are required before moving to the next level" (`DependencyUpdateOrchestrator.cs:9`): with the agent away at that moment there is no result and no error, and the level counts as done. Nor does a later run commit it: its references are right |
| `DependencyUpdate!NeverBackwards` | `Update_Divergences.cfg` | hook jobs of one repository run on several workers; the notification of an older commit is stored over a newer version, and the next update writes the older version into the project files above and commits it |

## 7. What is not modelled, and why

`PROJECT.json` lists every component. Left out for good: the UI but for the diff
pane, the HTTP endpoints, the clients of remote services, persistence as such (Entity
Framework queries), tokens, the CLI and the installer: no order or interleaving of
their own; parsers and search, which are text processing with unit tests. Most lines
of JavaScript in the tree are vendored (`wwwroot/monaco`, cytoscape, dagre); the one
script with a protocol of its own, `GitDiffViewer.razor.js`, is in `DiffViewer`.

Abstractions inside the modelled parts:

- *Bridge.* The payload of a command, its output lines and the handlers behind it: a
  command ends well, fails, is aborted, or never ends.
- *Git changes.* The content of a working tree, a snapshot and a sync are numbers that
  grow, so that only their age is visible. In `SnapshotPipeline` a snapshot is read at
  one moment; the code reads the status and the operation in progress one after the
  other. `RefreshCoordinator.Dispose` disposes all trackers in one step; the code does
  it one tracker at a time, and then the gate.
- *Time.* A timeout or a timer may fire whenever it is armed. That the later one of the
  two deadlines of the wait for packages has no effect is therefore not visible.
- *Push.* The push of one repository with its upstream branch, the push without
  levels, the sync of package registries and the live feed of workflows are left out.
- *Update.* A workspace without version files and without repositories on a tag, whose
  repositories and project files stay where they are (a missing directory would count
  as success). A hook job reads version and project files at one moment, and a
  notification is stored in one step; the code does both in several. The semaphore of
  `MaxParallelOperations` only delays commands and is left out. The update of a single
  repository and `NewFeatureOrchestrator` are not modelled.
- *Diff pane.* View mode, options and navigation of the viewer, a failure to load
  Monaco, the tree of changes and the commands of the page.
- *Syncs outside the queue.* What they have in common is modelled: a read and a later save
  that asks for nothing. What each of them stores beside the version is not.
- The graph of repositories does not change while a job runs. A project file that cannot
  be parsed is silently skipped by the code and takes its edges with it: that, too, is
  such a change.

## 8. Plan

1. `HookSync`: all four hooks, branches and tags, and the several saves of one
   notification, composed with `SyncQueue`.
2. Version files in `DependencyUpdate`, and the update followed by a push in one job
   (the push goes on although the update has reported errors).
3. `RepositoryLock`: the write lock of `GitProcessRunner`, with timeouts.
