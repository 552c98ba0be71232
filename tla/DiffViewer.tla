------------------------------ MODULE DiffViewer ------------------------------
(***************************************************************************)
(* The diff pane of the Git Changes page: the page (WorkspaceGitChanges)   *)
(* and its GitDiffViewer component run on the server, on the dispatcher of *)
(* the circuit, one step at a time between awaits; GitDiffViewer.razor.js  *)
(* runs in the browser, one step at a time between awaits, and is called   *)
(* over a connection that keeps the order of the calls.                    *)
(*                                                                         *)
(* Selecting a file starts a load, and loads are numbered as               *)
(* _diffRequestVersion numbers them.  A viewer is created with the first   *)
(* selection and removed when nothing is selected or a reload of the page  *)
(* has failed.                                                             *)
(***************************************************************************)
EXTENDS Naturals, Sequences

CONSTANTS
  MaxLoads,     (* bound: files that are selected                            *)
  MaxViewers,   (* bound: viewers that are created                           *)
  TimelyPolls   (* EnsureReadyAsync polls every 25 ms and 20 times: the next
                   poll comes before the answers of the database and of the
                   agent to a later load, and the wait of an earlier load is
                   over before that of a later one                           *)

ASSUME DiffViewerAssumption ==
  MaxLoads \in Nat /\ MaxViewers \in Nat /\ TimelyPolls \in BOOLEAN

Loads    == 1 .. MaxLoads
Viewers  == 1 .. MaxViewers
None     == 0
Sweep    == 0           (* the call of ClearAsync that belongs to no load    *)

VARIABLES
  selected,     (* the load that was started for _selectedRow                *)
  requestVersion, (* _diffRequestVersion                                     *)
  diff,         (* _selectedDiff                                             *)
  error,        (* the load that wrote _diffError                            *)
  failed,       (* _errorMessage: the last reload of the page failed         *)
  loading,      (* _isDiffLoading                                            *)
  restoring,    (* the load TryRestoreSelectionAsync waits for               *)
  step,         (* where a load is                                           *)
  target,       (* the viewer a load waits for                               *)
  viewer,       (* the viewer on the page                                    *)
  phase,        (* _module and _initialized of a viewer                      *)
  disposed,     (* viewers whose DisposeAsync has been called                *)
  calls,        (* calls on their way to the browser                         *)
  monaco,       (* monacoReadyPromise                                        *)
  awaiting,     (* calls that await it, in the order they will go on         *)
  editors,      (* viewers with an entry in editors                          *)
  shows         (* the load whose models the Monaco editor of a viewer has   *)

page       == <<selected, requestVersion, diff, error, failed, loading, restoring, step, target>>
browser    == <<monaco, awaiting, editors, shows>>
viewerVars == <<page, viewer, phase, disposed, calls, browser>>

Call ==
  [fn : {"init", "clear", "dispose"}, on : Viewers]
    \cup [fn : {"setDiff"}, on : Viewers, of : Loads]

(* text: a diff that Monaco renders; other: one it does not. *)
Diff  == {"none", "text", "other"}
Steps == {"none", "waitClear", "fetch", "waitSet", "set", "done"}
Phase == {"none", "import", "init", "replied", "ready", "failed"}

(* The spinner is on exactly while the newest load has not got its answer. *)
ViewerTypeOK ==
  /\ selected \in {None} \cup Loads
  /\ requestVersion \in {None} \cup Loads
  /\ diff \in Diff
  /\ error \in {None} \cup Loads
  /\ failed \in BOOLEAN
  /\ loading \in BOOLEAN
  /\ restoring \in {None} \cup Loads
  /\ step \in [{Sweep} \cup Loads -> Steps]
  /\ target \in [{Sweep} \cup Loads -> {None} \cup Viewers]
  /\ viewer \in {None} \cup Viewers
  /\ phase \in [Viewers -> Phase]
  /\ disposed \subseteq Viewers
  /\ calls \in Seq(Call)
  /\ monaco \in {"unloaded", "loading", "ready"}
  /\ awaiting \in Seq(Call)
  /\ editors \subseteq Viewers
  /\ shows \in [Viewers -> {None} \cup Loads]
  /\ loading <=> requestVersion # None /\ step[requestVersion] \in {"waitClear", "fetch"}

ViewerInit ==
  /\ selected = None
  /\ requestVersion = None
  /\ diff = "none"
  /\ error = None
  /\ failed = FALSE
  /\ loading = FALSE
  /\ restoring = None
  /\ step = [l \in {Sweep} \cup Loads |-> "none"]
  /\ target = [l \in {Sweep} \cup Loads |-> None]
  /\ viewer = None
  /\ phase = [v \in Viewers |-> "none"]
  /\ disposed = {}
  /\ calls = <<>>
  /\ monaco = "unloaded"
  /\ awaiting = <<>>
  /\ editors = {}
  /\ shows = [v \in Viewers |-> None]

-----------------------------------------------------------------------------
(* The server.  What is awaited is a step's end; a call of the module is sent
   in the same step in which EnsureReadyAsync says that it may be. *)

Send(call) == calls' = Append(calls, call)

Clear(v)      == [fn |-> "clear", on |-> v]
SetDiff(v, l) == [fn |-> "setDiff", on |-> v, of |-> l]

StepTo(l, s) == step' = [step EXCEPT ![l] = s]

(* In the loop of EnsureReadyAsync. *)
Waits(l) == step[l] \in {"waitClear", "waitSet"}

(* EnsureReadyAsync on v: the call is sent now and l goes on to after; or there
   is no such viewer any more, and l goes on without; or l waits. *)
CallWhenReady(l, v, call, wait, after) ==
  IF v \in disposed \cup {None}
    THEN StepTo(l, after) /\ UNCHANGED <<calls, target>>
    ELSE IF phase[v] = "ready"
           THEN StepTo(l, after) /\ Send(call) /\ UNCHANGED target
           ELSE StepTo(l, wait) /\ target' = [target EXCEPT ![l] = v] /\ UNCHANGED calls

(* The viewer that is on the page after the next render. *)
Render(v) ==
  IF viewer # None
    THEN v = viewer /\ UNCHANGED <<viewer, phase>>
    ELSE /\ phase[v] = "none"
         /\ \A w \in Viewers : phase[w] = "none" => v <= w
         /\ viewer' = v
         /\ phase' = [phase EXCEPT ![v] = "import"]

(* LoadDiffAsync up to its first await. *)
BeginLoad(l) ==
  /\ ~failed
  /\ l = requestVersion + 1
  /\ requestVersion' = l
  /\ selected' = l
  /\ diff' = "none"
  /\ error' = None
  /\ loading' = TRUE
  /\ UNCHANGED failed

(* SelectFile: the event handler renders when it is left, so that a viewer that
   is new to the page is not cleared. *)
SelectFile(l) ==
  /\ BeginLoad(l)
  /\ \E v \in Viewers : Render(v)
  /\ CallWhenReady(l, viewer, Clear(viewer), "waitClear", "fetch")
  /\ UNCHANGED <<restoring, disposed, browser>>

(* TryRestoreSelectionAsync: the remembered file, before the user selects one;
   the render comes first. *)
RestoreSelection(l) ==
  /\ requestVersion = None
  /\ BeginLoad(l)
  /\ restoring' = l
  /\ \E v \in Viewers :
       /\ Render(v)
       /\ CallWhenReady(l, v, Clear(v), "waitClear", "fetch")
  /\ UNCHANGED <<disposed, browser>>

(* The wait of EnsureReadyAsync is over. *)
Proceed(l, s) ==
  /\ StepTo(l, s)
  /\ target' = [target EXCEPT ![l] = None]
  /\ UNCHANGED <<selected, requestVersion, diff, error, failed, loading, restoring, viewer, phase,
                 disposed, browser>>

AfterClear(l) == IF l = Sweep THEN "done" ELSE "fetch"

(* EnsureReadyAsync sees that the viewer is ready - also when it has been
   disposed in the meantime. *)
PollReady(l) ==
  /\ Waits(l)
  /\ phase[target[l]] = "ready"
  /\ \/ step[l] = "waitClear" /\ Proceed(l, AfterClear(l)) /\ Send(Clear(target[l]))
     \/ step[l] = "waitSet" /\ Proceed(l, "set") /\ Send(SetDiff(target[l], l))

(* What EnsureReadyAsync was called for is left out. *)
LeaveOut(l) ==
  /\ Waits(l)
  /\ phase[target[l]] # "ready"
  /\ Proceed(l, IF step[l] = "waitClear" THEN AfterClear(l) ELSE "done")
  /\ UNCHANGED calls

(* Mutant: EnsureReadyAsync gives up for a viewer that has been disposed only. *)
WaitForEver(l) == LeaveOut(l) /\ target[l] \in disposed

(* EnsureReadyAsync has polled 20 times, or the viewer has been disposed. *)
GiveUp(l) ==
  /\ LeaveOut(l)
  /\ TimelyPolls => \A m \in Loads : m < l => ~Waits(m)

(* The rest of LoadDiffAsync when the agent has answered: an error, or the diff of
   the file, which goes into the viewer when it is one for Monaco.  An error that is
   there stays. *)
TakeAnswer(l) ==
  /\ loading' = FALSE
  /\ \/ /\ error' = l
        /\ StepTo(l, "done")
        /\ UNCHANGED <<diff, calls, target>>
     \/ /\ diff' = "other"
        /\ StepTo(l, "done")
        /\ UNCHANGED <<error, calls, target>>
     \/ /\ diff' = "text"
        /\ CallWhenReady(l, viewer, SetDiff(viewer, l), "waitSet", "set")
        /\ UNCHANGED error
  /\ UNCHANGED <<selected, requestVersion, failed, restoring>>

(* The database and the agent have answered. *)
Answer(l) ==
  /\ step[l] = "fetch"
  /\ TimelyPolls => \A m \in Loads : ~(Waits(m) /\ phase[target[m]] = "ready")
  /\ UNCHANGED <<viewer, phase, disposed, browser>>

(* Mutant: the version is not compared when the agent has answered. *)
FetchedUnchecked(l) == Answer(l) /\ TakeAnswer(l)

(* Mutant: a load that was superseded takes the spinner off. *)
FetchedFinally(l) ==
  /\ Answer(l)
  /\ IF l = requestVersion
       THEN TakeAnswer(l)
       ELSE /\ StepTo(l, "done")
            /\ loading' = FALSE
            /\ UNCHANGED <<selected, requestVersion, diff, error, failed, restoring, target, calls>>

(* A load that has been superseded ends with its answer. *)
Fetched(l) ==
  /\ Answer(l)
  /\ IF l = requestVersion
       THEN TakeAnswer(l)
       ELSE /\ StepTo(l, "done")
            /\ UNCHANGED <<selected, requestVersion, diff, error, failed, loading, restoring,
                           target, calls>>

(* The browser has answered setDiff. *)
SetEnds(l) ==
  /\ step[l] = "set"
  /\ \A v \in Viewers :
       /\ \A i \in 1 .. Len(calls) : calls[i] # SetDiff(v, l)
       /\ \A i \in 1 .. Len(awaiting) : awaiting[i] # SetDiff(v, l)
  /\ StepTo(l, "done")
  /\ UNCHANGED <<selected, requestVersion, diff, error, failed, loading, restoring, target, viewer,
                 phase, disposed, calls, browser>>

(* The catch block: the browser fails or does not answer in time, a query of the
   database or the command throws.  It does not look at the version; only the
   finally block does. *)
LoadThrows(l) ==
  /\ step[l] \in {"fetch", "set"}
  /\ error' = l
  /\ loading' = (loading /\ l # requestVersion)
  /\ StepTo(l, "done")
  /\ UNCHANGED <<selected, requestVersion, diff, failed, restoring, target, viewer, phase, disposed,
                 calls, browser>>

(* ClearSelectionQuietlyAsync.  It does not supersede the load in progress. *)
ClearSelection ==
  /\ step[Sweep] \in {"none", "done"}
  /\ selected' = None
  /\ diff' = "none"
  /\ error' = None
  /\ CallWhenReady(Sweep, viewer, Clear(viewer), "waitClear", "done")
  /\ UNCHANGED <<requestVersion, failed, loading, viewer, phase, disposed, browser>>

(* ClearSelectionIfStaleAsync: after a reload the file has no changes. *)
ClearSelectionIfStale ==
  /\ selected # None
  /\ ClearSelection
  /\ UNCHANGED restoring

(* TryRestoreSelectionAsync goes on when its load has ended. *)
RestoreEnds ==
  /\ restoring # None
  /\ step[restoring] = "done"
  /\ restoring' = None
  /\ IF error # None \/ diff = "none"
       THEN ClearSelection
       ELSE UNCHANGED <<selected, requestVersion, diff, error, failed, loading, step, target, viewer,
                        phase, disposed, calls, browser>>

(* A viewer leaves the page: DisposeAsync. *)
Leave ==
  /\ viewer' = None
  /\ disposed' = disposed \cup ({viewer} \ {None})
  /\ IF viewer # None /\ phase[viewer] \in {"init", "replied", "ready"}
       THEN Send([fn |-> "dispose", on |-> viewer])
       ELSE UNCHANGED calls

(* A render after the selection has been cleared: the viewer leaves the page. *)
RemoveViewer ==
  /\ selected = None
  /\ viewer # None
  /\ Leave
  /\ UNCHANGED <<page, phase, browser>>

(* LoadAsync fails: the page shows its error message and nothing else, also when a
   file is selected. *)
ReloadFails ==
  /\ failed' = TRUE
  /\ Leave
  /\ UNCHANGED <<selected, requestVersion, diff, error, loading, restoring, step, target, phase,
                 browser>>

(* The next LoadAsync takes the message away: the page of a selected file has a viewer
   again, a new one, and no load is started for it. *)
ReloadBegins ==
  /\ failed
  /\ failed' = FALSE
  /\ IF selected = None
       THEN UNCHANGED <<viewer, phase>>
       ELSE \E v \in Viewers : Render(v)
  /\ UNCHANGED <<selected, requestVersion, diff, error, loading, restoring, step, target, disposed,
                 calls, browser>>

(* OnAfterRenderAsync: the module has been imported.  When the viewer has left
   the page, init does not find its container. *)
Imported(v) ==
  /\ phase[v] = "import"
  /\ IF v \in disposed
       THEN phase' = [phase EXCEPT ![v] = "failed"] /\ UNCHANGED calls
       ELSE /\ phase' = [phase EXCEPT ![v] = "init"]
            /\ Send([fn |-> "init", on |-> v])
  /\ UNCHANGED <<page, viewer, disposed, browser>>

(* The answer of init. *)
Initialized(v) ==
  /\ phase[v] = "replied"
  /\ phase' = [phase EXCEPT ![v] = "ready"]
  /\ UNCHANGED <<page, viewer, disposed, calls, browser>>

-----------------------------------------------------------------------------
(* The browser. *)

(* The first part of init or setDiff, up to "await ensureMonacoLoaded()". *)
AwaitMonaco(call) ==
  /\ awaiting' = Append(awaiting, call)
  /\ monaco' = IF monaco = "unloaded" THEN "loading" ELSE monaco
  /\ UNCHANGED <<editors, shows>>

(* clear and dispose do not wait. *)
DropModels(v) ==
  /\ shows' = [shows EXCEPT ![v] = None]
  /\ UNCHANGED <<monaco, awaiting>>

Receive ==
  /\ calls # <<>>
  /\ calls' = Tail(calls)
  /\ LET call == Head(calls) IN
       \/ call.fn = "init" /\ AwaitMonaco(call)
       \/ call.fn = "setDiff" /\ call.on \in editors /\ AwaitMonaco(call)
       \/ call.fn = "clear" /\ call.on \in editors /\ DropModels(call.on) /\ UNCHANGED editors
       \/ /\ call.fn = "dispose" /\ call.on \in editors
          /\ DropModels(call.on)
          /\ editors' = editors \ {call.on}
       \/ call.fn # "init" /\ call.on \notin editors /\ UNCHANGED browser
  /\ UNCHANGED <<page, viewer, phase, disposed>>

(* The AMD loader has loaded Monaco; it may take any time, or never end. *)
MonacoLoaded ==
  /\ monaco = "loading"
  /\ monaco' = "ready"
  /\ UNCHANGED <<page, viewer, phase, disposed, calls, awaiting, editors, shows>>

(* The rest of init or setDiff.  Neither looks again whether there is still an
   entry for the viewer. *)
GoOn ==
  /\ monaco = "ready"
  /\ awaiting # <<>>
  /\ awaiting' = Tail(awaiting)
  /\ LET call == Head(awaiting) IN
       IF call.fn = "init"
         THEN /\ editors' = editors \cup {call.on}
              /\ phase' = [phase EXCEPT ![call.on] = "replied"]
              /\ UNCHANGED shows
         ELSE /\ shows' = [shows EXCEPT ![call.on] = call.of]
              /\ UNCHANGED <<editors, phase>>
  /\ UNCHANGED <<page, viewer, disposed, calls, monaco>>

-----------------------------------------------------------------------------
LoadNext(l) ==
  \/ PollReady(l) \/ GiveUp(l)
  \/ l \in Loads /\ (Fetched(l) \/ SetEnds(l) \/ LoadThrows(l))

ViewerNext ==
  \/ \E l \in Loads : SelectFile(l) \/ RestoreSelection(l)
  \/ \E l \in {Sweep} \cup Loads : LoadNext(l)
  \/ ClearSelectionIfStale \/ RestoreEnds
  \/ RemoveViewer \/ ReloadFails \/ ReloadBegins
  \/ \E v \in Viewers : Imported(v) \/ Initialized(v)
  \/ Receive \/ MonacoLoaded \/ GoOn

ViewerSpec == ViewerInit /\ [][ViewerNext]_viewerVars

(* Every poll is followed by another or by giving up, the database and the agent answer
   or time out, and so do the calls of the browser (the default timeout of JS interop).
   Monaco may never be loaded. *)
FairViewer == ViewerSpec /\ \A l \in {Sweep} \cup Loads : WF_viewerVars(LoadNext(l))
-----------------------------------------------------------------------------
AtRest ==
  /\ calls = <<>> /\ awaiting = <<>>
  /\ \A l \in {Sweep} \cup Loads : step[l] \in {"none", "done"}

(* The container of the editor is displayed. *)
Displayed == selected # None /\ viewer # None /\ diff = "text"

(* When all is quiet and the page displays an editor, the editor does not show another
   file than the one that is selected - whatever was selected while answers, the editor
   or Monaco were awaited, whatever failed, and however often the viewer was replaced.
   (LoadDiffAsync: "discard this stale response instead of clobbering the current
   selection's diff".)  The alert beside the editor is another matter:
   ErrorIsOfSelected. *)
ShownIsSelected ==
  AtRest /\ Displayed => requestVersion = selected /\ shows[viewer] \in {None, requestVersion}

(* The same of the alert, which the page displays above the editor: not so, the catch
   block of a load that was superseded writes its error over the selection that is
   there now. *)
ErrorIsOfSelected == AtRest /\ selected # None /\ error # None => error = requestVersion

(* "Loading diff..." goes away, also when Monaco is never loaded, when the viewer
   is removed and when the load is superseded. *)
LoadingEnds == loading ~> ~loading

(* What EnsureReadyAsync says of a caller that comes before init has ended: it
   "waits here instead of silently no-oping".  The selected file is shown. *)
SelectedIsShown == AtRest /\ Displayed /\ phase[viewer] = "ready" => shows[viewer] = requestVersion

(* What TryRestoreSelectionAsync says it drops when its diff could not be loaded:
   the "auto-selection".  The user's own selection stays. *)
SelectionIsKept ==
  [][restoring # None /\ restoring' = None /\ selected # restoring
       => selected' = selected]_viewerVars

(* Of the viewers that have left the page no editor stays behind. *)
EditorsAreReleased == AtRest /\ (\A v \in Viewers : phase[v] # "init") => editors \subseteq {viewer}

(* ... but only of a viewer that was removed while its init awaited Monaco: once a
   viewer on the page has its editor, the editor goes when the viewer does, and it
   does not come back - whatever else is sent to it or awaits Monaco. *)
EditorGoesWithViewer ==
  \A v \in Viewers :
    [](v \in editors \ disposed => [](AtRest /\ v \in disposed => v \notin editors))
=============================================================================
