-------------------------- MODULE SnapshotPipeline --------------------------
(***************************************************************************)
(* The way of a git changes snapshot of one repository from git on the     *)
(* agent to the database of the App: the versions GitChangesSnapshotCache  *)
(* gives out, scans and mutations that read the working tree concurrently, *)
(* pushes and replies that overtake each other or get lost, and the write  *)
(* queue whose handler rejects versions that are not newer.                *)
(*                                                                         *)
(* Scans run one after the other (OneScanPerRepo of RefreshCoordinator);   *)
(* `dirty` stands for all that makes the coordinator scan again.  The      *)
(* content of a working tree is a number that only grows.                  *)
(***************************************************************************)
EXTENDS Naturals, Sequences, FiniteSetsExt

CONSTANTS
  Mutations,    (* the stage, unstage and commit commands                   *)
  MaxContent,   (* bound: changes to the working tree                       *)
  MaxVersion,   (* bound: the clock and the versions                        *)
  MaxQueue      (* bound: snapshots waiting in the write queue              *)

ASSUME PipelineAssumption ==
  {MaxContent, MaxQueue} \subseteq Nat /\ MaxVersion \in Nat \ {0}

VARIABLES
  disk,         (* content of the working tree                              *)
  dirty,        (* the coordinator is going to scan                         *)
  clock,        (* DateTime.UtcNow.Ticks                                    *)
  version,      (* _versions, 0 when the agent has none                     *)
  scan,         (* the scan that is running                                 *)
  mutation,     (* where each mutation command stands                       *)
  wire,         (* snapshots sent, as pushes and as replies                 *)
  queue,        (* WorkspaceGitChangesWriteQueue                            *)
  shown,        (* what the database holds                                  *)
  lost          (* a change or a snapshot was missed since a scan began     *)

agent        == <<version, scan, mutation>>
pipelineVars == <<disk, dirty, clock, agent, wire, queue, shown, lost>>

Snapshot == [version : 1 .. MaxVersion, content : 0 .. MaxContent]
Sent     == [version : 1 .. MaxVersion, content : 0 .. MaxContent, as : {"push", "reply"}]
Reading  == [step : {"idle", "versioned", "worked", "read", "done"},
             version : 0 .. MaxVersion, content : 0 .. MaxContent]
Idle     == [step |-> "idle", version |-> 0, content |-> 0]

PipelineTypeOK ==
  /\ disk \in 0 .. MaxContent
  /\ {dirty, lost} \subseteq BOOLEAN
  /\ {clock, version} \subseteq 0 .. MaxVersion
  /\ scan \in Reading
  /\ mutation \in [Mutations -> Reading]
  /\ wire \subseteq Sent
  /\ queue \in Seq(Snapshot)
  /\ shown \in [version : 0 .. MaxVersion, content : 0 .. MaxContent]

PipelineInit ==
  /\ disk = 0 /\ dirty = FALSE
  /\ clock = 1
  /\ version = 0
  /\ scan = Idle
  /\ mutation = [m \in Mutations |-> Idle]
  /\ wire = {}
  /\ queue = <<>>
  /\ shown = [version |-> 0, content |-> 0]
  /\ lost = FALSE

Plain(s) == [version |-> s.version, content |-> s.content]

-----------------------------------------------------------------------------
(* Mutant: the counter of a new process starts at 1. *)
NextVersionFromOne == version + 1

(* Mutant: the time is taken as it is. *)
NextVersionIsTime == clock

(* NextVersion: the time, or one more than the last when that is not less. *)
NextVersion == Max({clock, version + 1})

Tick ==
  /\ clock < MaxVersion
  /\ clock' = clock + 1
  /\ UNCHANGED <<disk, dirty, agent, wire, queue, shown, lost>>

(* The working tree changes.  A watcher notices, if there is one. *)
Change ==
  /\ disk < MaxContent
  /\ disk' = disk + 1
  /\ \/ dirty' = TRUE /\ UNCHANGED lost
     \/ lost' = TRUE /\ UNCHANGED dirty

Edit ==
  /\ Change
  /\ UNCHANGED <<clock, agent, wire, queue, shown>>

(* A scan begins, after an event or because the App asks (a sweep, a page that
   opens, a retry): its version is taken before git runs. *)
StartScan ==
  /\ scan.step = "idle"
  /\ NextVersion <= MaxVersion
  /\ version' = NextVersion
  /\ scan' = [Idle EXCEPT !.step = "versioned", !.version = NextVersion]
  /\ dirty' = FALSE
  /\ lost' = FALSE
  /\ UNCHANGED <<disk, clock, mutation, wire, queue, shown>>

(* git status, or a failure of it: then there is no snapshot. *)
ReadScan ==
  /\ scan.step = "versioned"
  /\ \/ scan' = [scan EXCEPT !.step = "read", !.content = disk] /\ UNCHANGED lost
     \/ scan' = Idle /\ lost' = TRUE
  /\ UNCHANGED <<disk, dirty, clock, version, mutation, wire, queue, shown>>

(* SnapshotReady pushes it, if the App has asked for this repository and is
   connected; the requests that share the scan reply with it. *)
PublishScan ==
  /\ scan.step = "read"
  /\ \E copies \in SUBSET {"push", "reply"} :
       /\ wire' = wire \cup {[version |-> scan.version, content |-> scan.content, as |-> c] : c \in copies}
       /\ lost' = (lost \/ copies = {})
  /\ scan' = Idle
  /\ UNCHANGED <<disk, dirty, clock, version, mutation, queue, shown>>

-----------------------------------------------------------------------------
(* Stage, unstage, commit: the version is taken before the git command ... *)
StartMutation(m) ==
  /\ mutation[m].step = "idle"
  /\ NextVersion <= MaxVersion
  /\ version' = NextVersion
  /\ mutation' = [mutation EXCEPT ![m] =
                    [Idle EXCEPT !.step = "versioned", !.version = NextVersion]]
  /\ UNCHANGED <<disk, dirty, clock, scan, wire, queue, shown, lost>>

(* ... which changes the index, or fails ... *)
RunMutation(m) ==
  /\ mutation[m].step = "versioned"
  /\ mutation' = [mutation EXCEPT ![m].step = "worked"]
  /\ Change \/ UNCHANGED <<disk, dirty, lost>>
  /\ UNCHANGED <<clock, version, scan, wire, queue, shown>>

(* Mutant: the version does not get into the snapshot. *)
ReadMutationUnversioned(m) ==
  /\ mutation[m].step = "worked"
  /\ mutation' = [mutation EXCEPT ![m] = [step |-> "read", version |-> 0, content |-> disk]]
  /\ UNCHANGED <<disk, dirty, clock, version, scan, wire, queue, shown, lost>>

(* ... and the status is read in the end, without a lock ... *)
ReadMutation(m) ==
  /\ mutation[m].step = "worked"
  /\ mutation' = [mutation EXCEPT ![m].step = "read", ![m].content = disk]
  /\ UNCHANGED <<disk, dirty, clock, version, scan, wire, queue, shown, lost>>

(* ... and sent as the reply, or not if reading it failed. *)
ReplyMutation(m) ==
  /\ mutation[m].step = "read"
  /\ mutation' = [mutation EXCEPT ![m] = [Idle EXCEPT !.step = "done"]]
  /\ \/ wire' = wire \cup {[version |-> mutation[m].version,
                            content |-> mutation[m].content, as |-> "reply"]}
     \/ UNCHANGED wire
  /\ UNCHANGED <<disk, dirty, clock, version, scan, queue, shown, lost>>

-----------------------------------------------------------------------------
(* A snapshot is lost: the connection breaks, the page or the sweep that
   awaited the reply has gone. *)
Lose(s) ==
  /\ wire' = wire \ {s}
  /\ lost' = TRUE
  /\ UNCHANGED <<disk, dirty, clock, agent, queue, shown>>

(* Enqueue: pushes by the hub, replies by the scanner or the page. *)
Enqueue(s) ==
  /\ Len(queue) < MaxQueue
  /\ queue' = Append(queue, Plain(s))
  /\ wire' = wire \ {s}
  /\ UNCHANGED <<disk, dirty, clock, agent, shown, lost>>

(* HandleAsync: one snapshot at a time, rejected unless it is newer, written in
   a transaction; when that throws the snapshot is dropped. *)
Handle ==
  /\ queue # <<>>
  /\ queue' = Tail(queue)
  /\ \/ /\ shown' = IF Head(queue).version <= shown.version THEN shown ELSE Head(queue)
        /\ UNCHANGED lost
     \/ lost' = TRUE /\ UNCHANGED shown
  /\ UNCHANGED <<disk, dirty, clock, agent, wire>>

(* The App restarts: the queue is gone, the database is not. *)
AppRestart ==
  /\ queue # <<>>
  /\ queue' = <<>>
  /\ lost' = TRUE
  /\ UNCHANGED <<disk, dirty, clock, agent, wire, shown>>

(* The agent restarts with an empty cache.  A tick is 100 ns, so the time has
   passed every version that was given out. *)
AgentRestart ==
  /\ version # 0
  /\ version < MaxVersion
  /\ version' = 0
  /\ clock' = Max({clock, version + 1})
  /\ scan' = Idle
  /\ mutation' = [m \in Mutations |->
       IF mutation[m].step = "idle" THEN Idle ELSE [Idle EXCEPT !.step = "done"]]
  /\ dirty' = FALSE
  /\ lost' = TRUE
  /\ UNCHANGED <<disk, wire, queue, shown>>

PipelineNext ==
  \/ Tick \/ Edit \/ StartScan \/ ReadScan \/ PublishScan
  \/ \E m \in Mutations :
       StartMutation(m) \/ RunMutation(m) \/ ReadMutation(m) \/ ReplyMutation(m)
  \/ \E s \in wire : Lose(s) \/ Enqueue(s)
  \/ Handle \/ AppRestart \/ AgentRestart

PipelineSpec == PipelineInit /\ [][PipelineNext]_pipelineVars
-----------------------------------------------------------------------------
Coming ==
  {Plain(s) : s \in wire} \cup {queue[i] : i \in DOMAIN queue}
  \cup {Plain(r) : r \in {q \in {scan} \cup {mutation[m] : m \in Mutations} : q.step = "read"}}

(* Eventual consistency, as a safety property: as long as the database does not
   show the working tree, the coordinator is going to scan, or is about to read
   it, or a snapshot that shows it and will not be rejected is on its way -
   unless something was missed since the last scan began.  So whenever all is
   quiet the page is right, and one more scan heals whatever was missed. *)
ShownOrComing ==
  shown.content # disk =>
    \/ dirty \/ scan.step = "versioned" \/ lost
    \/ \E s \in Coming : s.content = disk /\ s.version > shown.version

(* Two snapshots with the same version show the same content, across restarts
   of the agent: what is rejected for being equal is equal. *)
OneSnapshotPerVersion ==
  \A s, t \in Coming \cup {shown} : s.version = t.version => s.content = t.content

(* What the design document says of the versions (GrayMoon-Git-Changes-Current-
   Implementation-Design.md:62-64): they are used "to reject stale writes if two
   updates for the same repo race each other". *)
NoStaleWrite == [][shown'.content >= shown.content]_shown

(* The database is a mirror of the working tree (Mirror): it shows what the tree
   was at some moment since what it showed before.  Not so with mutations, whose
   version is older than what they read (NoStaleWrite); with scans alone it is. *)
Page == INSTANCE Mirror WITH
          Keys <- {"repository"},
          source <- [k \in {"repository"} |-> disk],
          copy <- [k \in {"repository"} |-> shown.content]
PageMirrorsTree == Page!Spec
=============================================================================
