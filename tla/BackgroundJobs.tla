--------------------------- MODULE BackgroundJobs ---------------------------
(***************************************************************************)
(* BackgroundJobService and BackgroundJobHandle (App): the jobs of one     *)
(* browser tab and one job key, the key of a workspace.  The table holds   *)
(* the newest job; the work of an older one may still be running.          *)
(*                                                                         *)
(* StartJob, Abort and Dispose are called on the circuit's dispatcher, one *)
(* at a time; the work of a job runs on the thread pool, and every module  *)
(* that says what the work does has its own steps for it.                  *)
(***************************************************************************)
CONSTANTS
  Jobs,         (* bound: the jobs that are started                          *)
  NoJob

ASSUME JobsAssumption == NoJob \notin Jobs

VARIABLES
  current,      (* _jobs[key], or what it was when the table was cleared     *)
  shown,        (* BackgroundJobHandle.State, "None" before the job exists   *)
  cancelled,    (* the jobs whose token source has been cancelled            *)
  working,      (* the jobs whose work has not ended                         *)
  closed        (* the service has been disposed                             *)

jobVars == <<current, shown, cancelled, working, closed>>

JobState == {"None", "Running", "Completed", "Faulted", "Aborted"}

JobsTypeOK ==
  /\ current \in Jobs \cup {NoJob}
  /\ shown \in [Jobs -> JobState]
  /\ cancelled \subseteq Jobs
  /\ working \subseteq Jobs
  /\ closed \in BOOLEAN

JobsInit ==
  /\ current = NoJob
  /\ shown = [j \in Jobs |-> "None"]
  /\ cancelled = {}
  /\ working = {}
  /\ closed = FALSE

IsRunning == current # NoJob /\ shown[current] = "Running"

(* StartJob, when it starts one: a running job is returned as it is. *)
StartJob(j) ==
  /\ ~closed
  /\ shown[j] = "None"
  /\ ~IsRunning
  /\ shown' = [shown EXCEPT ![j] = "Running"]
  /\ current' = j
  /\ working' = working \cup {j}
  /\ UNCHANGED <<cancelled, closed>>

(* Mutant: Abort only says so. *)
AbortShown ==
  /\ ~closed
  /\ current # NoJob
  /\ shown' = [shown EXCEPT ![current] = "Aborted"]
  /\ UNCHANGED <<current, cancelled, working, closed>>

(* Abort of the job the page or the overlay shows.  The job counts as aborted
   from now on, though its work has only been asked to stop. *)
Abort ==
  /\ ~closed
  /\ current # NoJob
  /\ cancelled' = cancelled \cup {current}
  /\ shown' = [shown EXCEPT ![current] = "Aborted"]
  /\ UNCHANGED <<current, working, closed>>

(* The work ends: MarkCompleted, MarkAborted or MarkFaulted, whatever the job
   was taken for before. *)
EndWork(j, how) ==
  /\ j \in working
  /\ working' = working \ {j}
  /\ shown' = [shown EXCEPT ![j] = how]
  /\ UNCHANGED <<current, cancelled, closed>>

(* Dispose, when the tab is closed: cancels the job in the table, and disposes
   its token source. *)
CloseTab ==
  /\ ~closed
  /\ closed' = TRUE
  /\ cancelled' = cancelled \cup ({current} \ {NoJob})
  /\ UNCHANGED <<current, shown, working>>

TokenDisposed(j) == closed /\ j = current

-----------------------------------------------------------------------------
(* Work that nobody sees as running any more has been cancelled. *)
AbandonedIsCancelled ==
  \A j \in working \ cancelled : j = current /\ shown[j] = "Running"

(* Of the jobs of a workspace at most one works that has not been cancelled,
   although a new one can be started while the aborted one still runs. *)
OneLiveJob ==
  \A j, k \in working \ cancelled : j = k
=============================================================================
