-------------------------------- MODULE Jobs --------------------------------
(***************************************************************************)
(* Background jobs of two example applications over concurrency/worker:    *)
(* 05's job manager, whose rows (SQLite) follow the job, and 08's export   *)
(* service, whose rows (MongoDB) are written once and whose jobs live in   *)
(* memory.  A job runs under the context of the HTTP request that made it, *)
(* which ends when the handler returns or the client goes away; database   *)
(* calls under an ended context fail.  A worker stops waiting for a job    *)
(* that takes longer than the pool's timeout; the job itself goes on.      *)
(* Databases are external.  Bound: PSteps progress reports short of full.  *)
(***************************************************************************)
EXTENDS Naturals, Sequences, SequencesExt, FiniteSets

CONSTANTS
  JobIDs,
  PSteps,       \* a bound: how often a job's handler reports progress short of full
  JSetups       \* [app, workers, queue, stops, restarts, faults]

ASSUME JobsAssumption ==
  /\ PSteps \in Nat \ {0}
  /\ \A s \in JSetups : s.app \in {"manager", "export"} /\ s.workers \in Nat \ {0} /\ s.queue \in Nat

VARIABLES
  jset,     \* the setup
  jobs,     \* per job, its request, its execution, its memory and its row
  jqueue,   \* the pool's channel
  jpool     \* [open, restarts]

jvars == <<jset, jobs, jqueue, jpool>>

Manager == jset.app = "manager"
Types == IF Manager THEN {"email", "export", "unknown"} ELSE {"tasks", "comments"}

NoRecord == [status |-> "none", progress |-> 0]
Pending == [status |-> "pending", progress |-> 0]
Unborn == [type |-> "none", req |-> "none", exec |-> "none", held |-> FALSE, ctx |-> FALSE,
           mem |-> NoRecord, row |-> NoRecord, outcome |-> "none", lost |-> FALSE, told |-> "none"]

JInit ==
  /\ jset \in JSetups
  /\ jobs = [j \in JobIDs |-> Unborn] /\ jqueue = <<>>
  /\ jpool = [open |-> TRUE, restarts |-> 0]

JTypeOK ==
  /\ Len(jqueue) <= jset.queue /\ IsInjective(jqueue)
  /\ \A j \in JobIDs :
       /\ jobs[j].row.status \in {"none", "pending", "running", "completed", "failed"}
       /\ jobs[j].mem.progress \in 0..(PSteps + 1)
       /\ jobs[j].exec \in {"none", "queued", "starting", "working", "ending", "gone"}

Only(j, r) == jobs' = [jobs EXCEPT ![j] = r] /\ UNCHANGED <<jset, jqueue, jpool>>

\* repo.Update under the request's context: the row becomes the job as it is in
\* memory, unless the context has ended or the database fails.
\* ok tells the caller which.
RowUpdate(r, ok) == IF ok THEN [r EXCEPT !.row = r.mem] ELSE [r EXCEPT !.lost = TRUE]
CanUpdate(j) == IF ~jobs[j].ctx THEN {FALSE} ELSE IF jset.faults THEN BOOLEAN ELSE {TRUE}

\* Set the job's status in memory, with full progress when completed, and save it.
updateJobStatus(r, status, ok) ==
  RowUpdate([r EXCEPT !.mem = [status |-> status,
                               progress |-> IF status = "completed" THEN PSteps + 1 ELSE @.progress]], ok)

-----------------------------------------------------------------------------
(* The request                                                             *)

\* CreateJob, HandleCreate: the row, or an error.
CreateJob(j, t) ==
  /\ jobs[j] = Unborn /\ (t = "fault" => jset.faults)
  /\ Only(j, IF t = "fault" THEN [Unborn EXCEPT !.req = "closed"]
             ELSE [Unborn EXCEPT !.type = t, !.req = "offering", !.ctx = TRUE,
                                 !.mem = Pending, !.row = Pending])

\* pool.Submit: refused when the channel is full, a panic when it is closed.  The
\* manager marks a refused job failed; the export service leaves it.
Submit(j) ==
  /\ jobs[j].req = "offering" /\ UNCHANGED <<jset, jpool>>
  /\ \/ /\ jpool.open /\ Len(jqueue) < jset.queue
        /\ jqueue' = Append(jqueue, j)
        /\ jobs' = [jobs EXCEPT ![j].req = "answering", ![j].exec = "queued"]
     \/ /\ jpool.open /\ Len(jqueue) = jset.queue /\ UNCHANGED jqueue
        /\ \E ok \in CanUpdate(j) :
             jobs' = [jobs EXCEPT ![j] =
                        [(IF Manager THEN updateJobStatus(@, "failed", ok) ELSE @) EXCEPT !.req = "answering"]]
     \/ /\ ~jpool.open /\ UNCHANGED jqueue
        /\ jobs' = [jobs EXCEPT ![j].req = "answering"]

\* The handler returns, and with it the request's context ends.
Respond(j) ==
  /\ jobs[j].req = "answering"
  /\ Only(j, [jobs[j] EXCEPT !.req = "closed", !.ctx = FALSE])

Disconnect(j) ==
  /\ jobs[j].req \in {"offering", "answering"} /\ jobs[j].ctx
  /\ Only(j, [jobs[j] EXCEPT !.ctx = FALSE])

-----------------------------------------------------------------------------
(* The pool                                                                *)

Held == {j \in JobIDs : jobs[j].held}

TakeJob ==
  /\ jqueue # <<>> /\ Cardinality(Held) < jset.workers
  /\ jobs' = [jobs EXCEPT ![Head(jqueue)].exec = "starting", ![Head(jqueue)].held = TRUE]
  /\ jqueue' = Tail(jqueue) /\ UNCHANGED <<jset, jpool>>

\* The job has returned; or its time is up, or the pool stops, and it goes on alone.
WorkerLeaves(j) == jobs[j].held /\ Only(j, [jobs[j] EXCEPT !.held = FALSE])

PoolStop ==
  /\ jset.stops /\ jpool.open
  /\ jpool' = [jpool EXCEPT !.open = FALSE] /\ UNCHANGED <<jset, jobs, jqueue>>

\* The process dies and comes back: the rows are all that is left.
JobsRestart ==
  /\ jpool.restarts < jset.restarts
  /\ jpool' = [open |-> TRUE, restarts |-> jpool.restarts + 1] /\ jqueue' = <<>>
  /\ jobs' = [j \in JobIDs |->
                IF jobs[j] = Unborn THEN Unborn
                ELSE [jobs[j] EXCEPT !.req = "closed", !.exec = "gone", !.held = FALSE, !.ctx = FALSE,
                                     !.mem = NoRecord]]
  /\ UNCHANGED jset

-----------------------------------------------------------------------------
(* executeJob                                                              *)

\* Status running; if that cannot be saved the job is over.  No handler: failed.
StartJob(j) ==
  /\ jobs[j].exec = "starting" /\ Manager
  /\ \E ok \in CanUpdate(j) :
       LET r == updateJobStatus(jobs[j], "running", ok) IN
       IF ~ok THEN Only(j, [r EXCEPT !.exec = "gone"])
       ELSE IF r.type = "unknown"
       THEN \E saved \in CanUpdate(j) :
              Only(j, [updateJobStatus(r, "failed", saved) EXCEPT !.exec = "gone", !.outcome = "error"])
       ELSE Only(j, [r EXCEPT !.exec = "working"])

\* The email handler stops short of full progress, which the others report themselves.
LastReport(j) == IF jobs[j].type = "email" THEN PSteps ELSE PSteps + 1

\* updateProgress: the row follows if it can.
ReportProgress(j) ==
  /\ Manager /\ jobs[j].exec = "working" /\ jobs[j].mem.progress < LastReport(j)
  /\ jobs[j].type = "email" \/ jobs[j].ctx
  /\ \E ok \in CanUpdate(j) :
       Only(j, RowUpdate([jobs[j] EXCEPT !.mem.progress = @ + 1], ok))

\* The handler returns: all done; wrong parameters at its start; or, but for email,
\* the context's error.
JobHandlerReturns(j) ==
  /\ Manager /\ jobs[j].exec = "working"
  /\ \/ jobs[j].mem.progress = LastReport(j) /\ Only(j, [jobs[j] EXCEPT !.exec = "ending", !.outcome = "ok"])
     \/ /\ \/ jobs[j].type = "email" /\ jobs[j].mem.progress = 0
           \/ jobs[j].type # "email" /\ ~jobs[j].ctx /\ jobs[j].mem.progress < LastReport(j)
        /\ Only(j, [jobs[j] EXCEPT !.exec = "ending", !.outcome = "error"])

\* Mutant of EndJob: the handler's error is not looked at.
EndJobBlind(j) ==
  /\ Manager /\ jobs[j].exec = "ending"
  /\ \E ok \in CanUpdate(j) :
       Only(j, [updateJobStatus(jobs[j], "completed", ok) EXCEPT !.exec = "gone"])

EndJob(j) ==
  /\ Manager /\ jobs[j].exec = "ending"
  /\ \E ok \in CanUpdate(j) :
       Only(j, [updateJobStatus(jobs[j], IF jobs[j].outcome = "ok" THEN "completed" ELSE "failed", ok)
                  EXCEPT !.exec = "gone"])

-----------------------------------------------------------------------------
(* executeExport                                                           *)

StartExport(j) ==
  /\ ~Manager /\ jobs[j].exec = "starting"
  /\ Only(j, [jobs[j] EXCEPT !.exec = "working", !.mem.status = "running"])

\* exportTasks reads the tasks under the request's context and writes a file, either
\* of which may fail; exportComments does neither.
RunExport(j) ==
  /\ ~Manager /\ jobs[j].exec = "working"
  /\ \E ok \in IF jobs[j].type = "comments" THEN {TRUE} ELSE CanUpdate(j) :
       Only(j, [jobs[j] EXCEPT !.exec = "ending", !.outcome = IF ok THEN "ok" ELSE "error"])

\* The outcome, in memory only, and the event that announces it.
EndExport(j) ==
  /\ ~Manager /\ jobs[j].exec = "ending"
  /\ LET status == IF jobs[j].outcome = "ok" THEN "completed" ELSE "failed" IN
     Only(j, [jobs[j] EXCEPT !.exec = "gone", !.mem.status = status, !.told = status])

-----------------------------------------------------------------------------
(* What callers see                                                        *)

\* The export service looks in memory first.
GetJob(j) == IF ~Manager /\ jobs[j].mem # NoRecord THEN jobs[j].mem ELSE jobs[j].row
ListJobs == {j \in JobIDs : jobs[j].row # NoRecord}

JNext ==
  \/ \E j \in JobIDs :
       \/ \E t \in Types \cup {"fault"} : CreateJob(j, t)
       \/ Submit(j) \/ Respond(j) \/ Disconnect(j) \/ WorkerLeaves(j)
       \/ StartJob(j) \/ ReportProgress(j) \/ JobHandlerReturns(j) \/ EndJob(j)
       \/ StartExport(j) \/ RunExport(j) \/ EndExport(j)
  \/ TakeJob \/ PoolStop \/ JobsRestart

JSpec == JInit /\ [][JNext]_jvars

-----------------------------------------------------------------------------
(* Properties                                                              *)

TerminalStatus(s) == s \in {"completed", "failed"}

\* A row of the manager never says more than happened: completed, and then with full
\* progress, only of a job whose handler succeeded; failed, and then short of full
\* progress, only of one whose handler failed or that was refused; and an unfinished row
\* never runs ahead of its job.  Full progress alone does not say completed: three of the
\* handlers report it while the row still says running, for good if the last write fails.
RowHonest ==
  Manager => \A j \in JobIDs :
    LET r == jobs[j] IN
    /\ r.row.status = "completed" => r.row.progress = PSteps + 1 /\ r.outcome = "ok"
    /\ r.row.progress = PSteps + 1 => r.row.status \in {"running", "completed"}
    /\ r.row.status = "failed" => (r.outcome = "error" \/ (r.exec \in {"none", "gone"} /\ r.outcome = "none"))
    /\ r.mem # NoRecord => r.row.progress <= r.mem.progress

\* A row the manager leaves unfinished for good was left so by an update that could
\* not be saved, or by a stop or a restart of the process; by nothing else.
StuckNeedsCause ==
  Manager => \A j \in ListJobs :
    (~TerminalStatus(jobs[j].row.status) /\ jobs[j].exec \in {"none", "gone"} /\ jobs[j].req \in {"answering", "closed"})
      => jobs[j].lost \/ ~jpool.open \/ jpool.restarts > 0

\* Once a job has run to its end, in a process that goes on, GetJob says how it ended,
\* unless its row could not be updated.
FinishedIsReported ==
  \A j \in ListJobs :
    (jobs[j].exec = "gone" /\ jpool.open /\ jpool.restarts = 0 /\ ~jobs[j].lost)
      => TerminalStatus(GetJob(j).status)
=============================================================================
