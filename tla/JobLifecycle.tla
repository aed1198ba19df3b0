---------------------------- MODULE JobLifecycle ----------------------------
(***************************************************************************)
(* The life of a scenario job: the jobs and job_events tables, and every   *)
(* process that writes them without a common lock.                         *)
(*                                                                         *)
(*   - web requests enqueue, retry and cancel jobs  (ops/services.py);     *)
(*   - drivers, a Celery worker or a daemon thread of the web process,     *)
(*     execute them (ops/runner_bridge.py);                                *)
(*   - manage.py reconcile_jobs fails the stuck ones;                      *)
(*   - the retention task prunes the finished ones.                        *)
(*                                                                         *)
(* One action is one database transaction: Django runs in autocommit, so   *)
(* each ORM statement commits alone unless it is inside transaction.atomic.*)
(* A read whose only use is to learn that the row exists is merged with    *)
(* the write that follows it and would fail for the same reason.           *)
(*                                                                         *)
(* A definition called Bad... is a plausible mistake in the operation that *)
(* follows it; it is part of no specification and only serves to show that *)
(* a property can fail.                                                    *)
(***************************************************************************)
EXTENDS Naturals

CONSTANTS
  Jobs,            \* job ids: uuid4 values, never reused
  Requests,        \* HTTP requests; each runs one operation, once
  Workers,         \* Celery worker processes (--pool=solo: one task at a time)
  Transports,      \* what RUN_JOBS_INLINE and the ping allow: celery, inline
  NoJob, NoTask,   \* null values
  MaxSteps,        \* bound: step events one execution emits
  MaxFaults,       \* bound: crashes and failed statements in a behaviour
  MaxRedeliveries  \* bound: messages the broker delivers a second time

ASSUME ProcessAssumption ==
  /\ Workers \cap Requests = {}
  /\ NoJob \notin Jobs
  /\ NoTask \notin Requests
  /\ Transports \subseteq {"celery", "inline"}

ASSUME BoundAssumption ==
  /\ MaxSteps \in Nat
  /\ MaxFaults \in Nat
  /\ MaxRedeliveries \in Nat

VARIABLES
  row,          \* the jobs table: the row of each job id
  events,       \* the job_events table: the types of event each job has
  born,         \* ids create_job has handed out
  queue,        \* run_scenario_job messages at the broker
  revoked,      \* task ids each worker has been told to drop
  req,          \* the web requests
  drv,          \* the drivers: a worker, or the thread request r started
  rec,          \* the reconcile_jobs command
  prune,        \* the jobs part of the retention task
  runs,         \* history: how often a job was put in "running"
  verdict,      \* history: what the scenario of the job really ended with
  faults,       \* how many faults have happened (bounded by MaxFaults)
  redeliveries  \* how many messages came twice (bounded by MaxRedeliveries)

vars == <<row, events, born, queue, revoked, req, drv, rec, prune,
          runs, verdict, faults, redeliveries>>
env  == <<faults, redeliveries>>

-----------------------------------------------------------------------------
(* Types *)

ActiveStatus   == {"queued", "running"}
TerminalStatus == {"success", "failed", "cancelled"}
EventType      == ActiveStatus \cup TerminalStatus \cup {"submitted", "step"}
Outcome        == {"success", "failed", "raised"}

Drivers == Workers \cup Requests
Message == [task : Requests, job : Jobs]

\* stale: updated_at is older than JOB_STALE_MINUTES; aged: finished_at is
\* older than RETENTION_JOBS_DAYS.
Row == [status   : ActiveStatus \cup TerminalStatus \cup {"absent"},
        started  : BOOLEAN,
        finished : BOOLEAN,
        exit     : {"none", "zero", "nonzero"},
        error    : BOOLEAN,
        task     : Requests \cup {NoTask},
        stale    : BOOLEAN,
        aged     : BOOLEAN]

NoRow == [status |-> "absent", started |-> FALSE, finished |-> FALSE,
          exit |-> "none", error |-> FALSE, task |-> NoTask,
          stale |-> FALSE, aged |-> FALSE]

\* job: the job an enqueue or a retry created; target: the job a cancel is
\* about, with the status and the task id it read from the row.
ReqState == [pc     : {"new", "dispatch", "taskid", "submit", "spawn",
                       "revoke", "mark", "done"},
             job    : Jobs \cup {NoJob},
             target : Jobs \cup {NoJob},
             seen   : ActiveStatus \cup TerminalStatus \cup {"absent"},
             task   : Requests \cup {NoTask}]

DrvState == [pc    : {"idle", "start", "announce", "run", "save", "report"},
             job   : Jobs \cup {NoJob},
             task  : Requests \cup {NoTask},
             out   : Outcome,
             steps : 0..MaxSteps]

RecState   == [pc   : {"idle", "save", "event"},
               todo : SUBSET Jobs,
               job  : Jobs \cup {NoJob}]
PruneState == [pc : {"idle", "events", "jobs"}, victims : SUBSET Jobs]

TypeOK ==
  /\ row \in [Jobs -> Row]
  /\ events \in [Jobs -> SUBSET EventType]
  /\ born \in SUBSET Jobs
  /\ queue \in SUBSET Message
  /\ revoked \in [Workers -> SUBSET Requests]
  /\ req \in [Requests -> ReqState]
  /\ drv \in [Drivers -> DrvState]
  /\ rec \in RecState
  /\ prune \in PruneState
  /\ runs \in [Jobs -> Nat]
  /\ verdict \in [Jobs -> Outcome \cup {"none"}]
  /\ faults \in 0..MaxFaults
  /\ redeliveries \in 0..MaxRedeliveries

-----------------------------------------------------------------------------
(* State predicates *)

Present(j)  == row[j].status # "absent"
Terminal(j) == row[j].status \in TerminalStatus
Idle        == [pc |-> "idle", job |-> NoJob, task |-> NoTask,
                out |-> "raised", steps |-> 0]
Active(d)   == drv[d].pc # "idle"

\* The saves: what each of them writes into the row x of a job.
WithTask(x, t)  == [x EXCEPT !.task = t]
Stale(x)        == [x EXCEPT !.stale = TRUE]
Aged(x)         == [x EXCEPT !.aged = TRUE]
Queued          == [NoRow EXCEPT !.status = "queued"]
Running(x)      == [x EXCEPT !.status = "running", !.started = TRUE, !.stale = FALSE]
Closed(x, status) == [x EXCEPT !.status = status, !.finished = TRUE,
                               !.stale = FALSE, !.aged = FALSE]
Failed(x)       == [Closed(x, "failed") EXCEPT !.error = TRUE]

\* A request that has created its job; one that has read job j to cancel it.
Created(x, j)   == [x EXCEPT !.pc = "dispatch", !.job = j]
Cancelling(x, j) == [x EXCEPT !.pc = "revoke", !.target = j,
                              !.seen = row[j].status, !.task = row[j].task]

\* A driver that has been given a job; one whose scenario is over.
Assigned(task, job) == [Idle EXCEPT !.pc = "start", !.job = job, !.task = task]
Stepped(x)      == [x EXCEPT !.steps = @ + 1]
Ended(x, out)   == [x EXCEPT !.pc = "save", !.out = out]

AppendEvent(j, e) == events' = [events EXCEPT ![j] = @ \cup {e}]
At(x, label)      == [x EXCEPT !.pc = label]
Goto(r, label)    == req' = [req EXCEPT ![r] = At(@, label)]
DriverTo(d, label) == drv' = [drv EXCEPT ![d] = At(@, label)]
EndDriver(d)      == drv' = [drv EXCEPT ![d] = Idle]
Fault             == /\ faults < MaxFaults
                     /\ faults' = faults + 1
                     /\ UNCHANGED redeliveries

-----------------------------------------------------------------------------
Init ==
  /\ row = [j \in Jobs |-> NoRow]
  /\ events = [j \in Jobs |-> {}]
  /\ born = {}
  /\ queue = {}
  /\ revoked = [w \in Workers |-> {}]
  /\ req = [r \in Requests |-> [pc |-> "new", job |-> NoJob, target |-> NoJob,
                                seen |-> "absent", task |-> NoTask]]
  /\ drv = [d \in Drivers |-> Idle]
  /\ rec = [pc |-> "idle", todo |-> {}, job |-> NoJob]
  /\ prune = [pc |-> "idle", victims |-> {}]
  /\ runs = [j \in Jobs |-> 0]
  /\ verdict = [j \in Jobs |-> "none"]
  /\ faults = 0
  /\ redeliveries = 0

-----------------------------------------------------------------------------
(* Web requests: enqueue, retry                                            *)

\* create_job, atomic: the row and its "queued" event appear together.
CreateJob(r, j) ==
  /\ req[r].pc = "new"
  /\ j \notin born
  /\ born' = born \cup {j}
  /\ row' = [row EXCEPT ![j] = Queued]
  /\ AppendEvent(j, "queued")
  /\ req' = [req EXCEPT ![r] = Created(@, j)]
  /\ UNCHANGED <<queue, revoked, drv, rec, prune, runs, verdict, env>>

\* enqueue_scenario_job: the target scenario is visible, a job is created.
Enqueue(r, j) == CreateJob(r, j)

BadRetry(r, src, j) ==  \* the job itself is put back in the queue
  /\ req[r].pc = "new"
  /\ Present(src)
  /\ row' = [row EXCEPT ![src].status = "queued"]
  /\ AppendEvent(src, "queued")
  /\ req' = [req EXCEPT ![r] = Created(@, src)]
  /\ UNCHANGED <<born, queue, revoked, drv, rec, prune, runs, verdict, env>>

\* retry_job_for_user: the source job is only read, whatever its status, and
\* its scenario and payload are given to a new job.
Retry(r, src, j) == Present(src) /\ CreateJob(r, j)

\* _dispatch_job, a worker answered the ping (or RUN_JOBS_INLINE is false):
\* run_scenario_job.delay puts the message at the broker before the row
\* knows its task id.
Delay(r) ==
  /\ "celery" \in Transports
  /\ req[r].pc = "dispatch"
  /\ queue' = queue \cup {[task |-> r, job |-> req[r].job]}
  /\ Goto(r, "taskid")
  /\ UNCHANGED <<row, events, born, revoked, drv, rec, prune, runs, verdict, env>>

\* set_celery_task_id: a queryset update, so updated_at does not move. It
\* raises RuntimeError when the row is gone, which ends the request.
SetCeleryTaskId(r) ==
  LET j == req[r].job IN
  /\ req[r].pc = "taskid"
  /\ \/ /\ Present(j)
        /\ row' = [row EXCEPT ![j] = WithTask(@, r)]
        /\ Goto(r, "submit")
     \/ /\ ~Present(j)
        /\ Goto(r, "done")
        /\ UNCHANGED row
  /\ UNCHANGED <<events, born, queue, revoked, drv, rec, prune, runs, verdict, env>>

\* append_job_event under the foreign key: the insert fails when the job row
\* is gone.
InsertEvent(j, e) ==
  IF Present(j) THEN AppendEvent(j, e) ELSE UNCHANGED events

\* The "submitted" event of the Celery branch; the request answers 202 (or
\* fails on the foreign key) and is over.
SubmittedToCelery(r) ==
  /\ req[r].pc = "submit"
  /\ InsertEvent(req[r].job, "submitted")
  /\ Goto(r, "done")
  /\ UNCHANGED <<row, born, queue, revoked, drv, rec, prune, runs, verdict, env>>

\* The inline branch: the "submitted" event comes first ...
SubmittedInline(r) ==
  /\ "inline" \in Transports
  /\ req[r].pc = "dispatch"
  /\ InsertEvent(req[r].job, "submitted")
  /\ Goto(r, IF Present(req[r].job) THEN "spawn" ELSE "done")
  /\ UNCHANGED <<row, born, queue, revoked, drv, rec, prune, runs, verdict, env>>

\* ... then _run_job_inline starts the daemon thread.
RunJobInline(r) ==
  /\ req[r].pc = "spawn"
  /\ drv' = [drv EXCEPT ![r] = Assigned(r, req[r].job)]
  /\ Goto(r, "done")
  /\ UNCHANGED <<row, events, born, queue, revoked, rec, prune, runs, verdict, env>>

-----------------------------------------------------------------------------
(* Web requests: cancel                                                    *)

\* get_job_for_user: the status and the task id are read here and used two
\* steps later. (A missing row is a 404 and changes nothing.)
FetchForCancel(r, j) ==
  /\ req[r].pc = "new"
  /\ Present(j)
  /\ req' = [req EXCEPT ![r] = Cancelling(@, j)]
  /\ UNCHANGED <<row, events, born, queue, revoked, drv, rec, prune, runs, verdict, env>>

\* control.revoke(terminate=False) is a broadcast: the workers it reaches will
\* drop a message they have not started; a run in progress goes on.
Revoke(r) ==
  /\ req[r].pc = "revoke"
  /\ \/ /\ req[r].task # NoTask
        /\ \E W \in SUBSET Workers :
             revoked' = [w \in Workers |->
                          IF w \in W THEN revoked[w] \cup {req[r].task} ELSE revoked[w]]
     \/ /\ req[r].task = NoTask
        /\ UNCHANGED revoked
  /\ Goto(r, "mark")
  /\ UNCHANGED <<row, events, born, queue, drv, rec, prune, runs, verdict, env>>

BadMarkCancelled(r) ==  \* the other spelling, which no reader of the status knows
  /\ req[r].pc = "mark"
  /\ req[r].seen \in ActiveStatus
  /\ Present(req[r].target)
  /\ row' = [row EXCEPT ![req[r].target] = [@ EXCEPT !.status = "canceled", !.finished = TRUE]]
  /\ Goto(r, "done")
  /\ UNCHANGED <<events, born, queue, revoked, drv, rec, prune, runs, verdict, env>>

\* mark_job_cancelled, atomic: the check is on the status that was read by
\* FetchForCancel, the write is unconditional. 409 when that status was
\* terminal; a row pruned meanwhile makes the save raise.
MarkCancelled(r) ==
  LET j == req[r].target IN
  /\ req[r].pc = "mark"
  /\ \/ /\ req[r].seen \in ActiveStatus
        /\ Present(j)
        /\ row' = [row EXCEPT ![j] = Closed(@, "cancelled")]
        /\ AppendEvent(j, "cancelled")
     \/ /\ req[r].seen \notin ActiveStatus \/ ~Present(j)
        /\ UNCHANGED <<row, events>>
  /\ Goto(r, "done")
  /\ UNCHANGED <<born, queue, revoked, drv, rec, prune, runs, verdict, env>>

\* The web process is killed (or a statement fails, or the broker is down):
\* the request stops where it is.
RequestFails(r) ==
  /\ req[r].pc \notin {"new", "done"}
  /\ Fault
  /\ Goto(r, "done")
  /\ UNCHANGED <<row, events, born, queue, revoked, drv, rec, prune, runs, verdict>>

-----------------------------------------------------------------------------
(* The broker and the workers (Celery, early acknowledgement)              *)

\* An idle worker takes a message; it drops it when the task was revoked. The
\* broker may hand a prefetched message out again (redelivery).
TakeMessage(w, m) ==
  /\ m \in queue
  /\ ~Active(w)
  /\ \/ queue' = queue \ {m} /\ UNCHANGED env
     \/ /\ redeliveries < MaxRedeliveries
        /\ redeliveries' = redeliveries + 1
        /\ UNCHANGED <<queue, faults>>
  /\ IF m.task \in revoked[w]
       THEN UNCHANGED drv
       ELSE drv' = [drv EXCEPT ![w] = Assigned(m.task, m.job)]
  /\ UNCHANGED <<row, events, born, revoked, req, rec, prune, runs, verdict>>

-----------------------------------------------------------------------------
(* Drivers: execute_scenario_job                                           *)

BadStartRun(d) ==  \* no "running" event
  /\ drv[d].pc = "start"
  /\ Present(drv[d].job)
  /\ row' = [row EXCEPT ![drv[d].job] = Running(@)]
  /\ runs' = [runs EXCEPT ![drv[d].job] = @ + 1]
  /\ DriverTo(d, "run")
  /\ UNCHANGED <<events, born, queue, revoked, req, rec, prune, verdict, env>>

\* Job.objects.get and the "running" save: the status found is not looked at.
\* A missing row is RuntimeError("Job introuvable").
StartRun(d) ==
  LET j == drv[d].job IN
  /\ drv[d].pc = "start"
  /\ \/ /\ Present(j)
        /\ row' = [row EXCEPT ![j] = Running(@)]
        /\ runs' = [runs EXCEPT ![j] = @ + 1]
        /\ DriverTo(d, "announce")
     \/ /\ ~Present(j)
        /\ EndDriver(d)
        /\ UNCHANGED <<row, runs>>
  /\ UNCHANGED <<events, born, queue, revoked, req, rec, prune, verdict, env>>

\* The "running" event, still outside the try block: a failure ends the driver.
AnnounceRun(d) ==
  LET j == drv[d].job IN
  /\ drv[d].pc = "announce"
  /\ InsertEvent(j, "running")
  /\ IF Present(j) THEN DriverTo(d, "run") ELSE EndDriver(d)
  /\ UNCHANGED <<row, born, queue, revoked, req, rec, prune, runs, verdict, env>>

\* The sink turns a StepEvent into a row; the engine swallows its errors, so
\* the run goes on when the job row is gone.
StepEvent(d) ==
  /\ drv[d].pc = "run"
  /\ drv[d].steps < MaxSteps
  /\ InsertEvent(drv[d].job, "step")
  /\ drv' = [drv EXCEPT ![d] = Stepped(@)]
  /\ UNCHANGED <<row, born, queue, revoked, req, rec, prune, runs, verdict, env>>

\* The scenario returns exit code 0 ("success"), another exit code ("failed"),
\* or raises.
ScenarioEnds(d, out) ==
  /\ drv[d].pc = "run"
  /\ verdict' = [verdict EXCEPT ![drv[d].job] = out]
  /\ drv' = [drv EXCEPT ![d] = Ended(@, out)]
  /\ UNCHANGED <<row, events, born, queue, revoked, req, rec, prune, runs, env>>

\* The status, and the event type, that stand for an outcome.
StatusOf(out) == IF out = "success" THEN "success" ELSE "failed"

\* The terminal save: the exit code on the normal path, the traceback on the
\* except path, which leaves an exit code that is already there.
Recorded(x, out) ==
  IF out = "raised"
    THEN Failed(x)
    ELSE [Closed(x, StatusOf(out)) EXCEPT
            !.exit = IF out = "success" THEN "zero" ELSE "nonzero"]

BadSaveOutcome(d) ==  \* any exit code counts as a success
  /\ drv[d].pc = "save"
  /\ Present(drv[d].job)
  /\ row' = [row EXCEPT ![drv[d].job] =
               Closed(@, IF drv[d].out = "raised" THEN "failed" ELSE "success")]
  /\ DriverTo(d, "report")
  /\ UNCHANGED <<events, born, queue, revoked, req, rec, prune, runs, verdict, env>>

\* refresh_from_db and the terminal save, of the normal path or of the except
\* path. A row that is gone raises, and raises again in the except path.
SaveOutcome(d) ==
  LET j == drv[d].job
      out == drv[d].out
  IN
  /\ drv[d].pc = "save"
  /\ \/ /\ Present(j)
        /\ row' = [row EXCEPT ![j] = Recorded(@, out)]
        /\ DriverTo(d, "report")
     \/ /\ ~Present(j)
        /\ EndDriver(d)
        /\ UNCHANGED row
  /\ UNCHANGED <<events, born, queue, revoked, req, rec, prune, runs, verdict, env>>

\* The terminal event. A row that is gone raises and ends the driver.
ReportOutcome(d) ==
  /\ drv[d].pc = "report"
  /\ InsertEvent(drv[d].job, StatusOf(drv[d].out))
  /\ EndDriver(d)
  /\ UNCHANGED <<row, born, queue, revoked, req, rec, prune, runs, verdict, env>>

\* A statement of the driver fails. Inside the try block of the normal path
\* the except path takes over and will save "failed", even over a "success"
\* that is already in the row; anywhere else the driver ends.
StatementFails(d) ==
  /\ drv[d].pc \in {"start", "announce", "save", "report"}
  /\ Fault
  /\ IF drv[d].pc \in {"save", "report"} /\ drv[d].out # "raised"
       THEN drv' = [drv EXCEPT ![d] = Ended(@, "raised")]
       ELSE EndDriver(d)
  /\ UNCHANGED <<row, events, born, queue, revoked, req, rec, prune, runs, verdict>>

\* The process of the driver dies. The message was acknowledged, so nobody
\* takes the job over; a restarted worker has forgotten what was revoked.
DriverCrashes(d) ==
  /\ Active(d)
  /\ Fault
  /\ EndDriver(d)
  /\ revoked' = [w \in Workers |-> IF w = d THEN {} ELSE revoked[w]]
  /\ UNCHANGED <<row, events, born, queue, req, rec, prune, runs, verdict>>

-----------------------------------------------------------------------------
(* manage.py reconcile_jobs                                                *)

\* An active job whose updated_at has not moved for JOB_STALE_MINUTES. Events
\* do not touch updated_at, so the job of a long run gets there too.
BecomesStale(j) ==
  /\ row[j].status \in ActiveStatus
  /\ ~row[j].stale
  /\ row' = [row EXCEPT ![j] = Stale(@)]
  /\ UNCHANGED <<events, born, queue, revoked, req, drv, rec, prune, runs, verdict, env>>

BadReconcileScan ==  \* only "running" jobs are looked for
  LET stale == {j \in Jobs : row[j].status = "running" /\ row[j].stale} IN
  /\ rec.pc = "idle"
  /\ stale # {}
  /\ rec' = [pc |-> "save", todo |-> stale, job |-> NoJob]
  /\ UNCHANGED <<row, events, born, queue, revoked, req, drv, prune, runs, verdict, env>>

\* The list of stale jobs is read once.
ReconcileScan ==
  LET stale == {j \in Jobs : row[j].status \in ActiveStatus /\ row[j].stale} IN
  /\ rec.pc = "idle"
  /\ stale # {}
  /\ rec' = [pc |-> "save", todo |-> stale, job |-> NoJob]
  /\ UNCHANGED <<row, events, born, queue, revoked, req, drv, prune, runs, verdict, env>>

BadReconcileSave(j) ==  \* finished_at and the event are forgotten
  /\ rec.pc = "save"
  /\ j \in rec.todo
  /\ row' = [row EXCEPT ![j] = [@ EXCEPT !.status = "failed", !.error = TRUE,
                                         !.stale = FALSE]]
  /\ rec' = [pc |-> "idle", todo |-> {}, job |-> NoJob]
  /\ UNCHANGED <<events, born, queue, revoked, req, drv, prune, runs, verdict, env>>

\* Then each is failed without looking at its row again. A row pruned
\* meanwhile makes the save raise and the command stop.
ReconcileSave(j) ==
  /\ rec.pc = "save"
  /\ j \in rec.todo
  /\ \/ /\ Present(j)
        /\ row' = [row EXCEPT ![j] = Failed(@)]
        /\ rec' = [pc |-> "event", todo |-> rec.todo \ {j}, job |-> j]
     \/ /\ ~Present(j)
        /\ rec' = [pc |-> "idle", todo |-> {}, job |-> NoJob]
        /\ UNCHANGED row
  /\ UNCHANGED <<events, born, queue, revoked, req, drv, prune, runs, verdict, env>>

ReconcileEvent ==
  /\ rec.pc = "event"
  /\ InsertEvent(rec.job, "failed")
  /\ rec' = IF Present(rec.job) /\ rec.todo # {}
              THEN [rec EXCEPT !.pc = "save", !.job = NoJob]
              ELSE [pc |-> "idle", todo |-> {}, job |-> NoJob]
  /\ UNCHANGED <<row, born, queue, revoked, req, drv, prune, runs, verdict, env>>

ReconcileFails ==
  /\ rec.pc # "idle"
  /\ Fault
  /\ rec' = [pc |-> "idle", todo |-> {}, job |-> NoJob]
  /\ UNCHANGED <<row, events, born, queue, revoked, req, drv, prune, runs, verdict>>

-----------------------------------------------------------------------------
(* Retention: the jobs part of prune_database_records                      *)

BecomesAged(j) ==
  /\ row[j].finished
  /\ ~row[j].aged
  /\ row' = [row EXCEPT ![j] = Aged(@)]
  /\ UNCHANGED <<events, born, queue, revoked, req, drv, rec, prune, runs, verdict, env>>

\* The ids are selected on finished_at alone; the status is not looked at.
PruneScan ==
  LET old == {j \in Jobs : Present(j) /\ row[j].finished /\ row[j].aged} IN
  /\ prune.pc = "idle"
  /\ old # {}
  /\ prune' = [pc |-> "events", victims |-> old]
  /\ UNCHANGED <<row, events, born, queue, revoked, req, drv, rec, runs, verdict, env>>

PruneEvents ==
  /\ prune.pc = "events"
  /\ events' = [j \in Jobs |-> IF j \in prune.victims THEN {} ELSE events[j]]
  /\ prune' = [prune EXCEPT !.pc = "jobs"]
  /\ UNCHANGED <<row, born, queue, revoked, req, drv, rec, runs, verdict, env>>

\* The delete of the rows cascades to the events added since.
PruneJobs ==
  /\ prune.pc = "jobs"
  /\ row' = [j \in Jobs |-> IF j \in prune.victims THEN NoRow ELSE row[j]]
  /\ events' = [j \in Jobs |-> IF j \in prune.victims THEN {} ELSE events[j]]
  /\ prune' = [pc |-> "idle", victims |-> {}]
  /\ UNCHANGED <<born, queue, revoked, req, drv, rec, runs, verdict, env>>

PruneFails ==
  /\ prune.pc # "idle"
  /\ Fault
  /\ prune' = [pc |-> "idle", victims |-> {}]
  /\ UNCHANGED <<row, events, born, queue, revoked, req, drv, rec, runs, verdict>>

-----------------------------------------------------------------------------
(* The specification                                                       *)

RequestStep(r) ==
  \/ Delay(r) \/ SetCeleryTaskId(r) \/ SubmittedToCelery(r)
  \/ SubmittedInline(r) \/ RunJobInline(r)
  \/ Revoke(r) \/ MarkCancelled(r)

RequestNew(r) ==
  \/ \E j \in Jobs : Enqueue(r, j) \/ FetchForCancel(r, j)
  \/ \E src, j \in Jobs : Retry(r, src, j)

DriverStep(d) ==
  \/ StartRun(d) \/ AnnounceRun(d) \/ StepEvent(d)
  \/ \E out \in Outcome : ScenarioEnds(d, out)
  \/ SaveOutcome(d) \/ ReportOutcome(d)

ReconcileStep == ReconcileScan \/ ReconcileEvent \/ \E j \in Jobs : ReconcileSave(j)
PruneStep     == PruneScan \/ PruneEvents \/ PruneJobs

Next ==
  \/ \E r \in Requests : RequestNew(r) \/ RequestStep(r) \/ RequestFails(r)
  \/ \E w \in Workers, m \in queue : TakeMessage(w, m)
  \/ \E d \in Drivers : DriverStep(d) \/ StatementFails(d) \/ DriverCrashes(d)
  \/ \E j \in Jobs : BecomesStale(j) \/ BecomesAged(j)
  \/ ReconcileStep \/ ReconcileFails
  \/ PruneStep \/ PruneFails

Spec == Init /\ [][Next]_vars

\* A request, a driver and a command go on until they end or fail; a worker
\* that is idle takes messages; time passes; reconcile_jobs is run again and
\* again, as its docstring asks. New requests and pruning are nobody's duty.
Fairness ==
  /\ \A r \in Requests : WF_vars(RequestStep(r))
  /\ \A d \in Drivers : WF_vars(DriverStep(d))
  /\ \A w \in Workers : WF_vars(\E m \in queue : TakeMessage(w, m))
  /\ \A j \in Jobs : WF_vars(BecomesStale(j))
  /\ WF_vars(ReconcileStep)
  /\ WF_vars(PruneEvents \/ PruneJobs)

FairSpec == Spec /\ Fairness

-----------------------------------------------------------------------------
(* Properties                                                              *)

\* Every job id that a request, a message, a driver, the reconciler or the
\* retention task works on was handed out by create_job.
Located ==
  /\ \A r \in Requests :
       /\ req[r].pc \in {"dispatch", "taskid", "submit", "spawn"} => req[r].job \in born
       /\ req[r].pc \in {"revoke", "mark"} => req[r].target \in born
  /\ \A d \in Drivers : Active(d) => drv[d].job \in born /\ drv[d].task \in Requests
  /\ \A m \in queue : m.job \in born
  /\ \A j \in Jobs : Present(j) => j \in born
  /\ rec.pc = "event" => rec.job \in born
  /\ rec.todo \subseteq born
  /\ prune.victims \subseteq born

\* The request that created job j has not handed it over yet.
Undelivered(j) == \E r \in Requests : req[r].job = j /\ req[r].pc \in {"dispatch", "spawn"}

\* A cancel of j has passed the point where it learns that j is over.
CancelPending(j) == \E r \in Requests : /\ req[r].target = j
                                        /\ req[r].pc \in {"revoke", "mark"}
                                        /\ req[r].seen \in ActiveStatus

\* Job j is over for good: nothing that can still write its status is left.
Settled(j) ==
  /\ j \in born
  /\ ~Present(j) \/ Terminal(j)
  /\ ~Undelivered(j)
  /\ ~CancelPending(j)
  /\ \A m \in queue : m.job # j
  /\ \A d \in Drivers : drv[d].job # j
  /\ j \notin rec.todo

\* However cancel, reconcile, retention and the driver of a job interleave,
\* the columns of a row agree with its status: a terminal status has its
\* finished_at; "success" has exit code 0 and a started_at; "failed" says why
\* (an error text or a non-zero exit code); an exit code is only there when
\* the scenario really returned it.
RowCoherent ==
  \A j \in Jobs :
    /\ Terminal(j) => row[j].finished
    /\ row[j].status = "success" => row[j].exit = "zero" /\ row[j].started
    /\ row[j].status = "failed" => row[j].error \/ row[j].exit = "nonzero"
    /\ row[j].exit = "zero" => verdict[j] = "success"
    /\ row[j].exit = "nonzero" => verdict[j] = "failed"

\* A job is executed at most once and never by two drivers at a time, through
\* every mix of transports, cancels, crashes and retries. (The broker must not
\* redeliver.)
RunsOnce ==
  /\ \A j \in Jobs : runs[j] <= 1
  /\ \A d1, d2 \in Drivers : Active(d1) /\ Active(d2) /\ d1 # d2
                              => drv[d1].job # drv[d2].job

\* The log of a job tells one story to the client that polls it: "queued" is
\* its first entry, nothing of a run precedes its "running", and no step and
\* no second "running" follows its "success". (Retention may have emptied the
\* log in between; then it has no "queued" any more.)
LogOrdered ==
  [][\A j \in Jobs :
       LET new == events'[j] \ events[j] IN
         /\ "queued" \in new => events[j] = {} /\ j \notin born
         /\ "step" \in new \/ "success" \in new
              => {"queued", "running"} \subseteq events[j] \/ "queued" \notin events[j]
         /\ "success" \in events[j] => {"step", "running"} \cap new = {}]_vars

\* The log explains the status of j, or the writer of the status is about to
\* make it so, or retention has taken the log first, or something has failed.
Announced(j) ==
  \/ row[j].status \in events[j]
  \/ \E d \in Drivers : /\ drv[d].job = j /\ drv[d].pc = "report"
                         /\ row[j].status = StatusOf(drv[d].out)
  \/ rec.pc = "event" /\ rec.job = j /\ row[j].status = "failed"
  \/ prune.pc = "jobs" /\ j \in prune.victims
  \/ faults > 0

\* Nobody can see a terminal status that the log of the job will not explain:
\* its event is there, or the writer is about to add it. The exceptions are a
\* fault between the two writes and retention, which takes the log first.
StatusAnnounced == \A j \in Jobs : Terminal(j) => Announced(j)

\* The columns that tell how a job ended.
Result(j) == <<row[j].status, row[j].exit, row[j].error, row[j].started, row[j].finished>>

\* Once a job is settled it stays settled and no later step changes how it
\* ended, except that retention may delete it: a retry of it, another job, a
\* later reconcile or a second cancel never touch it.
SettledStays ==
  [][\A j \in Jobs : Settled(j) =>
       Settled(j)' /\ (Result(j)' = Result(j) \/ ~Present(j)')]_vars

\* Every job ends: crashes of workers, web processes and commands, lost
\* messages and cancelled runs leave nothing "queued" or "running" forever,
\* because reconcile_jobs is run again and again.
EveryJobSettles == \A j \in Jobs : (j \in born) ~> Settled(j)

\* ops/api.py:60 and ops/services.py:395: a cancel answers 409 when the job
\* is not queued or running, so it never overwrites a job that is over.
CancelOnlyActive ==
  [][\A r \in Requests :
       MarkCancelled(r) /\ row' # row => row[req[r].target].status \in ActiveStatus]_vars

-----------------------------------------------------------------------------
(* The abstract contract                                                   *)

\* What a client reads of a job, from its row and from the ids handed out.
phaseBar == [j \in Jobs |-> IF Present(j) THEN row[j].status
                            ELSE IF j \in born THEN "forgotten" ELSE "unborn"]

begunBar  == [j \in Jobs |-> runs[j] > 0]
passedBar == [j \in Jobs |-> verdict[j] = "success"]
closedBar == [j \in Jobs |-> row[j].finished \/ phaseBar[j] = "forgotten"]

Ledger == INSTANCE JobLedger WITH
            phase <- phaseBar, begun <- begunBar, passed <- passedBar, closed <- closedBar

\* The tables, with all their writers, keep the contract of JobLedger.
LedgerSpec == Ledger!Spec

=============================================================================
