---------------------------- MODULE SystemStatus ----------------------------
(***************************************************************************)
(* What GET /system/status says of the parts of the system, and what they  *)
(* really do (ops/services.py). The scheduler refreshes a file from a      *)
(* thread of its own; Celery beat has no sign of life but a task that      *)
(* stamps a row, so it also needs Redis, the database and a worker that is *)
(* free: the worker is solo, and answers neither the task nor a ping while *)
(* it runs a job.                                                          *)
(*                                                                         *)
(* One step of the clock is the interval of the scheduler's thread.        *)
(***************************************************************************)
EXTENDS Integers

CONSTANTS
  SchedulerStale, \* SCHEDULER_HEARTBEAT_STALE_SECONDS, in intervals
  BeatStale,      \* BEAT_HEARTBEAT_STALE_SECONDS, in intervals
  BeatEvery,      \* BEAT_HEARTBEAT_INTERVAL_SECONDS, in intervals
  MaxLost         \* bound: heartbeats in a row that cannot be written

\* 15 seconds to 90, and 60 to 180, leave room for more than one lost write.
ASSUME StatusAssumption ==
  /\ {SchedulerStale, BeatStale, BeatEvery, MaxLost} \subseteq Nat
  /\ 0 < BeatEvery /\ BeatEvery < BeatStale
  /\ MaxLost < SchedulerStale

VARIABLES
  up,         \* the parts that are running
  busy,       \* the worker is running a job
  queue,      \* beat_heartbeat_task messages in Redis; a full queue stays full
  age,        \* of the scheduler's file and of the stamp, in intervals
  nextBeat,   \* intervals until beat sends the task again
  lost,       \* heartbeats of the scheduler lost in a row
  beaten,     \* the thread of the scheduler has beaten in this interval
  gone,       \* history: intervals since the scheduler died; since no stamp of
              \* a beat that died was left to be made
  calm        \* history: intervals since anything was down or busy

statusVars == <<up, busy, queue, age, nextBeat, lost, beaten, gone, calm>>

Parts    == {"database", "redis", "celery_worker", "celery_beat", "scheduler"}
Critical == {"database", "redis", "scheduler"}
Celery   == {"redis", "celery_worker", "celery_beat"}

\* No clock need count further than this.
Cap == SchedulerStale + BeatStale + BeatEvery + 1
Later(n) == IF n < Cap THEN n + 1 ELSE n
Full == 2

StatusTypeOK ==
  /\ up \in SUBSET Parts
  /\ busy \in BOOLEAN /\ beaten \in BOOLEAN
  /\ queue \in 0..Full
  /\ age \in [{"scheduler", "celery_beat"} -> 0..Cap]
  /\ nextBeat \in 0..BeatEvery
  /\ lost \in 0..MaxLost
  /\ gone \in [{"scheduler", "celery_beat"} -> 0..Cap]
  /\ calm \in 0..Cap

StatusInit ==
  /\ up = {"database"}
  /\ busy = FALSE /\ beaten = FALSE
  /\ queue = 0
  /\ age = [p \in {"scheduler", "celery_beat"} |-> Cap]  \* no file, no row
  /\ nextBeat = 0
  /\ lost = 0
  /\ gone = [p \in {"scheduler", "celery_beat"} |-> 0]
  /\ calm = 0

-----------------------------------------------------------------------------
(* The parts                                                               *)

\* _start_heartbeat: the first heartbeat is written before anything else.
Start(p) ==
  /\ p \notin up
  /\ up' = up \cup {p}
  /\ age' = IF p = "scheduler" THEN [age EXCEPT !.scheduler = 0] ELSE age
  /\ beaten' = (beaten \/ p = "scheduler")
  /\ lost' = IF p = "scheduler" THEN 0 ELSE lost
  /\ nextBeat' = IF p = "celery_beat" THEN 0 ELSE nextBeat
  /\ gone' = IF p \in DOMAIN gone THEN [gone EXCEPT ![p] = 0] ELSE gone
  /\ UNCHANGED <<busy, queue, calm>>

Stop(p) ==
  /\ p \in up
  /\ up' = up \ {p}
  /\ busy' = (busy /\ p # "celery_worker")
  /\ calm' = 0
  /\ UNCHANGED <<queue, age, nextBeat, lost, beaten, gone>>

\* _beat_forever; an error of the write is swallowed.
SchedulerBeats(written) ==
  /\ "scheduler" \in up /\ ~beaten
  /\ written \/ lost < MaxLost
  /\ age' = IF written THEN [age EXCEPT !.scheduler = 0] ELSE age
  /\ lost' = IF written THEN 0 ELSE lost + 1
  /\ beaten' = TRUE
  /\ UNCHANGED <<up, busy, queue, nextBeat, gone, calm>>

\* The entry beat-heartbeat of the schedule; without Redis the message is lost.
SendBeat ==
  /\ "celery_beat" \in up /\ nextBeat = 0
  /\ queue' = IF "redis" \in up /\ queue < Full THEN queue + 1 ELSE queue
  /\ nextBeat' = BeatEvery
  /\ UNCHANGED <<up, busy, age, lost, beaten, gone, calm>>

WorkerFree == {"celery_worker", "redis"} \subseteq up /\ ~busy

\* beat_heartbeat_task; it fails without the database.
StampBeat ==
  /\ WorkerFree /\ queue > 0
  /\ queue' = queue - 1
  /\ age' = IF "database" \in up THEN [age EXCEPT !.celery_beat = 0] ELSE age
  /\ gone' = [gone EXCEPT !.celery_beat = 0]
  /\ UNCHANGED <<up, busy, nextBeat, lost, beaten, calm>>

RunJob ==
  /\ WorkerFree
  /\ busy' = TRUE
  /\ calm' = 0
  /\ UNCHANGED <<up, queue, age, nextBeat, lost, beaten, gone>>

EndJob ==
  /\ busy
  /\ busy' = FALSE
  /\ UNCHANGED <<up, queue, age, nextBeat, lost, beaten, gone, calm>>

\* An interval passes: the thread has beaten, what is due is sent, and a free
\* worker has taken what was there.
IntervalPasses ==
  /\ "scheduler" \in up => beaten
  /\ "celery_beat" \in up => nextBeat > 0
  /\ WorkerFree => queue = 0
  /\ age' = [p \in DOMAIN age |-> Later(age[p])]
  /\ nextBeat' = IF nextBeat > 0 THEN nextBeat - 1 ELSE 0
  /\ beaten' = FALSE
  /\ gone' = [p \in DOMAIN gone |-> IF p \in up \/ (p = "celery_beat" /\ queue > 0)
                                      THEN 0 ELSE Later(gone[p])]
  /\ calm' = IF up = Parts /\ ~busy THEN Later(calm) ELSE 0
  /\ UNCHANGED <<up, busy, queue, lost>>

-----------------------------------------------------------------------------
(* system_status                                                           *)

Fresh(p, stale) == age[p] <= stale

BadCheckPart(p) ==  \* the scheduler's file is there: the scheduler is
  CASE p \in {"database", "redis"} -> p \in up
    [] p = "celery_worker" -> WorkerFree
    [] p = "celery_beat"   -> "database" \in up /\ Fresh(p, BeatStale)
    [] p = "scheduler"     -> age[p] < Cap

\* _check_database .. _check_scheduler: whether they say "ok".
CheckPart(p) ==
  CASE p \in {"database", "redis"} -> p \in up
    [] p = "celery_worker" -> WorkerFree
    [] p = "celery_beat"   -> "database" \in up /\ Fresh(p, BeatStale)
    [] p = "scheduler"     -> Fresh(p, SchedulerStale)

\* What may be required of an installation: MONITOR_REQUIRE_CELERY and
\* MONITOR_REQUIRE_SCHEDULER.
Installations == {{"database"} \cup celery \cup scheduler :
                    celery \in {{}, Celery}, scheduler \in {{}, {"scheduler"}}}

DownParts(required) == {p \in required : ~CheckPart(p)}

Overall(required) ==
  IF DownParts(required) \cap Critical # {} THEN "down"
  ELSE IF DownParts(required) # {} THEN "degraded" ELSE "ok"

StatusNext ==
  \/ \E p \in Parts : Start(p) \/ Stop(p)
  \/ \E written \in BOOLEAN : SchedulerBeats(written)
  \/ SendBeat \/ StampBeat \/ RunJob \/ EndJob
  \/ IntervalPasses

StatusSpec == StatusInit /\ [][StatusNext]_statusVars

-----------------------------------------------------------------------------
(* Properties                                                              *)

\* A required part that is gone is reported, a critical one as "down": at once,
\* or when its last sign of life is stale; stamps a dead beat had left in the
\* queue still count as its own. And the alarm is over when everything has been
\* up and the worker free for one period of beat, whatever happened before; lost
\* writes of the scheduler's file raise none.
StatusIsTrue ==
  \A required \in Installations :
    LET missing == {p \in required :
                      CASE p \in DOMAIN gone ->
                             gone[p] > IF p = "scheduler" THEN SchedulerStale ELSE BeatStale
                        [] OTHER -> p \notin up}
    IN
    /\ missing # {} => Overall(required) # "ok"
    /\ missing \cap Critical # {} => Overall(required) = "down"
    /\ calm > BeatEvery => Overall(required) = "ok"

=============================================================================
