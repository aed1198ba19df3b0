------------------------- MODULE JobLifecycleProofs -------------------------
(***************************************************************************)
(* What TLAPS proves about JobLifecycle, for all sets of jobs, requests    *)
(* and workers, all transports and any number of faults.                   *)
(***************************************************************************)
EXTENDS JobLifecycle, TLAPS

RequestPc == {"new", "dispatch", "taskid", "submit", "spawn", "revoke", "mark", "done"}
DriverPc  == {"idle", "start", "announce", "run", "save", "report"}

-----------------------------------------------------------------------------
(* What the record updates of the model do, field by field. The rest of    *)
(* the proofs cites these lemmas and leaves the updates folded.            *)

LEMMA RowTypes ==
  /\ NoRow \in Row /\ Queued \in Row
  /\ \A x \in Row :
       /\ Running(x) \in Row
       /\ \A s \in TerminalStatus : Closed(x, s) \in Row
       /\ Failed(x) \in Row
       /\ \A out \in Outcome : Recorded(x, out) \in Row
       /\ \A t \in Requests : WithTask(x, t) \in Row
       /\ Stale(x) \in Row
       /\ Aged(x) \in Row
  /\ "cancelled" \in TerminalStatus
<1>1. NoRow \in Row /\ Queued \in Row
  BY DEF Row, NoRow, Queued, ActiveStatus
<1>2. ASSUME NEW x \in Row
      PROVE  /\ Running(x) \in Row
             /\ \A s \in TerminalStatus : Closed(x, s) \in Row
             /\ \A t \in Requests : WithTask(x, t) \in Row
             /\ Stale(x) \in Row
             /\ Aged(x) \in Row
  BY DEF Row, Running, Closed, WithTask, Stale, Aged, ActiveStatus
<1>3. ASSUME NEW x \in Row PROVE Failed(x) \in Row
  BY DEF Failed, Closed, Row, TerminalStatus
<1>4. ASSUME NEW x \in Row, NEW out \in Outcome PROVE Recorded(x, out) \in Row
  <2>1. CASE out = "raised"
    BY <2>1, <1>3 DEF Recorded
  <2>2. CASE out # "raised"
    <3>1. StatusOf(out) \in TerminalStatus
      BY DEF StatusOf, TerminalStatus
    <3> QED
      BY <2>2, <3>1 DEF Recorded, Closed, Row
  <2> QED
    BY <2>1, <2>2
<1> QED
  BY <1>1, <1>2, <1>3, <1>4 DEF TerminalStatus

LEMMA DriverTypes ==
  /\ Idle \in DrvState
  /\ \A t \in Requests, j \in Jobs : Assigned(t, j) \in DrvState
  /\ \A x \in DrvState :
       /\ \A p \in DriverPc :
            At(x, p) \in DrvState
       /\ x.steps < MaxSteps => Stepped(x) \in DrvState
       /\ \A out \in Outcome : Ended(x, out) \in DrvState
  /\ "raised" \in Outcome
<1>1. Idle \in DrvState
  BY BoundAssumption DEF Idle, DrvState, Outcome
<1>2. ASSUME NEW t \in Requests, NEW j \in Jobs PROVE Assigned(t, j) \in DrvState
  BY <1>1 DEF Assigned, DrvState
<1>3. ASSUME NEW x \in DrvState, x.steps < MaxSteps PROVE Stepped(x) \in DrvState
  BY <1>3, BoundAssumption DEF Stepped, DrvState
<1>4. ASSUME NEW x \in DrvState
      PROVE  /\ \A p \in DriverPc :
                  At(x, p) \in DrvState
             /\ \A out \in Outcome : Ended(x, out) \in DrvState
  BY DEF At, Ended, DrvState, DriverPc
<1> QED
  BY <1>1, <1>2, <1>3, <1>4 DEF Outcome

LEMMA RequestTypes ==
  ASSUME NEW x \in ReqState
  PROVE  /\ \A p \in RequestPc :
              At(x, p) \in ReqState
         /\ \A j \in Jobs : Created(x, j) \in ReqState
         /\ \A j \in Jobs : row[j] \in Row => Cancelling(x, j) \in ReqState
<1>1. /\ \A p \in RequestPc :
              At(x, p) \in ReqState
      /\ \A j \in Jobs : Created(x, j) \in ReqState
  BY DEF At, Created, ReqState, RequestPc
<1>2. ASSUME NEW j \in Jobs, row[j] \in Row PROVE Cancelling(x, j) \in ReqState
  BY <1>2 DEF Cancelling, ReqState, Row
<1> QED
  BY <1>1, <1>2

LEMMA RequestFields ==
  ASSUME NEW x \in ReqState
  PROVE  /\ \A p : /\ At(x, p).pc = p
                   /\ At(x, p).job = x.job /\ At(x, p).target = x.target
                   /\ At(x, p).seen = x.seen /\ At(x, p).task = x.task
         /\ \A j : /\ Created(x, j).pc = "dispatch" /\ Created(x, j).job = j
                   /\ Created(x, j).target = x.target
         /\ \A j : /\ Cancelling(x, j).pc = "revoke" /\ Cancelling(x, j).job = x.job
                   /\ Cancelling(x, j).target = j
                   /\ Cancelling(x, j).seen = row[j].status
BY DEF At, Created, Cancelling, ReqState

LEMMA DriverFields ==
  /\ Idle.pc = "idle" /\ Idle.job = NoJob
  /\ \A t, j : /\ Assigned(t, j).pc = "start" /\ Assigned(t, j).job = j
               /\ Assigned(t, j).task = t
  /\ \A x \in DrvState :
       /\ \A p : /\ At(x, p).pc = p /\ At(x, p).job = x.job
                 /\ At(x, p).task = x.task /\ At(x, p).out = x.out
       /\ /\ Stepped(x).pc = x.pc /\ Stepped(x).job = x.job
          /\ Stepped(x).task = x.task /\ Stepped(x).out = x.out
       /\ \A out : /\ Ended(x, out).pc = "save" /\ Ended(x, out).job = x.job
                   /\ Ended(x, out).task = x.task /\ Ended(x, out).out = out
BY DEF Idle, Assigned, At, Stepped, Ended, DrvState

LEMMA RowFields ==
  /\ /\ Queued.status = "queued" /\ ~Queued.finished /\ Queued.exit = "none"
  /\ /\ NoRow.status = "absent" /\ ~NoRow.finished /\ NoRow.exit = "none"
  /\ \A x \in Row :
       /\ /\ Running(x).status = "running" /\ Running(x).started
          /\ Running(x).finished = x.finished /\ Running(x).exit = x.exit
          /\ Running(x).error = x.error
       /\ \A s : /\ Closed(x, s).status = s /\ Closed(x, s).finished
                 /\ Closed(x, s).started = x.started /\ Closed(x, s).exit = x.exit
                 /\ Closed(x, s).error = x.error
       /\ /\ Failed(x).status = "failed" /\ Failed(x).finished /\ Failed(x).error
          /\ Failed(x).started = x.started /\ Failed(x).exit = x.exit
       /\ \A t : /\ WithTask(x, t).status = x.status /\ WithTask(x, t).finished = x.finished
                 /\ WithTask(x, t).started = x.started /\ WithTask(x, t).exit = x.exit
                 /\ WithTask(x, t).error = x.error
       /\ /\ Stale(x).status = x.status /\ Stale(x).finished = x.finished
          /\ Stale(x).started = x.started /\ Stale(x).exit = x.exit
          /\ Stale(x).error = x.error
       /\ /\ Aged(x).status = x.status /\ Aged(x).finished = x.finished
          /\ Aged(x).started = x.started /\ Aged(x).exit = x.exit
          /\ Aged(x).error = x.error
       /\ \A out \in Outcome :
            /\ Recorded(x, out).status = StatusOf(out)
            /\ Recorded(x, out).finished /\ Recorded(x, out).started = x.started
            /\ out = "success" => Recorded(x, out).exit = "zero"
            /\ out = "failed" => Recorded(x, out).exit = "nonzero"
            /\ out = "raised" => Recorded(x, out).exit = x.exit /\ Recorded(x, out).error
            /\ out # "raised" => Recorded(x, out).error = x.error
<1>1. /\ Queued.status = "queued" /\ ~Queued.finished /\ Queued.exit = "none"
      /\ NoRow.status = "absent" /\ ~NoRow.finished /\ NoRow.exit = "none"
  BY DEF Queued, NoRow
<1> SUFFICES ASSUME NEW x \in Row
             PROVE  RowFields!3!(x)
  BY <1>1
<1>2. QED
  BY DEF Running, Closed, Failed, WithTask, Stale, Aged, Recorded, StatusOf, Row, Outcome

-----------------------------------------------------------------------------
(* Type correctness                                                        *)

LEMMA InitType == Init => TypeOK /\ Located
<1> SUFFICES ASSUME Init PROVE TypeOK /\ Located
  OBVIOUS
<1>1. TypeOK
  BY BoundAssumption, RowTypes, DriverTypes
  DEF Init, TypeOK, ReqState, RecState, PruneState, Drivers, Message
<1>2. Located
  BY RowFields, DriverFields DEF Init, Located, Active, Present
<1> QED
  BY <1>1, <1>2

LEMMA NextType == TypeOK /\ Located /\ [Next]_vars => TypeOK'
<1> SUFFICES ASSUME TypeOK, Located, [Next]_vars PROVE TypeOK'
  OBVIOUS
<1> USE DEF RequestPc, DriverPc
<1>1. ASSUME NEW r \in Requests, NEW j \in Jobs, CreateJob(r, j) PROVE TypeOK'
  <2>1. row' \in [Jobs -> Row]
    BY <1>1, RowTypes DEF TypeOK, CreateJob
  <2>2. events' \in [Jobs -> SUBSET EventType]
    BY <1>1
    DEF TypeOK, CreateJob, EventType, ActiveStatus, TerminalStatus, InsertEvent, AppendEvent
  <2>3. born' \in SUBSET Jobs
    BY <1>1 DEF TypeOK, CreateJob
  <2>4. req' \in [Requests -> ReqState]
    BY <1>1, RequestTypes DEF TypeOK, CreateJob, Goto
  <2> QED
    BY <1>1, <2>1, <2>2, <2>3, <2>4 DEF TypeOK, CreateJob, env
<1>2. ASSUME NEW r \in Requests, Delay(r) PROVE TypeOK'
  <2>1. queue' \in SUBSET Message
    BY <1>2 DEF TypeOK, Delay, Message, ReqState, Located
  <2>2. req' \in [Requests -> ReqState]
    BY <1>2, RequestTypes DEF TypeOK, Delay, Goto
  <2> QED
    BY <1>2, <2>1, <2>2 DEF TypeOK, Delay, env
<1>3. ASSUME NEW r \in Requests, SetCeleryTaskId(r) PROVE TypeOK'
  <2>1. row' \in [Jobs -> Row]
    <3>1. req[r].job \in Jobs /\ row[req[r].job] \in Row
      BY <1>3 DEF TypeOK, Located, SetCeleryTaskId, ReqState
    <3>2. WithTask(row[req[r].job], r) \in Row
      BY <1>3, <3>1, RowTypes DEF TypeOK, SetCeleryTaskId
    <3> QED
      BY <1>3, <3>1, <3>2 DEF TypeOK, SetCeleryTaskId
  <2>2. req' \in [Requests -> ReqState]
    BY <1>3, RequestTypes DEF TypeOK, SetCeleryTaskId, Goto
  <2> QED
    BY <1>3, <2>1, <2>2 DEF TypeOK, SetCeleryTaskId, env
<1>4. ASSUME NEW r \in Requests, SubmittedToCelery(r) PROVE TypeOK'
  <2>1. events' \in [Jobs -> SUBSET EventType]
    BY <1>4
    DEF TypeOK, SubmittedToCelery, EventType, ActiveStatus, TerminalStatus, InsertEvent,
        AppendEvent
  <2>2. req' \in [Requests -> ReqState]
    BY <1>4, RequestTypes DEF TypeOK, SubmittedToCelery, Goto
  <2> QED
    BY <1>4, <2>1, <2>2 DEF TypeOK, SubmittedToCelery, env
<1>5. ASSUME NEW r \in Requests, SubmittedInline(r) PROVE TypeOK'
  <2>1. events' \in [Jobs -> SUBSET EventType]
    BY <1>5
    DEF TypeOK, SubmittedInline, EventType, ActiveStatus, TerminalStatus, InsertEvent,
        AppendEvent
  <2>2. req' \in [Requests -> ReqState]
    BY <1>5, RequestTypes DEF TypeOK, SubmittedInline, Goto
  <2> QED
    BY <1>5, <2>1, <2>2 DEF TypeOK, SubmittedInline, env
<1>6. ASSUME NEW r \in Requests, RunJobInline(r) PROVE TypeOK'
  <2>1. drv' \in [Drivers -> DrvState]
    BY <1>6, DriverTypes DEF TypeOK, RunJobInline, DriverTo, EndDriver, Located, Active, Drivers
  <2>2. req' \in [Requests -> ReqState]
    BY <1>6, RequestTypes DEF TypeOK, RunJobInline, Goto
  <2> QED
    BY <1>6, <2>1, <2>2 DEF TypeOK, RunJobInline, env
<1>7. ASSUME NEW r \in Requests, NEW j \in Jobs, FetchForCancel(r, j) PROVE TypeOK'
  <2>1. req' \in [Requests -> ReqState]
    BY <1>7, RequestTypes DEF TypeOK, FetchForCancel, Goto
  <2> QED
    BY <1>7, <2>1 DEF TypeOK, FetchForCancel, env
<1>8. ASSUME NEW r \in Requests, Revoke(r) PROVE TypeOK'
  <2>1. revoked' \in [Workers -> SUBSET Requests]
    BY <1>8 DEF TypeOK, Revoke, ReqState
  <2>2. req' \in [Requests -> ReqState]
    BY <1>8, RequestTypes DEF TypeOK, Revoke, Goto
  <2> QED
    BY <1>8, <2>1, <2>2 DEF TypeOK, Revoke, env
<1>9. ASSUME NEW r \in Requests, MarkCancelled(r) PROVE TypeOK'
  <2>1. row' \in [Jobs -> Row]
    <3>1. req[r].target \in Jobs /\ row[req[r].target] \in Row
      BY <1>9 DEF TypeOK, Located, MarkCancelled, ReqState
    <3>2. Closed(row[req[r].target], "cancelled") \in Row
      BY <1>9, <3>1, RowTypes DEF TypeOK, MarkCancelled
    <3> QED
      BY <1>9, <3>1, <3>2 DEF TypeOK, MarkCancelled
  <2>2. events' \in [Jobs -> SUBSET EventType]
    BY <1>9
    DEF TypeOK, MarkCancelled, EventType, ActiveStatus, TerminalStatus, InsertEvent,
        AppendEvent
  <2>3. req' \in [Requests -> ReqState]
    BY <1>9, RequestTypes DEF TypeOK, MarkCancelled, Goto
  <2> QED
    BY <1>9, <2>1, <2>2, <2>3 DEF TypeOK, MarkCancelled, env
<1>10. ASSUME NEW r \in Requests, RequestFails(r) PROVE TypeOK'
  <2>1. req' \in [Requests -> ReqState]
    BY <1>10, RequestTypes DEF TypeOK, RequestFails, Goto
  <2>2. faults' \in 0..MaxFaults
    BY <1>10, BoundAssumption DEF TypeOK, RequestFails, Fault
  <2> QED
    BY <1>10, <2>1, <2>2 DEF TypeOK, RequestFails, env, Fault
<1>11. ASSUME NEW w \in Workers, NEW m \in queue, TakeMessage(w, m) PROVE TypeOK'
  <2>1. queue' \in SUBSET Message
    BY <1>11 DEF TypeOK, TakeMessage, Message, ReqState
  <2>2. drv' \in [Drivers -> DrvState]
    BY <1>11, DriverTypes
    DEF TypeOK, TakeMessage, DriverTo, EndDriver, Located, Active, Message, Drivers
  <2>3. redeliveries' \in 0..MaxRedeliveries
    BY <1>11, BoundAssumption DEF TypeOK, TakeMessage, env
  <2> QED
    BY <1>11, <2>1, <2>2, <2>3 DEF TypeOK, TakeMessage, env
<1>12. ASSUME NEW d \in Drivers, StartRun(d) PROVE TypeOK'
  <2>1. row' \in [Jobs -> Row]
    BY <1>12, RowTypes DEF TypeOK, StartRun, Located, Active
  <2>2. runs' \in [Jobs -> Nat]
    BY <1>12 DEF TypeOK, StartRun
  <2>3. drv' \in [Drivers -> DrvState]
    BY <1>12, DriverTypes DEF TypeOK, StartRun, DriverTo, EndDriver, Located, Active
  <2> QED
    BY <1>12, <2>1, <2>2, <2>3 DEF TypeOK, StartRun, env
<1>13. ASSUME NEW d \in Drivers, AnnounceRun(d) PROVE TypeOK'
  <2>1. events' \in [Jobs -> SUBSET EventType]
    BY <1>13
    DEF TypeOK, AnnounceRun, EventType, ActiveStatus, TerminalStatus, InsertEvent,
        AppendEvent
  <2>2. drv' \in [Drivers -> DrvState]
    BY <1>13, DriverTypes DEF TypeOK, AnnounceRun, DriverTo, EndDriver, Located, Active
  <2> QED
    BY <1>13, <2>1, <2>2 DEF TypeOK, AnnounceRun, env
<1>14. ASSUME NEW d \in Drivers, StepEvent(d) PROVE TypeOK'
  <2>1. events' \in [Jobs -> SUBSET EventType]
    BY <1>14
    DEF TypeOK, StepEvent, EventType, ActiveStatus, TerminalStatus, InsertEvent, AppendEvent
  <2>2. drv' \in [Drivers -> DrvState]
    BY <1>14, DriverTypes DEF TypeOK, StepEvent, DriverTo, EndDriver, Located, Active
  <2> QED
    BY <1>14, <2>1, <2>2 DEF TypeOK, StepEvent, env
<1>15. ASSUME NEW d \in Drivers, NEW out \in Outcome, ScenarioEnds(d, out) PROVE TypeOK'
  <2>1. verdict' \in [Jobs -> Outcome \cup {"none"}]
    BY <1>15 DEF TypeOK, ScenarioEnds
  <2>2. drv' \in [Drivers -> DrvState]
    BY <1>15, DriverTypes
    DEF TypeOK, ScenarioEnds, DriverTo, EndDriver, Located, Active, Outcome
  <2> QED
    BY <1>15, <2>1, <2>2 DEF TypeOK, ScenarioEnds, env
<1>16. ASSUME NEW d \in Drivers, SaveOutcome(d) PROVE TypeOK'
  <2>1. row' \in [Jobs -> Row]
    <3>1. drv[d].job \in Jobs /\ row[drv[d].job] \in Row
      BY <1>16 DEF TypeOK, Located, SaveOutcome, DrvState, Active
    <3>2. Recorded(row[drv[d].job], drv[d].out) \in Row
      BY <1>16, <3>1, RowTypes DEF TypeOK, SaveOutcome, DrvState
    <3> QED
      BY <1>16, <3>1, <3>2 DEF TypeOK, SaveOutcome
  <2>2. drv' \in [Drivers -> DrvState]
    BY <1>16, DriverTypes DEF TypeOK, SaveOutcome, DriverTo, EndDriver, Located, Active
  <2> QED
    BY <1>16, <2>1, <2>2 DEF TypeOK, SaveOutcome, env
<1>17. ASSUME NEW d \in Drivers, ReportOutcome(d) PROVE TypeOK'
  <2>1. events' \in [Jobs -> SUBSET EventType]
    BY <1>17
    DEF TypeOK, ReportOutcome, EventType, ActiveStatus, TerminalStatus, InsertEvent,
        AppendEvent, StatusOf
  <2>2. drv' \in [Drivers -> DrvState]
    BY <1>17, DriverTypes DEF TypeOK, ReportOutcome, DriverTo, EndDriver, Located, Active
  <2> QED
    BY <1>17, <2>1, <2>2 DEF TypeOK, ReportOutcome, env
<1>18. ASSUME NEW d \in Drivers, StatementFails(d) PROVE TypeOK'
  <2>1. drv' \in [Drivers -> DrvState]
    BY <1>18, DriverTypes DEF TypeOK, StatementFails, DriverTo, EndDriver, Located, Active
  <2>2. faults' \in 0..MaxFaults
    BY <1>18, BoundAssumption DEF TypeOK, StatementFails, Fault
  <2> QED
    BY <1>18, <2>1, <2>2 DEF TypeOK, StatementFails, env, Fault
<1>19. ASSUME NEW d \in Drivers, DriverCrashes(d) PROVE TypeOK'
  <2>1. drv' \in [Drivers -> DrvState]
    BY <1>19, DriverTypes DEF TypeOK, DriverCrashes, DriverTo, EndDriver, Located, Active
  <2>2. revoked' \in [Workers -> SUBSET Requests]
    BY <1>19 DEF TypeOK, DriverCrashes, ReqState
  <2>3. faults' \in 0..MaxFaults
    BY <1>19, BoundAssumption DEF TypeOK, DriverCrashes, Fault
  <2> QED
    BY <1>19, <2>1, <2>2, <2>3 DEF TypeOK, DriverCrashes, env, Fault
<1>20. ASSUME NEW j \in Jobs, BecomesStale(j) PROVE TypeOK'
  <2>1. row' \in [Jobs -> Row]
    BY <1>20, RowTypes DEF TypeOK, BecomesStale
  <2> QED
    BY <1>20, <2>1 DEF TypeOK, BecomesStale, env
<1>21. ASSUME NEW j \in Jobs, BecomesAged(j) PROVE TypeOK'
  <2>1. row' \in [Jobs -> Row]
    BY <1>21, RowTypes DEF TypeOK, BecomesAged
  <2> QED
    BY <1>21, <2>1 DEF TypeOK, BecomesAged, env
<1>22. CASE ReconcileScan
  <2>1. rec' \in RecState
    BY <1>22 DEF TypeOK, ReconcileScan, RecState
  <2> QED
    BY <1>22, <2>1 DEF TypeOK, ReconcileScan, env
<1>23. ASSUME NEW j \in Jobs, ReconcileSave(j) PROVE TypeOK'
  <2>1. row' \in [Jobs -> Row]
    BY <1>23, RowTypes DEF TypeOK, ReconcileSave, Located
  <2>2. rec' \in RecState
    BY <1>23 DEF TypeOK, ReconcileSave, RecState
  <2> QED
    BY <1>23, <2>1, <2>2 DEF TypeOK, ReconcileSave, env
<1>24. CASE ReconcileEvent
  <2>1. events' \in [Jobs -> SUBSET EventType]
    BY <1>24
    DEF TypeOK, ReconcileEvent, EventType, ActiveStatus, TerminalStatus, InsertEvent,
        AppendEvent
  <2>2. rec' \in RecState
    BY <1>24 DEF TypeOK, ReconcileEvent, RecState
  <2> QED
    BY <1>24, <2>1, <2>2 DEF TypeOK, ReconcileEvent, env
<1>25. CASE ReconcileFails
  <2>1. rec' \in RecState
    BY <1>25 DEF TypeOK, ReconcileFails, RecState
  <2>2. faults' \in 0..MaxFaults
    BY <1>25, BoundAssumption DEF TypeOK, ReconcileFails, Fault
  <2> QED
    BY <1>25, <2>1, <2>2 DEF TypeOK, ReconcileFails, env, Fault
<1>26. CASE PruneScan
  <2>1. prune' \in PruneState
    BY <1>26 DEF TypeOK, PruneScan, PruneState
  <2> QED
    BY <1>26, <2>1 DEF TypeOK, PruneScan, env
<1>27. CASE PruneEvents
  <2>1. events' \in [Jobs -> SUBSET EventType]
    BY <1>27
    DEF TypeOK, PruneEvents, EventType, ActiveStatus, TerminalStatus, InsertEvent,
        AppendEvent
  <2>2. prune' \in PruneState
    BY <1>27 DEF TypeOK, PruneEvents, PruneState
  <2> QED
    BY <1>27, <2>1, <2>2 DEF TypeOK, PruneEvents, env
<1>28. CASE PruneJobs
  <2>1. row' \in [Jobs -> Row]
    BY <1>28, RowTypes DEF TypeOK, PruneJobs
  <2>2. events' \in [Jobs -> SUBSET EventType]
    BY <1>28
    DEF TypeOK, PruneJobs, EventType, ActiveStatus, TerminalStatus, InsertEvent, AppendEvent
  <2>3. prune' \in PruneState
    BY <1>28 DEF TypeOK, PruneJobs, PruneState
  <2> QED
    BY <1>28, <2>1, <2>2, <2>3 DEF TypeOK, PruneJobs, env
<1>29. CASE PruneFails
  <2>1. prune' \in PruneState
    BY <1>29 DEF TypeOK, PruneFails, PruneState
  <2>2. faults' \in 0..MaxFaults
    BY <1>29, BoundAssumption DEF TypeOK, PruneFails, Fault
  <2> QED
    BY <1>29, <2>1, <2>2 DEF TypeOK, PruneFails, env, Fault
<1>30. CASE UNCHANGED vars
  BY <1>30 DEF vars, TypeOK
<1> QED
  BY <1>1, <1>2, <1>3, <1>4, <1>5, <1>6, <1>7, <1>8, <1>9, <1>10, <1>11, <1>12,
     <1>13, <1>14, <1>15, <1>16, <1>17, <1>18, <1>19, <1>20, <1>21, <1>22, <1>23, <1>24,
     <1>25, <1>26, <1>27, <1>28, <1>29, <1>30
  DEF Next, RequestNew, RequestStep, Enqueue, Retry, DriverStep, ReconcileStep, PruneStep

LEMMA NextLocated == TypeOK /\ Located /\ [Next]_vars => Located'
<1> SUFFICES ASSUME TypeOK, Located, [Next]_vars PROVE Located'
  OBVIOUS
<1> USE DEF Located, Active, Present
<1>1. ASSUME NEW r \in Requests, NEW j \in Jobs, CreateJob(r, j) PROVE Located'
  BY <1>1, RowFields, RequestFields DEF TypeOK, CreateJob, Goto
<1>2. ASSUME NEW r \in Requests, Delay(r) PROVE Located'
  BY <1>2, RequestFields DEF TypeOK, Delay, Goto
<1>3. ASSUME NEW r \in Requests, SetCeleryTaskId(r) PROVE Located'
  <2>1. req[r].job \in Jobs /\ row[req[r].job] \in Row
    BY <1>3 DEF TypeOK, SetCeleryTaskId
  <2>2. ASSUME NEW k \in Jobs PROVE row'[k].status = row[k].status
    BY <1>3, <2>1, RowFields DEF TypeOK, SetCeleryTaskId
  <2>3. PICK p \in {"submit", "done"} : Goto(r, p) /\ (p = "submit" => Present(req[r].job))
    BY <1>3 DEF SetCeleryTaskId
  <2> QED
    BY <1>3, <2>2, <2>3, RequestFields DEF TypeOK, SetCeleryTaskId, Goto
<1>4. ASSUME NEW r \in Requests, SubmittedToCelery(r) PROVE Located'
  BY <1>4, RequestFields DEF TypeOK, SubmittedToCelery, Goto
<1>5. ASSUME NEW r \in Requests, SubmittedInline(r) PROVE Located'
  BY <1>5, RequestFields DEF TypeOK, SubmittedInline, Goto
<1>6. ASSUME NEW r \in Requests, RunJobInline(r) PROVE Located'
  BY <1>6, RequestFields, DriverFields
  DEF TypeOK, RunJobInline, Goto, DriverTo, EndDriver, Drivers
<1>7. ASSUME NEW r \in Requests, NEW j \in Jobs, FetchForCancel(r, j) PROVE Located'
  BY <1>7, RequestFields DEF TypeOK, FetchForCancel, Goto
<1>8. ASSUME NEW r \in Requests, Revoke(r) PROVE Located'
  BY <1>8, RequestFields DEF TypeOK, Revoke, Goto
<1>9. ASSUME NEW r \in Requests, MarkCancelled(r) PROVE Located'
  BY <1>9, RowFields, RequestFields DEF TypeOK, MarkCancelled, Goto
<1>10. ASSUME NEW r \in Requests, RequestFails(r) PROVE Located'
  BY <1>10, RequestFields DEF TypeOK, RequestFails, Goto, Fault
<1>11. ASSUME NEW w \in Workers, NEW m \in queue, TakeMessage(w, m) PROVE Located'
  BY <1>11, DriverFields DEF TypeOK, TakeMessage, DriverTo, EndDriver, Message, Drivers
<1>12. ASSUME NEW d \in Drivers, StartRun(d) PROVE Located'
  <2>1. drv[d].job \in Jobs /\ row[drv[d].job] \in Row
    BY <1>12 DEF TypeOK, StartRun
  <2>2. ASSUME NEW k \in Jobs, Present(k)' PROVE Present(k)
    BY <1>12, <2>1, <2>2, RowFields DEF TypeOK, StartRun
  <2>3. drv' = [drv EXCEPT ![d] = At(@, "announce")] \/ drv' = [drv EXCEPT ![d] = Idle]
    BY <1>12 DEF StartRun, DriverTo, EndDriver
  <2>4. ASSUME NEW e \in Drivers, Active(e)' PROVE drv'[e].job \in born /\ drv'[e].task \in Requests
    BY <1>12, <2>3, <2>4, DriverFields DEF TypeOK, StartRun
  <2> QED
    BY <1>12, <2>2, <2>4 DEF StartRun
<1>13. ASSUME NEW d \in Drivers, AnnounceRun(d) PROVE Located'
  BY <1>13, DriverFields DEF TypeOK, AnnounceRun, DriverTo, EndDriver
<1>14. ASSUME NEW d \in Drivers, StepEvent(d) PROVE Located'
  BY <1>14, DriverFields DEF TypeOK, StepEvent, DriverTo, EndDriver
<1>15. ASSUME NEW d \in Drivers, NEW out \in Outcome, ScenarioEnds(d, out) PROVE Located'
  BY <1>15, DriverFields DEF TypeOK, ScenarioEnds, DriverTo, EndDriver
<1>16. ASSUME NEW d \in Drivers, SaveOutcome(d) PROVE Located'
  <2>1. drv[d].job \in Jobs /\ row[drv[d].job] \in Row
    BY <1>16 DEF TypeOK, SaveOutcome
  <2>2. ASSUME NEW k \in Jobs, Present(k)' PROVE Present(k)
    BY <1>16, <2>1, <2>2, RowFields DEF TypeOK, SaveOutcome
  <2>3. drv' = [drv EXCEPT ![d] = At(@, "report")] \/ drv' = [drv EXCEPT ![d] = Idle]
    BY <1>16 DEF SaveOutcome, DriverTo, EndDriver
  <2>4. ASSUME NEW e \in Drivers, Active(e)' PROVE drv'[e].job \in born /\ drv'[e].task \in Requests
    BY <1>16, <2>3, <2>4, DriverFields DEF TypeOK, SaveOutcome
  <2> QED
    BY <1>16, <2>2, <2>4 DEF SaveOutcome
<1>17. ASSUME NEW d \in Drivers, ReportOutcome(d) PROVE Located'
  BY <1>17, DriverFields DEF TypeOK, ReportOutcome, DriverTo, EndDriver
<1>18. ASSUME NEW d \in Drivers, StatementFails(d) PROVE Located'
  BY <1>18, DriverFields DEF TypeOK, StatementFails, DriverTo, EndDriver, Fault
<1>19. ASSUME NEW d \in Drivers, DriverCrashes(d) PROVE Located'
  BY <1>19, DriverFields DEF TypeOK, DriverCrashes, DriverTo, EndDriver, Fault
<1>20. ASSUME NEW j \in Jobs, BecomesStale(j) PROVE Located'
  BY <1>20, RowFields DEF TypeOK, BecomesStale
<1>21. ASSUME NEW j \in Jobs, BecomesAged(j) PROVE Located'
  BY <1>21, RowFields DEF TypeOK, BecomesAged
<1>22. CASE ReconcileScan
  BY <1>22 DEF TypeOK, ReconcileScan, RecState, PruneState, ActiveStatus
<1>23. ASSUME NEW j \in Jobs, ReconcileSave(j) PROVE Located'
  BY <1>23, RowFields DEF TypeOK, ReconcileSave, RecState, PruneState
<1>24. CASE ReconcileEvent
  BY <1>24 DEF TypeOK, ReconcileEvent, RecState, PruneState
<1>25. CASE ReconcileFails
  BY <1>25 DEF TypeOK, ReconcileFails, Fault, RecState, PruneState
<1>26. CASE PruneScan
  BY <1>26 DEF TypeOK, PruneScan, RecState, PruneState
<1>27. CASE PruneEvents
  BY <1>27 DEF TypeOK, PruneEvents, RecState, PruneState
<1>28. CASE PruneJobs
  BY <1>28, RowFields DEF TypeOK, PruneJobs, RecState, PruneState
<1>29. CASE PruneFails
  BY <1>29 DEF TypeOK, PruneFails, Fault, RecState, PruneState
<1>30. CASE UNCHANGED vars
  BY <1>30 DEF vars, TypeOK
<1> QED
  BY <1>1, <1>2, <1>3, <1>4, <1>5, <1>6, <1>7, <1>8, <1>9, <1>10, <1>11, <1>12,
     <1>13, <1>14, <1>15, <1>16, <1>17, <1>18, <1>19, <1>20, <1>21, <1>22, <1>23, <1>24,
     <1>25, <1>26, <1>27, <1>28, <1>29, <1>30
  DEF Next, RequestNew, RequestStep, Enqueue, Retry, DriverStep, ReconcileStep, PruneStep

\* Type correctness: the rows, the log, the messages and the local state of
\* every process stay in their types, and every job that a process works on
\* is one that create_job has handed out.
THEOREM TypeCorrect == Spec => [](TypeOK /\ Located)
<1>1. Init => TypeOK /\ Located
  BY InitType
<1>2. TypeOK /\ Located /\ [Next]_vars => (TypeOK /\ Located)'
  BY NextType, NextLocated
<1> QED
  BY <1>1, <1>2, PTL DEF Spec

-----------------------------------------------------------------------------
(***************************************************************************)
(* Why a job runs at most once when the broker does not redeliver: the     *)
(* request that created it, its one message and its one driver hand the    *)
(* right to run it to each other. Nothing else stands in the way of a      *)
(* second run: no action looks at the status of the row.                   *)
(***************************************************************************)

\* Request r has passed the job it created on, or has given up.
HandedOver(r) == req[r].pc \notin {"new", "dispatch", "spawn"}

\* Each job has one creator.
Creators ==
  /\ \A r \in Requests : /\ req[r].pc = "new" => req[r].job = NoJob
                         /\ req[r].job # NoJob => req[r].job \in born
  /\ \A r, s \in Requests : req[r].job = req[s].job /\ req[r].job # NoJob => r = s

\* A message carries the job of the request whose task id it bears.
Messages ==
  \A m \in queue : /\ HandedOver(m.task)
                   /\ m.job = req[m.task].job
                   /\ m.job # NoJob

\* So does a driver, and its message is gone.
Assignments ==
  /\ \A d \in Drivers : Active(d) =>
       /\ HandedOver(drv[d].task)
       /\ drv[d].job = req[drv[d].task].job
       /\ drv[d].job # NoJob
       /\ \A m \in queue : m.task # drv[d].task
  /\ \A d, e \in Drivers : Active(d) /\ Active(e) /\ d # e => drv[d].task # drv[e].task

\* A job that has run has used up its message and its driver's start.
Spent(r) ==
  /\ HandedOver(r)
  /\ \A m \in queue : m.task # r
  /\ \A d \in Drivers : drv[d].pc = "start" => drv[d].task # r

Runs ==
  /\ \A j \in Jobs : runs[j] <= 1 /\ (runs[j] > 0 => j \in born)
  /\ \A r \in Requests : req[r].job # NoJob /\ runs[req[r].job] > 0 => Spent(r)

Exclusive == redeliveries = 0 /\ Creators /\ Messages /\ Assignments /\ Runs

-----------------------------------------------------------------------------
\* The steps that hand nothing over: requests keep their job and do not fall
\* back, drivers keep theirs or end, and none gets back to "start".
RequestsKeep ==
  \A r \in Requests : /\ req'[r].job = req[r].job
                      /\ HandedOver(r) => HandedOver(r)'
                      /\ req'[r].pc = "new" => req[r].pc = "new"
DriversKeep ==
  \A d \in Drivers : Active(d)' => /\ Active(d)
                                   /\ drv'[d].job = drv[d].job
                                   /\ drv'[d].task = drv[d].task
                                   /\ drv'[d].pc = "start" => drv[d].pc = "start"

LEMMA ExclusiveKept ==
  ASSUME TypeOK, Located, Exclusive, RequestsKeep, DriversKeep,
         UNCHANGED <<born, queue, runs, redeliveries>>
  PROVE  Exclusive'
<1> USE DEF Exclusive, RequestsKeep, DriversKeep
<1>1. Creators'
  BY DEF Creators
<1>2. Messages'
  BY DEF Messages, TypeOK, Message
<1>3. Assignments'
  BY DEF Assignments, Located
<1>4. Runs'
  <2>1. ASSUME NEW r \in Requests, Spent(r) PROVE Spent(r)'
    BY <2>1 DEF Spent, Active
  <2> QED
    BY <2>1 DEF Runs
<1> QED
  BY <1>1, <1>2, <1>3, <1>4

LEMMA InitExclusive == Init => Exclusive
BY DriverFields
DEF Init, Exclusive, Creators, Messages, Assignments, Runs, Spent, HandedOver, Active

LEMMA NextExclusive ==
  ASSUME MaxRedeliveries = 0
  PROVE  TypeOK /\ Located /\ Exclusive /\ [Next]_vars => Exclusive'
<1> SUFFICES ASSUME TypeOK, Located, Exclusive, [Next]_vars PROVE Exclusive'
  OBVIOUS
<1>1. ASSUME NEW r \in Requests, NEW j \in Jobs, CreateJob(r, j) PROVE Exclusive'
  <2>1. \A s \in Requests \ {r} : req'[s] = req[s]
    BY <1>1 DEF CreateJob, TypeOK
  <2>2. req'[r].job = j /\ req'[r].pc = "dispatch" /\ req[r].job = NoJob /\ req[r].pc = "new"
    BY <1>1, RequestFields DEF CreateJob, TypeOK, Exclusive, Creators
  <2>3. Creators'
    BY <1>1, <2>1, <2>2 DEF CreateJob, Exclusive, Creators
  <2>4. Messages' /\ Assignments'
    BY <1>1, <2>1, <2>2 DEF CreateJob, Exclusive, Messages, Assignments, HandedOver, Active
  <2>5. Runs'
    BY <1>1, <2>1, <2>2 DEF CreateJob, Exclusive, Creators, Runs, Spent, HandedOver
  <2> QED
    BY <1>1, <2>3, <2>4, <2>5 DEF CreateJob, Exclusive, env
<1>2. ASSUME NEW r \in Requests, Delay(r) PROVE Exclusive'
  <2>1. /\ \A s \in Requests \ {r} : req'[s] = req[s]
        /\ req'[r].job = req[r].job /\ req'[r].pc = "taskid" /\ req[r].pc = "dispatch"
    BY <1>2, RequestFields DEF Delay, TypeOK, Goto
  <2>2. req[r].job # NoJob /\ req[r].job \in Jobs
    BY <1>2, ProcessAssumption DEF Delay, Located, TypeOK
  <2>3. Creators'
    BY <1>2, <2>1 DEF Delay, Exclusive, Creators
  <2>4. Messages'
    BY <1>2, <2>1, <2>2 DEF Delay, Exclusive, Messages, HandedOver, TypeOK, Message
  <2>5. Assignments'
    BY <1>2, <2>1 DEF Delay, Exclusive, Assignments, HandedOver, Active, Located
  <2>6. Runs'
    BY <1>2, <2>1 DEF Delay, Exclusive, Runs, Spent, HandedOver
  <2> QED
    BY <1>2, <2>3, <2>4, <2>5, <2>6 DEF Delay, Exclusive, env
<1>3. ASSUME NEW r \in Requests, SetCeleryTaskId(r) PROVE Exclusive'
  <2>1. RequestsKeep
    <3>1. PICK p \in {"submit", "done"} : Goto(r, p)
      BY <1>3 DEF SetCeleryTaskId
    <3> QED
      BY <3>1, RequestFields DEF RequestsKeep, HandedOver, TypeOK, Goto
  <2>2. DriversKeep
    BY <1>3 DEF DriversKeep, Active, SetCeleryTaskId
  <2> QED
    BY <1>3, <2>1, <2>2, ExclusiveKept DEF SetCeleryTaskId, env
<1>4. ASSUME NEW r \in Requests, SubmittedToCelery(r) PROVE Exclusive'
  <2>1. RequestsKeep
    BY <1>4, RequestFields DEF RequestsKeep, HandedOver, TypeOK, SubmittedToCelery, Goto
  <2>2. DriversKeep
    BY <1>4 DEF DriversKeep, Active, SubmittedToCelery
  <2> QED
    BY <1>4, <2>1, <2>2, ExclusiveKept DEF SubmittedToCelery, env
<1>5. ASSUME NEW r \in Requests, SubmittedInline(r) PROVE Exclusive'
  <2>1. RequestsKeep
    BY <1>5, RequestFields DEF RequestsKeep, HandedOver, TypeOK, SubmittedInline, Goto
  <2>2. DriversKeep
    BY <1>5 DEF DriversKeep, Active, SubmittedInline
  <2> QED
    BY <1>5, <2>1, <2>2, ExclusiveKept DEF SubmittedInline, env
<1>6. ASSUME NEW r \in Requests, RunJobInline(r) PROVE Exclusive'
  <2>1. /\ \A s \in Requests \ {r} : req'[s] = req[s]
        /\ req'[r].job = req[r].job /\ req'[r].pc = "done" /\ req[r].pc = "spawn"
    BY <1>6, RequestFields DEF RunJobInline, TypeOK, Goto
  <2>2. req[r].job # NoJob /\ req[r].job \in Jobs
    BY <1>6, ProcessAssumption DEF RunJobInline, Located, TypeOK
  <2>3. /\ \A e \in Drivers \ {r} : drv'[e] = drv[e]
        /\ drv'[r].job = req[r].job /\ drv'[r].task = r /\ drv'[r].pc = "start"
    BY <1>6, DriverFields DEF RunJobInline, TypeOK, Drivers
  <2>4. Creators' /\ Messages'
    BY <1>6, <2>1 DEF RunJobInline, Exclusive, Creators, Messages, HandedOver, TypeOK, Message
  <2>5. Assignments'
    <3>1. \A m \in queue : m.task # r
      BY <2>1 DEF Exclusive, Messages, HandedOver
    <3>2. \A e \in Drivers : Active(e) => drv[e].task # r
      BY <2>1 DEF Exclusive, Assignments, HandedOver
    <3>3. \A e \in Drivers : Active(e) => drv[e].task \in Requests
      BY DEF Located
    <3>4. queue' = queue
      BY <1>6 DEF RunJobInline
    <3>5. ASSUME NEW e \in Drivers, Active(e)', e # r
          PROVE  /\ HandedOver(drv[e].task)' /\ drv'[e].job = req'[drv'[e].task].job
                 /\ drv'[e].job # NoJob /\ drv'[e].task # r
                 /\ \A m \in queue : m.task # drv'[e].task
      BY <2>1, <2>3, <3>2, <3>3, <3>5 DEF Exclusive, Assignments, HandedOver, Active
    <3>6. HandedOver(r)'
      BY <2>1 DEF HandedOver
    <3>7. \A e, f \in Drivers : Active(e)' /\ Active(f)' /\ e # f => drv'[e].task # drv'[f].task
      BY <2>3, <3>2 DEF Exclusive, Assignments, Active
    <3> QED
      BY <2>1, <2>2, <2>3, <3>1, <3>4, <3>5, <3>6, <3>7 DEF Assignments
  <2>6. Runs'
    BY <1>6, <2>1, <2>3 DEF RunJobInline, Exclusive, Runs, Spent, HandedOver
  <2> QED
    BY <1>6, <2>4, <2>5, <2>6 DEF RunJobInline, Exclusive, env
<1>7. ASSUME NEW r \in Requests, NEW j \in Jobs, FetchForCancel(r, j) PROVE Exclusive'
  <2>1. RequestsKeep
    BY <1>7, RequestFields DEF RequestsKeep, HandedOver, TypeOK, FetchForCancel, Goto
  <2>2. DriversKeep
    BY <1>7 DEF DriversKeep, Active, FetchForCancel
  <2> QED
    BY <1>7, <2>1, <2>2, ExclusiveKept DEF FetchForCancel, env
<1>8. ASSUME NEW r \in Requests, Revoke(r) PROVE Exclusive'
  <2>1. RequestsKeep
    BY <1>8, RequestFields DEF RequestsKeep, HandedOver, TypeOK, Revoke, Goto
  <2>2. DriversKeep
    BY <1>8 DEF DriversKeep, Active, Revoke
  <2> QED
    BY <1>8, <2>1, <2>2, ExclusiveKept DEF Revoke, env
<1>9. ASSUME NEW r \in Requests, MarkCancelled(r) PROVE Exclusive'
  <2>1. RequestsKeep
    BY <1>9, RequestFields DEF RequestsKeep, HandedOver, TypeOK, MarkCancelled, Goto
  <2>2. DriversKeep
    BY <1>9 DEF DriversKeep, Active, MarkCancelled
  <2> QED
    BY <1>9, <2>1, <2>2, ExclusiveKept DEF MarkCancelled, env
<1>10. ASSUME NEW r \in Requests, RequestFails(r) PROVE Exclusive'
  <2>1. RequestsKeep
    BY <1>10, RequestFields DEF RequestsKeep, HandedOver, TypeOK, RequestFails, Goto
  <2>2. DriversKeep
    BY <1>10 DEF DriversKeep, Active, RequestFails
  <2> QED
    BY <1>10, <2>1, <2>2, ExclusiveKept DEF RequestFails, Fault
<1>11. ASSUME NEW w \in Workers, NEW m \in queue, TakeMessage(w, m) PROVE Exclusive'
  <2>1. queue' = queue \ {m} /\ redeliveries' = redeliveries
    BY <1>11 DEF TakeMessage, Exclusive, env
  <2>2. CASE m.task \in revoked[w]
    BY <1>11, <2>1, <2>2 DEF TakeMessage, Exclusive, Creators, Messages, Assignments, Runs,
                           Spent, HandedOver, Active
  <2>3. CASE m.task \notin revoked[w]
    <3>1. /\ \A e \in Drivers \ {w} : drv'[e] = drv[e]
          /\ drv'[w].job = m.job /\ drv'[w].task = m.task /\ drv'[w].pc = "start"
      BY <1>11, <2>3, DriverFields DEF TakeMessage, TypeOK, Drivers
    <3>2. m.task \in Requests /\ m.job \in Jobs
      BY DEF TypeOK, Message
    <3>3. \A n \in queue : n.task = m.task => n = m
      BY DEF TypeOK, Message, Exclusive, Messages
    <3>4. Creators' /\ Messages'
      BY <1>11, <2>1 DEF TakeMessage, Exclusive, Creators, Messages, HandedOver
    <3>5. Assignments'
      BY <1>11, <2>1, <3>1, <3>2, <3>3
      DEF TakeMessage, Exclusive, Messages, Assignments, HandedOver, Active
    <3>6. Runs'
      BY <1>11, <2>1, <3>1, <3>2 DEF TakeMessage, Exclusive, Runs, Spent, HandedOver
    <3> QED
      BY <2>1, <3>4, <3>5, <3>6 DEF Exclusive
  <2> QED
    BY <2>2, <2>3
<1>12. ASSUME NEW d \in Drivers, StartRun(d) PROVE Exclusive'
  <2>1. CASE Present(drv[d].job)
    <3> DEFINE j == drv[d].job
    <3>1. /\ \A e \in Drivers \ {d} : drv'[e] = drv[e]
          /\ drv'[d].job = j /\ drv'[d].task = drv[d].task
          /\ drv'[d].pc = "announce" /\ drv[d].pc = "start"
      BY <1>12, <2>1, DriverFields DEF StartRun, TypeOK, DriverTo
    <3>2. /\ drv[d].task \in Requests /\ j \in Jobs /\ j \in born /\ j # NoJob
          /\ HandedOver(drv[d].task) /\ req[drv[d].task].job = j
      BY <3>1 DEF Located, Active, TypeOK, Exclusive, Assignments
    <3>3. runs[j] = 0
      BY <3>1, <3>2 DEF Exclusive, Runs, Spent, TypeOK
    <3>4. runs' = [runs EXCEPT ![j] = 1]
      BY <1>12, <2>1, <3>3 DEF StartRun
    <3>5. Creators' /\ Messages'
      BY <1>12 DEF StartRun, Exclusive, Creators, Messages, HandedOver
    <3>6. Assignments'
      BY <1>12, <3>1 DEF StartRun, Exclusive, Assignments, HandedOver, Active
    <3>7. Spent(drv[d].task)'
      BY <1>12, <3>1, <3>2 DEF StartRun, Exclusive, Assignments, Spent, HandedOver, Active
    <3>8. \A r \in Requests : req[r].job = j => r = drv[d].task
      BY <3>2 DEF Exclusive, Creators
    <3>9. Runs'
      BY <1>12, <3>1, <3>2, <3>4, <3>7, <3>8
      DEF StartRun, Exclusive, Runs, Spent, HandedOver, TypeOK
    <3> QED
      BY <1>12, <3>5, <3>6, <3>9 DEF StartRun, Exclusive, env
  <2>2. CASE ~Present(drv[d].job)
    <3>1. RequestsKeep /\ DriversKeep
      BY <1>12, <2>2, DriverFields
      DEF StartRun, RequestsKeep, DriversKeep, HandedOver, TypeOK, Active, EndDriver
    <3> QED
      BY <1>12, <2>2, <3>1, ExclusiveKept DEF StartRun, env
  <2> QED
    BY <2>1, <2>2
<1>13. ASSUME NEW d \in Drivers, AnnounceRun(d) PROVE Exclusive'
  <2>1. RequestsKeep
    BY <1>13 DEF RequestsKeep, HandedOver, AnnounceRun
  <2>2. DriversKeep
    BY <1>13, DriverFields DEF DriversKeep, Active, TypeOK, AnnounceRun, DriverTo, EndDriver
  <2> QED
    BY <1>13, <2>1, <2>2, ExclusiveKept DEF AnnounceRun, env
<1>14. ASSUME NEW d \in Drivers, StepEvent(d) PROVE Exclusive'
  <2>1. RequestsKeep
    BY <1>14 DEF RequestsKeep, HandedOver, StepEvent
  <2>2. DriversKeep
    BY <1>14, DriverFields DEF DriversKeep, Active, TypeOK, StepEvent, DriverTo, EndDriver
  <2> QED
    BY <1>14, <2>1, <2>2, ExclusiveKept DEF StepEvent, env
<1>15. ASSUME NEW d \in Drivers, NEW out \in Outcome, ScenarioEnds(d, out) PROVE Exclusive'
  <2>1. RequestsKeep
    BY <1>15 DEF RequestsKeep, HandedOver, ScenarioEnds
  <2>2. DriversKeep
    BY <1>15, DriverFields DEF DriversKeep, Active, TypeOK, ScenarioEnds, DriverTo, EndDriver
  <2> QED
    BY <1>15, <2>1, <2>2, ExclusiveKept DEF ScenarioEnds, env
<1>16. ASSUME NEW d \in Drivers, SaveOutcome(d) PROVE Exclusive'
  <2>1. RequestsKeep
    BY <1>16 DEF RequestsKeep, HandedOver, SaveOutcome
  <2>2. DriversKeep
    BY <1>16, DriverFields DEF DriversKeep, Active, TypeOK, SaveOutcome, DriverTo, EndDriver
  <2> QED
    BY <1>16, <2>1, <2>2, ExclusiveKept DEF SaveOutcome, env
<1>17. ASSUME NEW d \in Drivers, ReportOutcome(d) PROVE Exclusive'
  <2>1. RequestsKeep
    BY <1>17 DEF RequestsKeep, HandedOver, ReportOutcome
  <2>2. DriversKeep
    BY <1>17, DriverFields DEF DriversKeep, Active, TypeOK, ReportOutcome, DriverTo, EndDriver
  <2> QED
    BY <1>17, <2>1, <2>2, ExclusiveKept DEF ReportOutcome, env
<1>18. ASSUME NEW d \in Drivers, StatementFails(d) PROVE Exclusive'
  <2>1. RequestsKeep
    BY <1>18 DEF RequestsKeep, HandedOver, StatementFails
  <2>2. DriversKeep
    BY <1>18, DriverFields DEF DriversKeep, Active, TypeOK, StatementFails, DriverTo, EndDriver
  <2> QED
    BY <1>18, <2>1, <2>2, ExclusiveKept DEF StatementFails, Fault
<1>19. ASSUME NEW d \in Drivers, DriverCrashes(d) PROVE Exclusive'
  <2>1. RequestsKeep
    BY <1>19 DEF RequestsKeep, HandedOver, DriverCrashes
  <2>2. DriversKeep
    BY <1>19, DriverFields DEF DriversKeep, Active, TypeOK, DriverCrashes, DriverTo, EndDriver
  <2> QED
    BY <1>19, <2>1, <2>2, ExclusiveKept DEF DriverCrashes, Fault
<1>20. ASSUME NEW j \in Jobs, BecomesStale(j) PROVE Exclusive'
  <2>1. RequestsKeep
    BY <1>20 DEF RequestsKeep, HandedOver, BecomesStale
  <2>2. DriversKeep
    BY <1>20 DEF DriversKeep, Active, BecomesStale
  <2> QED
    BY <1>20, <2>1, <2>2, ExclusiveKept DEF BecomesStale, env
<1>21. ASSUME NEW j \in Jobs, BecomesAged(j) PROVE Exclusive'
  <2>1. RequestsKeep
    BY <1>21 DEF RequestsKeep, HandedOver, BecomesAged
  <2>2. DriversKeep
    BY <1>21 DEF DriversKeep, Active, BecomesAged
  <2> QED
    BY <1>21, <2>1, <2>2, ExclusiveKept DEF BecomesAged, env
<1>22. CASE ReconcileScan
  <2>1. RequestsKeep
    BY <1>22 DEF RequestsKeep, HandedOver, ReconcileScan
  <2>2. DriversKeep
    BY <1>22 DEF DriversKeep, Active, ReconcileScan
  <2> QED
    BY <1>22, <2>1, <2>2, ExclusiveKept DEF ReconcileScan, env
<1>23. ASSUME NEW j \in Jobs, ReconcileSave(j) PROVE Exclusive'
  <2>1. RequestsKeep
    BY <1>23 DEF RequestsKeep, HandedOver, ReconcileSave
  <2>2. DriversKeep
    BY <1>23 DEF DriversKeep, Active, ReconcileSave
  <2> QED
    BY <1>23, <2>1, <2>2, ExclusiveKept DEF ReconcileSave, env
<1>24. CASE ReconcileEvent
  <2>1. RequestsKeep
    BY <1>24 DEF RequestsKeep, HandedOver, ReconcileEvent
  <2>2. DriversKeep
    BY <1>24 DEF DriversKeep, Active, ReconcileEvent
  <2> QED
    BY <1>24, <2>1, <2>2, ExclusiveKept DEF ReconcileEvent, env
<1>25. CASE ReconcileFails
  <2>1. RequestsKeep
    BY <1>25 DEF RequestsKeep, HandedOver, ReconcileFails
  <2>2. DriversKeep
    BY <1>25 DEF DriversKeep, Active, ReconcileFails
  <2> QED
    BY <1>25, <2>1, <2>2, ExclusiveKept DEF ReconcileFails, Fault
<1>26. CASE PruneScan
  <2>1. RequestsKeep
    BY <1>26 DEF RequestsKeep, HandedOver, PruneScan
  <2>2. DriversKeep
    BY <1>26 DEF DriversKeep, Active, PruneScan
  <2> QED
    BY <1>26, <2>1, <2>2, ExclusiveKept DEF PruneScan, env
<1>27. CASE PruneEvents
  <2>1. RequestsKeep
    BY <1>27 DEF RequestsKeep, HandedOver, PruneEvents
  <2>2. DriversKeep
    BY <1>27 DEF DriversKeep, Active, PruneEvents
  <2> QED
    BY <1>27, <2>1, <2>2, ExclusiveKept DEF PruneEvents, env
<1>28. CASE PruneJobs
  <2>1. RequestsKeep
    BY <1>28 DEF RequestsKeep, HandedOver, PruneJobs
  <2>2. DriversKeep
    BY <1>28 DEF DriversKeep, Active, PruneJobs
  <2> QED
    BY <1>28, <2>1, <2>2, ExclusiveKept DEF PruneJobs, env
<1>29. CASE PruneFails
  <2>1. RequestsKeep
    BY <1>29 DEF RequestsKeep, HandedOver, PruneFails
  <2>2. DriversKeep
    BY <1>29 DEF DriversKeep, Active, PruneFails
  <2> QED
    BY <1>29, <2>1, <2>2, ExclusiveKept DEF PruneFails, Fault
<1>30. CASE UNCHANGED vars
  BY <1>30, ExclusiveKept DEF vars, RequestsKeep, DriversKeep, HandedOver, Active
<1> QED
  BY <1>1, <1>2, <1>3, <1>4, <1>5, <1>6, <1>7, <1>8, <1>9, <1>10, <1>11,
     <1>12, <1>13, <1>14, <1>15, <1>16, <1>17, <1>18, <1>19, <1>20, <1>21,
     <1>22, <1>23, <1>24, <1>25, <1>26, <1>27, <1>28, <1>29, <1>30
  DEF Next, RequestNew, RequestStep, Enqueue, Retry, DriverStep, ReconcileStep, PruneStep

LEMMA ExclusiveSuffices == TypeOK /\ Located /\ Exclusive => RunsOnce
<1> SUFFICES ASSUME TypeOK, Located, Exclusive PROVE RunsOnce
  OBVIOUS
<1>1. \A j \in Jobs : runs[j] <= 1
  BY DEF Exclusive, Runs
<1>2. ASSUME NEW d \in Drivers, NEW e \in Drivers, Active(d), Active(e), d # e
      PROVE  drv[d].job # drv[e].job
  BY <1>2 DEF Located, Exclusive, Assignments, Creators
<1> QED
  BY <1>1, <1>2 DEF RunsOnce

\* When the broker delivers each message once, a job is executed at most once
\* and never by two drivers at a time, whatever the mix of transports,
\* cancels, retries, crashes and restarts.
THEOREM RunsOnceHolds == ASSUME MaxRedeliveries = 0 PROVE Spec => []RunsOnce
<1>1. Spec => [](TypeOK /\ Located)
  BY TypeCorrect
<1>2. Init => Exclusive
  BY InitExclusive
<1>3. (TypeOK /\ Located) /\ Exclusive /\ [Next]_vars => Exclusive'
  BY NextExclusive
<1>4. (TypeOK /\ Located) /\ Exclusive => RunsOnce
  BY ExclusiveSuffices
<1> QED
  BY <1>1, <1>2, <1>3, <1>4, PTL DEF Spec

-----------------------------------------------------------------------------
(***************************************************************************)
(* Why a job that is over stays as it is: every writer works on a job it   *)
(* was given while the job was live, and all of them are gone.             *)
(***************************************************************************)

\* Job j, which is settled, stays so; only retention takes how it ended away.
Stays(j) == Settled(j)' /\ (Result(j)' = Result(j) \/ ~Present(j)')

LEMMA NextSettled ==
  ASSUME TypeOK, Located, [Next]_vars, NEW j \in Jobs, Settled(j)
  PROVE  Stays(j)
<1>1. ASSUME NEW r \in Requests, NEW i \in Jobs, CreateJob(r, i) PROVE Stays(j)
  BY <1>1, RowFields, RequestFields, DriverFields
  DEF CreateJob, Stays, TypeOK, Located, Settled, Present, Terminal, Undelivered,
      CancelPending, Result, Drivers
<1>2. ASSUME NEW r \in Requests, Delay(r) PROVE Stays(j)
  BY <1>2, RequestFields, DriverFields
  DEF Delay, Stays, TypeOK, Located, Settled, Present, Terminal, Undelivered, CancelPending,
      Result, Goto, Drivers, Message
<1>3. ASSUME NEW r \in Requests, SetCeleryTaskId(r) PROVE Stays(j)
  <2>1. PICK p \in {"submit", "done"} : Goto(r, p)
    BY <1>3 DEF SetCeleryTaskId
  <2>2. req[r].job \in Jobs /\ row[req[r].job] \in Row
    BY <1>3 DEF TypeOK, Located, SetCeleryTaskId
  <2>3. row'[j].status = row[j].status /\ Result(j)' = Result(j)
    BY <1>3, <2>2, RowFields DEF TypeOK, SetCeleryTaskId, Result
  <2> QED
    BY <1>3, <2>1, <2>3, RequestFields
    DEF SetCeleryTaskId, TypeOK, Settled, Present, Terminal, Undelivered, CancelPending,
        Goto, Stays
<1>4. ASSUME NEW r \in Requests, SubmittedToCelery(r) PROVE Stays(j)
  BY <1>4, RequestFields, DriverFields
  DEF SubmittedToCelery, Stays, TypeOK, Settled, Present, Terminal, Undelivered,
      CancelPending, Result, Goto, Drivers
<1>5. ASSUME NEW r \in Requests, SubmittedInline(r) PROVE Stays(j)
  BY <1>5, RequestFields, DriverFields
  DEF SubmittedInline, Stays, TypeOK, Settled, Present, Terminal, Undelivered,
      CancelPending, Result, Goto, Drivers
<1>6. ASSUME NEW r \in Requests, RunJobInline(r) PROVE Stays(j)
  BY <1>6, RequestFields, DriverFields
  DEF RunJobInline, Stays, TypeOK, Located, Settled, Present, Terminal, Undelivered,
      CancelPending, Result, Goto, Drivers
<1>7. ASSUME NEW r \in Requests, NEW i \in Jobs, FetchForCancel(r, i) PROVE Stays(j)
  <2>1. i = j => row[i].status \notin ActiveStatus
    BY <1>7 DEF FetchForCancel, Settled, Present, Terminal, ActiveStatus, TerminalStatus
  <2> QED
    BY <1>7, <2>1, RequestFields
    DEF FetchForCancel, TypeOK, Located, Settled, Present, Terminal, Undelivered,
        CancelPending, Result, Stays
<1>8. ASSUME NEW r \in Requests, Revoke(r) PROVE Stays(j)
  BY <1>8, RequestFields, DriverFields
  DEF Revoke, Stays, TypeOK, Settled, Present, Terminal, Undelivered, CancelPending, Result,
      Goto, Drivers
<1>9. ASSUME NEW r \in Requests, MarkCancelled(r) PROVE Stays(j)
  BY <1>9, RowFields, RequestFields, DriverFields
  DEF MarkCancelled, Stays, TypeOK, Located, Settled, Present, Terminal, Undelivered,
      CancelPending, Result, Goto, Drivers
<1>10. ASSUME NEW r \in Requests, RequestFails(r) PROVE Stays(j)
  BY <1>10, RequestFields, DriverFields
  DEF RequestFails, Stays, TypeOK, Settled, Present, Terminal, Undelivered, CancelPending,
      Result, Goto, Fault, Drivers
<1>11. ASSUME NEW w \in Workers, NEW m \in queue, TakeMessage(w, m) PROVE Stays(j)
  <2>1. m.job # j
    BY <1>11 DEF Settled
  <2>2. \A e \in Drivers : drv'[e].job \in {drv[e].job, m.job}
    BY <1>11, DriverFields DEF TakeMessage, TypeOK, Drivers
  <2> QED
    BY <1>11, <2>1, <2>2, ProcessAssumption
    DEF TakeMessage, TypeOK, Settled, Present, Terminal, Undelivered, CancelPending, Result,
        Stays
<1>12. ASSUME NEW d \in Drivers, StartRun(d) PROVE Stays(j)
  <2>1. \A e \in Drivers : drv'[e].job \in {drv[e].job, NoJob}
    BY <1>12, DriverFields DEF StartRun, TypeOK, DriverTo, EndDriver
  <2>2. drv[d].job \in Jobs /\ drv[d].job # j
    BY <1>12 DEF StartRun, TypeOK, Located, Settled, Active
  <2>3. row'[j] = row[j]
    BY <1>12, <2>2 DEF StartRun, TypeOK
  <2> QED
    BY <1>12, <2>1, <2>3, ProcessAssumption
    DEF StartRun, TypeOK, Settled, Present, Terminal, Undelivered, CancelPending, Result, Stays
<1>13. ASSUME NEW d \in Drivers, AnnounceRun(d) PROVE Stays(j)
  <2>1. \A e \in Drivers : drv'[e].job \in {drv[e].job, NoJob}
    BY <1>13, DriverFields DEF AnnounceRun, TypeOK, DriverTo, EndDriver
  <2> QED
    BY <1>13, <2>1, ProcessAssumption
    DEF AnnounceRun, TypeOK, Settled, Present, Terminal, Undelivered, CancelPending, Result,
        Stays
<1>14. ASSUME NEW d \in Drivers, StepEvent(d) PROVE Stays(j)
  BY <1>14, RequestFields, DriverFields
  DEF StepEvent, Stays, TypeOK, Located, Settled, Present, Terminal, Undelivered,
      CancelPending, Result, Drivers
<1>15. ASSUME NEW d \in Drivers, NEW out \in Outcome, ScenarioEnds(d, out) PROVE Stays(j)
  BY <1>15, RequestFields, DriverFields
  DEF ScenarioEnds, Stays, TypeOK, Located, Settled, Present, Terminal, Undelivered,
      CancelPending, Result, Drivers
<1>16. ASSUME NEW d \in Drivers, SaveOutcome(d) PROVE Stays(j)
  <2>1. \A e \in Drivers : drv'[e].job \in {drv[e].job, NoJob}
    BY <1>16, DriverFields DEF SaveOutcome, TypeOK, DriverTo, EndDriver
  <2>2. drv[d].job \in Jobs /\ drv[d].job # j
    BY <1>16 DEF SaveOutcome, TypeOK, Located, Settled, Active
  <2>3. row'[j] = row[j]
    BY <1>16, <2>2 DEF SaveOutcome, TypeOK
  <2> QED
    BY <1>16, <2>1, <2>3, ProcessAssumption
    DEF SaveOutcome, TypeOK, Settled, Present, Terminal, Undelivered, CancelPending, Result,
        Stays
<1>17. ASSUME NEW d \in Drivers, ReportOutcome(d) PROVE Stays(j)
  BY <1>17, DriverFields, ProcessAssumption
  DEF ReportOutcome, Stays, TypeOK, Located, Settled, Present, Terminal, Undelivered,
      CancelPending, Result, EndDriver, Drivers
<1>18. ASSUME NEW d \in Drivers, StatementFails(d) PROVE Stays(j)
  <2>1. \A e \in Drivers : drv'[e].job \in {drv[e].job, NoJob}
    BY <1>18, DriverFields DEF StatementFails, TypeOK, DriverTo, EndDriver
  <2> QED
    BY <1>18, <2>1, ProcessAssumption
    DEF StatementFails, TypeOK, Settled, Present, Terminal, Undelivered, CancelPending,
        Result, Stays, Fault
<1>19. ASSUME NEW d \in Drivers, DriverCrashes(d) PROVE Stays(j)
  BY <1>19, DriverFields, ProcessAssumption
  DEF DriverCrashes, Stays, TypeOK, Located, Settled, Present, Terminal, Undelivered,
      CancelPending, Result, EndDriver, Fault, Drivers
<1>20. ASSUME NEW i \in Jobs, BecomesStale(i) PROVE Stays(j)
  BY <1>20, RowFields, RequestFields, DriverFields
  DEF BecomesStale, Stays, TypeOK, Located, Settled, Present, Terminal, Undelivered,
      CancelPending, Result, Drivers
<1>21. ASSUME NEW i \in Jobs, BecomesAged(i) PROVE Stays(j)
  BY <1>21, RowFields, RequestFields, DriverFields
  DEF BecomesAged, Stays, TypeOK, Located, Settled, Present, Terminal, Undelivered,
      CancelPending, Result, Drivers
<1>22. CASE ReconcileScan
  <2>1. row[j].status \notin ActiveStatus
    BY DEF Settled, Present, Terminal, ActiveStatus, TerminalStatus
  <2> QED
    BY <1>22, <2>1
    DEF ReconcileScan, TypeOK, Settled, Present, Terminal, Undelivered, CancelPending,
        Result, Stays
<1>23. ASSUME NEW i \in Jobs, ReconcileSave(i) PROVE Stays(j)
  <2>1. i # j /\ rec'.todo \subseteq rec.todo
    BY <1>23 DEF ReconcileSave, Settled
  <2>2. row'[j] = row[j]
    BY <1>23, <2>1 DEF ReconcileSave, TypeOK
  <2> QED
    BY <1>23, <2>1, <2>2
    DEF ReconcileSave, Stays, Settled, Present, Terminal, Undelivered, CancelPending, Result
<1>24. CASE ReconcileEvent
  BY <1>24, RequestFields, DriverFields
  DEF ReconcileEvent, Stays, TypeOK, Settled, Present, Terminal, Undelivered, CancelPending,
      Result, Drivers
<1>25. CASE ReconcileFails
  BY <1>25, RequestFields, DriverFields
  DEF ReconcileFails, Stays, TypeOK, Settled, Present, Terminal, Undelivered, CancelPending,
      Result, Fault, Drivers
<1>26. CASE PruneScan
  BY <1>26, RequestFields, DriverFields
  DEF PruneScan, Stays, TypeOK, Settled, Present, Terminal, Undelivered, CancelPending,
      Result, Drivers
<1>27. CASE PruneEvents
  BY <1>27, RequestFields, DriverFields
  DEF PruneEvents, Stays, TypeOK, Settled, Present, Terminal, Undelivered, CancelPending,
      Result, Drivers
<1>28. CASE PruneJobs
  BY <1>28, RowFields, RequestFields, DriverFields
  DEF PruneJobs, Stays, TypeOK, Settled, Present, Terminal, Undelivered, CancelPending,
      Result, Drivers
<1>29. CASE PruneFails
  BY <1>29, RequestFields, DriverFields
  DEF PruneFails, Stays, TypeOK, Settled, Present, Terminal, Undelivered, CancelPending,
      Result, Fault, Drivers
<1>30. CASE UNCHANGED vars
  BY <1>30, RequestFields, DriverFields
  DEF vars, Stays, TypeOK, Settled, Present, Terminal, Undelivered, CancelPending, Result,
      Drivers
<1> QED
  BY <1>1, <1>2, <1>3, <1>4, <1>5, <1>6, <1>7, <1>8, <1>9, <1>10, <1>11, <1>12, <1>13,
     <1>14, <1>15, <1>16, <1>17, <1>18, <1>19, <1>20, <1>21, <1>22, <1>23, <1>24, <1>25,
     <1>26, <1>27, <1>28, <1>29, <1>30
  DEF Next, RequestNew, RequestStep, Enqueue, Retry, DriverStep, ReconcileStep, PruneStep

\* Once nothing is left that may write the status of a job, no later step
\* changes how it ended, but for retention, which may delete it: for any
\* number of requests, drivers, faults and redeliveries.
THEOREM SettledStaysHolds == Spec => SettledStays
<1>1. Spec => [](TypeOK /\ Located)
  BY TypeCorrect
<1>2. (TypeOK /\ Located) /\ [Next]_vars
        => [\A j \in Jobs : Settled(j) =>
              Settled(j)' /\ (Result(j)' = Result(j) \/ ~Present(j)')]_vars
  BY NextSettled DEF Stays
<1> QED
  BY <1>1, <1>2, PTL DEF Spec, SettledStays

-----------------------------------------------------------------------------
(***************************************************************************)
(* Why no terminal status is without its event: the writer of the status   *)
(* stays where it adds the event until it has, or a fault is counted.      *)
(***************************************************************************)

\* The thread of an inline run is started once, by the last step of its request.
Threads == \A r \in Requests : Active(r) => req[r].pc = "done"

LEMMA NextThreads == TypeOK /\ Located /\ Threads /\ [Next]_vars => Threads'
<1> SUFFICES ASSUME TypeOK, Located, Threads, [Next]_vars PROVE Threads'
  OBVIOUS
<1>1. ASSUME NEW r \in Requests, NEW j \in Jobs, CreateJob(r, j) PROVE Threads'
  BY <1>1, RequestFields, DriverFields, ProcessAssumption
  DEF CreateJob, TypeOK, Threads, Active, Goto, DriverTo, EndDriver, Drivers
<1>2. ASSUME NEW r \in Requests, Delay(r) PROVE Threads'
  BY <1>2, RequestFields, DriverFields, ProcessAssumption
  DEF Delay, TypeOK, Threads, Active, Goto, DriverTo, EndDriver, Drivers
<1>3. ASSUME NEW r \in Requests, SetCeleryTaskId(r) PROVE Threads'
  <2>1. PICK p \in {"submit", "done"} : Goto(r, p)
    BY <1>3 DEF SetCeleryTaskId
  <2> QED
    BY <1>3, <2>1, RequestFields DEF SetCeleryTaskId, TypeOK, Threads, Active, Goto
<1>4. ASSUME NEW r \in Requests, SubmittedToCelery(r) PROVE Threads'
  BY <1>4, RequestFields, DriverFields, ProcessAssumption
  DEF SubmittedToCelery, TypeOK, Threads, Active, Goto, DriverTo, EndDriver, Drivers
<1>5. ASSUME NEW r \in Requests, SubmittedInline(r) PROVE Threads'
  BY <1>5, RequestFields, DriverFields, ProcessAssumption
  DEF SubmittedInline, TypeOK, Threads, Active, Goto, DriverTo, EndDriver, Drivers
<1>6. ASSUME NEW r \in Requests, RunJobInline(r) PROVE Threads'
  BY <1>6, RequestFields, DriverFields, ProcessAssumption
  DEF RunJobInline, TypeOK, Threads, Active, Goto, DriverTo, EndDriver, Drivers
<1>7. ASSUME NEW r \in Requests, NEW j \in Jobs, FetchForCancel(r, j) PROVE Threads'
  BY <1>7, RequestFields, DriverFields, ProcessAssumption
  DEF FetchForCancel, TypeOK, Threads, Active, Goto, DriverTo, EndDriver, Drivers
<1>8. ASSUME NEW r \in Requests, Revoke(r) PROVE Threads'
  BY <1>8, RequestFields, DriverFields, ProcessAssumption
  DEF Revoke, TypeOK, Threads, Active, Goto, DriverTo, EndDriver, Drivers
<1>9. ASSUME NEW r \in Requests, MarkCancelled(r) PROVE Threads'
  BY <1>9, RequestFields, DriverFields, ProcessAssumption
  DEF MarkCancelled, TypeOK, Threads, Active, Goto, DriverTo, EndDriver, Drivers
<1>10. ASSUME NEW r \in Requests, RequestFails(r) PROVE Threads'
  BY <1>10, RequestFields, DriverFields, ProcessAssumption
  DEF RequestFails, TypeOK, Threads, Active, Goto, DriverTo, EndDriver, Drivers
<1>11. ASSUME NEW w \in Workers, NEW m \in queue, TakeMessage(w, m) PROVE Threads'
  <2>1. \A e \in Drivers \ {w} : drv'[e] = drv[e]
    BY <1>11 DEF TakeMessage, TypeOK
  <2> QED
    BY <1>11, <2>1, ProcessAssumption DEF TakeMessage, Threads, Active, Drivers
<1>12. ASSUME NEW d \in Drivers, StartRun(d) PROVE Threads'
  <2>1. \A e \in Drivers : drv'[e].pc # "idle" => drv[e].pc # "idle"
    BY <1>12, DriverFields DEF StartRun, TypeOK, DriverTo, EndDriver
  <2> QED
    BY <1>12, <2>1 DEF StartRun, Threads, Active, Drivers
<1>13. ASSUME NEW d \in Drivers, AnnounceRun(d) PROVE Threads'
  BY <1>13, RequestFields, DriverFields, ProcessAssumption
  DEF AnnounceRun, TypeOK, Threads, Active, Goto, DriverTo, EndDriver, Drivers
<1>14. ASSUME NEW d \in Drivers, StepEvent(d) PROVE Threads'
  BY <1>14, RequestFields, DriverFields, ProcessAssumption
  DEF StepEvent, TypeOK, Threads, Active, Goto, DriverTo, EndDriver, Drivers
<1>15. ASSUME NEW d \in Drivers, NEW out \in Outcome, ScenarioEnds(d, out) PROVE Threads'
  BY <1>15, RequestFields, DriverFields, ProcessAssumption
  DEF ScenarioEnds, TypeOK, Threads, Active, Goto, DriverTo, EndDriver, Drivers
<1>16. ASSUME NEW d \in Drivers, SaveOutcome(d) PROVE Threads'
  <2>1. \A e \in Drivers : drv'[e].pc # "idle" => drv[e].pc # "idle"
    BY <1>16, DriverFields DEF SaveOutcome, TypeOK, DriverTo, EndDriver
  <2> QED
    BY <1>16, <2>1 DEF SaveOutcome, Threads, Active, Drivers
<1>17. ASSUME NEW d \in Drivers, ReportOutcome(d) PROVE Threads'
  BY <1>17, RequestFields, DriverFields, ProcessAssumption
  DEF ReportOutcome, TypeOK, Threads, Active, Goto, DriverTo, EndDriver, Drivers
<1>18. ASSUME NEW d \in Drivers, StatementFails(d) PROVE Threads'
  <2>1. \A e \in Drivers : drv'[e].pc # "idle" => drv[e].pc # "idle"
    BY <1>18, DriverFields DEF StatementFails, TypeOK, DriverTo, EndDriver
  <2> QED
    BY <1>18, <2>1 DEF StatementFails, Threads, Active, Drivers
<1>19. ASSUME NEW d \in Drivers, DriverCrashes(d) PROVE Threads'
  BY <1>19, RequestFields, DriverFields, ProcessAssumption
  DEF DriverCrashes, TypeOK, Threads, Active, Goto, DriverTo, EndDriver, Drivers
<1>20. ASSUME NEW j \in Jobs, BecomesStale(j) PROVE Threads'
  BY <1>20, RequestFields, DriverFields, ProcessAssumption
  DEF BecomesStale, TypeOK, Threads, Active, Goto, DriverTo, EndDriver, Drivers
<1>21. ASSUME NEW j \in Jobs, BecomesAged(j) PROVE Threads'
  BY <1>21, RequestFields, DriverFields, ProcessAssumption
  DEF BecomesAged, TypeOK, Threads, Active, Goto, DriverTo, EndDriver, Drivers
<1>22. CASE ReconcileScan
  BY <1>22, RequestFields, DriverFields, ProcessAssumption
  DEF ReconcileScan, TypeOK, Threads, Active, Goto, DriverTo, EndDriver, Drivers
<1>23. ASSUME NEW j \in Jobs, ReconcileSave(j) PROVE Threads'
  BY <1>23, RequestFields, DriverFields, ProcessAssumption
  DEF ReconcileSave, TypeOK, Threads, Active, Goto, DriverTo, EndDriver, Drivers
<1>24. CASE ReconcileEvent
  BY <1>24, RequestFields, DriverFields, ProcessAssumption
  DEF ReconcileEvent, TypeOK, Threads, Active, Goto, DriverTo, EndDriver, Drivers
<1>25. CASE ReconcileFails
  BY <1>25, RequestFields, DriverFields, ProcessAssumption
  DEF ReconcileFails, TypeOK, Threads, Active, Goto, DriverTo, EndDriver, Drivers
<1>26. CASE PruneScan
  BY <1>26, RequestFields, DriverFields, ProcessAssumption
  DEF PruneScan, TypeOK, Threads, Active, Goto, DriverTo, EndDriver, Drivers
<1>27. CASE PruneEvents
  BY <1>27, RequestFields, DriverFields, ProcessAssumption
  DEF PruneEvents, TypeOK, Threads, Active, Goto, DriverTo, EndDriver, Drivers
<1>28. CASE PruneJobs
  BY <1>28, RequestFields, DriverFields, ProcessAssumption
  DEF PruneJobs, TypeOK, Threads, Active, Goto, DriverTo, EndDriver, Drivers
<1>29. CASE PruneFails
  BY <1>29, RequestFields, DriverFields, ProcessAssumption
  DEF PruneFails, TypeOK, Threads, Active, Goto, DriverTo, EndDriver, Drivers
<1>30. CASE UNCHANGED vars
  BY <1>30, RequestFields, DriverFields, ProcessAssumption
  DEF vars, TypeOK, Threads, Active, Goto, DriverTo, EndDriver, Drivers
<1> QED
  BY <1>1, <1>2, <1>3, <1>4, <1>5, <1>6, <1>7, <1>8, <1>9, <1>10, <1>11, <1>12, <1>13,
     <1>14, <1>15, <1>16, <1>17, <1>18, <1>19, <1>20, <1>21, <1>22, <1>23, <1>24, <1>25,
     <1>26, <1>27, <1>28, <1>29, <1>30
  DEF Next, RequestNew, RequestStep, Enqueue, Retry, DriverStep, ReconcileStep, PruneStep

LEMMA AnnouncedKept ==
  ASSUME NEW k \in Jobs, Announced(k), row'[k].status = row[k].status,
         events[k] \subseteq events'[k],
         \A d \in Drivers : drv[d].pc = "report" => drv'[d] = drv[d],
         UNCHANGED <<rec, prune, faults>>
  PROVE  Announced(k)'
BY DEF Announced

LEMMA AnnouncedByFault == TypeOK /\ Fault => \A k \in Jobs : Announced(k)'
BY DEF TypeOK, Fault, Announced

LEMMA InsertAdds ==
  ASSUME NEW j \in Jobs, NEW e \in EventType, TypeOK, InsertEvent(j, e)
  PROVE  /\ \A k \in Jobs : events[k] \subseteq events'[k]
         /\ Present(j) => e \in events'[j]
BY DEF TypeOK, InsertEvent, AppendEvent

LEMMA NextAnnounced ==
  ASSUME TypeOK, Located, Threads, [Next]_vars, NEW k \in Jobs, Terminal(k) => Announced(k),
         Terminal(k)'
  PROVE  Announced(k)'
<1> USE DEF Terminal
<1>1. ASSUME NEW r \in Requests, NEW j \in Jobs, CreateJob(r, j) PROVE Announced(k)'
  BY <1>1, AnnouncedKept, RowFields DEF CreateJob, TypeOK, AppendEvent, TerminalStatus, env
<1>2. ASSUME NEW r \in Requests, Delay(r) PROVE Announced(k)'
  BY <1>2, AnnouncedKept DEF Delay, env
<1>3. ASSUME NEW r \in Requests, SetCeleryTaskId(r) PROVE Announced(k)'
  <2>1. req[r].job \in Jobs /\ row[req[r].job] \in Row
    BY <1>3 DEF TypeOK, Located, SetCeleryTaskId
  <2>2. row'[k].status = row[k].status
    BY <1>3, <2>1, RowFields DEF TypeOK, SetCeleryTaskId
  <2> QED
    BY <1>3, <2>2, AnnouncedKept DEF SetCeleryTaskId, env
<1>4. ASSUME NEW r \in Requests, SubmittedToCelery(r) PROVE Announced(k)'
  <2>1. req[r].job \in Jobs
    BY <1>4 DEF TypeOK, Located, SubmittedToCelery
  <2> QED
    BY <1>4, <2>1, InsertAdds, AnnouncedKept DEF SubmittedToCelery, EventType, env
<1>5. ASSUME NEW r \in Requests, SubmittedInline(r) PROVE Announced(k)'
  <2>1. req[r].job \in Jobs
    BY <1>5 DEF TypeOK, Located, SubmittedInline
  <2> QED
    BY <1>5, <2>1, InsertAdds, AnnouncedKept DEF SubmittedInline, EventType, env
<1>6. ASSUME NEW r \in Requests, RunJobInline(r) PROVE Announced(k)'
  <2>1. \A d \in Drivers : drv[d].pc = "report" => drv'[d] = drv[d]
    BY <1>6 DEF RunJobInline, TypeOK, Threads, Active
  <2> QED
    BY <1>6, <2>1, AnnouncedKept DEF RunJobInline, env
<1>7. ASSUME NEW r \in Requests, NEW j \in Jobs, FetchForCancel(r, j) PROVE Announced(k)'
  BY <1>7, AnnouncedKept DEF FetchForCancel, env
<1>8. ASSUME NEW r \in Requests, Revoke(r) PROVE Announced(k)'
  BY <1>8, AnnouncedKept DEF Revoke, env
<1>9. ASSUME NEW r \in Requests, MarkCancelled(r) PROVE Announced(k)'
  <2>1. CASE UNCHANGED <<row, events>>
    BY <1>9, <2>1, AnnouncedKept DEF MarkCancelled, env
  <2>2. CASE /\ Present(req[r].target)
             /\ row' = [row EXCEPT ![req[r].target] = Closed(@, "cancelled")]
             /\ AppendEvent(req[r].target, "cancelled")
    <3>1. CASE k = req[r].target
      BY <2>2, <3>1, RowFields DEF TypeOK, AppendEvent, Announced
    <3>2. CASE k # req[r].target
      BY <1>9, <2>2, <3>2, AnnouncedKept DEF MarkCancelled, TypeOK, AppendEvent, env
    <3> QED
      BY <3>1, <3>2
  <2> QED
    BY <1>9, <2>1, <2>2 DEF MarkCancelled
<1>10. ASSUME NEW r \in Requests, RequestFails(r) PROVE Announced(k)'
  BY <1>10, AnnouncedByFault DEF RequestFails
<1>11. ASSUME NEW w \in Workers, NEW m \in queue, TakeMessage(w, m) PROVE Announced(k)'
  <2>1. \A d \in Drivers : drv[d].pc = "report" => drv'[d] = drv[d]
    BY <1>11 DEF TakeMessage, TypeOK, Active
  <2>2. faults' = faults
    BY <1>11 DEF TakeMessage, env
  <2> QED
    BY <1>11, <2>1, <2>2, AnnouncedKept DEF TakeMessage
<1>12. ASSUME NEW d \in Drivers, StartRun(d) PROVE Announced(k)'
  <2>1. drv[d].job \in Jobs
    BY <1>12 DEF StartRun, TypeOK, Located, Active
  <2>2. \A e \in Drivers : drv[e].pc = "report" => drv'[e] = drv[e]
    BY <1>12 DEF StartRun, TypeOK, DriverTo, EndDriver
  <2>3. row'[k].status = row[k].status
    BY <1>12, <2>1, RowFields DEF StartRun, TypeOK, TerminalStatus
  <2> QED
    BY <1>12, <2>2, <2>3, AnnouncedKept DEF StartRun, env
<1>13. ASSUME NEW d \in Drivers, AnnounceRun(d) PROVE Announced(k)'
  <2>1. drv[d].job \in Jobs
    BY <1>13 DEF AnnounceRun, TypeOK, Located, Active
  <2>2. \A e \in Drivers : drv[e].pc = "report" => drv'[e] = drv[e]
    BY <1>13 DEF AnnounceRun, TypeOK, DriverTo, EndDriver
  <2>3. events[k] \subseteq events'[k]
    BY <1>13, <2>1, InsertAdds DEF AnnounceRun, EventType, ActiveStatus
  <2> QED
    BY <1>13, <2>2, <2>3, AnnouncedKept DEF AnnounceRun, env
<1>14. ASSUME NEW d \in Drivers, StepEvent(d) PROVE Announced(k)'
  <2>1. drv[d].job \in Jobs
    BY <1>14 DEF StepEvent, TypeOK, Located, Active
  <2>2. \A e \in Drivers : drv[e].pc = "report" => drv'[e] = drv[e]
    BY <1>14 DEF StepEvent, TypeOK, DriverTo, EndDriver
  <2>3. events[k] \subseteq events'[k]
    BY <1>14, <2>1, InsertAdds DEF StepEvent, EventType, ActiveStatus
  <2> QED
    BY <1>14, <2>2, <2>3, AnnouncedKept DEF StepEvent, env
<1>15. ASSUME NEW d \in Drivers, NEW out \in Outcome, ScenarioEnds(d, out) PROVE Announced(k)'
  <2>1. drv[d].job \in Jobs
    BY <1>15 DEF ScenarioEnds, TypeOK, Located, Active
  <2>2. \A e \in Drivers : drv[e].pc = "report" => drv'[e] = drv[e]
    BY <1>15 DEF ScenarioEnds, TypeOK, DriverTo, EndDriver
  <2> QED
    BY <1>15, <2>2, AnnouncedKept DEF ScenarioEnds, env
<1>16. ASSUME NEW d \in Drivers, SaveOutcome(d) PROVE Announced(k)'
  <2>1. drv[d].job \in Jobs /\ drv[d] \in DrvState
    BY <1>16 DEF SaveOutcome, TypeOK, Located, Active
  <2>2. CASE Present(drv[d].job) /\ k = drv[d].job
    <3>1. row'[k] = Recorded(row[k], drv[d].out)
      BY <1>16, <2>1, <2>2 DEF SaveOutcome, TypeOK
    <3>2. Recorded(row[k], drv[d].out).status = StatusOf(drv[d].out)
      BY <2>1, RowFields DEF TypeOK, DrvState
    <3>3. row'[k].status = StatusOf(drv[d].out)
      BY <3>1, <3>2
    <3>4. drv'[d].pc = "report" /\ drv'[d].job = k /\ drv'[d].out = drv[d].out
      BY <1>16, <2>1, <2>2, DriverFields DEF SaveOutcome, TypeOK, DriverTo
    <3> QED
      BY <3>3, <3>4 DEF Announced
  <2>3. CASE ~(Present(drv[d].job) /\ k = drv[d].job)
    <3>1. row'[k] = row[k]
      BY <1>16, <2>3 DEF SaveOutcome, TypeOK
    <3>2. \A e \in Drivers : drv[e].pc = "report" => drv'[e] = drv[e]
      BY <1>16 DEF SaveOutcome, TypeOK, DriverTo, EndDriver
    <3> QED
      BY <1>16, <3>1, <3>2, AnnouncedKept DEF SaveOutcome, env
  <2> QED
    BY <2>2, <2>3
<1>17. ASSUME NEW d \in Drivers, ReportOutcome(d) PROVE Announced(k)'
  <2>1. drv[d].job \in Jobs /\ StatusOf(drv[d].out) \in EventType
    BY <1>17 DEF ReportOutcome, TypeOK, Located, Active, StatusOf, EventType, TerminalStatus
  <2>2. /\ \A j \in Jobs : events[j] \subseteq events'[j]
        /\ Present(drv[d].job) => StatusOf(drv[d].out) \in events'[drv[d].job]
    BY <1>17, <2>1, InsertAdds DEF ReportOutcome
  <2>3. \A e \in Drivers \ {d} : drv'[e] = drv[e]
    BY <1>17 DEF ReportOutcome, TypeOK, EndDriver
  <2>4. Present(k)
    BY <1>17 DEF ReportOutcome, Present, TerminalStatus
  <2> QED
    BY <1>17, <2>2, <2>3, <2>4 DEF ReportOutcome, Announced, env
<1>18. ASSUME NEW d \in Drivers, StatementFails(d) PROVE Announced(k)'
  BY <1>18, AnnouncedByFault DEF StatementFails
<1>19. ASSUME NEW d \in Drivers, DriverCrashes(d) PROVE Announced(k)'
  BY <1>19, AnnouncedByFault DEF DriverCrashes
<1>20. ASSUME NEW j \in Jobs, BecomesStale(j) PROVE Announced(k)'
  <2>1. row'[k].status = row[k].status
    BY <1>20, RowFields DEF BecomesStale, TypeOK
  <2> QED
    BY <1>20, <2>1, AnnouncedKept DEF BecomesStale, env
<1>21. ASSUME NEW j \in Jobs, BecomesAged(j) PROVE Announced(k)'
  <2>1. row'[k].status = row[k].status
    BY <1>21, RowFields DEF BecomesAged, TypeOK
  <2> QED
    BY <1>21, <2>1, AnnouncedKept DEF BecomesAged, env
<1>22. CASE ReconcileScan
  BY <1>22 DEF ReconcileScan, Announced, env
<1>23. ASSUME NEW j \in Jobs, ReconcileSave(j) PROVE Announced(k)'
  <2>1. CASE Present(j) /\ k = j
    BY <1>23, <2>1, RowFields DEF ReconcileSave, TypeOK, Announced
  <2>2. CASE ~(Present(j) /\ k = j)
    <3>1. row'[k] = row[k]
      BY <1>23, <2>2 DEF ReconcileSave, TypeOK
    <3> QED
      BY <1>23, <3>1 DEF ReconcileSave, Announced, env
  <2> QED
    BY <2>1, <2>2
<1>24. CASE ReconcileEvent
  <2>1. rec.job \in Jobs
    BY <1>24 DEF ReconcileEvent, Located, TypeOK
  <2>2. /\ \A j \in Jobs : events[j] \subseteq events'[j]
        /\ Present(rec.job) => "failed" \in events'[rec.job]
    BY <1>24, <2>1, InsertAdds DEF ReconcileEvent, EventType, TerminalStatus
  <2>3. Present(k)
    BY <1>24 DEF ReconcileEvent, Present, TerminalStatus
  <2> QED
    BY <1>24, <2>2, <2>3 DEF ReconcileEvent, Announced, env
<1>25. CASE ReconcileFails
  BY <1>25, AnnouncedByFault DEF ReconcileFails
<1>26. CASE PruneScan
  BY <1>26 DEF PruneScan, Announced, env
<1>27. CASE PruneEvents
  BY <1>27 DEF PruneEvents, TypeOK, PruneState, Announced, env
<1>28. CASE PruneJobs
  BY <1>28, RowFields DEF PruneJobs, TypeOK, TerminalStatus, Announced, env
<1>29. CASE PruneFails
  BY <1>29, AnnouncedByFault DEF PruneFails
<1>30. CASE UNCHANGED vars
  BY <1>30, AnnouncedKept DEF vars, env, vars
<1> QED
  BY <1>1, <1>2, <1>3, <1>4, <1>5, <1>6, <1>7, <1>8, <1>9, <1>10, <1>11, <1>12, <1>13,
     <1>14, <1>15, <1>16, <1>17, <1>18, <1>19, <1>20, <1>21, <1>22, <1>23, <1>24, <1>25,
     <1>26, <1>27, <1>28, <1>29, <1>30
  DEF Next, RequestNew, RequestStep, Enqueue, Retry, DriverStep, ReconcileStep, PruneStep

\* A client that reads a terminal status finds its event in the log, or
\* somebody is about to put it there, or retention has taken the log first, or
\* a fault came between the two statements: whoever closed the job, and
\* however often it was closed.
THEOREM StatusAnnouncedHolds == Spec => []StatusAnnounced
<1>1. Spec => [](TypeOK /\ Located)
  BY TypeCorrect
<1>2. Init => Threads /\ StatusAnnounced
  BY RowFields, DriverFields
  DEF Init, Threads, Active, Drivers, StatusAnnounced, Terminal, TerminalStatus
<1>3. (TypeOK /\ Located) /\ (Threads /\ StatusAnnounced) /\ [Next]_vars
        => (Threads /\ StatusAnnounced)'
  BY NextThreads, NextAnnounced DEF StatusAnnounced
<1> QED
  BY <1>1, <1>2, <1>3, PTL DEF Spec

-----------------------------------------------------------------------------
(***************************************************************************)
(* Why the log is in order: a run is announced before its driver goes on,  *)
(* and when its "success" is written nobody is left to run the job again.  *)
(***************************************************************************)

\* Nothing that could still start a run of job j is left.
Delivered(j) ==
  /\ j \in born
  /\ ~Undelivered(j)
  /\ \A n \in queue : n.job # j
  /\ \A d \in Drivers : Active(d) => drv[d].job # j

\* A driver that emits events or writes the outcome of j has announced the run,
\* unless retention has emptied the log since.
RunTold(j) == {"queued", "running"} \subseteq events[j] \/ "queued" \notin events[j]
Emitting(d) == drv[d].pc \in {"run", "save", "report"}

LogInv ==
  /\ \A j \in Jobs \ born : events[j] = {}
  /\ \A d \in Drivers : Emitting(d) => RunTold(drv[d].job)
  /\ \A j \in Jobs : "success" \in events[j] => Delivered(j)

\* What a step may do to the log.
Logs(j, e) ==
  /\ Present(j) /\ j \in born
  /\ AppendEvent(j, e)
  /\ e # "queued"
  /\ e \in {"step", "success"} => \E d \in Drivers : Emitting(d) /\ drv[d].job = j
  /\ e = "running" => \E d \in Drivers : Active(d) /\ drv[d].job = j
  /\ e = "success" => \E d \in Drivers : ReportOutcome(d) /\ drv[d].job = j
LogStep ==
  \/ UNCHANGED events
  \/ \E r \in Requests, j \in Jobs : CreateJob(r, j)
  \/ \E j \in Jobs, e \in EventType : Logs(j, e)
  \/ \A j \in Jobs : events'[j] \in {{}, events[j]}

LEMMA EventsStep ==
  ASSUME TypeOK, Located, [Next]_vars
  PROVE  LogStep
<1> USE DEF LogStep
<1>1. ASSUME NEW r \in Requests, NEW j \in Jobs, CreateJob(r, j) PROVE LogStep
  BY <1>1
<1>2. ASSUME NEW r \in Requests, Delay(r) PROVE LogStep
  BY <1>2 DEF Delay
<1>3. ASSUME NEW r \in Requests, SetCeleryTaskId(r) PROVE LogStep
  BY <1>3 DEF SetCeleryTaskId
<1>4. ASSUME NEW r \in Requests, SubmittedToCelery(r) PROVE LogStep
  <2>1. req[r].job \in Jobs /\ req[r].job \in born
    BY <1>4 DEF TypeOK, Located, SubmittedToCelery
  <2>2. UNCHANGED events \/ Logs(req[r].job, "submitted")
    BY <1>4, <2>1 DEF SubmittedToCelery, InsertEvent, Logs
  <2> QED
    BY <2>1, <2>2 DEF EventType, TerminalStatus
<1>5. ASSUME NEW r \in Requests, SubmittedInline(r) PROVE LogStep
  <2>1. req[r].job \in Jobs /\ req[r].job \in born
    BY <1>5 DEF TypeOK, Located, SubmittedInline
  <2>2. UNCHANGED events \/ Logs(req[r].job, "submitted")
    BY <1>5, <2>1 DEF SubmittedInline, InsertEvent, Logs
  <2> QED
    BY <2>1, <2>2 DEF EventType, TerminalStatus
<1>6. ASSUME NEW r \in Requests, RunJobInline(r) PROVE LogStep
  BY <1>6 DEF RunJobInline
<1>7. ASSUME NEW r \in Requests, NEW j \in Jobs, FetchForCancel(r, j) PROVE LogStep
  BY <1>7 DEF FetchForCancel
<1>8. ASSUME NEW r \in Requests, Revoke(r) PROVE LogStep
  BY <1>8 DEF Revoke
<1>9. ASSUME NEW r \in Requests, MarkCancelled(r) PROVE LogStep
  <2>1. CASE UNCHANGED events
    BY <2>1
  <2>2. CASE Present(req[r].target) /\ AppendEvent(req[r].target, "cancelled")
    <3>1. req[r].target \in Jobs /\ req[r].target \in born
      BY <1>9, <2>2, ProcessAssumption DEF TypeOK, Located, MarkCancelled
    <3> QED
      BY <2>2, <3>1 DEF Logs, EventType, TerminalStatus
  <2> QED
    BY <1>9, <2>1, <2>2 DEF MarkCancelled
<1>10. ASSUME NEW r \in Requests, RequestFails(r) PROVE LogStep
  BY <1>10 DEF RequestFails
<1>11. ASSUME NEW w \in Workers, NEW m \in queue, TakeMessage(w, m) PROVE LogStep
  BY <1>11 DEF TakeMessage
<1>12. ASSUME NEW d \in Drivers, StartRun(d) PROVE LogStep
  BY <1>12 DEF StartRun
<1>13. ASSUME NEW d \in Drivers, AnnounceRun(d) PROVE LogStep
  <2>1. drv[d].job \in Jobs /\ drv[d].job \in born
    BY <1>13 DEF TypeOK, Located, Active, AnnounceRun
  <2>2. UNCHANGED events \/ Logs(drv[d].job, "running")
    BY <1>13, <2>1 DEF AnnounceRun, InsertEvent, Logs, Emitting, Active
  <2> QED
    BY <2>1, <2>2 DEF EventType, ActiveStatus, TerminalStatus
<1>14. ASSUME NEW d \in Drivers, StepEvent(d) PROVE LogStep
  <2>1. drv[d].job \in Jobs /\ drv[d].job \in born
    BY <1>14 DEF TypeOK, Located, Active, StepEvent
  <2>2. UNCHANGED events \/ Logs(drv[d].job, "step")
    BY <1>14, <2>1 DEF StepEvent, InsertEvent, Logs, Emitting, Active
  <2> QED
    BY <2>1, <2>2 DEF EventType, ActiveStatus, TerminalStatus
<1>15. ASSUME NEW d \in Drivers, NEW out \in Outcome, ScenarioEnds(d, out) PROVE LogStep
  BY <1>15 DEF ScenarioEnds
<1>16. ASSUME NEW d \in Drivers, SaveOutcome(d) PROVE LogStep
  BY <1>16 DEF SaveOutcome
<1>17. ASSUME NEW d \in Drivers, ReportOutcome(d) PROVE LogStep
  <2>1. drv[d].job \in Jobs /\ drv[d].job \in born
    BY <1>17 DEF TypeOK, Located, Active, ReportOutcome
  <2>2. UNCHANGED events \/ Logs(drv[d].job, StatusOf(drv[d].out))
    BY <1>17, <2>1 DEF ReportOutcome, InsertEvent, Logs, Emitting, Active, StatusOf
  <2> QED
    BY <2>1, <2>2 DEF EventType, StatusOf, TerminalStatus
<1>18. ASSUME NEW d \in Drivers, StatementFails(d) PROVE LogStep
  BY <1>18 DEF StatementFails
<1>19. ASSUME NEW d \in Drivers, DriverCrashes(d) PROVE LogStep
  BY <1>19 DEF DriverCrashes
<1>20. ASSUME NEW j \in Jobs, BecomesStale(j) PROVE LogStep
  BY <1>20 DEF BecomesStale
<1>21. ASSUME NEW j \in Jobs, BecomesAged(j) PROVE LogStep
  BY <1>21 DEF BecomesAged
<1>22. CASE ReconcileScan
  BY <1>22 DEF ReconcileScan
<1>23. ASSUME NEW j \in Jobs, ReconcileSave(j) PROVE LogStep
  BY <1>23 DEF ReconcileSave
<1>24. CASE ReconcileEvent
  <2>1. rec.job \in Jobs /\ rec.job \in born
    BY <1>24 DEF TypeOK, Located, ReconcileEvent
  <2>2. UNCHANGED events \/ Logs(rec.job, "failed")
    BY <1>24, <2>1 DEF ReconcileEvent, InsertEvent, Logs
  <2> QED
    BY <2>1, <2>2 DEF EventType, TerminalStatus
<1>25. CASE ReconcileFails
  BY <1>25 DEF ReconcileFails
<1>26. CASE PruneScan
  BY <1>26 DEF PruneScan
<1>27. CASE PruneEvents
  BY <1>27 DEF PruneEvents
<1>28. CASE PruneJobs
  BY <1>28 DEF PruneJobs
<1>29. CASE PruneFails
  BY <1>29 DEF PruneFails
<1>30. CASE UNCHANGED vars
  BY <1>30 DEF vars
<1> QED
  BY <1>1, <1>2, <1>3, <1>4, <1>5, <1>6, <1>7, <1>8, <1>9, <1>10, <1>11, <1>12, <1>13,
     <1>14, <1>15, <1>16, <1>17, <1>18, <1>19, <1>20, <1>21, <1>22, <1>23, <1>24, <1>25,
     <1>26, <1>27, <1>28, <1>29, <1>30
  DEF Next, RequestNew, RequestStep, Enqueue, Retry, DriverStep, ReconcileStep, PruneStep

\* A driver that emits events did so before, or has just announced its run.
WasEmitting(d) == drv'[d].job = drv[d].job /\ (Emitting(d) \/ AnnounceRun(d))

LEMMA EmittersStep ==
  ASSUME TypeOK, Located, Threads, [Next]_vars, NEW d \in Drivers, Emitting(d)'
  PROVE  WasEmitting(d)
<1> USE DEF Emitting, WasEmitting
<1>1. ASSUME NEW r \in Requests, NEW j \in Jobs, CreateJob(r, j) PROVE WasEmitting(d)
  BY <1>1, DriverFields DEF CreateJob, TypeOK
<1>2. ASSUME NEW r \in Requests, Delay(r) PROVE WasEmitting(d)
  BY <1>2, DriverFields DEF Delay, TypeOK
<1>3. ASSUME NEW r \in Requests, SetCeleryTaskId(r) PROVE WasEmitting(d)
  BY <1>3, DriverFields DEF SetCeleryTaskId, TypeOK
<1>4. ASSUME NEW r \in Requests, SubmittedToCelery(r) PROVE WasEmitting(d)
  BY <1>4, DriverFields DEF SubmittedToCelery, TypeOK
<1>5. ASSUME NEW r \in Requests, SubmittedInline(r) PROVE WasEmitting(d)
  BY <1>5, DriverFields DEF SubmittedInline, TypeOK
<1>6. ASSUME NEW r \in Requests, RunJobInline(r) PROVE WasEmitting(d)
  BY <1>6, DriverFields DEF RunJobInline, TypeOK
<1>7. ASSUME NEW r \in Requests, NEW j \in Jobs, FetchForCancel(r, j) PROVE WasEmitting(d)
  BY <1>7, DriverFields DEF FetchForCancel, TypeOK
<1>8. ASSUME NEW r \in Requests, Revoke(r) PROVE WasEmitting(d)
  BY <1>8, DriverFields DEF Revoke, TypeOK
<1>9. ASSUME NEW r \in Requests, MarkCancelled(r) PROVE WasEmitting(d)
  BY <1>9, DriverFields DEF MarkCancelled, TypeOK
<1>10. ASSUME NEW r \in Requests, RequestFails(r) PROVE WasEmitting(d)
  BY <1>10, DriverFields DEF RequestFails, TypeOK
<1>11. ASSUME NEW w \in Workers, NEW m \in queue, TakeMessage(w, m) PROVE WasEmitting(d)
  BY <1>11, DriverFields DEF TakeMessage, TypeOK
<1>12. ASSUME NEW e \in Drivers, StartRun(e) PROVE WasEmitting(d)
  BY <1>12, DriverFields DEF StartRun, TypeOK, DriverTo, EndDriver
<1>13. ASSUME NEW e \in Drivers, AnnounceRun(e) PROVE WasEmitting(d)
  BY <1>13, DriverFields DEF AnnounceRun, TypeOK, DriverTo, EndDriver
<1>14. ASSUME NEW e \in Drivers, StepEvent(e) PROVE WasEmitting(d)
  BY <1>14, DriverFields DEF StepEvent, TypeOK, DriverTo, EndDriver
<1>15. ASSUME NEW e \in Drivers, NEW out \in Outcome, ScenarioEnds(e, out) PROVE WasEmitting(d)
  BY <1>15, DriverFields DEF ScenarioEnds, TypeOK, DriverTo, EndDriver
<1>16. ASSUME NEW e \in Drivers, SaveOutcome(e) PROVE WasEmitting(d)
  BY <1>16, DriverFields DEF SaveOutcome, TypeOK, DriverTo, EndDriver
<1>17. ASSUME NEW e \in Drivers, ReportOutcome(e) PROVE WasEmitting(d)
  BY <1>17, DriverFields DEF ReportOutcome, TypeOK, DriverTo, EndDriver
<1>18. ASSUME NEW e \in Drivers, StatementFails(e) PROVE WasEmitting(d)
  BY <1>18, DriverFields DEF StatementFails, TypeOK, DriverTo, EndDriver
<1>19. ASSUME NEW e \in Drivers, DriverCrashes(e) PROVE WasEmitting(d)
  BY <1>19, DriverFields DEF DriverCrashes, TypeOK, DriverTo, EndDriver
<1>20. ASSUME NEW j \in Jobs, BecomesStale(j) PROVE WasEmitting(d)
  BY <1>20, DriverFields DEF BecomesStale, TypeOK
<1>21. ASSUME NEW j \in Jobs, BecomesAged(j) PROVE WasEmitting(d)
  BY <1>21, DriverFields DEF BecomesAged, TypeOK
<1>22. CASE ReconcileScan
  BY <1>22, DriverFields DEF ReconcileScan, TypeOK
<1>23. ASSUME NEW j \in Jobs, ReconcileSave(j) PROVE WasEmitting(d)
  BY <1>23, DriverFields DEF ReconcileSave, TypeOK
<1>24. CASE ReconcileEvent
  BY <1>24, DriverFields DEF ReconcileEvent, TypeOK
<1>25. CASE ReconcileFails
  BY <1>25, DriverFields DEF ReconcileFails, TypeOK
<1>26. CASE PruneScan
  BY <1>26, DriverFields DEF PruneScan, TypeOK
<1>27. CASE PruneEvents
  BY <1>27, DriverFields DEF PruneEvents, TypeOK
<1>28. CASE PruneJobs
  BY <1>28, DriverFields DEF PruneJobs, TypeOK
<1>29. CASE PruneFails
  BY <1>29, DriverFields DEF PruneFails, TypeOK
<1>30. CASE UNCHANGED vars
  BY <1>30, DriverFields DEF vars, TypeOK
<1> QED
  BY <1>1, <1>2, <1>3, <1>4, <1>5, <1>6, <1>7, <1>8, <1>9, <1>10, <1>11, <1>12, <1>13,
     <1>14, <1>15, <1>16, <1>17, <1>18, <1>19, <1>20, <1>21, <1>22, <1>23, <1>24, <1>25,
     <1>26, <1>27, <1>28, <1>29, <1>30
  DEF Next, RequestNew, RequestStep, Enqueue, Retry, DriverStep, ReconcileStep, PruneStep

LEMMA NextDelivered ==
  ASSUME TypeOK, Located, [Next]_vars, NEW j \in Jobs, Delivered(j)
  PROVE  Delivered(j)'
<1>1. ASSUME NEW r \in Requests, NEW i \in Jobs, CreateJob(r, i) PROVE Delivered(j)'
  BY <1>1, RequestFields, DriverFields
  DEF CreateJob, TypeOK, Located, Goto, Delivered, Undelivered, Active
<1>2. ASSUME NEW r \in Requests, Delay(r) PROVE Delivered(j)'
  BY <1>2, RequestFields, DriverFields
  DEF Delay, TypeOK, Located, Goto, Delivered, Undelivered, Active
<1>3. ASSUME NEW r \in Requests, SetCeleryTaskId(r) PROVE Delivered(j)'
  <2>1. PICK p \in {"submit", "done"} : Goto(r, p)
    BY <1>3 DEF SetCeleryTaskId
  <2> QED
    BY <1>3, <2>1, RequestFields
    DEF SetCeleryTaskId, TypeOK, Delivered, Undelivered, Active, Goto
<1>4. ASSUME NEW r \in Requests, SubmittedToCelery(r) PROVE Delivered(j)'
  BY <1>4, RequestFields, DriverFields
  DEF SubmittedToCelery, TypeOK, Located, Goto, Delivered, Undelivered, Active
<1>5. ASSUME NEW r \in Requests, SubmittedInline(r) PROVE Delivered(j)'
  BY <1>5, RequestFields, DriverFields
  DEF SubmittedInline, TypeOK, Located, Goto, Delivered, Undelivered, Active
<1>6. ASSUME NEW r \in Requests, RunJobInline(r) PROVE Delivered(j)'
  BY <1>6, RequestFields, DriverFields
  DEF RunJobInline, TypeOK, Located, Goto, Delivered, Undelivered, Active
<1>7. ASSUME NEW r \in Requests, NEW i \in Jobs, FetchForCancel(r, i) PROVE Delivered(j)'
  BY <1>7, RequestFields, DriverFields
  DEF FetchForCancel, TypeOK, Located, Goto, Delivered, Undelivered, Active
<1>8. ASSUME NEW r \in Requests, Revoke(r) PROVE Delivered(j)'
  BY <1>8, RequestFields, DriverFields
  DEF Revoke, TypeOK, Located, Goto, Delivered, Undelivered, Active
<1>9. ASSUME NEW r \in Requests, MarkCancelled(r) PROVE Delivered(j)'
  BY <1>9, RequestFields, DriverFields
  DEF MarkCancelled, TypeOK, Located, Goto, Delivered, Undelivered, Active
<1>10. ASSUME NEW r \in Requests, RequestFails(r) PROVE Delivered(j)'
  BY <1>10, RequestFields, DriverFields
  DEF RequestFails, TypeOK, Located, Goto, Delivered, Undelivered, Active
<1>11. ASSUME NEW w \in Workers, NEW m \in queue, TakeMessage(w, m) PROVE Delivered(j)'
  <2>1. \A e \in Drivers : drv'[e] = drv[e] \/ drv'[e].job = m.job
    BY <1>11, DriverFields DEF TakeMessage, TypeOK, Drivers
  <2>2. queue' \subseteq queue
    BY <1>11 DEF TakeMessage
  <2> QED
    BY <1>11, <2>1, <2>2 DEF TakeMessage, Delivered, Undelivered, Active
<1>12. ASSUME NEW d \in Drivers, StartRun(d) PROVE Delivered(j)'
  <2>1. \A e \in Drivers : Active(e)' => Active(e) /\ drv'[e].job = drv[e].job
    BY <1>12, DriverFields DEF StartRun, TypeOK, DriverTo, EndDriver, Active
  <2> QED
    BY <1>12, <2>1, DriverFields DEF StartRun, Delivered, Undelivered, Active
<1>13. ASSUME NEW d \in Drivers, AnnounceRun(d) PROVE Delivered(j)'
  <2>1. \A e \in Drivers : Active(e)' => Active(e) /\ drv'[e].job = drv[e].job
    BY <1>13, DriverFields DEF AnnounceRun, TypeOK, DriverTo, EndDriver, Active
  <2> QED
    BY <1>13, <2>1, DriverFields DEF AnnounceRun, Delivered, Undelivered, Active
<1>14. ASSUME NEW d \in Drivers, StepEvent(d) PROVE Delivered(j)'
  <2>1. \A e \in Drivers : Active(e)' => Active(e) /\ drv'[e].job = drv[e].job
    BY <1>14, DriverFields DEF StepEvent, TypeOK, DriverTo, EndDriver, Active
  <2> QED
    BY <1>14, <2>1, DriverFields DEF StepEvent, Delivered, Undelivered, Active
<1>15. ASSUME NEW d \in Drivers, NEW out \in Outcome, ScenarioEnds(d, out) PROVE Delivered(j)'
  <2>1. \A e \in Drivers : Active(e)' => Active(e) /\ drv'[e].job = drv[e].job
    BY <1>15, DriverFields DEF ScenarioEnds, TypeOK, DriverTo, EndDriver, Active
  <2> QED
    BY <1>15, <2>1, DriverFields DEF ScenarioEnds, Delivered, Undelivered, Active
<1>16. ASSUME NEW d \in Drivers, SaveOutcome(d) PROVE Delivered(j)'
  <2>1. \A e \in Drivers : Active(e)' => Active(e) /\ drv'[e].job = drv[e].job
    BY <1>16, DriverFields DEF SaveOutcome, TypeOK, DriverTo, EndDriver, Active
  <2> QED
    BY <1>16, <2>1, DriverFields DEF SaveOutcome, Delivered, Undelivered, Active
<1>17. ASSUME NEW d \in Drivers, ReportOutcome(d) PROVE Delivered(j)'
  <2>1. \A e \in Drivers : Active(e)' => Active(e) /\ drv'[e].job = drv[e].job
    BY <1>17, DriverFields DEF ReportOutcome, TypeOK, DriverTo, EndDriver, Active
  <2> QED
    BY <1>17, <2>1, DriverFields DEF ReportOutcome, Delivered, Undelivered, Active
<1>18. ASSUME NEW d \in Drivers, StatementFails(d) PROVE Delivered(j)'
  <2>1. \A e \in Drivers : Active(e)' => Active(e) /\ drv'[e].job = drv[e].job
    BY <1>18, DriverFields DEF StatementFails, TypeOK, DriverTo, EndDriver, Active
  <2> QED
    BY <1>18, <2>1, DriverFields DEF StatementFails, Delivered, Undelivered, Active
<1>19. ASSUME NEW d \in Drivers, DriverCrashes(d) PROVE Delivered(j)'
  <2>1. \A e \in Drivers : Active(e)' => Active(e) /\ drv'[e].job = drv[e].job
    BY <1>19, DriverFields DEF DriverCrashes, TypeOK, DriverTo, EndDriver, Active
  <2> QED
    BY <1>19, <2>1, DriverFields DEF DriverCrashes, Delivered, Undelivered, Active
<1>20. ASSUME NEW i \in Jobs, BecomesStale(i) PROVE Delivered(j)'
  BY <1>20 DEF BecomesStale, Delivered, Undelivered, Active
<1>21. ASSUME NEW i \in Jobs, BecomesAged(i) PROVE Delivered(j)'
  BY <1>21 DEF BecomesAged, Delivered, Undelivered, Active
<1>22. CASE ReconcileScan
  BY <1>22 DEF ReconcileScan, Delivered, Undelivered, Active
<1>23. ASSUME NEW i \in Jobs, ReconcileSave(i) PROVE Delivered(j)'
  BY <1>23 DEF ReconcileSave, Delivered, Undelivered, Active
<1>24. CASE ReconcileEvent
  BY <1>24 DEF ReconcileEvent, Delivered, Undelivered, Active
<1>25. CASE ReconcileFails
  BY <1>25 DEF ReconcileFails, Delivered, Undelivered, Active
<1>26. CASE PruneScan
  BY <1>26 DEF PruneScan, Delivered, Undelivered, Active
<1>27. CASE PruneEvents
  BY <1>27 DEF PruneEvents, Delivered, Undelivered, Active
<1>28. CASE PruneJobs
  BY <1>28 DEF PruneJobs, Delivered, Undelivered, Active
<1>29. CASE PruneFails
  BY <1>29 DEF PruneFails, Delivered, Undelivered, Active
<1>30. CASE UNCHANGED vars
  BY <1>30 DEF vars, Delivered, Undelivered, Active
<1> QED
  BY <1>1, <1>2, <1>3, <1>4, <1>5, <1>6, <1>7, <1>8, <1>9, <1>10, <1>11, <1>12, <1>13,
     <1>14, <1>15, <1>16, <1>17, <1>18, <1>19, <1>20, <1>21, <1>22, <1>23, <1>24, <1>25,
     <1>26, <1>27, <1>28, <1>29, <1>30
  DEF Next, RequestNew, RequestStep, Enqueue, Retry, DriverStep, ReconcileStep, PruneStep

LEMMA InitLog == Init => LogInv
BY DriverFields DEF Init, LogInv, Emitting, Active

LEMMA NextLog ==
  ASSUME TypeOK, Located, Threads, Exclusive, LogInv, [Next]_vars
  PROVE  LogInv'
<1>1. LogStep /\ born \subseteq born'
  <2>1. born \subseteq born'
    BY DEF Next, RequestNew, RequestStep, Enqueue, Retry, DriverStep, ReconcileStep,
       PruneStep, vars,
       CreateJob, Delay, SetCeleryTaskId, SubmittedToCelery, SubmittedInline, RunJobInline,
       FetchForCancel, Revoke, MarkCancelled, RequestFails, TakeMessage, StartRun, AnnounceRun,
       StepEvent, ScenarioEnds, SaveOutcome, ReportOutcome, StatementFails, DriverCrashes,
       BecomesStale, BecomesAged, ReconcileScan, ReconcileSave, ReconcileEvent, ReconcileFails,
       PruneScan, PruneEvents, PruneJobs, PruneFails
  <2> QED
    BY <2>1, EventsStep
<1>2. ASSUME NEW j \in Jobs \ born' PROVE events'[j] = {}
  BY <1>1, <1>2 DEF LogStep, Logs, AppendEvent, CreateJob, LogInv, TypeOK
<1>3. ASSUME NEW d \in Drivers, Emitting(d)' PROVE RunTold(drv[d].job)'
  <2>1. drv'[d].job = drv[d].job /\ (Emitting(d) \/ AnnounceRun(d))
    BY <1>3, EmittersStep DEF WasEmitting
  <2>2. drv[d].job \in Jobs /\ drv[d].job \in born
    BY <2>1 DEF TypeOK, Located, Active, Emitting, AnnounceRun
  <2>3. CASE AnnounceRun(d)
    BY <1>3, <2>1, <2>2, <2>3, DriverFields
    DEF AnnounceRun, InsertEvent, AppendEvent, TypeOK, RunTold, EndDriver, Emitting
  <2>4. CASE Emitting(d)
    <3>1. RunTold(drv[d].job)
      BY <2>4 DEF LogInv
    <3> QED
      BY <1>1, <2>1, <2>2, <3>1 DEF LogStep, Logs, AppendEvent, CreateJob, TypeOK, RunTold
  <2> QED
    BY <2>1, <2>3, <2>4
<1>4. ASSUME NEW j \in Jobs, "success" \in events'[j] PROVE Delivered(j)'
  <2>1. CASE "success" \in events[j]
    BY <2>1, NextDelivered DEF LogInv
  <2>2. CASE "success" \notin events[j]
    <3>1. Logs(j, "success")
      BY <1>1, <1>4, <2>2 DEF LogStep, Logs, AppendEvent, CreateJob, TypeOK
    <3>2. PICK d \in Drivers : ReportOutcome(d) /\ drv[d].job = j
      BY <3>1 DEF Logs
    <3>3. Active(d) /\ drv[d].task \in Requests /\ req[drv[d].task].job = j /\ j # NoJob
      BY <3>2 DEF ReportOutcome, Active, Located, Exclusive, Assignments
    <3>4. \A r \in Requests : req[r].job = j => r = drv[d].task
      BY <3>3 DEF Exclusive, Creators
    <3>5. ~Undelivered(j)
      BY <3>3, <3>4 DEF Undelivered, Exclusive, Assignments, HandedOver
    <3>6. \A n \in queue : n.job # j
      BY <3>3, <3>4 DEF Exclusive, Messages, Assignments, TypeOK, Message
    <3>7. \A e \in Drivers \ {d} : Active(e) => drv[e].job # j
      BY <3>3, <3>4 DEF Exclusive, Assignments, Located
    <3>8. \A e \in Drivers : Active(e)' => Active(e) /\ drv'[e] = drv[e] /\ e # d
      BY <3>2, DriverFields DEF ReportOutcome, EndDriver, TypeOK, Active
    <3>9. j \in born
      BY <3>1 DEF Logs
    <3> QED
      BY <3>2, <3>5, <3>6, <3>7, <3>8, <3>9 DEF ReportOutcome, Delivered, Undelivered
  <2> QED
    BY <2>1, <2>2
<1> QED
  BY <1>2, <1>3, <1>4 DEF LogInv, Emitting

\* What a step adds to the log of job j.
Added(j) == events'[j] \ events[j]

LEMMA LogStepOrdered ==
  ASSUME TypeOK, Located, LogInv, [Next]_vars, NEW j \in Jobs
  PROVE  /\ "queued" \in Added(j) => events[j] = {} /\ j \notin born
         /\ "step" \in Added(j) \/ "success" \in Added(j) => RunTold(j)
         /\ "success" \in events[j] => {"step", "running"} \cap Added(j) = {}
<1>1. LogStep
  BY EventsStep
<1>2. CASE UNCHANGED events \/ \A i \in Jobs : events'[i] \in {{}, events[i]}
  BY <1>2 DEF Added
<1>3. ASSUME NEW r \in Requests, NEW i \in Jobs, CreateJob(r, i)
      PROVE  /\ Added(j) \subseteq {"queued"}
             /\ Added(j) # {} => events[j] = {} /\ j \notin born
  BY <1>3 DEF CreateJob, AppendEvent, TypeOK, Added, LogInv
<1>4. ASSUME NEW i \in Jobs, NEW e \in EventType, Logs(i, e)
      PROVE  /\ Added(j) \subseteq {e} /\ e # "queued"
             /\ Added(j) # {} => i = j
  BY <1>4 DEF Logs, AppendEvent, TypeOK, Added
<1>5. ASSUME NEW e \in EventType, Logs(j, e)
      PROVE  /\ e \in {"step", "success"} => RunTold(j)
             /\ e \in {"step", "running"} => "success" \notin events[j]
  BY <1>5 DEF Logs, LogInv, Delivered, Emitting, Active
<1> QED
  BY <1>1, <1>2, <1>3, <1>4, <1>5 DEF LogStep

\* When the broker delivers each message once, the log of a job tells one
\* story: it begins with "queued", nothing of a run precedes its "running",
\* and neither a step nor a second "running" follows its "success".
THEOREM LogOrderedHolds == ASSUME MaxRedeliveries = 0 PROVE Spec => LogOrdered
<1>1. Spec => [](TypeOK /\ Located)
  BY TypeCorrect
<1>2. Init => Exclusive /\ Threads /\ LogInv
  BY InitExclusive, InitLog, DriverFields DEF Threads, Init, Active, Drivers
<1>3. (TypeOK /\ Located) /\ (Exclusive /\ Threads /\ LogInv) /\ [Next]_vars
        => (Exclusive /\ Threads /\ LogInv)'
  BY NextExclusive, NextThreads, NextLog
<1>4. (TypeOK /\ Located) /\ (Exclusive /\ Threads /\ LogInv) /\ [Next]_vars
        => [\A j \in Jobs :
              LET new == events'[j] \ events[j] IN
                /\ "queued" \in new => events[j] = {} /\ j \notin born
                /\ "step" \in new \/ "success" \in new
                     => {"queued", "running"} \subseteq events[j] \/ "queued" \notin events[j]
                /\ "success" \in events[j] => {"step", "running"} \cap new = {}]_vars
  BY LogStepOrdered DEF Added, RunTold
<1> QED
  BY <1>1, <1>2, <1>3, <1>4, PTL DEF Spec, LogOrdered

=============================================================================
