------------------------ MODULE JobRefinementProofs ------------------------
(***************************************************************************)
(* What the row of a job tells a client.                                   *)
(*                                                                         *)
(* First, the columns of a row agree with its status and with what the     *)
(* scenario really did, although every writer overwrites the row blindly:  *)
(* each save alone keeps the row coherent, and the exit code is written by *)
(* one driver only, the one that RunsOnceHolds shows to be alone.          *)
(*                                                                         *)
(* Then, the tables and all their writers together implement JobLedger,    *)
(* the abstract contract: every step maps to a step of it or a stutter.    *)
(***************************************************************************)
EXTENDS JobLifecycleProofs

\* RowCoherent for one row x of a job whose scenario ended with v.
Coherent(x, v) ==
  /\ x.status \in TerminalStatus => x.finished
  /\ x.status = "success" => x.exit = "zero" /\ x.started
  /\ x.status = "failed" => x.error \/ x.exit = "nonzero"
  /\ x.exit = "zero" => v = "success"
  /\ x.exit = "nonzero" => v = "failed"

RowsCoherent == \A j \in Jobs : Coherent(row[j], verdict[j])

\* A driver past its start has marked the row, and the verdict of its job is
\* its own.
DriversCoherent ==
  \A d \in Drivers : Active(d) =>
    /\ drv[d].pc # "start" => runs[drv[d].job] > 0
    /\ drv[d].pc # "start" /\ Present(drv[d].job) => row[drv[d].job].started
    /\ drv[d].pc \in {"start", "announce", "run"} => verdict[drv[d].job] = "none"
    /\ drv[d].pc \in {"save", "report"} /\ drv[d].out # "raised"
         => verdict[drv[d].job] = drv[d].out

\* Only an execution gives a verdict.
VerdictsEarned == \A j \in Jobs : verdict[j] # "none" => runs[j] > 0

ResultInv == RowsCoherent /\ DriversCoherent /\ VerdictsEarned

-----------------------------------------------------------------------------
(* The saves                                                               *)

LEMMA SavesCoherent ==
  ASSUME NEW v
  PROVE  /\ Coherent(NoRow, v) /\ Coherent(Queued, v)
         /\ \A x \in Row : Coherent(x, v) =>
              /\ Coherent(Running(x), v)
              /\ Coherent(Closed(x, "cancelled"), v)
              /\ Coherent(Failed(x), v)
              /\ \A t : Coherent(WithTask(x, t), v)
              /\ Coherent(Stale(x), v)
              /\ Coherent(Aged(x), v)
BY RowFields DEF Coherent, TerminalStatus

\* The driver's save is coherent when the exit code is the verdict.
LEMMA OutcomeCoherent ==
  ASSUME NEW v, NEW x \in Row, NEW out \in Outcome, Coherent(x, v),
         out # "raised" => v = out,
         x.started
  PROVE  Coherent(Recorded(x, out), v)
<1>1. CASE out = "raised"
  BY <1>1, RowFields DEF Coherent, TerminalStatus, StatusOf
<1>2. CASE out = "success"
  BY <1>2, RowFields DEF Coherent, TerminalStatus, StatusOf
<1>3. CASE out = "failed"
  BY <1>3, RowFields DEF Coherent, TerminalStatus, StatusOf
<1> QED
  BY <1>1, <1>2, <1>3 DEF Outcome

-----------------------------------------------------------------------------
(* The steps                                                               *)

\* No row appears and no started_at is lost.
RowsKeep ==
  \A j \in Jobs : Present(j)' => Present(j) /\ (row[j].started => row'[j].started)

\* A driver ends, or goes on without starting a run or ending a scenario.
DriversGoOn ==
  \A d \in Drivers : Active(d)' =>
    /\ Active(d)
    /\ drv'[d].job = drv[d].job
    /\ drv'[d].pc = "start" <=> drv[d].pc = "start"
    /\ drv'[d].pc \in {"start", "announce", "run"}
         => drv[d].pc \in {"start", "announce", "run"}
    /\ drv'[d].pc \in {"save", "report"}
         => drv[d].pc \in {"save", "report"} /\ drv'[d].out \in {"raised", drv[d].out}

LEMMA DriversCoherentKept ==
  ASSUME TypeOK, Located, DriversCoherent, VerdictsEarned,
         RowsKeep, DriversGoOn, UNCHANGED <<runs, verdict>>
  PROVE  DriversCoherent' /\ VerdictsEarned'
<1>1. DriversCoherent'
  BY DEF DriversCoherent, RowsKeep, DriversGoOn, Located, TypeOK
<1> QED
  BY <1>1 DEF VerdictsEarned

LEMMA InitResult == Init => ResultInv
BY SavesCoherent, DriverFields
DEF Init, ResultInv, RowsCoherent, DriversCoherent, VerdictsEarned, Active

LEMMA NextResult ==
  TypeOK /\ Located /\ Exclusive /\ ResultInv /\ [Next]_vars => ResultInv'
<1> SUFFICES ASSUME TypeOK, Located, Exclusive, ResultInv, [Next]_vars PROVE ResultInv'
  OBVIOUS
<1> RowsCoherent /\ DriversCoherent /\ VerdictsEarned
  BY DEF ResultInv
<1>1. ASSUME NEW r \in Requests, NEW j \in Jobs, CreateJob(r, j) PROVE ResultInv'
  <2>1. RowsCoherent'
    BY <1>1, SavesCoherent DEF RowsCoherent, CreateJob, TypeOK
  <2>2. DriversCoherent'
    BY <1>1 DEF DriversCoherent, CreateJob, Present, Active, Located, TypeOK
  <2> QED
    BY <1>1, <2>1, <2>2 DEF CreateJob, ResultInv, VerdictsEarned
<1>2. ASSUME NEW r \in Requests, Delay(r) PROVE ResultInv'
  BY <1>2 DEF Delay, ResultInv, RowsCoherent, DriversCoherent, VerdictsEarned, Active, Present
<1>3. ASSUME NEW r \in Requests, SetCeleryTaskId(r) PROVE ResultInv'
  <2>1. RowsCoherent'
    <3>1. req[r].job \in Jobs /\ row[req[r].job] \in Row
      BY <1>3 DEF SetCeleryTaskId, Located, TypeOK
    <3>2. Coherent(WithTask(row[req[r].job], r), verdict[req[r].job])
      BY <3>1, SavesCoherent DEF RowsCoherent
    <3> QED
      BY <1>3, <3>1, <3>2 DEF RowsCoherent, SetCeleryTaskId, TypeOK
  <2>2. RowsKeep
    BY <1>3, RowFields DEF RowsKeep, SetCeleryTaskId, Present, TypeOK
  <2>3. DriversGoOn
    BY <1>3 DEF DriversGoOn, SetCeleryTaskId, Active
  <2> QED
    BY <1>3, <2>1, <2>2, <2>3, DriversCoherentKept DEF SetCeleryTaskId, ResultInv
<1>4. ASSUME NEW r \in Requests, SubmittedToCelery(r) PROVE ResultInv'
  BY <1>4
  DEF SubmittedToCelery, ResultInv, RowsCoherent, DriversCoherent, VerdictsEarned, Active,
      Present
<1>5. ASSUME NEW r \in Requests, SubmittedInline(r) PROVE ResultInv'
  BY <1>5
  DEF SubmittedInline, ResultInv, RowsCoherent, DriversCoherent, VerdictsEarned, Active,
      Present
<1>6. ASSUME NEW r \in Requests, RunJobInline(r) PROVE ResultInv'
  <2>1. req[r].job \in Jobs /\ req[r].job # NoJob
    BY <1>6, ProcessAssumption DEF RunJobInline, Located, TypeOK
  <2>2. runs[req[r].job] = 0 /\ verdict[req[r].job] = "none"
    BY <1>6, <2>1 DEF RunJobInline, Exclusive, Runs, Spent, HandedOver, VerdictsEarned, TypeOK
  <2>3. /\ \A e \in Drivers \ {r} : drv'[e] = drv[e]
        /\ drv'[r].job = req[r].job /\ drv'[r].pc = "start"
    BY <1>6, DriverFields DEF RunJobInline, TypeOK, Drivers
  <2>4. DriversCoherent'
    BY <1>6, <2>2, <2>3 DEF RunJobInline, DriversCoherent, Active, Present
  <2> QED
    BY <1>6, <2>4 DEF RunJobInline, ResultInv, VerdictsEarned, RowsCoherent
<1>7. ASSUME NEW r \in Requests, NEW j \in Jobs, FetchForCancel(r, j) PROVE ResultInv'
  BY <1>7
  DEF FetchForCancel, ResultInv, RowsCoherent, DriversCoherent, VerdictsEarned, Active,
      Present
<1>8. ASSUME NEW r \in Requests, Revoke(r) PROVE ResultInv'
  BY <1>8 DEF Revoke, ResultInv, RowsCoherent, DriversCoherent, VerdictsEarned, Active, Present
<1>9. ASSUME NEW r \in Requests, MarkCancelled(r) PROVE ResultInv'
  <2>1. RowsCoherent'
    BY <1>9, SavesCoherent DEF RowsCoherent, MarkCancelled, TypeOK
  <2>2. RowsKeep
    BY <1>9, RowFields DEF RowsKeep, MarkCancelled, Present, TypeOK
  <2>3. DriversGoOn
    BY <1>9 DEF DriversGoOn, MarkCancelled, Active
  <2> QED
    BY <1>9, <2>1, <2>2, <2>3, DriversCoherentKept DEF MarkCancelled, ResultInv
<1>10. ASSUME NEW r \in Requests, RequestFails(r) PROVE ResultInv'
  BY <1>10
  DEF RequestFails, ResultInv, RowsCoherent, DriversCoherent, VerdictsEarned, Active,
      Present
<1>11. ASSUME NEW w \in Workers, NEW m \in queue, TakeMessage(w, m) PROVE ResultInv'
  <2>1. CASE m.task \in revoked[w]
    BY <1>11, <2>1
    DEF TakeMessage, ResultInv, RowsCoherent, DriversCoherent, VerdictsEarned, Active,
        Present
  <2>2. CASE m.task \notin revoked[w]
    <3>1. m.task \in Requests /\ m.job \in Jobs /\ m.job = req[m.task].job /\ m.job # NoJob
      BY DEF TypeOK, Message, Exclusive, Messages
    <3>2. runs[m.job] = 0 /\ verdict[m.job] = "none"
      BY <3>1 DEF Exclusive, Runs, Spent, VerdictsEarned, TypeOK
    <3>3. /\ \A e \in Drivers \ {w} : drv'[e] = drv[e]
          /\ drv'[w].job = m.job /\ drv'[w].pc = "start"
      BY <1>11, <2>2, DriverFields DEF TakeMessage, TypeOK, Drivers
    <3>4. DriversCoherent'
      BY <1>11, <3>2, <3>3 DEF TakeMessage, DriversCoherent, Active, Present
    <3> QED
      BY <1>11, <3>4 DEF TakeMessage, ResultInv, VerdictsEarned, RowsCoherent
  <2> QED
    BY <2>1, <2>2
<1>12. ASSUME NEW d \in Drivers, StartRun(d) PROVE ResultInv'
  <2>1. drv[d].job \in Jobs /\ drv[d].pc = "start" /\ row[drv[d].job] \in Row
    BY <1>12 DEF StartRun, Located, Active, TypeOK
  <2>2. CASE Present(drv[d].job)
    <3> DEFINE j == drv[d].job
    <3>1. RowsCoherent'
      <4>1. Coherent(Running(row[j]), verdict[j])
        BY <2>1, SavesCoherent DEF RowsCoherent
      <4> QED
        BY <1>12, <2>1, <2>2, <4>1 DEF RowsCoherent, StartRun, TypeOK
    <3>2. /\ \A e \in Drivers \ {d} : drv'[e] = drv[e]
          /\ drv'[d].job = j /\ drv'[d].pc = "announce"
      BY <1>12, <2>2, DriverFields DEF StartRun, TypeOK, DriverTo
    <3>3. /\ runs'[j] > 0 /\ row'[j].started /\ verdict[j] = "none"
          /\ \A k \in Jobs \ {j} : row'[k] = row[k] /\ runs'[k] = runs[k]
      BY <1>12, <2>1, <2>2, RowFields DEF StartRun, TypeOK, DriversCoherent, Active
    <3>4. \A e \in Drivers \ {d} : Active(e) => drv[e].job \in Jobs \ {j}
      BY <2>1, ExclusiveSuffices DEF RunsOnce, Located, Active, TypeOK
    <3>5. DriversCoherent'
      BY <1>12, <3>2, <3>3, <3>4 DEF StartRun, DriversCoherent, Active, Present
    <3>6. VerdictsEarned'
      BY <1>12, <2>1, <3>3 DEF StartRun, VerdictsEarned, TypeOK
    <3> QED
      BY <3>1, <3>5, <3>6 DEF ResultInv
  <2>3. CASE ~Present(drv[d].job)
    <3>1. RowsKeep /\ DriversGoOn
      BY <1>12, <2>3, DriverFields
      DEF StartRun, RowsKeep, DriversGoOn, TypeOK, Active, Present, EndDriver
    <3> QED
      BY <1>12, <2>3, <3>1, DriversCoherentKept DEF StartRun, ResultInv, RowsCoherent
  <2> QED
    BY <2>2, <2>3
<1>13. ASSUME NEW d \in Drivers, AnnounceRun(d) PROVE ResultInv'
  <2>1. RowsCoherent'
    BY <1>13 DEF RowsCoherent, AnnounceRun
  <2>2. RowsKeep
    BY <1>13 DEF RowsKeep, AnnounceRun, Present
  <2>3. DriversGoOn
    BY <1>13, DriverFields DEF DriversGoOn, AnnounceRun, DriverTo, EndDriver, Active, TypeOK
  <2> QED
    BY <1>13, <2>1, <2>2, <2>3, DriversCoherentKept DEF AnnounceRun, ResultInv
<1>14. ASSUME NEW d \in Drivers, StepEvent(d) PROVE ResultInv'
  <2>1. RowsCoherent'
    BY <1>14 DEF RowsCoherent, StepEvent
  <2>2. RowsKeep
    BY <1>14 DEF RowsKeep, StepEvent, Present
  <2>3. DriversGoOn
    BY <1>14, DriverFields DEF DriversGoOn, StepEvent, DriverTo, EndDriver, Active, TypeOK
  <2> QED
    BY <1>14, <2>1, <2>2, <2>3, DriversCoherentKept DEF StepEvent, ResultInv
<1>15. ASSUME NEW d \in Drivers, NEW out \in Outcome, ScenarioEnds(d, out) PROVE ResultInv'
  <2> DEFINE j == drv[d].job
  <2>1. j \in Jobs /\ drv[d].pc = "run"
    BY <1>15 DEF ScenarioEnds, Located, Active, TypeOK
  <2>2. verdict[j] = "none" /\ runs[j] > 0 /\ (Present(j) => row[j].started)
    BY <2>1 DEF DriversCoherent, Active
  <2>3. row[j].exit = "none"
    BY <2>1, <2>2 DEF RowsCoherent, Coherent, TypeOK, Row
  <2>4. verdict'[j] = out /\ \A k \in Jobs \ {j} : verdict'[k] = verdict[k]
    BY <1>15, <2>1 DEF ScenarioEnds, TypeOK
  <2>5. RowsCoherent'
    BY <1>15, <2>1, <2>3, <2>4 DEF ScenarioEnds, RowsCoherent, Coherent
  <2>6. /\ \A e \in Drivers \ {d} : drv'[e] = drv[e]
        /\ drv'[d].job = j /\ drv'[d].pc = "save" /\ drv'[d].out = out
    BY <1>15, DriverFields DEF ScenarioEnds, TypeOK
  <2>7. \A e \in Drivers \ {d} : Active(e) => drv[e].job \in Jobs \ {j}
    BY <2>1, ExclusiveSuffices DEF RunsOnce, Located, Active, TypeOK
  <2>8. DriversCoherent'
    BY <1>15, <2>2, <2>4, <2>6, <2>7 DEF ScenarioEnds, DriversCoherent, Active, Present
  <2>9. VerdictsEarned'
    BY <1>15, <2>2, <2>4 DEF ScenarioEnds, VerdictsEarned
  <2> QED
    BY <2>5, <2>8, <2>9 DEF ResultInv
<1>16. ASSUME NEW d \in Drivers, SaveOutcome(d) PROVE ResultInv'
  <2>1. drv[d].job \in Jobs /\ drv[d].pc = "save" /\ row[drv[d].job] \in Row /\ drv[d].out \in Outcome
    BY <1>16 DEF SaveOutcome, Located, Active, TypeOK, DrvState
  <2>2. CASE Present(drv[d].job)
    <3>1. Coherent(Recorded(row[drv[d].job], drv[d].out), verdict[drv[d].job])
      BY <2>1, <2>2, OutcomeCoherent DEF RowsCoherent, DriversCoherent, Active
    <3>2. RowsCoherent'
      BY <1>16, <2>1, <2>2, <3>1 DEF RowsCoherent, SaveOutcome, TypeOK
    <3>3. RowsKeep
      BY <1>16, <2>1, <2>2, RowFields DEF RowsKeep, SaveOutcome, Present, TypeOK
    <3>4. DriversGoOn
      BY <1>16, <2>2, DriverFields DEF SaveOutcome, DriversGoOn, TypeOK, Active, DriverTo
    <3> QED
      BY <1>16, <3>2, <3>3, <3>4, DriversCoherentKept DEF SaveOutcome, ResultInv
  <2>3. CASE ~Present(drv[d].job)
    <3>1. RowsKeep /\ DriversGoOn
      BY <1>16, <2>3, DriverFields
      DEF SaveOutcome, RowsKeep, DriversGoOn, TypeOK, Active, Present, EndDriver
    <3> QED
      BY <1>16, <2>3, <3>1, DriversCoherentKept DEF SaveOutcome, ResultInv, RowsCoherent
  <2> QED
    BY <2>2, <2>3
<1>17. ASSUME NEW d \in Drivers, ReportOutcome(d) PROVE ResultInv'
  <2>1. RowsCoherent'
    BY <1>17 DEF RowsCoherent, ReportOutcome
  <2>2. RowsKeep
    BY <1>17 DEF RowsKeep, ReportOutcome, Present
  <2>3. DriversGoOn
    BY <1>17, DriverFields DEF DriversGoOn, ReportOutcome, DriverTo, EndDriver, Active, TypeOK
  <2> QED
    BY <1>17, <2>1, <2>2, <2>3, DriversCoherentKept DEF ReportOutcome, ResultInv
<1>18. ASSUME NEW d \in Drivers, StatementFails(d) PROVE ResultInv'
  <2>1. RowsCoherent'
    BY <1>18 DEF RowsCoherent, StatementFails
  <2>2. RowsKeep
    BY <1>18 DEF RowsKeep, StatementFails, Present
  <2>3. DriversGoOn
    BY <1>18, DriverFields DEF DriversGoOn, StatementFails, DriverTo, EndDriver, Active, TypeOK
  <2> QED
    BY <1>18, <2>1, <2>2, <2>3, DriversCoherentKept DEF StatementFails, ResultInv
<1>19. ASSUME NEW d \in Drivers, DriverCrashes(d) PROVE ResultInv'
  <2>1. RowsCoherent'
    BY <1>19 DEF RowsCoherent, DriverCrashes
  <2>2. RowsKeep
    BY <1>19 DEF RowsKeep, DriverCrashes, Present
  <2>3. DriversGoOn
    BY <1>19, DriverFields DEF DriversGoOn, DriverCrashes, DriverTo, EndDriver, Active, TypeOK
  <2> QED
    BY <1>19, <2>1, <2>2, <2>3, DriversCoherentKept DEF DriverCrashes, ResultInv
<1>20. ASSUME NEW j \in Jobs, BecomesStale(j) PROVE ResultInv'
  <2>1. RowsCoherent'
    BY <1>20, SavesCoherent DEF RowsCoherent, BecomesStale, TypeOK
  <2>2. RowsKeep
    BY <1>20, RowFields DEF RowsKeep, BecomesStale, Present, TypeOK
  <2>3. DriversGoOn
    BY <1>20 DEF DriversGoOn, BecomesStale, Active
  <2> QED
    BY <1>20, <2>1, <2>2, <2>3, DriversCoherentKept DEF BecomesStale, ResultInv
<1>21. ASSUME NEW j \in Jobs, BecomesAged(j) PROVE ResultInv'
  <2>1. RowsCoherent'
    BY <1>21, SavesCoherent DEF RowsCoherent, BecomesAged, TypeOK
  <2>2. RowsKeep
    BY <1>21, RowFields DEF RowsKeep, BecomesAged, Present, TypeOK
  <2>3. DriversGoOn
    BY <1>21 DEF DriversGoOn, BecomesAged, Active
  <2> QED
    BY <1>21, <2>1, <2>2, <2>3, DriversCoherentKept DEF BecomesAged, ResultInv
<1>22. CASE ReconcileScan
  BY <1>22
  DEF ReconcileScan, ResultInv, RowsCoherent, DriversCoherent, VerdictsEarned, Active,
      Present
<1>23. ASSUME NEW j \in Jobs, ReconcileSave(j) PROVE ResultInv'
  <2>1. RowsCoherent'
    <3>1. Coherent(Failed(row[j]), verdict[j])
      BY SavesCoherent DEF RowsCoherent, TypeOK
    <3> QED
      BY <1>23, <3>1 DEF RowsCoherent, ReconcileSave, TypeOK
  <2>2. RowsKeep
    BY <1>23, RowFields DEF RowsKeep, ReconcileSave, Present, TypeOK
  <2>3. DriversGoOn
    BY <1>23 DEF DriversGoOn, ReconcileSave, Active
  <2> QED
    BY <1>23, <2>1, <2>2, <2>3, DriversCoherentKept DEF ReconcileSave, ResultInv
<1>24. CASE ReconcileEvent
  BY <1>24
  DEF ReconcileEvent, ResultInv, RowsCoherent, DriversCoherent, VerdictsEarned, Active,
      Present
<1>25. CASE ReconcileFails
  BY <1>25
  DEF ReconcileFails, ResultInv, RowsCoherent, DriversCoherent, VerdictsEarned, Active,
      Present
<1>26. CASE PruneScan
  BY <1>26
  DEF PruneScan, ResultInv, RowsCoherent, DriversCoherent, VerdictsEarned, Active, Present
<1>27. CASE PruneEvents
  BY <1>27
  DEF PruneEvents, ResultInv, RowsCoherent, DriversCoherent, VerdictsEarned, Active, Present
<1>28. CASE PruneJobs
  <2>1. RowsCoherent'
    BY <1>28, SavesCoherent DEF RowsCoherent, PruneJobs, TypeOK
  <2>2. RowsKeep
    BY <1>28, RowFields DEF RowsKeep, PruneJobs, Present, TypeOK
  <2>3. DriversGoOn
    BY <1>28 DEF DriversGoOn, PruneJobs, Active
  <2> QED
    BY <1>28, <2>1, <2>2, <2>3, DriversCoherentKept DEF PruneJobs, ResultInv
<1>29. CASE PruneFails
  BY <1>29
  DEF PruneFails, ResultInv, RowsCoherent, DriversCoherent, VerdictsEarned, Active, Present
<1>30. CASE UNCHANGED vars
  BY <1>30 DEF vars, ResultInv, RowsCoherent, DriversCoherent, VerdictsEarned, Active, Present
<1> QED
  BY <1>1, <1>2, <1>3, <1>4, <1>5, <1>6, <1>7, <1>8, <1>9, <1>10, <1>11,
     <1>12, <1>13, <1>14, <1>15, <1>16, <1>17, <1>18, <1>19, <1>20, <1>21,
     <1>22, <1>23, <1>24, <1>25, <1>26, <1>27, <1>28, <1>29, <1>30
  DEF Next, RequestNew, RequestStep, Enqueue, Retry, DriverStep, ReconcileStep, PruneStep

\* When the broker delivers each message once, the columns of every row agree
\* with its status, and an exit code is only there when the scenario returned
\* it, however cancel, reconcile, retention and the driver interleave.
THEOREM RowCoherentHolds == ASSUME MaxRedeliveries = 0 PROVE Spec => []RowCoherent
<1>1. Spec => [](TypeOK /\ Located)
  BY TypeCorrect
<1>2. Init => Exclusive /\ ResultInv
  BY InitExclusive, InitResult
<1>3. (TypeOK /\ Located) /\ (Exclusive /\ ResultInv) /\ [Next]_vars => (Exclusive /\ ResultInv)'
  BY NextExclusive, NextResult
<1>4. Exclusive /\ ResultInv => RowCoherent
  BY DEF ResultInv, RowsCoherent, Coherent, RowCoherent, Terminal
<1> QED
  BY <1>1, <1>2, <1>3, <1>4, PTL DEF Spec

-----------------------------------------------------------------------------
(***************************************************************************)
(* That the tables with all their writers implement the contract of        *)
(* JobLedger.                                                              *)
(***************************************************************************)

\* An absent row has no columns, and retention only holds jobs that were
\* finished when it selected them.
ForgetInv ==
  /\ \A j \in Jobs : ~Present(j) => ~row[j].finished
  /\ \A j \in prune.victims : row[j].finished \/ ~Present(j)

-----------------------------------------------------------------------------
\* What the abstract variables are at one job.
LEMMA Bars ==
  ASSUME NEW j \in Jobs
  PROVE  /\ phaseBar[j] = IF Present(j) THEN row[j].status
                          ELSE IF j \in born THEN "forgotten" ELSE "unborn"
         /\ begunBar[j] = (runs[j] > 0)
         /\ passedBar[j] = (verdict[j] = "success")
         /\ closedBar[j] = (row[j].finished \/ phaseBar[j] = "forgotten")
         /\ phaseBar'[j] = IF Present(j)' THEN row'[j].status
                           ELSE IF j \in born' THEN "forgotten" ELSE "unborn"
         /\ begunBar'[j] = (runs'[j] > 0)
         /\ passedBar'[j] = (verdict'[j] = "success")
         /\ closedBar'[j] = (row'[j].finished \/ phaseBar'[j] = "forgotten")
BY DEF phaseBar, begunBar, passedBar, closedBar

\* A step that changes no status, no finished_at and no history stutters.
LEMMA LedgerKept ==
  ASSUME UNCHANGED <<born, runs, verdict>>,
         \A j \in Jobs : row'[j].status = row[j].status /\ row'[j].finished = row[j].finished
  PROVE  UNCHANGED Ledger!ledger
<1>1. phaseBar' = phaseBar
  BY DEF phaseBar, Present
<1>2. closedBar' = closedBar
  BY <1>1 DEF closedBar
<1> QED
  BY <1>1, <1>2 DEF Ledger!ledger, begunBar, passedBar

\* A save that gives a present row a terminal status closes the job.
LEMMA LedgerCloses ==
  ASSUME NEW j \in Jobs, NEW status \in TerminalStatus, Present(j), row[j] \in Row,
         UNCHANGED <<born, runs, verdict>>,
         row'[j].status = status, row'[j].finished,
         \A k \in Jobs \ {j} : row'[k] = row[k],
         status = "success" => verdict[j] = "success"
  PROVE  Ledger!Close(j, status)
<1>1. phaseBar[j] \in Ledger!Live /\ (status = "success" => passedBar[j])
  BY Bars DEF Ledger!Live, Row, Present, ActiveStatus, TerminalStatus
<1>2. phaseBar' = [phaseBar EXCEPT ![j] = status]
  BY DEF phaseBar, Present, TerminalStatus
<1>3. closedBar' = [closedBar EXCEPT ![j] = TRUE]
  <2>1. \A k \in Jobs \ {j} : phaseBar'[k] = phaseBar[k]
    BY <1>2 DEF phaseBar
  <2> QED
    BY <2>1 DEF closedBar
<1>4. UNCHANGED <<begunBar, passedBar>>
  BY DEF begunBar, passedBar
<1> QED
  BY <1>1, <1>2, <1>3, <1>4 DEF Ledger!Close

-----------------------------------------------------------------------------
\* The steps of the jobs table that change what retention may rely on.
LEMMA NextForget == TypeOK /\ Located /\ ForgetInv /\ [Next]_vars => ForgetInv'
<1> SUFFICES ASSUME TypeOK, Located, ForgetInv, [Next]_vars PROVE ForgetInv'
  OBVIOUS
<1> USE DEF Present
<1>1. ASSUME NEW r \in Requests, NEW j \in Jobs, CreateJob(r, j) PROVE ForgetInv'
  BY <1>1, RowFields DEF ForgetInv, CreateJob, Located, TypeOK
<1>2. ASSUME NEW r \in Requests, Delay(r) PROVE ForgetInv'
  BY <1>2 DEF ForgetInv, Delay
<1>3. ASSUME NEW r \in Requests, SetCeleryTaskId(r) PROVE ForgetInv'
  <2>1. req[r].job \in Jobs => WithTask(row[req[r].job], r).status # "absent" \/ ~Present(req[r].job)
    BY <1>3, RowFields
    DEF SetCeleryTaskId, TypeOK, Located, Active, ActiveStatus, ForgetInv, StatusOf,
        DrvState
  <2>2. ASSUME NEW k \in Jobs
        PROVE  /\ Present(k)' <=> Present(k)
               /\ row[k].finished => row'[k].finished
               /\ ~Present(k) => ~row'[k].finished
    BY <1>3, <2>1, RowFields DEF SetCeleryTaskId, TypeOK, ForgetInv, ActiveStatus
  <2> QED
    BY <1>3, <2>2 DEF ForgetInv, SetCeleryTaskId, TypeOK, PruneState
<1>4. ASSUME NEW r \in Requests, SubmittedToCelery(r) PROVE ForgetInv'
  BY <1>4 DEF ForgetInv, SubmittedToCelery
<1>5. ASSUME NEW r \in Requests, SubmittedInline(r) PROVE ForgetInv'
  BY <1>5 DEF ForgetInv, SubmittedInline
<1>6. ASSUME NEW r \in Requests, RunJobInline(r) PROVE ForgetInv'
  BY <1>6 DEF ForgetInv, RunJobInline
<1>7. ASSUME NEW r \in Requests, NEW j \in Jobs, FetchForCancel(r, j) PROVE ForgetInv'
  BY <1>7 DEF ForgetInv, FetchForCancel
<1>8. ASSUME NEW r \in Requests, Revoke(r) PROVE ForgetInv'
  BY <1>8 DEF ForgetInv, Revoke
<1>9. ASSUME NEW r \in Requests, MarkCancelled(r) PROVE ForgetInv'
  <2>1. req[r].target \in Jobs => Closed(row[req[r].target], "cancelled").status # "absent" \/ ~Present(req[r].target)
    BY <1>9, RowFields
    DEF MarkCancelled, TypeOK, Located, Active, ActiveStatus, ForgetInv, StatusOf, DrvState
  <2>2. ASSUME NEW k \in Jobs
        PROVE  /\ Present(k)' <=> Present(k)
               /\ row[k].finished => row'[k].finished
               /\ ~Present(k) => ~row'[k].finished
    BY <1>9, <2>1, RowFields DEF MarkCancelled, TypeOK, ForgetInv, ActiveStatus
  <2> QED
    BY <1>9, <2>2 DEF ForgetInv, MarkCancelled, TypeOK, PruneState
<1>10. ASSUME NEW r \in Requests, RequestFails(r) PROVE ForgetInv'
  BY <1>10 DEF ForgetInv, RequestFails
<1>11. ASSUME NEW w \in Workers, NEW m \in queue, TakeMessage(w, m) PROVE ForgetInv'
  BY <1>11 DEF ForgetInv, TakeMessage
<1>12. ASSUME NEW d \in Drivers, StartRun(d) PROVE ForgetInv'
  <2>1. drv[d].job \in Jobs => Running(row[drv[d].job]).status # "absent" \/ ~Present(drv[d].job)
    BY <1>12, RowFields
    DEF StartRun, TypeOK, Located, Active, ActiveStatus, ForgetInv, StatusOf, DrvState
  <2>2. ASSUME NEW k \in Jobs
        PROVE  /\ Present(k)' <=> Present(k)
               /\ row[k].finished => row'[k].finished
               /\ ~Present(k) => ~row'[k].finished
    BY <1>12, <2>1, RowFields DEF StartRun, TypeOK, ForgetInv, ActiveStatus
  <2> QED
    BY <1>12, <2>2 DEF ForgetInv, StartRun, TypeOK, PruneState
<1>13. ASSUME NEW d \in Drivers, AnnounceRun(d) PROVE ForgetInv'
  BY <1>13 DEF ForgetInv, AnnounceRun
<1>14. ASSUME NEW d \in Drivers, StepEvent(d) PROVE ForgetInv'
  BY <1>14 DEF ForgetInv, StepEvent
<1>15. ASSUME NEW d \in Drivers, NEW out \in Outcome, ScenarioEnds(d, out) PROVE ForgetInv'
  BY <1>15 DEF ForgetInv, ScenarioEnds
<1>16. ASSUME NEW d \in Drivers, SaveOutcome(d) PROVE ForgetInv'
  <2>1. drv[d].job \in Jobs => Recorded(row[drv[d].job], drv[d].out).status # "absent" \/ ~Present(drv[d].job)
    BY <1>16, RowFields
    DEF SaveOutcome, TypeOK, Located, Active, ActiveStatus, ForgetInv, StatusOf, DrvState
  <2>2. ASSUME NEW k \in Jobs
        PROVE  /\ Present(k)' <=> Present(k)
               /\ row[k].finished => row'[k].finished
               /\ ~Present(k) => ~row'[k].finished
    <3>1. CASE k = drv[d].job /\ Present(k)
      <4>1. row[k] \in Row /\ drv[d].out \in Outcome /\ row'[k] = Recorded(row[k], drv[d].out)
        BY <1>16, <3>1 DEF SaveOutcome, TypeOK, Located, Active, DrvState
      <4> QED
        BY <2>1, <3>1, <4>1, RowFields DEF StatusOf
    <3>2. CASE k # drv[d].job \/ ~Present(k)
      BY <1>16, <3>2 DEF SaveOutcome, TypeOK, ForgetInv
    <3> QED
      BY <3>1, <3>2
  <2> QED
    BY <1>16, <2>2 DEF ForgetInv, SaveOutcome, TypeOK, PruneState
<1>17. ASSUME NEW d \in Drivers, ReportOutcome(d) PROVE ForgetInv'
  BY <1>17 DEF ForgetInv, ReportOutcome
<1>18. ASSUME NEW d \in Drivers, StatementFails(d) PROVE ForgetInv'
  BY <1>18 DEF ForgetInv, StatementFails
<1>19. ASSUME NEW d \in Drivers, DriverCrashes(d) PROVE ForgetInv'
  BY <1>19 DEF ForgetInv, DriverCrashes
<1>20. ASSUME NEW j \in Jobs, BecomesStale(j) PROVE ForgetInv'
  <2>1. j \in Jobs => Stale(row[j]).status # "absent" \/ ~Present(j)
    BY <1>20, RowFields
    DEF BecomesStale, TypeOK, Located, Active, ActiveStatus, ForgetInv, StatusOf, DrvState
  <2>2. ASSUME NEW k \in Jobs
        PROVE  /\ Present(k)' <=> Present(k)
               /\ row[k].finished => row'[k].finished
               /\ ~Present(k) => ~row'[k].finished
    BY <1>20, <2>1, RowFields DEF BecomesStale, TypeOK, ForgetInv, ActiveStatus
  <2> QED
    BY <1>20, <2>2 DEF ForgetInv, BecomesStale, TypeOK, PruneState
<1>21. ASSUME NEW j \in Jobs, BecomesAged(j) PROVE ForgetInv'
  <2>1. j \in Jobs => Aged(row[j]).status # "absent" \/ ~Present(j)
    BY <1>21, RowFields
    DEF BecomesAged, TypeOK, Located, Active, ActiveStatus, ForgetInv, StatusOf, DrvState
  <2>2. ASSUME NEW k \in Jobs
        PROVE  /\ Present(k)' <=> Present(k)
               /\ row[k].finished => row'[k].finished
               /\ ~Present(k) => ~row'[k].finished
    BY <1>21, <2>1, RowFields DEF BecomesAged, TypeOK, ForgetInv, ActiveStatus
  <2> QED
    BY <1>21, <2>2 DEF ForgetInv, BecomesAged, TypeOK, PruneState
<1>22. CASE ReconcileScan
  BY <1>22 DEF ForgetInv, ReconcileScan
<1>23. ASSUME NEW j \in Jobs, ReconcileSave(j) PROVE ForgetInv'
  <2>1. j \in Jobs => Failed(row[j]).status # "absent" \/ ~Present(j)
    BY <1>23, RowFields
    DEF ReconcileSave, TypeOK, Located, Active, ActiveStatus, ForgetInv, StatusOf, DrvState
  <2>2. ASSUME NEW k \in Jobs
        PROVE  /\ Present(k)' <=> Present(k)
               /\ row[k].finished => row'[k].finished
               /\ ~Present(k) => ~row'[k].finished
    BY <1>23, <2>1, RowFields DEF ReconcileSave, TypeOK, ForgetInv, ActiveStatus
  <2> QED
    BY <1>23, <2>2 DEF ForgetInv, ReconcileSave, TypeOK, PruneState
<1>24. CASE ReconcileEvent
  BY <1>24 DEF ForgetInv, ReconcileEvent
<1>25. CASE ReconcileFails
  BY <1>25 DEF ForgetInv, ReconcileFails
<1>26. CASE PruneScan
  BY <1>26 DEF ForgetInv, PruneScan, TypeOK, PruneState
<1>27. CASE PruneEvents
  BY <1>27 DEF ForgetInv, PruneEvents, TypeOK, PruneState
<1>28. CASE PruneJobs
  BY <1>28, RowFields DEF ForgetInv, PruneJobs, TypeOK
<1>29. CASE PruneFails
  BY <1>29 DEF ForgetInv, PruneFails, TypeOK, PruneState
<1>30. CASE UNCHANGED vars
  BY <1>30 DEF vars, ForgetInv
<1> QED
  BY <1>1, <1>2, <1>3, <1>4, <1>5, <1>6, <1>7, <1>8, <1>9, <1>10, <1>11,
     <1>12, <1>13, <1>14, <1>15, <1>16, <1>17, <1>18, <1>19, <1>20, <1>21,
     <1>22, <1>23, <1>24, <1>25, <1>26, <1>27, <1>28, <1>29, <1>30
  DEF Next, RequestNew, RequestStep, Enqueue, Retry, DriverStep, ReconcileStep, PruneStep

LEMMA NextLedger ==
  TypeOK /\ Located /\ Exclusive /\ ResultInv /\ ForgetInv /\ [Next]_vars
    => [Ledger!Next]_(Ledger!ledger)
<1> SUFFICES ASSUME TypeOK, Located, Exclusive, ResultInv, ForgetInv, [Next]_vars
             PROVE  Ledger!Next \/ UNCHANGED Ledger!ledger
  OBVIOUS
<1>1. ASSUME NEW r \in Requests, NEW j \in Jobs, CreateJob(r, j)
      PROVE  Ledger!Next \/ UNCHANGED Ledger!ledger
  <2>1. ~Present(j) /\ ~row[j].finished
    BY <1>1 DEF CreateJob, Located, ForgetInv
  <2>0. /\ row'[j].status = "queued" /\ ~row'[j].finished
        /\ \A k \in Jobs \ {j} : row'[k] = row[k]
    BY <1>1, RowFields DEF CreateJob, TypeOK
  <2>2. phaseBar[j] = "unborn" /\ phaseBar' = [phaseBar EXCEPT ![j] = "queued"]
    <3>1. Present(j)' /\ j \notin born
      BY <1>1, <2>0 DEF CreateJob, Present
    <3>2. \A k \in Jobs \ {j} : phaseBar'[k] = phaseBar[k]
      BY <1>1, <2>0 DEF CreateJob, phaseBar, Present
    <3>3. phaseBar[j] = "unborn" /\ phaseBar'[j] = "queued"
      BY <2>0, <2>1, <3>1, Bars
    <3> QED
      BY <3>2, <3>3 DEF phaseBar
  <2>3. closedBar' = closedBar
    <3>1. \A k \in Jobs : row'[k].finished <=> row[k].finished
      BY <2>0, <2>1
    <3>2. \A k \in Jobs : phaseBar'[k] = "forgotten" <=> phaseBar[k] = "forgotten"
      BY <2>2 DEF phaseBar
    <3> QED
      BY <3>1, <3>2 DEF closedBar
  <2>4. Ledger!Submit(j)
    BY <1>1, <2>2, <2>3 DEF CreateJob, Ledger!Submit, begunBar, passedBar
  <2> QED
    BY <2>4 DEF Ledger!Next
<1>2. ASSUME NEW r \in Requests, Delay(r) PROVE Ledger!Next \/ UNCHANGED Ledger!ledger
  BY <1>2, LedgerKept DEF Delay
<1>3. ASSUME NEW r \in Requests, SetCeleryTaskId(r) PROVE Ledger!Next \/ UNCHANGED Ledger!ledger
  <2>1. ASSUME NEW k \in Jobs
        PROVE  row'[k].status = row[k].status /\ row'[k].finished = row[k].finished
    BY <1>3, RowFields DEF SetCeleryTaskId, TypeOK
  <2> QED
    BY <1>3, <2>1, LedgerKept DEF SetCeleryTaskId
<1>4. ASSUME NEW r \in Requests, SubmittedToCelery(r) PROVE Ledger!Next \/ UNCHANGED Ledger!ledger
  BY <1>4, LedgerKept DEF SubmittedToCelery
<1>5. ASSUME NEW r \in Requests, SubmittedInline(r) PROVE Ledger!Next \/ UNCHANGED Ledger!ledger
  BY <1>5, LedgerKept DEF SubmittedInline
<1>6. ASSUME NEW r \in Requests, RunJobInline(r) PROVE Ledger!Next \/ UNCHANGED Ledger!ledger
  BY <1>6, LedgerKept DEF RunJobInline
<1>7. ASSUME NEW r \in Requests, NEW j \in Jobs, FetchForCancel(r, j)
      PROVE  Ledger!Next \/ UNCHANGED Ledger!ledger
  BY <1>7, LedgerKept DEF FetchForCancel
<1>8. ASSUME NEW r \in Requests, Revoke(r) PROVE Ledger!Next \/ UNCHANGED Ledger!ledger
  BY <1>8, LedgerKept DEF Revoke
<1>9. ASSUME NEW r \in Requests, MarkCancelled(r) PROVE Ledger!Next \/ UNCHANGED Ledger!ledger
  <2> DEFINE j == req[r].target
  <2>1. j \in Jobs /\ row[j] \in Row
    BY <1>9 DEF MarkCancelled, Located, TypeOK
  <2>2. CASE UNCHANGED row
    BY <1>9, <2>2, LedgerKept DEF MarkCancelled
  <2>3. CASE Present(j) /\ row' = [row EXCEPT ![j] = Closed(@, "cancelled")]
    <3>1. /\ row'[j].status = "cancelled" /\ row'[j].finished
          /\ \A k \in Jobs \ {j} : row'[k] = row[k]
      BY <2>1, <2>3, RowFields DEF TypeOK
    <3>2. Ledger!Close(j, "cancelled")
      BY <1>9, <2>1, <2>3, <3>1, LedgerCloses DEF MarkCancelled, TerminalStatus
    <3> QED
      BY <2>1, <3>2 DEF Ledger!Next
  <2> QED
    BY <1>9, <2>2, <2>3 DEF MarkCancelled
<1>10. ASSUME NEW r \in Requests, RequestFails(r) PROVE Ledger!Next \/ UNCHANGED Ledger!ledger
  BY <1>10, LedgerKept DEF RequestFails
<1>11. ASSUME NEW w \in Workers, NEW m \in queue, TakeMessage(w, m)
       PROVE  Ledger!Next \/ UNCHANGED Ledger!ledger
  BY <1>11, LedgerKept DEF TakeMessage
<1>12. ASSUME NEW d \in Drivers, StartRun(d) PROVE Ledger!Next \/ UNCHANGED Ledger!ledger
  <2> DEFINE j == drv[d].job
  <2>1. /\ j \in Jobs /\ row[j] \in Row /\ drv[d].pc = "start"
        /\ drv[d].task \in Requests /\ req[drv[d].task].job = j /\ j # NoJob
    BY <1>12 DEF StartRun, Located, Active, TypeOK, Exclusive, Assignments
  <2>2. CASE UNCHANGED <<row, runs>>
    BY <1>12, <2>2, LedgerKept DEF StartRun
  <2>3. CASE /\ Present(j) /\ row' = [row EXCEPT ![j] = Running(@)]
             /\ runs' = [runs EXCEPT ![j] = @ + 1]
    <3>1. runs[j] = 0
      BY <2>1 DEF Exclusive, Runs, Spent, TypeOK
    <3>2. phaseBar[j] \in Ledger!Live /\ phaseBar[j] # "forgotten" /\ ~begunBar[j]
      <4>1. phaseBar[j] = row[j].status /\ begunBar[j] = (runs[j] > 0)
        BY <2>1, <2>3, Bars
      <4>2. row[j].status \in ActiveStatus \cup TerminalStatus
        BY <2>1, <2>3 DEF Row, Present
      <4>3. ~(runs[j] > 0)
        BY <3>1
      <4>4. row[j].status \in Ledger!Live /\ row[j].status # "forgotten"
        BY <4>2 DEF Ledger!Live, ActiveStatus, TerminalStatus
      <4> QED
        BY <4>1, <4>3, <4>4
    <3>3. /\ row'[j].status = "running" /\ row'[j].finished = row[j].finished
          /\ \A k \in Jobs \ {j} : row'[k] = row[k]
      BY <2>1, <2>3, RowFields DEF TypeOK
    <3>4. phaseBar' = [phaseBar EXCEPT ![j] = "running"]
      BY <1>12, <2>1, <3>3 DEF StartRun, phaseBar, Present
    <3>5. begunBar' = [begunBar EXCEPT ![j] = TRUE]
      <4>1. runs'[j] > 0 /\ \A k \in Jobs \ {j} : runs'[k] = runs[k]
        BY <2>1, <2>3, <3>1 DEF TypeOK
      <4>2. \A k \in Jobs \ {j} : begunBar'[k] = begunBar[k]
        BY <4>1 DEF begunBar
      <4>3. begunBar'[j] = TRUE
        BY <2>1, <4>1 DEF begunBar
      <4> QED
        BY <2>1, <4>2, <4>3 DEF begunBar
    <3>6. closedBar' = closedBar
      <4>1. \A k \in Jobs : phaseBar'[k] = "forgotten" <=> phaseBar[k] = "forgotten"
        BY <3>2, <3>4 DEF phaseBar
      <4> QED
        BY <3>3, <4>1 DEF closedBar
    <3>7. Ledger!Begin(j)
      BY <1>12, <3>2, <3>4, <3>5, <3>6 DEF StartRun, Ledger!Begin, passedBar
    <3> QED
      BY <2>1, <3>7 DEF Ledger!Next
  <2> QED
    BY <1>12, <2>2, <2>3 DEF StartRun
<1>13. ASSUME NEW d \in Drivers, AnnounceRun(d) PROVE Ledger!Next \/ UNCHANGED Ledger!ledger
  BY <1>13, LedgerKept DEF AnnounceRun
<1>14. ASSUME NEW d \in Drivers, StepEvent(d) PROVE Ledger!Next \/ UNCHANGED Ledger!ledger
  BY <1>14, LedgerKept DEF StepEvent
<1>15. ASSUME NEW d \in Drivers, NEW out \in Outcome, ScenarioEnds(d, out)
       PROVE  Ledger!Next \/ UNCHANGED Ledger!ledger
  <2> DEFINE j == drv[d].job
  <2>1. j \in Jobs /\ verdict[j] = "none" /\ runs[j] > 0
    BY <1>15 DEF ScenarioEnds, Located, Active, TypeOK, ResultInv, DriversCoherent
  <2>2. /\ phaseBar' = phaseBar /\ begunBar' = begunBar
    BY <1>15 DEF ScenarioEnds, phaseBar, begunBar, Present
  <2>3. closedBar' = closedBar
    BY <1>15, <2>2 DEF ScenarioEnds, closedBar
  <2>4. CASE out = "success"
    <3>1. passedBar' = [passedBar EXCEPT ![j] = TRUE] /\ begunBar[j]
      BY <1>15, <2>1, <2>4 DEF ScenarioEnds, passedBar, begunBar, TypeOK
    <3>2. Ledger!Pass(j)
      BY <2>2, <2>3, <3>1 DEF Ledger!Pass
    <3> QED
      BY <2>1, <3>2 DEF Ledger!Next
  <2>5. CASE out # "success"
    <3>1. passedBar' = passedBar
      BY <1>15, <2>1, <2>5 DEF ScenarioEnds, passedBar, TypeOK
    <3> QED
      BY <2>2, <2>3, <3>1 DEF Ledger!ledger
  <2> QED
    BY <2>4, <2>5
<1>16. ASSUME NEW d \in Drivers, SaveOutcome(d) PROVE Ledger!Next \/ UNCHANGED Ledger!ledger
  <2> DEFINE j == drv[d].job
             status == StatusOf(drv[d].out)
  <2>1. j \in Jobs /\ row[j] \in Row /\ drv[d].out \in Outcome /\ drv[d].pc = "save"
    BY <1>16 DEF SaveOutcome, Located, Active, TypeOK, DrvState
  <2>2. CASE UNCHANGED row
    BY <1>16, <2>2, LedgerKept DEF SaveOutcome
  <2>3. CASE Present(j) /\ row' = [row EXCEPT ![j] = Recorded(@, drv[d].out)]
    <3>1. /\ row'[j].status = status /\ row'[j].finished
          /\ \A k \in Jobs \ {j} : row'[k] = row[k]
      BY <2>1, <2>3, RowFields DEF TypeOK
    <3>2. status \in TerminalStatus /\ (status = "success" => verdict[j] = "success")
      BY <2>1 DEF StatusOf, TerminalStatus, ResultInv, DriversCoherent, Active
    <3>3. Ledger!Close(j, status)
      BY <1>16, <2>1, <2>3, <3>1, <3>2, LedgerCloses DEF SaveOutcome
    <3> QED
      BY <2>1, <3>2, <3>3 DEF Ledger!Next, TerminalStatus
  <2> QED
    BY <1>16, <2>2, <2>3 DEF SaveOutcome
<1>17. ASSUME NEW d \in Drivers, ReportOutcome(d) PROVE Ledger!Next \/ UNCHANGED Ledger!ledger
  BY <1>17, LedgerKept DEF ReportOutcome
<1>18. ASSUME NEW d \in Drivers, StatementFails(d) PROVE Ledger!Next \/ UNCHANGED Ledger!ledger
  BY <1>18, LedgerKept DEF StatementFails
<1>19. ASSUME NEW d \in Drivers, DriverCrashes(d) PROVE Ledger!Next \/ UNCHANGED Ledger!ledger
  BY <1>19, LedgerKept DEF DriverCrashes
<1>20. ASSUME NEW j \in Jobs, BecomesStale(j) PROVE Ledger!Next \/ UNCHANGED Ledger!ledger
  <2>1. ASSUME NEW k \in Jobs
        PROVE  row'[k].status = row[k].status /\ row'[k].finished = row[k].finished
    BY <1>20, RowFields DEF BecomesStale, TypeOK
  <2> QED
    BY <1>20, <2>1, LedgerKept DEF BecomesStale
<1>21. ASSUME NEW j \in Jobs, BecomesAged(j) PROVE Ledger!Next \/ UNCHANGED Ledger!ledger
  <2>1. ASSUME NEW k \in Jobs
        PROVE  row'[k].status = row[k].status /\ row'[k].finished = row[k].finished
    BY <1>21, RowFields DEF BecomesAged, TypeOK
  <2> QED
    BY <1>21, <2>1, LedgerKept DEF BecomesAged
<1>22. CASE ReconcileScan
  BY <1>22, LedgerKept DEF ReconcileScan
<1>23. ASSUME NEW j \in Jobs, ReconcileSave(j) PROVE Ledger!Next \/ UNCHANGED Ledger!ledger
  <2>1. row[j] \in Row
    BY DEF TypeOK
  <2>2. CASE UNCHANGED row
    BY <1>23, <2>2, LedgerKept DEF ReconcileSave
  <2>3. CASE Present(j) /\ row' = [row EXCEPT ![j] = Failed(@)]
    <3>1. /\ row'[j].status = "failed" /\ row'[j].finished
          /\ \A k \in Jobs \ {j} : row'[k] = row[k]
      BY <2>1, <2>3, RowFields DEF TypeOK
    <3>2. Ledger!Close(j, "failed")
      BY <1>23, <2>1, <2>3, <3>1, LedgerCloses DEF ReconcileSave, TerminalStatus
    <3> QED
      BY <3>2 DEF Ledger!Next
  <2> QED
    BY <1>23, <2>2, <2>3 DEF ReconcileSave
<1>24. CASE ReconcileEvent
  BY <1>24, LedgerKept DEF ReconcileEvent
<1>25. CASE ReconcileFails
  BY <1>25, LedgerKept DEF ReconcileFails
<1>26. CASE PruneScan
  BY <1>26, LedgerKept DEF PruneScan
<1>27. CASE PruneEvents
  BY <1>27, LedgerKept DEF PruneEvents
<1>28. CASE PruneJobs
  <2> DEFINE batch == prune.victims
  <2>1. batch \in SUBSET Jobs /\ batch \subseteq born
    BY DEF TypeOK, PruneState, Located
  <2>2. \A k \in batch : closedBar[k]
    BY <2>1, Bars DEF ForgetInv
  <2>3. phaseBar' = [k \in Jobs |-> IF k \in batch THEN "forgotten" ELSE phaseBar[k]]
    BY <1>28, <2>1, RowFields DEF PruneJobs, phaseBar, Present
  <2>4. closedBar' = closedBar
    <3>1. \A k \in Jobs : closedBar'[k] = closedBar[k]
      BY <1>28, <2>1, <2>2, <2>3, RowFields DEF PruneJobs, closedBar
    <3> QED
      BY <3>1 DEF closedBar
  <2>5. Ledger!Forget(batch)
    BY <1>28, <2>2, <2>3, <2>4 DEF PruneJobs, Ledger!Forget, begunBar, passedBar
  <2> QED
    BY <2>1, <2>5 DEF Ledger!Next
<1>29. CASE PruneFails
  BY <1>29, LedgerKept DEF PruneFails
<1>30. CASE UNCHANGED vars
  BY <1>30, LedgerKept DEF vars
<1> QED
  BY <1>1, <1>2, <1>3, <1>4, <1>5, <1>6, <1>7, <1>8, <1>9, <1>10, <1>11,
     <1>12, <1>13, <1>14, <1>15, <1>16, <1>17, <1>18, <1>19, <1>20, <1>21,
     <1>22, <1>23, <1>24, <1>25, <1>26, <1>27, <1>28, <1>29, <1>30
  DEF Next, RequestNew, RequestStep, Enqueue, Retry, DriverStep, ReconcileStep, PruneStep

LEMMA InitLedger == Init => Ledger!Init /\ ForgetInv
<1> SUFFICES ASSUME Init PROVE Ledger!Init /\ ForgetInv
  OBVIOUS
<1>1. \A j \in Jobs : ~Present(j) /\ ~row[j].finished /\ j \notin born
  BY RowFields DEF Init, Present
<1>2. phaseBar = [j \in Jobs |-> "unborn"]
  BY <1>1 DEF phaseBar
<1>3. closedBar = [j \in Jobs |-> FALSE]
  BY <1>1, <1>2 DEF closedBar
<1>4. begunBar = [j \in Jobs |-> FALSE]
  <2>1. ASSUME NEW j \in Jobs PROVE (runs[j] > 0) = FALSE
    BY DEF Init
  <2> QED
    BY <2>1 DEF begunBar
<1>5. passedBar = [j \in Jobs |-> FALSE]
  BY DEF Init, passedBar
<1>6. ForgetInv
  BY <1>1 DEF Init, ForgetInv
<1> QED
  BY <1>2, <1>3, <1>4, <1>5, <1>6 DEF Ledger!Init

\* When the broker delivers each message once, the tables with all their
\* writers implement JobLedger: a job is put in "running" at most once, shows
\* "success" only when its one run ended with exit code 0, and is forgotten
\* only after it was closed.
THEOREM Refinement == ASSUME MaxRedeliveries = 0 PROVE Spec => LedgerSpec
<1>1. Spec => [](TypeOK /\ Located)
  BY TypeCorrect
<1>2. Init => (Exclusive /\ ResultInv /\ ForgetInv) /\ Ledger!Init
  BY InitExclusive, InitResult, InitLedger
<1>3. (TypeOK /\ Located) /\ (Exclusive /\ ResultInv /\ ForgetInv) /\ [Next]_vars
        => (Exclusive /\ ResultInv /\ ForgetInv)'
  BY NextExclusive, NextResult, NextForget
<1>4. (TypeOK /\ Located) /\ (Exclusive /\ ResultInv /\ ForgetInv) /\ [Next]_vars
        => [Ledger!Next]_(Ledger!ledger)
  BY NextLedger
<1> QED
  BY <1>1, <1>2, <1>3, <1>4, PTL DEF Spec, LedgerSpec, Ledger!Spec

=============================================================================
