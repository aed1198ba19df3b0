------------------------------ MODULE Scheduler ------------------------------
(***************************************************************************)
(* The scheduler of the command line (scheduler/service.py): the loop that *)
(* plans a slot, waits, checks and runs it, together with the commands     *)
(* that take no lock: run-next, which runs the next slot at once, and      *)
(* run_slot and run_scenario, which run what they are told and report      *)
(* nothing. They share two files (state/store.py): executed_slots, and the *)
(* next execution that the API shows.                                      *)
(*                                                                         *)
(* A step of a process takes no time, except the wait, the sleeps and the  *)
(* run of the scenario: the clock only moves when every process is in one  *)
(* of these. executed_slots is loaded, written to a temporary file of one  *)
(* fixed name and renamed in three steps; the other files are only written *)
(* and each save is one step. last_run and the history are not read here.  *)
(* A dry run takes the same steps.                                         *)
(***************************************************************************)
EXTENDS SlotPlan

CONSTANTS
  Loops,      \* scheduler processes; ProcessLock lets one run at a time
  Manuals,    \* run-next commands
  Directs,    \* run_slot commands, and run_scenario for commands and jobs
  UtcOffset,  \* what to add to a local time to get UTC, in seconds
  Pause,      \* check_interval_seconds, network_retry_seconds, 10 s after an error
  None,       \* null value
  MaxClock,   \* bound: how long a behaviour lasts
  MaxStarts   \* bound: process starts in a behaviour

ASSUME SchedulerAssumption ==
  /\ Loops \cap (Manuals \cup Directs) = {} /\ Manuals \cap Directs = {}
  /\ UtcOffset \in Int
  /\ {Pause, MaxClock, MaxStarts} \subseteq Nat

VARIABLES
  clock,     \* local time
  executed,  \* executed_slots
  temp,      \* the temporary file of executed_slots; None is no file
  next,      \* next_execution_file; None is no file
  proc,      \* the processes
  marked,    \* history: keys whose mark_executed has returned
  overlap,   \* history: two processes were between their check and their mark
  orphan,    \* history: a process left the "running" it had saved behind
  starts     \* how many processes were started (bounded by MaxStarts)

vars == <<clock, executed, temp, next, proc, marked, overlap, orphan, starts>>

Procs == Loops \cup Manuals \cup Directs
Keys  == [day : Nat, slot : Slots]

Pc == {"off", "plan", "gate", "wait", "recheck", "guard", "run",
       "load", "write", "replace", "report", "sleep"}

\* probe: where find_next_pending_execution is; at: the end of the wait or of
\* the sleep; key: the chosen slot; planned: last_planned_slot_key; since: when
\* it was chosen; mem: executed_slots as loaded; ok: the result of the run.
Proc == [pc : Pc, probe : Nat, at : Nat, key : Keys \cup {None},
         planned : Keys \cup {None}, since : Nat, mem : SUBSET Keys, ok : BOOLEAN]

NextRecord == [key : Keys \cup {None}, status : {"planned", "blocked", "running", "failed"}]

TypeOK ==
  /\ clock \in 0..MaxClock
  /\ executed \in SUBSET Keys
  /\ temp \in (SUBSET Keys) \cup {None}
  /\ next \in NextRecord \cup {None}
  /\ proc \in [Procs -> Proc]
  /\ marked \in SUBSET Keys
  /\ overlap \in BOOLEAN
  /\ orphan \in BOOLEAN
  /\ starts \in 0..MaxStarts

Off == [pc |-> "off", probe |-> 0, at |-> 0, key |-> None, planned |-> None,
        since |-> 0, mem |-> {}, ok |-> FALSE]

Init ==
  /\ clock = 0
  /\ executed = {}
  /\ temp = None
  /\ next = None
  /\ proc = [p \in Procs |-> Off]
  /\ marked = {}
  /\ overlap = FALSE
  /\ orphan = FALSE
  /\ starts = 0

-----------------------------------------------------------------------------
Become(p, q)   == proc' = [proc EXCEPT ![p] = q]
Goto(p, label) == Become(p, [proc[p] EXCEPT !.pc = label])
Save(key, status) == next' = [key |-> key, status |-> status]

\* The loop sleeps, forgetting its choice; a command has nothing left to do.
Rested(p) ==
  IF p \in Loops
    THEN [Off EXCEPT !.pc = "sleep", !.at = clock + Pause, !.planned = proc[p].planned]
    ELSE Off
Rest(p) == Become(p, Rested(p))

\* Between its last look at executed_slots and its mark.
Committed(q) == /\ q \notin Directs
                /\ proc[q].pc \in {"guard", "run", "load", "write", "replace"}
Commit(p)    == overlap' = (overlap \/ \E q \in Procs \ {p} : Committed(q))

-----------------------------------------------------------------------------
Start(p) ==
  /\ p \notin Directs
  /\ proc[p].pc = "off"
  /\ p \in Loops => \A q \in Loops : proc[q].pc = "off"
  /\ starts < MaxStarts
  /\ starts' = starts + 1
  /\ Become(p, [Off EXCEPT !.pc = "plan", !.probe = clock])
  /\ UNCHANGED <<clock, executed, temp, next, marked, overlap, orphan>>

\* run_slot: a slot of today, whatever its window and executed_slots say; or
\* run_scenario, under a key that is no slot's (None). Both call _run_once only.
StartDirect(p) ==
  /\ p \in Directs
  /\ proc[p].pc = "off"
  /\ starts < MaxStarts
  /\ starts' = starts + 1
  /\ \E key \in {ToKey(s, Day(clock)) : s \in Slots} \cup {None} :
       /\ Save(key, "running")
       /\ Become(p, [Off EXCEPT !.pc = "run", !.key = key])
  /\ orphan' = FALSE
  /\ UNCHANGED <<clock, executed, temp, marked, overlap>>

BadPlan(p) ==  \* the search goes on with the next day
  /\ proc[p].pc = "plan"
  /\ \E c \in PickNext(proc[p].probe) :
       IF c.key \in executed
         THEN Become(p, [proc[p] EXCEPT !.probe = MakeDt(c.key.day + 1, 0)])
         ELSE Become(p, [proc[p] EXCEPT !.key = c.key, !.at = c.at, !.since = clock,
                                        !.pc = IF p \in Loops THEN "gate" ELSE "guard"])
  /\ UNCHANGED <<clock, executed, temp, next, marked, overlap, orphan, starts>>

\* find_next_pending_execution, one pick: executed_slots is read again for
\* each. Nothing to plan is a RuntimeError.
Plan(p) ==
  /\ proc[p].pc = "plan"
  /\ \/ \E c \in PickNext(proc[p].probe) :
          \/ /\ c.key \in executed
             /\ Become(p, [proc[p] EXCEPT !.probe = NextProbe(c.key)])
             /\ UNCHANGED overlap
          \/ /\ c.key \notin executed
             /\ Become(p, [proc[p] EXCEPT !.key = c.key, !.at = c.at, !.since = clock,
                                          !.pc = IF p \in Loops THEN "gate" ELSE "guard"])
             /\ IF p \in Loops THEN UNCHANGED overlap ELSE Commit(p)
     \/ /\ MayFail(proc[p].probe)
        /\ Rest(p)
        /\ UNCHANGED overlap
  /\ UNCHANGED <<clock, executed, temp, next, marked, orphan, starts>>

\* loop: the network, then the plan is published, once for each key in a row.
Gate(p) ==
  LET key == proc[p].key IN
  /\ proc[p].pc = "gate"
  /\ \/ /\ key.slot.network
        /\ Save(key, "blocked")
        /\ Rest(p)
     \/ /\ IF key # proc[p].planned THEN Save(key, "planned") ELSE UNCHANGED next
        /\ Become(p, [proc[p] EXCEPT !.pc = "wait", !.planned = key])
  /\ UNCHANGED <<clock, executed, temp, marked, overlap, orphan, starts>>

\* countdown_console returns.
Wake(p) ==
  /\ proc[p].pc = "wait"
  /\ clock >= proc[p].at
  /\ Goto(p, "recheck")
  /\ UNCHANGED <<clock, executed, temp, next, marked, overlap, orphan, starts>>

BadRecheck(p) ==  \* the plan is trusted
  /\ proc[p].pc = "recheck"
  /\ Goto(p, "guard")
  /\ Commit(p)
  /\ UNCHANGED <<clock, executed, temp, next, marked, orphan, starts>>

\* has_executed after the wait: run-next may have been quicker.
Recheck(p) ==
  /\ proc[p].pc = "recheck"
  /\ \/ /\ proc[p].key \in executed
        /\ next' = None
        /\ Rest(p)
        /\ UNCHANGED overlap
     \/ /\ proc[p].key \notin executed
        /\ Goto(p, "guard")
        /\ Commit(p)
        /\ UNCHANGED next
  /\ UNCHANGED <<clock, executed, temp, marked, orphan, starts>>

\* loop: check_before_run, the network again; then, for both, _run_once saves
\* "running" and the scenario starts.
Guard(p) ==
  LET key == proc[p].key IN
  /\ proc[p].pc = "guard"
  /\ \/ /\ p \in Loops /\ key.slot.network
        /\ Save(key, "blocked")
        /\ Rest(p)
        /\ UNCHANGED orphan
     \/ /\ Save(key, "running")
        /\ Goto(p, "run")
        /\ orphan' = FALSE
  /\ UNCHANGED <<clock, executed, temp, marked, overlap, starts>>

\* run_task returns a result; only a success is marked. run_slot and
\* run_scenario are over, and leave next_execution "running".
RunEnds(p) ==
  /\ proc[p].pc = "run"
  /\ \/ /\ p \in Directs
        /\ Become(p, Off)
        /\ orphan' = TRUE
     \/ /\ p \notin Directs
        /\ \E ok \in BOOLEAN :
             Become(p, [proc[p] EXCEPT !.ok = ok, !.pc = IF ok THEN "load" ELSE "report"])
        /\ UNCHANGED orphan
  /\ UNCHANGED <<clock, executed, temp, next, marked, overlap, starts>>

\* run_task raises (a hook failed): next_execution stays "running".
RunRaises(p) ==
  /\ proc[p].pc = "run"
  /\ Rest(p)
  /\ orphan' = TRUE
  /\ UNCHANGED <<clock, executed, temp, next, marked, overlap, starts>>

\* mark_executed: _load ...
Load(p) ==
  /\ proc[p].pc = "load"
  /\ Become(p, [proc[p] EXCEPT !.mem = executed, !.pc = "write"])
  /\ UNCHANGED <<clock, executed, temp, next, marked, overlap, orphan, starts>>

BadWrite(p) ==  \* what was executed before is not kept
  /\ proc[p].pc = "write"
  /\ temp' = {proc[p].key}
  /\ Goto(p, "replace")
  /\ UNCHANGED <<clock, executed, next, marked, overlap, orphan, starts>>

\* ... _prune_old_entries drops the keys of days before the current UTC date,
\* and _save writes the temporary file ...
Write(p) ==
  /\ proc[p].pc = "write"
  /\ temp' = {k \in proc[p].mem \cup {proc[p].key} : k.day >= Day(clock + UtcOffset)}
  /\ Goto(p, "replace")
  /\ UNCHANGED <<clock, executed, next, marked, overlap, orphan, starts>>

\* ... and renames it. When another process has renamed it FileNotFoundError
\* is raised, before anything is reported.
Replace(p) ==
  /\ proc[p].pc = "replace"
  /\ \/ /\ temp # None
        /\ executed' = temp
        /\ temp' = None
        /\ marked' = marked \cup {proc[p].key}
        /\ Goto(p, "report")
        /\ UNCHANGED orphan
     \/ /\ temp = None
        /\ Rest(p)
        /\ orphan' = TRUE
        /\ UNCHANGED <<executed, temp, marked>>
  /\ UNCHANGED <<clock, next, overlap, starts>>

BadReport(p) ==  \* a failure is not reported
  /\ proc[p].pc = "report"
  /\ next' = IF proc[p].ok THEN None ELSE next
  /\ Rest(p)
  /\ UNCHANGED <<clock, executed, temp, marked, overlap, orphan, starts>>

BadReportStatus(p) ==  \* a success is shown as the next execution
  /\ proc[p].pc = "report"
  /\ Save(proc[p].key, IF proc[p].ok THEN "success" ELSE "failed")
  /\ Rest(p)
  /\ UNCHANGED <<clock, executed, temp, marked, overlap, orphan, starts>>

\* The rest of _handle_task_result.
Report(p) ==
  /\ proc[p].pc = "report"
  /\ IF proc[p].ok THEN next' = None ELSE Save(proc[p].key, "failed")
  /\ Rest(p)
  /\ UNCHANGED <<clock, executed, temp, marked, overlap, orphan, starts>>

Resume(p) ==
  /\ proc[p].pc = "sleep"
  /\ clock >= proc[p].at
  /\ Become(p, [proc[p] EXCEPT !.pc = "plan", !.probe = clock])
  /\ UNCHANGED <<clock, executed, temp, next, marked, overlap, orphan, starts>>

\* The process is over, anywhere: a crash, Ctrl-C, or --once.
Ends(p) ==
  /\ proc[p].pc # "off"
  /\ Become(p, Off)
  /\ orphan' = (orphan \/ Committed(p) \/ proc[p].pc \in {"run", "report"})
  /\ UNCHANGED <<clock, executed, temp, next, marked, overlap, starts>>

\* A second passes: nobody has anything to do at once.
Tick ==
  /\ clock < MaxClock
  /\ \A p \in Procs :
       \/ proc[p].pc \in {"off", "run"}
       \/ proc[p].pc \in {"wait", "sleep"} /\ clock < proc[p].at
  /\ clock' = clock + 1
  /\ UNCHANGED <<executed, temp, next, proc, marked, overlap, orphan, starts>>

Step(p) ==
  \/ Plan(p) \/ Gate(p) \/ Wake(p) \/ Recheck(p) \/ Guard(p)
  \/ RunEnds(p) \/ RunRaises(p) \/ Load(p) \/ Write(p) \/ Replace(p)
  \/ Report(p) \/ Resume(p)

Next ==
  \/ \E p \in Procs : Start(p) \/ StartDirect(p) \/ Step(p) \/ Ends(p)
  \/ Tick

Spec == Init /\ [][Next]_vars

-----------------------------------------------------------------------------
(* Properties                                                              *)

Begins(p) == Guard(p) /\ proc'[p].pc = "run"  \* the loop or run-next

\* tests/test_scheduler.py:12 (find_next_pending_execution "skips executed"),
\* scheduler/service.py:402 ("Slot deja execute, saut"): once mark_executed
\* has returned for a slot of today, neither the loop nor run-next runs that
\* slot again today, through waits, failures, crashes and restarts. (Two
\* processes that run at once may lose each other's mark.)
NoSecondRun ==
  [][\A p \in Procs : Begins(p) => proc[p].key \notin marked \/ overlap]_vars

\* Why: a mark stays in the file as long as its day lasts.
MarksStay ==
  \A k \in marked : k \in executed \/ k.day < Day(clock) \/ overlap

\* The loop starts a scenario inside the window of its slot, whatever blocked,
\* failed or was interrupted before.
RunsInWindow ==
  [][\A p \in Loops : Begins(p) => clock >= Opens(proc[p].key) /\ clock < Closes(proc[p].key)]_vars

\* While the loop waits it does not let the whole window of another slot go
\* by, one that opened after the choice and is not executed, unless the window
\* opens before an executed slot of the same day has ended: the search goes on
\* behind the end of an executed slot, where such a window may be over, or
\* where its draw may be that very second, which is not a candidate.
NoWindowSleptThrough ==
  \A p \in Loops : proc[p].pc = "wait" =>
    \A d \in Day(proc[p].since) .. Day(proc[p].at) : \A s \in SlotsOn(d) :
      LET k == ToKey(s, d) IN
      /\ k \notin executed
      /\ proc[p].since < Opens(k) /\ Opens(k) < Closes(k) /\ Closes(k) <= proc[p].at
      => overlap \/ \E x \in marked : x.day = d /\ Opens(k) <= NextProbe(x)

\* What the API shows as running is running: a process is between the start
\* and the report of that slot. The exceptions are a process that was cut off
\* there, and run_slot and run_scenario, which report nothing.
RunningIsTrue ==
  next # None /\ next.status = "running" =>
    \/ \E p \in Procs : proc[p].key = next.key
                         /\ proc[p].pc \in {"run", "load", "write", "replace", "report"}
    \/ orphan

=============================================================================
