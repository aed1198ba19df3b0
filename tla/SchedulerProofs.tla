--------------------------- MODULE SchedulerProofs ---------------------------
(***************************************************************************)
(* Why the scheduler never runs a slot twice a day, nor outside its        *)
(* window, nor sleeps through one. The whole argument is about what does   *)
(* not move while a process works: the clock only passes when every        *)
(* process waits, and executed_slots is only written between the last look *)
(* at it and the mark, by one process at a time unless the history         *)
(* variable overlap says that two were there.                              *)
(***************************************************************************)
EXTENDS Scheduler, TLAPS

-----------------------------------------------------------------------------
(* The calendar *)

LEMMA MidnightType == \A d \in Int : MakeDt(d, 0) \in Int
BY PlanAssumption DEF MakeDt

LEMMA DayType == ASSUME NEW t \in Int PROVE Day(t) \in Int /\ (t \in Nat => Day(t) \in Nat)
BY PlanAssumption DEF Day

LEMMA DayBounds ==
  ASSUME NEW t \in Int
  PROVE  MakeDt(Day(t), 0) <= t /\ t < MakeDt(Day(t) + 1, 0)
BY PlanAssumption DEF Day, MakeDt

LEMMA DaysInOrder ==
  ASSUME NEW d \in Int, NEW e \in Int, d < e
  PROVE  MakeDt(d + 1, 0) <= MakeDt(e, 0)
BY PlanAssumption DEF MakeDt

LEMMA DayMonotone ==
  ASSUME NEW t \in Int, NEW u \in Int, t <= u
  PROVE  Day(t) <= Day(u)
<1> SUFFICES ASSUME Day(u) < Day(t) PROVE FALSE
  BY DayType
<1>1. MakeDt(Day(u) + 1, 0) <= MakeDt(Day(t), 0)
  BY DayType, DaysInOrder
<1> QED
  BY <1>1, DayBounds, DayType, PlanAssumption DEF MakeDt

\* The window of a key, and the second its search goes on at, are in its day.
LEMMA WindowInDay ==
  ASSUME NEW k \in Keys
  PROVE  /\ Opens(k) \in Nat /\ Closes(k) \in Nat /\ NextProbe(k) \in Nat
         /\ MakeDt(k.day, 0) <= Opens(k) /\ MakeDt(k.day, 0) <= Closes(k)
         /\ Opens(k) < MakeDt(k.day + 1, 0) /\ NextProbe(k) < MakeDt(k.day + 1, 0)
<1>1. /\ k.day \in Nat /\ k.slot.start \in 0..(DayLength - 1)
      /\ k.slot.end \in 0..(DayLength - 2) /\ DayLength \in Nat \ {0}
  BY PlanAssumption DEF Keys
<1>2. k.day * DayLength \in Nat /\ (k.day + 1) * DayLength = k.day * DayLength + DayLength
  BY <1>1
<1> QED
  BY <1>1, <1>2 DEF Opens, Closes, NextProbe, MakeDt

LEMMA DayOf ==
  ASSUME NEW d \in Nat, NEW t \in Int, MakeDt(d, 0) <= t, t < MakeDt(d + 1, 0)
  PROVE  Day(t) = d
<1>1. ASSUME Day(t) < d PROVE FALSE
  <2>1. MakeDt(Day(t) + 1, 0) <= MakeDt(d, 0)
    BY <1>1, DayType, DaysInOrder
  <2> QED
    BY <2>1, DayType, DayBounds, MidnightType
<1>2. ASSUME d < Day(t) PROVE FALSE
  <2>1. MakeDt(d + 1, 0) <= MakeDt(Day(t), 0)
    BY <1>2, DayType, DaysInOrder
  <2> QED
    BY <2>1, DayType, DayBounds, MidnightType
<1> QED
  BY <1>1, <1>2, DayType

-----------------------------------------------------------------------------
(* What pick_next_execution returns *)

LEMMA PickIsCandidate ==
  ASSUME NEW now \in Nat, NEW c \in PickNext(now)
  PROVE  /\ c.key \in Keys /\ c.key.slot \in SlotsOn(c.key.day)
         /\ c.key.day \in Day(now) .. (Day(now) + Lookahead - 1)
         /\ c.at \in Candidates(c.key.slot, c.key.day, now)
         /\ \A x \in SlotsOn(c.key.day) \ {c.key.slot} :
              MayMiss(x, c.key.day, now) \/ \E u \in Candidates(x, c.key.day, now) : u >= c.at
BY DayType, PlanAssumption DEF PickNext, SlotsOn, ToKey, Keys

LEMMA PickInWindow ==
  ASSUME NEW now \in Nat, NEW c \in PickNext(now)
  PROVE  /\ c.at \in Nat /\ now < c.at
         /\ Opens(c.key) <= c.at /\ c.at < Closes(c.key)
<1>1. c.key \in Keys /\ c.at \in Candidates(c.key.slot, c.key.day, now)
  BY PickIsCandidate
<1> QED
  BY <1>1, WindowInDay DEF Candidates, Draws, Opens, Closes

\* The earliest candidate comes before the end of every window that opens later.
LEMMA PickIsEarliest ==
  ASSUME NEW now \in Nat, NEW c \in PickNext(now), NEW d \in Nat, NEW s \in SlotsOn(d),
         now < Opens(ToKey(s, d)), Opens(ToKey(s, d)) < Closes(ToKey(s, d))
  PROVE  c.at < Closes(ToKey(s, d))
<1> DEFINE k == ToKey(s, d)
<1>1. k \in Keys /\ k.day = d /\ k.slot = s
  BY DEF ToKey, Keys, SlotsOn
<1>2. /\ c.key \in Keys /\ c.key.day \in Day(now) .. (Day(now) + Lookahead - 1)
      /\ c.key.slot \in SlotsOn(c.key.day)
  BY PickIsCandidate
<1>3. Day(now) <= d
  BY <1>1, WindowInDay, DayOf, DayMonotone
<1>4. Draws(s, d, now) = Opens(k) .. (Closes(k) - 1)
  BY <1>1, WindowInDay DEF Draws, Opens, Closes
<1>5. Candidates(s, d, now) = Draws(s, d, now) /\ ~MayMiss(s, d, now)
  BY <1>1, <1>4, WindowInDay DEF Candidates, MayMiss
<1>6. CASE c.key.day < d
  <2>1. MakeDt(c.key.day + 1, 0) <= MakeDt(d, 0)
    BY <1>2, <1>6, DayType, DaysInOrder DEF Keys
  <2>2. c.at < MakeDt(c.key.day + 1, 0)
    BY <1>2, PickInWindow, WindowInDay, MidnightType DEF NextProbe, Keys
  <2> QED
    BY <1>1, <1>2, <2>1, <2>2, WindowInDay, PickInWindow, MidnightType DEF Keys
<1>7. CASE d < c.key.day
  BY <1>2, <1>3, <1>5, <1>7, DayType DEF PickNext, ToKey
<1>8. CASE c.key.day = d
  <2>1. CASE s = c.key.slot
    BY <1>1, <1>8, <2>1, PickInWindow DEF Opens, Closes
  <2>2. CASE s # c.key.slot
    <3>1. PICK u \in Candidates(s, d, now) : u >= c.at
      BY <1>5, <1>8, <2>2, PickIsCandidate
    <3> QED
      BY <1>1, <1>4, <1>5, <3>1, WindowInDay, PickInWindow
  <2> QED
    BY <2>1, <2>2
<1> QED
  BY <1>2, <1>6, <1>7, <1>8

-----------------------------------------------------------------------------
(* Types, and who can be where *)

Executing == {"guard", "run", "load", "write", "replace", "report"}
Chosen    == {"gate", "wait", "recheck"} \cup Executing

\* run_slot and run_scenario only run; run-next does not wait; a process that
\* has chosen has a slot.
Fits(p, q) ==
  /\ q \in Proc
  /\ p \in Directs => q.pc \in {"off", "run"}
  /\ p \in Manuals => q.pc \in {"off", "plan"} \cup Executing
  /\ p \notin Directs /\ q.pc \in Chosen => q.key \in Keys

Roles == \A p \in Procs : Fits(p, proc[p])

LEMMA OffFields ==
  /\ Off \in Proc /\ Off.pc = "off"
  /\ \A n \in Nat : LET q == [Off EXCEPT !.pc = "plan", !.probe = n] IN
       q \in Proc /\ q.pc = "plan" /\ q.probe = n
  /\ \A k \in Keys \cup {None} : LET q == [Off EXCEPT !.pc = "run", !.key = k] IN
       q \in Proc /\ q.pc = "run" /\ q.key = k
  /\ \A n \in Nat, k \in Keys \cup {None} :
       LET q == [Off EXCEPT !.pc = "sleep", !.at = n, !.planned = k] IN
         q \in Proc /\ q.pc = "sleep"
BY DEF Off, Proc, Pc

LEMMA GotoFields ==
  ASSUME NEW x \in Proc, NEW label \in Pc
  PROVE  LET q == [x EXCEPT !.pc = label] IN
           /\ q \in Proc /\ q.pc = label
           /\ q.key = x.key /\ q.at = x.at /\ q.since = x.since /\ q.mem = x.mem
BY DEF Proc

LEMMA ProbeFields ==
  ASSUME NEW x \in Proc, NEW n \in Nat
  PROVE  /\ LET q == [x EXCEPT !.probe = n] IN
              q \in Proc /\ q.pc = x.pc /\ q.key = x.key /\ q.probe = n
         /\ LET q == [x EXCEPT !.pc = "plan", !.probe = n] IN
              q \in Proc /\ q.pc = "plan" /\ q.probe = n
BY DEF Proc, Pc

LEMMA PublishedFields ==
  ASSUME NEW x \in Proc, NEW k \in Keys
  PROVE  LET q == [x EXCEPT !.pc = "wait", !.planned = k] IN
           q \in Proc /\ q.pc = "wait" /\ q.key = x.key /\ q.at = x.at /\ q.since = x.since
BY DEF Proc, Pc

LEMMA RanFields ==
  ASSUME NEW x \in Proc, NEW ok \in BOOLEAN
  PROVE  LET q == [x EXCEPT !.ok = ok, !.pc = IF ok THEN "load" ELSE "report"] IN
           q \in Proc /\ q.pc \in {"load", "report"} /\ q.key = x.key
BY DEF Proc, Pc

LEMMA LoadedFields ==
  ASSUME NEW x \in Proc, NEW m \in SUBSET Keys
  PROVE  LET q == [x EXCEPT !.mem = m, !.pc = "write"] IN
           q \in Proc /\ q.pc = "write" /\ q.key = x.key /\ q.mem = m
BY DEF Proc, Pc

LEMMA RestedFields ==
  ASSUME TypeOK, NEW p \in Procs
  PROVE  Fits(p, Rested(p)) /\ Rested(p).pc \in {"off", "sleep"}
<1>1. clock + Pause \in Nat /\ proc[p].planned \in Keys \cup {None}
  BY SchedulerAssumption DEF TypeOK, Proc
<1>2. CASE p \in Loops
  <2> DEFINE q == [Off EXCEPT !.pc = "sleep", !.at = clock + Pause,
                              !.planned = proc[p].planned]
  <2>1. q \in Proc /\ q.pc = "sleep"
    BY <1>1 DEF Off, Proc, Pc
  <2>2. Rested(p) = q
    BY <1>2 DEF Rested
  <2> QED
    BY <1>2, <2>1, <2>2, SchedulerAssumption DEF Fits, Chosen, Executing
<1>3. CASE p \notin Loops
  BY <1>3, OffFields DEF Rested, Fits, Chosen, Executing
<1> QED
  BY <1>2, <1>3

\* Process p becomes something that fits it, and no other changes.
Moves(p) == \E q : Fits(p, q) /\ proc' = [proc EXCEPT ![p] = q]

LEMMA RolesKept ==
  ASSUME TypeOK, Roles, NEW p \in Procs, Moves(p)
  PROVE  proc' \in [Procs -> Proc] /\ Roles'
BY DEF TypeOK, Roles, Moves, Fits

LEMMA RestMoves ==
  ASSUME TypeOK, NEW p \in Procs, Rest(p)
  PROVE  Moves(p)
BY RestedFields DEF Rest, Become, Moves

LEMMA GotoMoves ==
  ASSUME TypeOK, Roles, NEW p \in Procs \ Directs, NEW label \in Chosen, Goto(p, label),
         proc[p].pc \in Chosen, p \in Manuals => label \in Executing
  PROVE  Moves(p)
<1>1. proc[p] \in Proc /\ proc[p].key \in Keys /\ label \in Pc
  BY DEF TypeOK, Roles, Fits, Pc, Chosen, Executing
<1> QED
  BY <1>1, GotoFields DEF Goto, Become, Moves, Fits

LEMMA StepMoves ==
  ASSUME TypeOK, Roles, NEW p \in Procs,
         Start(p) \/ StartDirect(p) \/ Step(p) \/ Ends(p)
  PROVE  Moves(p)
<1>0. /\ proc[p] \in Proc /\ clock \in Nat /\ Fits(p, proc[p])
      /\ executed \in SUBSET Keys
  BY SchedulerAssumption DEF TypeOK, Roles
<1> USE DEF Chosen, Executing
<1>1. CASE Start(p)
  BY <1>0, <1>1, OffFields DEF Start, Become, Moves, Fits
<1>2. CASE StartDirect(p)
  <2>1. PICK key \in Keys \cup {None} : Become(p, [Off EXCEPT !.pc = "run", !.key = key])
    <3>1. \A s \in Slots : ToKey(s, Day(clock)) \in Keys
      BY <1>0, DayType DEF ToKey, Keys
    <3> QED
      BY <1>2, <3>1 DEF StartDirect
  <2> QED
    BY <1>2, <2>1, OffFields, SchedulerAssumption DEF StartDirect, Become, Moves, Fits
<1>3. CASE Plan(p)
  <2>1. proc[p].probe \in Nat /\ p \notin Directs /\ proc[p].pc = "plan"
    BY <1>0, <1>3 DEF Plan, Proc, Fits
  <2>2. CASE Rest(p)
    BY <2>2, RestMoves
  <2>3. ASSUME NEW c \in PickNext(proc[p].probe),
               Become(p, [proc[p] EXCEPT !.probe = NextProbe(c.key)])
        PROVE  Moves(p)
    <3>1. NextProbe(c.key) \in Nat
      BY <2>1, PickIsCandidate, WindowInDay
    <3> DEFINE q == [proc[p] EXCEPT !.probe = NextProbe(c.key)]
    <3>2. q \in Proc /\ q.pc = "plan"
      BY <1>0, <2>1, <3>1, ProbeFields
    <3>3. Fits(p, q)
      BY <2>1, <3>2 DEF Fits
    <3> QED
      BY <2>3, <3>3 DEF Become, Moves
  <2>4. ASSUME NEW c \in PickNext(proc[p].probe),
               Become(p, [proc[p] EXCEPT !.key = c.key, !.at = c.at, !.since = clock,
                                         !.pc = IF p \in Loops THEN "gate" ELSE "guard"])
        PROVE  Moves(p)
    <3>1. c.key \in Keys /\ c.at \in Nat
      BY <2>1, PickIsCandidate, PickInWindow
    <3>2. PICK label \in Pc : /\ label = IF p \in Loops THEN "gate" ELSE "guard"
                              /\ p \in Manuals => label = "guard"
      BY SchedulerAssumption DEF Pc
    <3> DEFINE q == [proc[p] EXCEPT !.key = c.key, !.at = c.at, !.since = clock, !.pc = label]
    <3>3. q \in Proc /\ q.pc = label /\ q.key = c.key
      BY <1>0, <3>1, <3>2 DEF Proc
    <3>4. Fits(p, q)
      BY <2>1, <3>1, <3>2, <3>3 DEF Fits
    <3> QED
      BY <2>4, <3>2, <3>4 DEF Become, Moves
  <2> QED
    BY <1>3, <2>2, <2>3, <2>4 DEF Plan
<1>4. CASE Gate(p)
  <2>1. p \in Loops /\ proc[p].key \in Keys
    BY <1>0, <1>4 DEF Gate, Fits, Procs
  <2> QED
    BY <1>0, <1>4, <2>1, PublishedFields, RestMoves, SchedulerAssumption
    DEF Gate, Become, Moves, Fits
<1>5. CASE Wake(p)
  <2>1. p \notin Directs /\ p \notin Manuals
    BY <1>0, <1>5 DEF Wake, Fits
  <2> QED
    BY <1>5, <2>1, GotoMoves DEF Wake
<1>6. CASE Recheck(p)
  <2>1. p \notin Directs /\ p \notin Manuals
    BY <1>0, <1>6 DEF Recheck, Fits
  <2> QED
    BY <1>6, <2>1, GotoMoves, RestMoves DEF Recheck
<1>7. CASE Guard(p)
  <2>1. p \notin Directs
    BY <1>0, <1>7 DEF Guard, Fits
  <2> QED
    BY <1>7, <2>1, GotoMoves, RestMoves DEF Guard
<1>8. CASE RunEnds(p)
  <2>1. CASE p \in Directs
    BY <1>8, <2>1, OffFields, SchedulerAssumption DEF RunEnds, Become, Moves, Fits
  <2>2. CASE p \notin Directs
    <3>1. PICK ok \in BOOLEAN :
            Become(p, [proc[p] EXCEPT !.ok = ok, !.pc = IF ok THEN "load" ELSE "report"])
      BY <1>8, <2>2 DEF RunEnds
    <3>2. proc[p].key \in Keys
      BY <1>0, <1>8, <2>2 DEF RunEnds, Fits
    <3> QED
      BY <1>0, <2>2, <3>1, <3>2, RanFields DEF Become, Moves, Fits
  <2> QED
    BY <2>1, <2>2
<1>9. CASE RunRaises(p)
  BY <1>9, RestMoves DEF RunRaises
<1>10. CASE Load(p)
  <2> DEFINE q == [proc[p] EXCEPT !.mem = executed, !.pc = "write"]
  <2>1. q \in Proc /\ q.pc = "write" /\ q.key = proc[p].key
    BY <1>0, LoadedFields
  <2>2. Fits(p, q)
    BY <1>0, <1>10, <2>1 DEF Load, Fits
  <2> QED
    BY <1>10, <2>2 DEF Load, Become, Moves
<1>11. CASE Write(p)
  <2>1. p \notin Directs
    BY <1>0, <1>11 DEF Write, Fits
  <2> QED
    BY <1>11, <2>1, GotoMoves DEF Write
<1>12. CASE Replace(p)
  <2>1. p \notin Directs
    BY <1>0, <1>12 DEF Replace, Fits
  <2> QED
    BY <1>12, <2>1, GotoMoves, RestMoves DEF Replace
<1>13. CASE Report(p)
  BY <1>13, RestMoves DEF Report
<1>14. CASE Resume(p)
  BY <1>0, <1>14, ProbeFields DEF Resume, Become, Moves, Fits
<1>15. CASE Ends(p)
  BY <1>15, OffFields DEF Ends, Become, Moves, Fits
<1> QED
  BY <1>1, <1>2, <1>3, <1>4, <1>5, <1>6, <1>7, <1>8, <1>9, <1>10, <1>11, <1>12,
     <1>13, <1>14, <1>15
  DEF Step

LEMMA NextTyped ==
  ASSUME TypeOK, Roles, [Next]_vars
  PROVE  TypeOK' /\ Roles'
<1>1. CASE UNCHANGED vars
  BY <1>1 DEF vars, TypeOK, Roles
<1>2. CASE Tick
  BY <1>2, SchedulerAssumption DEF Tick, TypeOK, Roles
<1>3. ASSUME NEW p \in Procs, Start(p) \/ StartDirect(p) \/ Step(p) \/ Ends(p)
      PROVE  TypeOK' /\ Roles'
  <2>1. proc' \in [Procs -> Proc] /\ Roles'
    BY <1>3, StepMoves, RolesKept
  <2>2. clock' = clock
    BY <1>3 DEF Start, StartDirect, Step, Ends, Plan, Gate, Wake, Recheck, Guard, RunEnds,
       RunRaises, Load, Write, Replace, Report, Resume
  <2>3. executed' \in SUBSET Keys /\ temp' \in (SUBSET Keys) \cup {None}
    <3>1. CASE Write(p)
      <4>1. proc[p].key \in Keys /\ proc[p].mem \in SUBSET Keys
        BY <3>1 DEF Write, Roles, Fits, Chosen, Executing, TypeOK, Proc
      <4> QED
        BY <3>1, <4>1 DEF Write, TypeOK
    <3>2. CASE Replace(p)
      <4>1. CASE temp = None
        BY <3>2, <4>1 DEF Replace, TypeOK
      <4>2. CASE temp # None
        <5>1. temp \in SUBSET Keys
          BY <4>2 DEF TypeOK
        <5> QED
          BY <3>2, <4>2, <5>1 DEF Replace
      <4> QED
        BY <4>1, <4>2
    <3>3. CASE ~Write(p) /\ ~Replace(p)
      BY <1>3, <3>3 DEF TypeOK, Start, StartDirect, Step, Ends, Plan, Gate, Wake, Recheck,
         Guard, RunEnds, RunRaises, Load, Report, Resume
    <3> QED
      BY <3>1, <3>2, <3>3
  <2>4. next' \in NextRecord \cup {None}
    <3>1. proc[p].key \in Keys \cup {None} /\ \A s \in Slots : ToKey(s, Day(clock)) \in Keys
      BY DayType, SchedulerAssumption DEF TypeOK, Proc, ToKey, Keys
    <3>2. \/ next' \in {next, None}
          \/ \E k \in Keys \cup {None}, status \in {"planned", "blocked", "running", "failed"} :
               Save(k, status)
      <4>1. CASE Start(p) \/ StartDirect(p) \/ Ends(p)
        BY <3>1, <4>1 DEF Start, StartDirect, Ends
      <4>2. CASE Gate(p) \/ Guard(p) \/ Report(p)
        BY <3>1, <4>2 DEF Gate, Guard, Report
      <4>3. CASE Step(p) /\ ~Gate(p) /\ ~Guard(p) /\ ~Report(p)
        BY <4>3 DEF Step, Plan, Wake, Recheck, RunEnds, RunRaises, Load, Write, Replace, Resume
      <4> QED
        BY <1>3, <4>1, <4>2, <4>3
    <3> QED
      BY <3>2 DEF TypeOK, Save, NextRecord
  <2>5. marked' \in SUBSET Keys
    <3>1. CASE Replace(p)
      BY <3>1 DEF Replace, Roles, Fits, Chosen, Executing, TypeOK
    <3>2. CASE ~Replace(p)
      BY <1>3, <3>2 DEF TypeOK, Start, StartDirect, Step, Ends, Plan, Gate, Wake, Recheck,
         Guard, RunEnds, RunRaises, Load, Write, Report, Resume
    <3> QED
      BY <3>1, <3>2
  <2>6. overlap' \in BOOLEAN /\ orphan' \in BOOLEAN
    BY <1>3 DEF TypeOK, Start, StartDirect, Step, Ends, Plan, Gate, Wake, Recheck, Commit,
       Guard, RunEnds, RunRaises, Load, Write, Replace, Report, Resume
  <2>7. starts' \in 0..MaxStarts
    <3>1. CASE Start(p) \/ StartDirect(p)
      <4>1. starts \in 0..MaxStarts /\ starts < MaxStarts /\ starts' = starts + 1
        BY <3>1 DEF TypeOK, Start, StartDirect
      <4> QED
        BY <4>1, SchedulerAssumption
    <3>2. CASE Step(p) \/ Ends(p)
      BY <3>2 DEF TypeOK, Step, Ends, Plan, Gate, Wake, Recheck, Guard, RunEnds, RunRaises,
         Load, Write, Replace, Report, Resume
    <3> QED
      BY <1>3, <3>1, <3>2
  <2> QED
    BY <2>1, <2>2, <2>3, <2>4, <2>5, <2>6, <2>7 DEF TypeOK
<1> QED
  BY <1>1, <1>2, <1>3 DEF Next

LEMMA InitTyped == Init => TypeOK /\ Roles
<1> SUFFICES ASSUME Init PROVE TypeOK /\ Roles
  OBVIOUS
<1>1. \A p \in Procs : proc[p] = Off /\ Fits(p, Off)
  BY OffFields DEF Init, Fits, Chosen, Executing
<1>2. proc \in [Procs -> Proc]
  BY OffFields DEF Init
<1>3. clock \in 0..MaxClock /\ starts \in 0..MaxStarts
  BY SchedulerAssumption DEF Init
<1> QED
  BY <1>1, <1>2, <1>3 DEF Init, TypeOK, Roles

\* The state of the scheduler always has its type, the key of every process
\* that has chosen included.
THEOREM TypeCorrect == Spec => [](TypeOK /\ Roles)
<1>1. (TypeOK /\ Roles) /\ [Next]_vars => (TypeOK /\ Roles)'
  BY NextTyped
<1> QED
  BY <1>1, InitTyped, PTL DEF Spec

-----------------------------------------------------------------------------
(* What a step does to the process that takes it *)

Acts(p) == Start(p) \/ StartDirect(p) \/ Step(p) \/ Ends(p)

LEMMA OthersKeep ==
  ASSUME TypeOK, Roles, NEW p \in Procs, Acts(p)
  PROVE  clock' = clock /\ \A o \in Procs \ {p} : proc'[o] = proc[o]
<1>1. \A o \in Procs \ {p} : proc'[o] = proc[o]
  BY StepMoves DEF Acts, Moves, TypeOK
<1>2. clock' = clock
  BY DEF Acts, Start, StartDirect, Step, Ends, Plan, Gate, Wake, Recheck, Guard, RunEnds,
     RunRaises, Load, Write, Replace, Report, Resume
<1> QED
  BY <1>1, <1>2

LEMMA RestEnds ==
  ASSUME TypeOK, NEW p \in Procs, Rest(p)
  PROVE  proc'[p].pc \in {"off", "sleep"}
BY RestedFields DEF Rest, Become, TypeOK

LEMMA GotoEnds ==
  ASSUME TypeOK, NEW p \in Procs, NEW label \in Pc, Goto(p, label)
  PROVE  /\ proc'[p].pc = label /\ proc'[p].key = proc[p].key
         /\ proc'[p].at = proc[p].at /\ proc'[p].since = proc[p].since
         /\ proc'[p].mem = proc[p].mem
BY GotoFields DEF Goto, Become, TypeOK

LEMMA StartEnds ==
  ASSUME TypeOK, NEW p \in Procs, Start(p)
  PROVE  proc'[p].pc = "plan" /\ proc'[p].probe = clock
BY DEF Start, Become, TypeOK, Off

LEMMA PlanEnds ==
  ASSUME TypeOK, NEW p \in Procs, Plan(p)
  PROVE  /\ proc[p].pc = "plan" /\ proc[p].probe \in Nat
         /\ \/ \E c \in PickNext(proc[p].probe) :
                 \/ /\ c.key \in executed
                    /\ proc'[p].pc = "plan" /\ proc'[p].probe = NextProbe(c.key)
                    /\ overlap' = overlap
                 \/ /\ c.key \notin executed
                    /\ proc'[p].pc = IF p \in Loops THEN "gate" ELSE "guard"
                    /\ proc'[p].key = c.key /\ proc'[p].at = c.at /\ proc'[p].since = clock
                    /\ IF p \in Loops THEN overlap' = overlap ELSE Commit(p)
            \/ proc'[p].pc \in {"off", "sleep"} /\ overlap' = overlap
<1>1. proc[p] \in Proc /\ proc[p].pc = "plan" /\ proc[p].probe \in Nat /\ clock \in Nat
  <2>1. proc[p] \in Proc /\ clock \in Nat
    BY SchedulerAssumption DEF TypeOK
  <2>2. proc[p].pc = "plan"
    BY DEF Plan
  <2> QED
    BY <2>1, <2>2 DEF Proc
<1>2. CASE MayFail(proc[p].probe) /\ Rest(p) /\ UNCHANGED overlap
  BY <1>1, <1>2, RestEnds
<1>3. ASSUME NEW c \in PickNext(proc[p].probe), c.key \in executed,
             Become(p, [proc[p] EXCEPT !.probe = NextProbe(c.key)])
      PROVE  proc'[p].pc = "plan" /\ proc'[p].probe = NextProbe(c.key)
  BY <1>1, <1>3 DEF Become, TypeOK, Proc
<1>4. ASSUME NEW c \in PickNext(proc[p].probe),
             Become(p, [proc[p] EXCEPT !.key = c.key, !.at = c.at, !.since = clock,
                                       !.pc = IF p \in Loops THEN "gate" ELSE "guard"])
      PROVE  /\ proc'[p].pc = IF p \in Loops THEN "gate" ELSE "guard"
             /\ proc'[p].key = c.key /\ proc'[p].at = c.at /\ proc'[p].since = clock
  BY <1>1, <1>4 DEF Become, TypeOK, Proc
<1> QED
  BY <1>1, <1>2, <1>3, <1>4 DEF Plan

LEMMA GateEnds ==
  ASSUME TypeOK, Roles, NEW p \in Procs, Gate(p)
  PROVE  \/ proc'[p].pc \in {"off", "sleep"}
         \/ /\ proc'[p].pc = "wait" /\ proc'[p].key = proc[p].key
            /\ proc'[p].at = proc[p].at /\ proc'[p].since = proc[p].since
<1>1. proc[p] \in Proc /\ proc[p].key \in Keys
  BY SchedulerAssumption DEF Gate, TypeOK, Roles, Fits, Chosen
<1>2. CASE Rest(p)
  BY <1>2, RestEnds
<1>3. CASE Become(p, [proc[p] EXCEPT !.pc = "wait", !.planned = proc[p].key])
  BY <1>1, <1>3 DEF Become, TypeOK, Proc
<1> QED
  BY <1>2, <1>3 DEF Gate

LEMMA RunEndsEnds ==
  ASSUME TypeOK, NEW p \in Procs \ Directs, RunEnds(p)
  PROVE  proc'[p].pc \in {"load", "report"} /\ proc'[p].key = proc[p].key
<1>1. PICK ok \in BOOLEAN :
        Become(p, [proc[p] EXCEPT !.ok = ok, !.pc = IF ok THEN "load" ELSE "report"])
  BY DEF RunEnds
<1> QED
  BY <1>1, RanFields DEF Become, TypeOK

LEMMA LoadEnds ==
  ASSUME TypeOK, NEW p \in Procs, Load(p)
  PROVE  proc'[p].pc = "write" /\ proc'[p].key = proc[p].key /\ proc'[p].mem = executed
<1>1. proc[p] \in Proc /\ proc \in [Procs -> Proc]
  BY DEF TypeOK
<1> QED
  BY <1>1 DEF Load, Become, Proc

LEMMA ResumeEnds ==
  ASSUME TypeOK, NEW p \in Procs, Resume(p)
  PROVE  proc'[p].pc = "plan" /\ proc'[p].probe = clock
<1>1. proc[p] \in Proc /\ proc \in [Procs -> Proc]
  BY DEF TypeOK
<1> QED
  BY <1>1 DEF Resume, Become, Proc

LEMMA EndsEnds == ASSUME TypeOK, NEW p \in Procs, Ends(p) PROVE proc'[p].pc = "off"
BY OffFields DEF Ends, Become, TypeOK

-----------------------------------------------------------------------------
(***************************************************************************)
(* The clock: a search never looks back, a loop wakes up at the very       *)
(* second it chose, and no second passes until it has started the scenario.*)
(***************************************************************************)

TimingOf(p) ==
  /\ proc[p].pc = "plan" => proc[p].probe >= clock
  /\ proc[p].pc = "guard" => proc[p].key.day >= Day(clock)
  /\ p \in Loops /\ proc[p].pc \in {"gate", "wait", "recheck", "guard"} =>
       /\ clock <= proc[p].at
       /\ Opens(proc[p].key) <= proc[p].at /\ proc[p].at < Closes(proc[p].key)
  /\ p \in Loops /\ proc[p].pc \in {"recheck", "guard"} => proc[p].at = clock

Timing == \A p \in Procs \ Directs : TimingOf(p)

LEMMA ActsTiming ==
  ASSUME TypeOK, Roles, NEW p \in Procs \ Directs, TimingOf(p), Acts(p)
  PROVE  TimingOf(p)'
<1>0. clock' = clock /\ clock \in Nat /\ proc[p] \in Proc /\ Fits(p, proc[p])
  BY OthersKeep, SchedulerAssumption DEF TypeOK, Roles
<1>1. CASE proc'[p].pc \in {"off", "run", "load", "write", "replace", "report", "sleep"}
  BY <1>1 DEF TimingOf
<1>2. CASE Start(p) \/ Resume(p)
  BY <1>0, <1>2, StartEnds, ResumeEnds DEF TimingOf
<1>3. CASE Plan(p)
  <2>1. proc[p].probe \in Nat /\ proc[p].probe >= clock
    BY <1>3, PlanEnds DEF TimingOf
  <2>2. ASSUME NEW c \in PickNext(proc[p].probe)
        PROVE  /\ c.at \in Nat /\ clock < c.at /\ c.key \in Keys
               /\ Opens(c.key) <= c.at /\ c.at < Closes(c.key) /\ c.at < NextProbe(c.key)
               /\ c.key.day >= Day(clock)
    <3>1. c.key \in Keys /\ c.key.day >= Day(proc[p].probe)
      BY <2>1, PickIsCandidate, DayType DEF Keys
    <3>2. Day(clock) <= Day(proc[p].probe)
      BY <1>0, <2>1, DayMonotone
    <3> QED
      BY <1>0, <2>1, <3>1, <3>2, PickInWindow, WindowInDay, DayType DEF NextProbe, Keys
  <2>3. ASSUME NEW c \in PickNext(proc[p].probe),
               proc'[p].pc = "plan", proc'[p].probe = NextProbe(c.key)
        PROVE  TimingOf(p)'
    BY <1>0, <2>2, <2>3, WindowInDay DEF TimingOf
  <2>4. ASSUME NEW c \in PickNext(proc[p].probe),
               proc'[p].pc = IF p \in Loops THEN "gate" ELSE "guard",
               proc'[p].key = c.key, proc'[p].at = c.at
        PROVE  TimingOf(p)'
    BY <1>0, <2>2, <2>4 DEF TimingOf
  <2> QED
    BY <1>1, <1>3, <2>3, <2>4, PlanEnds
<1>4. CASE Gate(p)
  BY <1>0, <1>1, <1>4, GateEnds DEF TimingOf, Gate
<1>5. CASE Wake(p)
  <2>1. proc'[p].pc = "recheck" /\ proc'[p].key = proc[p].key /\ proc'[p].at = proc[p].at
    BY <1>5, GotoEnds DEF Wake, Pc
  <2>2. proc[p].at \in Nat /\ clock >= proc[p].at /\ proc[p].pc = "wait"
    BY <1>0, <1>5 DEF Wake, Proc
  <2> QED
    BY <1>0, <2>1, <2>2 DEF TimingOf
<1>6. CASE Recheck(p) /\ Goto(p, "guard")
  <2>1. proc'[p].pc = "guard" /\ proc'[p].key = proc[p].key /\ proc'[p].at = proc[p].at
    BY <1>6, GotoEnds DEF Pc
  <2>2. p \in Loops /\ proc[p].pc = "recheck" /\ proc[p].key \in Keys
    BY <1>0, <1>6 DEF Recheck, Fits, Chosen, Executing, Procs
  <2>3. proc[p].at = clock /\ Opens(proc[p].key) <= clock /\ clock < Closes(proc[p].key)
    BY <2>2 DEF TimingOf
  <2>4. proc[p].key.day = Day(clock)
    <3>1. MakeDt(proc[p].key.day, 0) <= clock /\ clock < MakeDt(proc[p].key.day + 1, 0)
      BY <1>0, <2>2, <2>3, WindowInDay, MidnightType DEF NextProbe, Keys
    <3> QED
      BY <1>0, <2>2, <3>1, DayOf DEF Keys
  <2> QED
    BY <1>0, <2>1, <2>2, <2>3, <2>4, DayType DEF TimingOf
<1>7. CASE Recheck(p) /\ Rest(p)
  BY <1>1, <1>7, RestEnds
<1>8. CASE Guard(p) \/ RunRaises(p) \/ Write(p) \/ Replace(p) \/ Report(p)
  BY <1>1, <1>8, RestEnds, GotoEnds DEF Guard, RunRaises, Write, Replace, Report, Pc
<1>9. CASE RunEnds(p) \/ Load(p) \/ Ends(p)
  BY <1>1, <1>9, RunEndsEnds, LoadEnds, EndsEnds
<1> QED
  BY <1>2, <1>3, <1>4, <1>5, <1>6, <1>7, <1>8, <1>9 DEF Acts, StartDirect, Step, Recheck

LEMMA NextTiming ==
  ASSUME TypeOK, Roles, Timing, [Next]_vars
  PROVE  Timing'
<1>1. CASE UNCHANGED vars
  BY <1>1 DEF vars, Timing, TimingOf
<1>2. CASE Tick
  <2>1. ASSUME NEW p \in Procs \ Directs PROVE TimingOf(p)'
    <3>1. /\ proc'[p] = proc[p] /\ clock' = clock + 1 /\ clock \in Nat /\ proc[p] \in Proc
          /\ \/ proc[p].pc \in {"off", "run", "sleep"}
             \/ proc[p].pc = "wait" /\ clock < proc[p].at
      BY <1>2, SchedulerAssumption DEF Tick, TypeOK
    <3>2. proc[p].at \in Nat
      BY <3>1 DEF Proc
    <3> QED
      BY <3>1, <3>2 DEF Timing, TimingOf
  <2> QED
    BY <2>1 DEF Timing
<1>3. ASSUME NEW p \in Procs, Acts(p) PROVE Timing'
  <2>1. ASSUME NEW o \in Procs \ Directs, o # p PROVE TimingOf(o)'
    BY <1>3, <2>1, OthersKeep DEF Timing, TimingOf
  <2> QED
    BY <1>3, <2>1, ActsTiming DEF Timing
<1> QED
  BY <1>1, <1>2, <1>3 DEF Next, Acts

LEMMA InitTiming == Init => Timing
<1> SUFFICES ASSUME Init, NEW p \in Procs \ Directs PROVE TimingOf(p)
  BY DEF Timing
<1>1. proc[p].pc = "off"
  BY OffFields DEF Init
<1> QED
  BY <1>1 DEF TimingOf

\* The loop starts a scenario inside the window of its slot: for any slots,
\* any number of processes, restarts, failures and any time zone.
THEOREM RunsInWindowHolds == Spec => RunsInWindow
<1>1. Init => Timing
  BY InitTiming
<1>2. (TypeOK /\ Roles) /\ Timing /\ [Next]_vars => Timing'
  BY NextTiming
<1>3. Timing => \A p \in Loops :
        Begins(p) => clock >= Opens(proc[p].key) /\ clock < Closes(proc[p].key)
  <2> SUFFICES ASSUME Timing, NEW p \in Loops, Begins(p)
               PROVE  clock >= Opens(proc[p].key) /\ clock < Closes(proc[p].key)
    OBVIOUS
  <2>1. p \in Procs \ Directs /\ proc[p].pc = "guard"
    BY SchedulerAssumption DEF Begins, Guard, Procs
  <2> QED
    BY <2>1 DEF Timing, TimingOf
<1> QED
  BY <1>1, <1>2, <1>3, TypeCorrect, PTL DEF Spec, RunsInWindow

-----------------------------------------------------------------------------
(***************************************************************************)
(* The marks: as long as no two processes were between their check and     *)
(* their mark at once, what one of them read of executed_slots is what it  *)
(* overwrites.                                                             *)
(***************************************************************************)

Alone == \A p, q \in Procs : Committed(p) /\ Committed(q) => p = q

MarkingOf(p) ==
  /\ proc[p].pc = "guard" => proc[p].key \notin executed
  /\ proc[p].pc = "write" => proc[p].mem = executed
  /\ proc[p].pc = "replace" =>
       temp = {k \in executed \cup {proc[p].key} : k.day >= Day(clock + UtcOffset)}

MarkInv ==
  \/ overlap
  \/ /\ Alone
     /\ executed \subseteq marked
     /\ \A p \in Procs \ Directs : MarkingOf(p)

\* A process that is neither at its check nor at its mark touches no file.
LEMMA UncommittedActs ==
  ASSUME TypeOK, Roles, NEW p \in Procs, Acts(p), ~Committed(p)
  PROVE  UNCHANGED <<executed, temp, marked>>
<1>1. ~Write(p) /\ ~Replace(p) /\ ~Load(p)
  BY DEF Committed, Write, Replace, Load, Roles, Fits
<1> QED
  BY <1>1 DEF Acts, Start, StartDirect, Step, Ends, Plan, Gate, Wake, Recheck, Guard, RunEnds,
     RunRaises, Report, Resume

\* A process gets between its check and its mark by its check only.
LEMMA Commits ==
  ASSUME TypeOK, Roles, NEW p \in Procs, Acts(p), ~Committed(p), Committed(p)'
  PROVE  /\ Commit(p) /\ proc'[p].pc = "guard" /\ proc'[p].key \notin executed
<1>0. p \notin Directs
  BY DEF Committed
<1>1. CASE Plan(p)
  <2>1. proc'[p].pc \in {"guard", "run", "load", "write", "replace"}
    BY DEF Committed
  <2>2. p \notin Loops
    BY <1>1, <2>1, PlanEnds
  <2> QED
    BY <1>1, <2>1, <2>2, PlanEnds
<1>2. CASE Recheck(p)
  BY <1>2, RestEnds, GotoEnds DEF Recheck, Committed, Pc
<1>3. CASE Start(p) \/ Gate(p) \/ Wake(p) \/ RunRaises(p) \/ Report(p) \/ Resume(p) \/ Ends(p)
  BY <1>3, StartEnds, GateEnds, GotoEnds, RestEnds, ResumeEnds, EndsEnds
  DEF Committed, Wake, RunRaises, Report, Pc
<1>4. CASE Guard(p) \/ RunEnds(p) \/ Load(p) \/ Write(p) \/ Replace(p)
  BY <1>0, <1>4 DEF Committed, Guard, RunEnds, Load, Write, Replace
<1> QED
  BY <1>0, <1>1, <1>2, <1>3, <1>4 DEF Acts, StartDirect, Step

\* What a process does between its check and its mark.
LEMMA CommittedActs ==
  ASSUME TypeOK, Roles, NEW p \in Procs, Acts(p), Committed(p), MarkingOf(p),
         executed \subseteq marked
  PROVE  MarkingOf(p)' /\ executed' \subseteq marked'
<1>0. clock' = clock /\ p \notin Directs
  BY OthersKeep DEF Committed
<1>1. CASE proc'[p].pc \notin {"guard", "write", "replace"} /\ UNCHANGED <<executed, marked>>
  BY <1>1 DEF MarkingOf
<1>2. CASE Guard(p) \/ RunRaises(p)
  BY <1>1, <1>2, RestEnds, GotoEnds DEF Guard, RunRaises, Pc
<1>3. CASE RunEnds(p) \/ Ends(p)
  BY <1>0, <1>1, <1>3, RunEndsEnds, EndsEnds DEF RunEnds, Ends
<1>4. CASE Load(p)
  BY <1>4, LoadEnds DEF Load, MarkingOf
<1>5. CASE Write(p)
  <2>1. proc'[p].pc = "replace" /\ proc'[p].key = proc[p].key
    BY <1>5, GotoEnds DEF Write, Pc
  <2>2. proc[p].mem = executed
    BY <1>5 DEF Write, MarkingOf
  <2> QED
    BY <1>0, <1>5, <2>1, <2>2 DEF Write, MarkingOf
<1>6. CASE Replace(p) /\ temp = None
  BY <1>1, <1>6, RestEnds DEF Replace
<1>7. CASE Replace(p) /\ temp # None
  <2>1. proc'[p].pc = "report"
    BY <1>7, GotoEnds DEF Replace, Pc
  <2>2. executed' = temp /\ marked' = marked \cup {proc[p].key}
    BY <1>7 DEF Replace
  <2> QED
    BY <1>7, <2>1, <2>2 DEF Replace, MarkingOf
<1> QED
  BY <1>2, <1>3, <1>4, <1>5, <1>6, <1>7
  DEF Acts, Committed, Start, StartDirect, Step, Plan, Gate, Wake, Recheck, Report, Resume

LEMMA OverlapStays ==
  ASSUME TypeOK, NEW p \in Procs, Acts(p)
  PROVE  overlap => overlap'
<1>1. UNCHANGED overlap \/ Commit(p)
  BY PlanEnds DEF Acts, Start, StartDirect, Step, Ends, Gate, Wake, Recheck, Guard, RunEnds,
     RunRaises, Load, Write, Replace, Report, Resume
<1>2. CASE UNCHANGED overlap
  BY <1>2, Zenon
<1>3. CASE Commit(p)
  BY <1>3, Zenon DEF Commit
<1> QED
  BY <1>1, <1>2, <1>3

LEMMA NextMarks ==
  ASSUME TypeOK, Roles, MarkInv, [Next]_vars
  PROVE  MarkInv'
<1>1. CASE UNCHANGED vars
  BY <1>1 DEF vars, MarkInv, Alone, Committed, MarkingOf
<1>2. CASE Tick
  BY <1>2 DEF Tick, MarkInv, Alone, Committed, MarkingOf
<1>3. ASSUME NEW p \in Procs, Acts(p) PROVE MarkInv'
  <2> SUFFICES ASSUME ~overlap' PROVE MarkInv'
    BY DEF MarkInv
  <2>1. ~overlap /\ Alone /\ executed \subseteq marked /\ \A o \in Procs \ Directs : MarkingOf(o)
    BY <1>3, OverlapStays DEF MarkInv
  <2>2. clock' = clock /\ \A o \in Procs \ {p} : proc'[o] = proc[o]
    BY <1>3, OthersKeep
  <2>3. CASE Committed(p)
    <3>1. \A o \in Procs \ {p} : ~Committed(o)
      BY <2>1, <2>3 DEF Alone
    <3>2. MarkingOf(p)' /\ executed' \subseteq marked'
      BY <1>3, <2>1, <2>3, CommittedActs DEF Committed
    <3>3. \A o \in Procs \ {p} : ~Committed(o)'
      BY <2>2, <3>1 DEF Committed
    <3>4. \A o \in Procs \ Directs : o # p => MarkingOf(o)'
      BY <3>3 DEF Committed, MarkingOf
    <3> QED
      BY <3>2, <3>3, <3>4 DEF MarkInv, Alone
  <2>4. CASE ~Committed(p)
    <3>1. UNCHANGED <<executed, temp, marked>>
      BY <1>3, <2>4, UncommittedActs
    <3>2. \A o \in Procs \ Directs : o # p => MarkingOf(o)'
      BY <2>1, <2>2, <3>1 DEF MarkingOf
    <3>3. CASE Committed(p)'
      <4>1. Commit(p) /\ proc'[p].pc = "guard" /\ proc'[p].key \notin executed
        BY <1>3, <2>4, <3>3, Commits
      <4>2. \A o \in Procs \ {p} : ~Committed(o)'
        BY <2>2, <4>1 DEF Commit, Committed
      <4> QED
        BY <2>1, <3>1, <3>2, <4>1, <4>2 DEF MarkInv, Alone, MarkingOf
    <3>4. CASE ~Committed(p)'
      <4>1. \A o \in Procs \ {p} : Committed(o)' => Committed(o)
        BY <2>2 DEF Committed
      <4>2. p \notin Directs => MarkingOf(p)'
        BY <3>4 DEF Committed, MarkingOf
      <4> QED
        BY <2>1, <3>1, <3>2, <3>4, <4>1, <4>2 DEF MarkInv, Alone
    <3> QED
      BY <3>3, <3>4
  <2> QED
    BY <2>3, <2>4
<1> QED
  BY <1>1, <1>2, <1>3 DEF Next, Acts

LEMMA InitMarks == Init => MarkInv
<1> SUFFICES ASSUME Init PROVE MarkInv
  OBVIOUS
<1>1. \A p \in Procs : proc[p].pc = "off"
  BY OffFields DEF Init
<1> QED
  BY <1>1 DEF Init, MarkInv, Alone, Committed, MarkingOf

LEMMA NextMarksStay ==
  ASSUME UtcOffset <= 0, TypeOK, Roles, MarkInv, MarkInv', MarksStay, [Next]_vars
  PROVE  MarksStay'
<1>0. clock \in Nat /\ UtcOffset \in Int /\ marked \in SUBSET Keys
  BY SchedulerAssumption DEF TypeOK
<1>1. CASE UNCHANGED vars
  BY <1>1 DEF vars, MarksStay
<1>2. CASE Tick
  <2>1. Day(clock) <= Day(clock + 1)
    BY <1>0, DayMonotone
  <2> QED
    BY <1>0, <1>2, <2>1, DayType DEF Tick, MarksStay, Keys
<1>3. ASSUME NEW p \in Procs, Acts(p) PROVE MarksStay'
  <2>1. clock' = clock /\ (overlap => overlap')
    BY <1>3, OverlapStays, OthersKeep
  <2>2. CASE Replace(p) /\ temp # None /\ ~overlap
    <3>1. executed' = temp /\ marked' = marked \cup {proc[p].key} /\ proc[p].pc = "replace"
      BY <2>2 DEF Replace
    <3>2. p \notin Directs /\ proc[p].key \in Keys
      BY <3>1 DEF Roles, Fits, Chosen, Executing
    <3>3. temp = {k \in executed \cup {proc[p].key} : k.day >= Day(clock + UtcOffset)}
      BY <2>2, <3>1, <3>2 DEF MarkInv, MarkingOf
    <3>4. Day(clock + UtcOffset) <= Day(clock)
      BY <1>0, DayMonotone
    <3>5. Day(clock) \in Int /\ Day(clock + UtcOffset) \in Int /\ \A k \in Keys : k.day \in Int
      BY <1>0, DayType DEF Keys
    <3> QED
      BY <1>0, <2>1, <2>2, <3>1, <3>2, <3>3, <3>4, <3>5 DEF MarksStay
  <2>3. CASE Replace(p) /\ temp = None
    BY <2>1, <2>3 DEF Replace, MarksStay
  <2>4. CASE ~Replace(p)
    BY <1>3, <2>1, <2>4 DEF MarksStay, Acts, Start, StartDirect, Step, Ends, Plan, Gate, Wake,
       Recheck, Guard, RunEnds, RunRaises, Load, Write, Report, Resume
  <2>5. CASE overlap
    BY <2>1, <2>5 DEF MarksStay
  <2> QED
    BY <2>2, <2>3, <2>4, <2>5
<1> QED
  BY <1>1, <1>2, <1>3 DEF Next, Acts

\* East of UTC a mark stays in executed_slots as long as its day lasts.
THEOREM MarksStayHolds == ASSUME UtcOffset <= 0 PROVE Spec => []MarksStay
<1>1. Init => MarkInv /\ MarksStay
  BY InitMarks DEF Init, MarksStay
<1>2. (TypeOK /\ Roles) /\ (MarkInv /\ MarksStay) /\ [Next]_vars => (MarkInv /\ MarksStay)'
  BY NextMarks, NextMarksStay
<1> QED
  BY <1>1, <1>2, TypeCorrect, PTL DEF Spec

\* East of UTC neither the loop nor run-next runs a slot that was marked
\* today, through failures, crashes and restarts, for any number of them.
THEOREM NoSecondRunHolds == ASSUME UtcOffset <= 0 PROVE Spec => NoSecondRun
<1>1. Init => MarkInv /\ Timing
  BY InitMarks, InitTiming
<1>2. (TypeOK /\ Roles) /\ (MarkInv /\ Timing) /\ [Next]_vars => (MarkInv /\ Timing)'
  BY NextMarks, NextTiming
<1>3. (TypeOK /\ Roles) /\ (MarkInv /\ Timing) /\ MarksStay
        => \A p \in Procs : Begins(p) => proc[p].key \notin marked \/ overlap
  <2> SUFFICES ASSUME TypeOK, Roles, MarkInv, Timing, MarksStay, NEW p \in Procs, Begins(p),
                      ~overlap, proc[p].key \in marked
               PROVE  FALSE
    OBVIOUS
  <2>1. proc[p].pc = "guard" /\ p \notin Directs
    BY DEF Begins, Guard, Roles, Fits
  <2>2. proc[p].key \notin executed /\ proc[p].key.day >= Day(clock) /\ proc[p].key \in Keys
    BY <2>1 DEF MarkInv, MarkingOf, Timing, TimingOf, Roles, Fits, Chosen, Executing
  <2> QED
    BY <2>2, DayType, SchedulerAssumption DEF MarksStay, Keys, TypeOK
<1> QED
  BY <1>1, <1>2, <1>3, TypeCorrect, MarksStayHolds, PTL DEF Spec, NoSecondRun

-----------------------------------------------------------------------------
(***************************************************************************)
(* The search: of the windows that opened after it began, those that it is *)
(* past were opened before the end of a slot that is done.                 *)
(***************************************************************************)

Skips(done, since, limit) ==
  \A d \in Nat : \A s \in SlotsOn(d) :
    LET k == ToKey(s, d) IN
      since < Opens(k) /\ Opens(k) < Closes(k) /\ Closes(k) <= limit
      => \E x \in done : x.day = d /\ Opens(k) <= NextProbe(x)

\* Where the search that began at time now may be.
Searching(done, now, probe) ==
  /\ Skips(done, now, probe)
  /\ probe = now \/ \E x \in done : probe = NextProbe(x)

SearchOf(p) ==
  /\ proc[p].pc = "plan" => Searching(marked, clock, proc[p].probe)
  /\ proc[p].pc \in {"gate", "wait"} => Skips(marked, proc[p].since, proc[p].at)

SearchInv == overlap \/ \A p \in Loops : SearchOf(p)

LEMMA SameDay ==
  ASSUME NEW k \in Keys, NEW x \in Keys, NEW t \in Int,
         MakeDt(x.day, 0) <= t, t < MakeDt(x.day + 1, 0), Opens(k) <= t, t <= Closes(k)
  PROVE  k.day = x.day
<1>1. k.day \in Nat /\ x.day \in Nat
  BY DEF Keys
<1>2. MakeDt(k.day, 0) <= t /\ t < MakeDt(k.day + 1, 0)
  BY <1>1, WindowInDay, MidnightType DEF NextProbe
<1> QED
  BY <1>1, <1>2, DayOf

LEMMA SkipsGrow ==
  ASSUME NEW done, NEW more, done \subseteq more, NEW since, NEW limit,
         Skips(done, since, limit)
  PROVE  Skips(more, since, limit)
BY DEF Skips

\* A window that is open where the search is was opened before the end of the
\* slot behind which the search went on.
LEMMA OpenWindow ==
  ASSUME NEW done \in SUBSET Keys, NEW now \in Nat, NEW probe \in Nat,
         Searching(done, now, probe), NEW d \in Nat, NEW s \in SlotsOn(d),
         now < Opens(ToKey(s, d)), Opens(ToKey(s, d)) < Closes(ToKey(s, d)),
         Opens(ToKey(s, d)) <= probe
  PROVE  \E x \in done : x.day = d /\ Opens(ToKey(s, d)) <= NextProbe(x)
<1> DEFINE k == ToKey(s, d)
<1>1. k \in Keys /\ k.day = d /\ Opens(k) \in Nat /\ Closes(k) \in Nat
  BY WindowInDay DEF ToKey, Keys, SlotsOn
<1>2. PICK x \in done : probe = NextProbe(x)
  BY <1>1 DEF Searching
<1>3. CASE Closes(k) <= probe
  BY <1>1, <1>3 DEF Searching, Skips
<1>4. CASE probe < Closes(k)
  <2>1. MakeDt(x.day, 0) <= probe /\ probe < MakeDt(x.day + 1, 0)
    BY <1>2, WindowInDay, MidnightType DEF NextProbe, Keys
  <2> QED
    BY <1>1, <1>2, <1>4, <2>1, SameDay
<1> QED
  BY <1>1, <1>3, <1>4

LEMMA SkipsToPick ==
  ASSUME NEW done \in SUBSET Keys, NEW now \in Nat, NEW probe \in Nat,
         Searching(done, now, probe), NEW c \in PickNext(probe)
  PROVE  Skips(done, now, c.at)
<1> SUFFICES ASSUME NEW d \in Nat, NEW s \in SlotsOn(d),
                    now < Opens(ToKey(s, d)), Opens(ToKey(s, d)) < Closes(ToKey(s, d)),
                    Closes(ToKey(s, d)) <= c.at
             PROVE  \E x \in done : x.day = d /\ Opens(ToKey(s, d)) <= NextProbe(x)
  BY DEF Skips
<1>1. ToKey(s, d) \in Keys /\ Opens(ToKey(s, d)) \in Nat /\ Closes(ToKey(s, d)) \in Nat
  BY WindowInDay DEF ToKey, Keys, SlotsOn
<1>2. Opens(ToKey(s, d)) <= probe
  BY <1>1, PickIsEarliest, PickInWindow
<1> QED
  BY <1>2, OpenWindow

LEMMA SkipsPastPick ==
  ASSUME NEW done \in SUBSET Keys, NEW now \in Nat, NEW probe \in Nat,
         Searching(done, now, probe), NEW c \in PickNext(probe), c.key \in done
  PROVE  Searching(done, now, NextProbe(c.key))
<1> SUFFICES ASSUME NEW d \in Nat, NEW s \in SlotsOn(d),
                    now < Opens(ToKey(s, d)), Opens(ToKey(s, d)) < Closes(ToKey(s, d)),
                    Closes(ToKey(s, d)) <= NextProbe(c.key)
             PROVE  \E x \in done : x.day = d /\ Opens(ToKey(s, d)) <= NextProbe(x)
  BY DEF Searching, Skips
<1> DEFINE k == ToKey(s, d)
<1>1. k \in Keys /\ k.day = d /\ Opens(k) \in Nat /\ Closes(k) \in Nat
  BY WindowInDay DEF ToKey, Keys, SlotsOn
<1>2. CASE Opens(k) <= probe
  BY <1>2, OpenWindow
<1>3. CASE probe < Opens(k)
  <2>1. c.at < Closes(k) /\ c.at \in Nat /\ Opens(c.key) <= c.at
    BY <1>3, PickIsEarliest, PickInWindow
  <2>2. c.key \in Keys /\ c.key.day \in Nat
    BY DEF Keys
  <2>3. MakeDt(c.key.day, 0) <= Closes(k) /\ Closes(k) < MakeDt(c.key.day + 1, 0)
    BY <1>1, <2>1, <2>2, WindowInDay, MidnightType
  <2>4. k.day = c.key.day
    BY <1>1, <2>2, <2>3, SameDay
  <2> QED
    BY <1>1, <2>2, <2>4, WindowInDay
<1> QED
  BY <1>1, <1>2, <1>3

LEMMA ActsSearch ==
  ASSUME TypeOK, Roles, NEW p \in Loops, SearchOf(p), executed \subseteq marked,
         marked \subseteq marked', Acts(p)
  PROVE  SearchOf(p)'
<1>0. /\ clock' = clock /\ clock \in Nat /\ p \in Procs /\ p \notin Directs
      /\ proc[p] \in Proc /\ marked \in SUBSET Keys
  BY OthersKeep, SchedulerAssumption DEF TypeOK, Procs
<1>1. CASE proc'[p].pc \notin {"plan", "gate", "wait"}
  BY <1>1 DEF SearchOf
<1>2. CASE Start(p) \/ Resume(p)
  <2>1. proc'[p].pc = "plan" /\ proc'[p].probe = clock
    BY <1>0, <1>2, StartEnds, ResumeEnds
  <2>2. Skips(marked', clock, clock)
    BY <1>0, WindowInDay DEF Skips, ToKey, Keys, SlotsOn
  <2> QED
    BY <1>0, <2>1, <2>2 DEF SearchOf, Searching
<1>3. CASE Plan(p)
  <2>1. proc[p].probe \in Nat /\ Searching(marked, clock, proc[p].probe) /\ marked' = marked
    BY <1>0, <1>3, PlanEnds DEF SearchOf, Plan
  <2>2. ASSUME NEW c \in PickNext(proc[p].probe), c.key \in executed,
               proc'[p].pc = "plan", proc'[p].probe = NextProbe(c.key)
        PROVE  SearchOf(p)'
    BY <1>0, <2>1, <2>2, SkipsPastPick DEF SearchOf
  <2>3. ASSUME NEW c \in PickNext(proc[p].probe), proc'[p].pc = "gate",
               proc'[p].since = clock, proc'[p].at = c.at
        PROVE  SearchOf(p)'
    BY <1>0, <2>1, <2>3, SkipsToPick DEF SearchOf
  <2> QED
    BY <1>0, <1>1, <1>3, <2>2, <2>3, PlanEnds
<1>4. CASE Gate(p)
  <2>1. marked' = marked /\ proc[p].pc = "gate"
    BY <1>4 DEF Gate
  <2> QED
    BY <1>0, <1>1, <1>4, <2>1, GateEnds DEF SearchOf
<1>5. CASE \/ Wake(p) \/ Recheck(p) \/ Guard(p) \/ RunRaises(p)
           \/ Write(p) \/ Replace(p) \/ Report(p)
  BY <1>0, <1>1, <1>5, RestEnds, GotoEnds
  DEF Wake, Recheck, Guard, RunRaises, Write, Replace, Report, Pc
<1>6. CASE RunEnds(p) \/ Load(p) \/ Ends(p)
  BY <1>0, <1>1, <1>6, RunEndsEnds, LoadEnds, EndsEnds
<1> QED
  BY <1>0, <1>2, <1>3, <1>4, <1>5, <1>6 DEF Acts, StartDirect, Step

LEMMA NextSearch ==
  ASSUME TypeOK, Roles, MarkInv, SearchInv, [Next]_vars
  PROVE  SearchInv'
<1>1. CASE UNCHANGED vars
  BY <1>1 DEF vars, SearchInv, SearchOf
<1>2. CASE Tick
  <2>1. \A p \in Loops : proc[p].pc # "plan" /\ proc' = proc /\ marked' = marked
    BY <1>2 DEF Tick, Procs
  <2>2. overlap' = overlap
    BY <1>2 DEF Tick
  <2> QED
    BY <2>1, <2>2 DEF SearchInv, SearchOf
<1>3. ASSUME NEW p \in Procs, Acts(p) PROVE SearchInv'
  <2> SUFFICES ASSUME ~overlap' PROVE SearchInv'
    BY DEF SearchInv
  <2>1. executed \subseteq marked /\ \A o \in Loops : SearchOf(o)
    BY <1>3, OverlapStays DEF MarkInv, SearchInv
  <2>2. marked \subseteq marked'
    BY <1>3 DEF Acts, Start, StartDirect, Step, Ends, Plan, Gate, Wake, Recheck, Guard, RunEnds,
       RunRaises, Load, Write, Replace, Report, Resume
  <2>3. clock' = clock /\ \A o \in Procs \ {p} : proc'[o] = proc[o]
    BY <1>3, OthersKeep
  <2>4. ASSUME NEW o \in Loops, o # p PROVE SearchOf(o)'
    <3>1. proc'[o] = proc[o]
      BY <2>3, <2>4 DEF Procs
    <3> QED
      BY <2>1, <2>2, <2>3, <3>1, SkipsGrow DEF SearchOf, Searching
  <2> QED
    BY <1>3, <2>1, <2>2, <2>4, ActsSearch DEF SearchInv
<1> QED
  BY <1>1, <1>2, <1>3 DEF Next, Acts

LEMMA InitSearch == Init => SearchInv
<1> SUFFICES ASSUME Init, NEW p \in Loops PROVE SearchOf(p)
  BY DEF SearchInv
<1>1. proc[p].pc = "off"
  BY OffFields DEF Init, Procs
<1> QED
  BY <1>1 DEF SearchOf

LEMMA SearchSuffices == TypeOK /\ SearchInv => NoWindowSleptThrough
<1> SUFFICES ASSUME TypeOK, SearchInv, NEW p \in Loops, proc[p].pc = "wait", ~overlap,
                    NEW d \in Day(proc[p].since) .. Day(proc[p].at), NEW s \in SlotsOn(d),
                    proc[p].since < Opens(ToKey(s, d)),
                    Opens(ToKey(s, d)) < Closes(ToKey(s, d)),
                    Closes(ToKey(s, d)) <= proc[p].at
             PROVE  \E x \in marked : x.day = d /\ Opens(ToKey(s, d)) <= NextProbe(x)
  BY DEF NoWindowSleptThrough
<1>1. proc[p].since \in Nat /\ proc[p].at \in Nat
  BY DEF TypeOK, Proc, Procs
<1>2. d \in Nat
  BY <1>1, DayType
<1> QED
  BY <1>2 DEF SearchInv, SearchOf, Skips

\* While the loop waits it lets no window that opened after its choice go by,
\* but those that opened before the end of a slot that is done: for any slots
\* and any time zone.
THEOREM NoWindowSleptThroughHolds == Spec => []NoWindowSleptThrough
<1>1. Init => MarkInv /\ SearchInv
  BY InitMarks, InitSearch
<1>2. (TypeOK /\ Roles) /\ (MarkInv /\ SearchInv) /\ [Next]_vars => (MarkInv /\ SearchInv)'
  BY NextMarks, NextSearch
<1>3. (TypeOK /\ Roles) /\ (MarkInv /\ SearchInv) => NoWindowSleptThrough
  BY SearchSuffices
<1> QED
  BY <1>1, <1>2, <1>3, TypeCorrect, PTL DEF Spec

-----------------------------------------------------------------------------
(* What the API shows as running *)

LEMMA NextRunning ==
  ASSUME TypeOK, Roles, RunningIsTrue, [Next]_vars
  PROVE  RunningIsTrue'
<1> USE DEF RunningIsTrue
<1>1. CASE UNCHANGED vars \/ Tick
  BY <1>1 DEF vars, Tick
<1>2. ASSUME NEW p \in Procs, Acts(p) PROVE RunningIsTrue'
  <2>0. \A o \in Procs \ {p} : proc'[o] = proc[o]
    BY <1>2, OthersKeep
  <2>1. CASE orphan'
    BY <2>1
  <2>2. CASE next' = None \/ next'.status # "running"
    BY <2>2
  <2>3. CASE StartDirect(p)
    <3>1. PICK key : Save(key, "running") /\ proc'[p].pc = "run" /\ proc'[p].key = key
      BY <2>3 DEF StartDirect, Become, TypeOK, Off
    <3> QED
      BY <3>1 DEF Save
  <2>4. CASE Guard(p)
    BY <2>2, <2>4, GotoEnds DEF Guard, Save, Pc
  <2>5. CASE /\ UNCHANGED <<next, orphan>>
             /\ \/ proc[p].pc \notin {"run", "load", "write", "replace", "report"}
                \/ /\ proc'[p].pc \in {"run", "load", "write", "replace", "report"}
                   /\ proc'[p].key = proc[p].key
    BY <2>0, <2>5
  <2>6. CASE RunEnds(p)
    BY <2>1, <2>5, <2>6, RunEndsEnds DEF RunEnds
  <2>7. CASE Load(p) \/ Write(p)
    BY <2>5, <2>7, LoadEnds, GotoEnds DEF Load, Write, Pc
  <2>8. CASE Replace(p)
    BY <2>1, <2>5, <2>8, GotoEnds DEF Replace, Pc
  <2>9. CASE Ends(p)
    <3>1. CASE proc[p].pc \in {"run", "load", "write", "replace", "report"}
      <4>1. Committed(p) \/ proc[p].pc \in {"run", "report"}
        BY <3>1 DEF Committed, Roles, Fits
      <4>2. orphan'
        BY <2>9, <4>1 DEF Ends
      <4> QED
        BY <4>2, <2>1
    <3>2. CASE proc[p].pc \notin {"run", "load", "write", "replace", "report"}
      <4>1. orphan => orphan'
        BY <2>9, Zenon DEF Ends
      <4> QED
        BY <2>0, <2>9, <3>2, <4>1 DEF Ends
    <3> QED
      BY <3>1, <3>2
  <2>10. CASE Gate(p) \/ Recheck(p) \/ Report(p)
    BY <2>2, <2>5, <2>10 DEF Gate, Recheck, Report, Save
  <2>11. CASE Start(p) \/ Plan(p) \/ Wake(p) \/ Resume(p)
    BY <2>5, <2>11 DEF Start, Plan, Wake, Resume
  <2>12. CASE RunRaises(p)
    BY <2>1, <2>12 DEF RunRaises
  <2> QED
    BY <1>2, <2>3, <2>4, <2>6, <2>7, <2>8, <2>9, <2>10, <2>11, <2>12 DEF Acts, Step
<1> QED
  BY <1>1, <1>2 DEF Next, Acts

\* What next_execution says is running is running, unless a process was cut
\* off before its report: for any number of processes, two loops at once
\* included.
THEOREM RunningIsTrueHolds == Spec => []RunningIsTrue
<1>1. Init => RunningIsTrue
  BY DEF Init, RunningIsTrue
<1>2. (TypeOK /\ Roles) /\ RunningIsTrue /\ [Next]_vars => RunningIsTrue'
  BY NextRunning
<1> QED
  BY <1>1, <1>2, TypeCorrect, PTL DEF Spec

=============================================================================
