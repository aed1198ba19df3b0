--------------------------- MODULE ScenarioEngine ---------------------------
(***************************************************************************)
(* One run of a scenario (scenarios/runner.py, scenarios/engine.py): the   *)
(* hooks and the steps, the blocks of the DSL, retries, timeouts,          *)
(* conditions and continue_on_error, the browser that is handed from step  *)
(* to step, and the events that the live view of a job shows.              *)
(*                                                                         *)
(* The Python call stack is explicit. A "list" frame is a sequence of      *)
(* steps with the browser it holds; a "step" frame is a call of            *)
(* _execute_scenario_step. What an operation does is its outcome; the      *)
(* context is reduced to the value of each condition, chosen when it is    *)
(* evaluated, and to its keys __driver__ and __step_swallowed_error__.     *)
(***************************************************************************)
EXTENDS Integers, Sequences

CONSTANTS
  Steps,       \* the steps of the scenarios
  Def,         \* the definition of each step
  Plans,       \* the scenarios: the steps of each phase
  None,        \* null value
  MaxBrowsers  \* bound: a browser beyond it does not start

Phases == {"before", "steps", "success", "failure", "finally"}
Blocks == {"group", "repeat", "parallel", "try"}
Kinds  == {"plain", "browser", "close"} \cup Blocks

\* body: steps, or try_steps; catch, last: catch_steps and finally_steps of a
\* try block; tolerant: continue_on_error.
StepDef == [kind : Kinds, cond : BOOLEAN, retry : Nat, timed : BOOLEAN, tolerant : BOOLEAN,
            times : Nat, body : Seq(Steps), catch : Seq(Steps), last : Seq(Steps)]

In(list)  == {list[i] : i \in DOMAIN list}
Within(s) == In(Def[s].body) \cup In(Def[s].catch) \cup In(Def[s].last)

ASSUME EngineAssumption ==
  /\ None \notin Steps /\ None \notin 1..MaxBrowsers
  /\ Def \in [Steps -> StepDef]
  /\ Plans \subseteq [Phases -> Seq(Steps)]
  /\ MaxBrowsers \in Nat
  \* What the loader refuses.
  /\ \A s \in Steps :
       /\ Def[s].kind = "repeat" => Def[s].times > 0
       /\ Def[s].kind = "parallel" => \A i \in DOMAIN Def[s].body : Def[Def[s].body[i]].kind = "plain"

\* A step is what stands at one place of a document: in one block, or at one
\* place of one phase.
ASSUME PlaceAssumption ==
  /\ \A s, t \in Steps : s # t => Within(s) \cap Within(t) = {}
  /\ \A p \in Plans :
       /\ \A x, y \in Phases : \A i \in DOMAIN p[x], j \in DOMAIN p[y] :
            p[x][i] = p[y][j] => x = y /\ i = j
       /\ \A x \in Phases, s \in Steps : In(p[x]) \cap Within(s) = {}

VARIABLES
  plan,    \* the scenario
  dry,     \* dry_run
  phase,   \* the hook that is executed, or "over"
  stack,   \* the calls; the last one is running
  ctl,     \* what it does: go on, take a returned browser, take an exception
  val,     \* the returned browser
  held,    \* run_task: driver
  kept,    \* context["__driver__"]
  flag,    \* context["__step_swallowed_error__"] is set
  open,    \* browsers that are open
  made,    \* number of browsers created
  result,  \* what run_task returns, or "raised"
  shown,   \* the last event of each step
  fate,    \* history: how each step last ended
  broke,   \* history: the phases that raised, and the quit after them
  upset    \* history: a nested step was skipped, or an exception left a block or a hook

run  == <<plan, dry>>
hist == <<broke, upset>>
vars == <<plan, dry, phase, stack, ctl, val, held, kept, flag, open, made, result,
          shown, fate, broke, upset>>

Browsers == 1..MaxBrowsers
Driver   == Browsers \cup {None}

\* stage: where a block is; round: of a repeat; upd: updated_driver; failed: a
\* try block that raises once its finally_steps are done. at: the next step of
\* a list, or the number of the attempt of a step.
Frame == [is : {"list", "step"}, step : Steps \cup {None}, list : Seq(Steps), at : Nat,
          drv : Driver, upd : Driver, stage : {"start", "body", "catch", "last"},
          round : Nat, failed : BOOLEAN]

TypeOK ==
  /\ plan \in Plans
  /\ dry \in BOOLEAN
  /\ phase \in Phases \cup {"over"}
  /\ stack \in Seq(Frame)
  /\ ctl \in {"go", "back", "raise"}
  /\ {val, held, kept} \subseteq Driver
  /\ flag \in BOOLEAN
  /\ open \subseteq 1..made
  /\ made \in 0..MaxBrowsers
  /\ result \in {"none", "success", "failure", "raised"}
  /\ shown \in [Steps -> {"none", "started", "succeeded", "failed", "skipped", "retrying"}]
  /\ fate \in [Steps -> {"none", "ok", "error", "swallowed", "skipped"}]
  /\ broke \subseteq Phases \cup {"quit"}
  /\ upset \in BOOLEAN

-----------------------------------------------------------------------------
List(list, drv) == [is |-> "list", step |-> None, list |-> list, at |-> 1, drv |-> drv,
                    upd |-> None, stage |-> "start", round |-> 0, failed |-> FALSE]
Call(s, drv)    == [is |-> "step", step |-> s, list |-> <<>>, at |-> 1, drv |-> drv,
                    upd |-> drv, stage |-> "start", round |-> 0, failed |-> FALSE]

Depth  == Len(stack)
Top    == stack[Depth]
Under  == SubSeq(stack, 1, Depth - 1)
Child  == Top.list[Top.at]  \* the current step of a list
Self   == Def[Top.step]     \* the definition of a step frame
Running(is, how) == phase # "over" /\ Top.is = is /\ ctl = how

Show(s, event) == shown' = [shown EXCEPT ![s] = event]
Fate(s, end)   == fate' = [fate EXCEPT ![s] = end]
Replace(f)     == stack' = Append(Under, f)
Push(f, g)     == stack' = Under \o <<f, g>>
Return(d)      == stack' = Under /\ ctl' = "back" /\ val' = d
Raise          == ctl' = "raise" /\ UNCHANGED val

\* _requires_driver: close_browser, too, starts a browser when there is none.
Launches(kind, drv) == ~dry /\ kind \in {"browser", "close"} /\ drv = None

Enter(p, drv) ==
  /\ phase' = p
  /\ stack' = <<List(plan[p], drv)>>
  /\ ctl' = "go"

Init ==
  /\ plan \in Plans
  /\ dry \in BOOLEAN
  /\ phase = "before"
  /\ stack = <<List(plan["before"], None)>>
  /\ ctl = "go"
  /\ val = None
  /\ held = None
  /\ kept = None
  /\ flag = FALSE
  /\ open = {}
  /\ made = 0
  /\ result = "none"
  /\ shown = [s \in Steps |-> "none"]
  /\ fate = [s \in Steps |-> "none"]
  /\ broke = {}
  /\ upset = FALSE

-----------------------------------------------------------------------------
(* The loops over steps                                                    *)

BadSkipTop ==  \* an event that the live view does not know
  /\ Running("list", "go") /\ Depth = 1 /\ Top.at <= Len(Top.list)
  /\ Def[Child].cond
  /\ Show(Child, "ignored") /\ Fate(Child, "skipped")
  /\ Replace([Top EXCEPT !.at = @ + 1])
  /\ UNCHANGED <<run, phase, ctl, val, held, kept, flag, open, made, result, hist>>

\* run_task and _execute_hook_steps skip a step whose condition is false.
SkipTop ==
  /\ Running("list", "go") /\ Depth = 1 /\ Top.at <= Len(Top.list)
  /\ Def[Child].cond
  /\ Show(Child, "skipped") /\ Fate(Child, "skipped")
  /\ Replace([Top EXCEPT !.at = @ + 1])
  /\ UNCHANGED <<run, phase, ctl, val, held, kept, flag, open, made, result, hist>>

\* execute_steps_sequence calls the step, which returns None, and reports a
\* success. The sequence goes on without the browser.
SkipNested ==
  /\ Running("list", "go") /\ Depth > 1 /\ Top.at <= Len(Top.list)
  /\ Def[Child].cond
  /\ Show(Child, "succeeded") /\ Fate(Child, "skipped")
  /\ Replace([Top EXCEPT !.at = @ + 1, !.drv = None])
  /\ flag' = FALSE
  /\ upset' = TRUE
  /\ UNCHANGED <<run, phase, ctl, val, held, kept, open, made, result, broke>>

\* The main loop of run_task starts the browser itself, before the step and
\* outside of its error handling.
LaunchesFirst == phase = "steps" /\ Depth = 1 /\ Launches(Def[Child].kind, Top.drv)

Begin ==
  /\ Running("list", "go") /\ Top.at <= Len(Top.list)
  /\ Show(Child, "started")
  /\ flag' = FALSE
  /\ IF LaunchesFirst
       THEN /\ made < MaxBrowsers
            /\ made' = made + 1
            /\ open' = open \cup {made'}
            /\ Push([Top EXCEPT !.drv = made'], Call(Child, made'))
       ELSE /\ Push(Top, Call(Child, Top.drv))
            /\ UNCHANGED <<made, open>>
  /\ UNCHANGED <<run, phase, ctl, val, held, kept, result, fate, hist>>

BadPhaseRaises ==  \* run_task has not heard of the browser of its steps
  /\ broke' = broke \cup {phase}
  /\ upset' = (upset \/ phase # "steps")
  /\ UNCHANGED <<held, kept, open, made, val>>
  /\ \/ phase \in {"before", "steps", "success"} /\ Enter("failure", held) /\ UNCHANGED result
     \/ phase = "failure" /\ Enter("finally", held) /\ result' = "raised"
     \/ phase = "finally" /\ phase' = "over" /\ result' = "raised" /\ UNCHANGED <<stack, ctl>>

\* How a phase goes on after an exception. A hook that raises leaves driver
\* and __driver__ as they were.
PhaseRaises ==
  /\ broke' = broke \cup {phase}
  /\ upset' = (upset \/ phase # "steps")
  /\ held' = IF phase = "steps" THEN Top.drv ELSE held
  /\ UNCHANGED <<kept, open, made, val>>
  /\ \/ phase \in {"before", "steps", "success"} /\ Enter("failure", held') /\ UNCHANGED result
     \/ phase = "failure" /\ Enter("finally", held) /\ result' = "raised"
     \/ phase = "finally" /\ phase' = "over" /\ result' = "raised" /\ UNCHANGED <<stack, ctl>>

\* create_driver raises there: the step stays "started".
LaunchFails ==
  /\ Running("list", "go") /\ Top.at <= Len(Top.list)
  /\ LaunchesFirst
  /\ Show(Child, "started") /\ Fate(Child, "error")
  /\ PhaseRaises
  /\ UNCHANGED <<run, flag>>

\* _should_execute raises: the DSL does not know the condition. The loops of
\* run_task and of the hooks have not reported the step yet.
ConditionRaises ==
  /\ Running("list", "go") /\ Top.at <= Len(Top.list)
  /\ Def[Child].cond
  /\ Fate(Child, "error")
  /\ \/ /\ Depth = 1
        /\ PhaseRaises
        /\ UNCHANGED <<shown, flag>>
     \/ /\ Depth > 1
        /\ Show(Child, "failed")
        /\ flag' = FALSE
        /\ stack' = Under /\ Raise
        /\ upset' = TRUE
        /\ UNCHANGED <<phase, held, kept, open, made, result, broke>>
  /\ UNCHANGED run

BadStepReturns ==  \* green whatever was swallowed
  /\ Running("list", "back")
  /\ Show(Child, "succeeded")
  /\ flag' = FALSE
  /\ ctl' = "go"
  /\ Replace([Top EXCEPT !.at = @ + 1, !.drv = val])
  /\ UNCHANGED <<run, phase, val, held, kept, open, made, result, fate, hist>>

\* A step returns: green, unless its error was swallowed.
StepReturns ==
  /\ Running("list", "back")
  /\ IF flag THEN UNCHANGED shown ELSE Show(Child, "succeeded")
  /\ flag' = FALSE
  /\ ctl' = "go"
  /\ Replace([Top EXCEPT !.at = @ + 1, !.drv = val])
  /\ UNCHANGED <<run, phase, val, held, kept, open, made, result, fate, hist>>

\* A step raises: the exception leaves the sequence, and so the browsers that
\* only the sequence knows.
StepRaises ==
  /\ Running("list", "raise")
  /\ Show(Child, "failed")
  /\ \/ /\ Depth = 1
        /\ PhaseRaises
     \/ /\ Depth > 1
        /\ stack' = Under
        /\ upset' = TRUE
        /\ UNCHANGED <<phase, ctl, val, held, kept, open, made, result, broke>>
  /\ UNCHANGED <<run, flag, fate>>

ListEnds ==
  /\ Running("list", "go") /\ Depth > 1 /\ Top.at > Len(Top.list)
  /\ Return(Top.drv)
  /\ UNCHANGED <<run, phase, held, kept, flag, open, made, result, shown, fate, hist>>

BadPhaseEnds ==  \* on_success skips finally_steps
  /\ Running("list", "go") /\ Depth = 1 /\ Top.at > Len(Top.list)
  /\ kept' = IF phase # "steps" /\ Top.drv # None THEN Top.drv ELSE kept
  /\ held' = IF phase = "steps" THEN Top.drv ELSE IF kept' # None THEN kept' ELSE held
  /\ \/ phase = "before" /\ Enter("steps", held') /\ UNCHANGED <<open, result>>
     \/ phase = "steps" /\ Enter("success", held') /\ UNCHANGED <<open, result>>
     \/ phase = "failure" /\ Enter("finally", held') /\ result' = "failure" /\ UNCHANGED open
     \/ /\ phase \in {"success", "finally"}
        /\ phase' = "over"
        /\ open' = open \ {held'}
        /\ result' = IF phase = "success" THEN "success" ELSE result
        /\ UNCHANGED <<stack, ctl>>
  /\ UNCHANGED <<run, val, flag, made, shown, fate, hist>>

\* A phase is done. A hook hands its browser over in __driver__, when it has
\* one; run_task then takes __driver__, when there is one, which may be the
\* browser of an earlier hook. After finally_steps it is quit, which may raise.
PhaseEnds ==
  /\ Running("list", "go") /\ Depth = 1 /\ Top.at > Len(Top.list)
  /\ kept' = IF phase # "steps" /\ Top.drv # None THEN Top.drv ELSE kept
  /\ held' = IF phase = "steps" THEN Top.drv ELSE IF kept' # None THEN kept' ELSE held
  /\ \/ /\ \/ phase = "before" /\ Enter("steps", held') /\ UNCHANGED result
           \/ phase = "steps" /\ Enter("success", held') /\ UNCHANGED result
           \/ phase = "success" /\ Enter("finally", held') /\ result' = "success"
           \/ phase = "failure" /\ Enter("finally", held') /\ result' = "failure"
        /\ UNCHANGED <<open, broke>>
     \/ /\ phase = "finally"
        /\ phase' = "over"
        /\ \/ open' = open \ {held'} /\ UNCHANGED <<result, broke>>
           \/ held' # None /\ result' = "raised" /\ broke' = broke \cup {"quit"} /\ UNCHANGED open
        /\ UNCHANGED <<stack, ctl>>
  /\ UNCHANGED <<run, val, flag, made, shown, fate, upset>>

-----------------------------------------------------------------------------
(* One step                                                                *)

\* _execute_scenario_step of an operation: it may start the browser, which it
\* keeps for its next attempt, and it ends or raises. With a timeout it may
\* be late: it has ended, because the executor waits for its thread, but a
\* TimeoutError is raised and what it returned is dropped.
Operate ==
  /\ Running("step", "go") /\ Self.kind \notin Blocks
  /\ \E d \in IF Launches(Self.kind, Top.drv) THEN {made + 1} ELSE {Top.drv} :
       LET new    == d # Top.drv
           opened == IF new THEN open \cup {d} ELSE open
           closes == ~dry /\ Self.kind = "close"
       IN
       /\ new => d <= MaxBrowsers
       /\ made' = IF new THEN d ELSE made
       /\ \/ /\ Return(IF closes THEN None ELSE d)                       \* it ends
             /\ open' = IF closes THEN opened \ {d} ELSE opened
             /\ Fate(Top.step, "ok")
          \/ /\ Replace([Top EXCEPT !.drv = d]) /\ Raise                 \* it raises
             /\ open' = opened
             /\ UNCHANGED fate
          \/ /\ Self.timed                                               \* it is late
             /\ Replace([Top EXCEPT !.drv = d]) /\ Raise
             /\ open' = IF closes THEN opened \ {d} ELSE opened
             /\ UNCHANGED fate
  /\ UNCHANGED <<run, phase, held, kept, flag, result, shown, hist>>

\* create_driver raises inside the step.
OperateWithout ==
  /\ Running("step", "go") /\ Self.kind \notin Blocks
  /\ Launches(Self.kind, Top.drv)
  /\ Raise
  /\ UNCHANGED <<run, phase, stack, held, kept, flag, open, made, result, shown, fate, hist>>

Into(stage, list, drv, failed) ==
  /\ Push([Top EXCEPT !.stage = stage, !.upd = drv, !.round = @ + 1, !.failed = failed],
          List(list, drv))
  /\ ctl' = "go"
  /\ UNCHANGED val

\* execute_block_step: group, repeat and try go into their first steps.
BlockBegins ==
  /\ Running("step", "go") /\ Self.kind \in {"group", "repeat", "try"}
  /\ Into("body", Self.body, Top.drv, FALSE)
  /\ UNCHANGED <<run, phase, held, kept, flag, open, made, result, shown, fate, hist>>

\* execute_parallel_steps: the children run in threads, with no browser and
\* with copies of the context, and all of them are waited for. They report
\* their retries, and a failure that they swallow.
Parallel ==
  LET kids == In(Self.body)
      last(k) == IF Def[k].retry > 0 THEN "retrying" ELSE shown[k]
      Ends(k) == {[end |-> "ok", event |-> e] : e \in {shown[k], last(k)}}
                 \cup {[end |-> e, event |-> shown[k]] :
                         e \in IF Def[k].cond THEN {"skipped", "error"} ELSE {}}
                 \cup {IF Def[k].tolerant THEN [end |-> "swallowed", event |-> "failed"]
                                         ELSE [end |-> "error", event |-> last(k)]}
  IN
  /\ Running("step", "go") /\ Self.kind = "parallel"
  /\ \E e \in [kids -> UNION {Ends(k) : k \in kids}] :
       /\ \A k \in kids : e[k] \in Ends(k)
       /\ shown' = [s \in Steps |-> IF s \in kids THEN e[s].event ELSE shown[s]]
       /\ LET fated == [s \in Steps |-> IF s \in kids THEN e[s].end ELSE fate[s]] IN
          IF \E k \in kids : e[k].end = "error"
            THEN Raise /\ fate' = fated /\ UNCHANGED stack
            ELSE Return(Top.drv) /\ fate' = [fated EXCEPT ![Top.step] = "ok"]
  /\ UNCHANGED <<run, phase, held, kept, flag, open, made, result, hist>>

\* The steps of a block are done: a repeat goes on, a try comes to its
\* finally_steps.
BlockGoesOn ==
  /\ Running("step", "back")
  /\ \/ /\ Self.kind = "repeat" /\ Top.round < Self.times
        /\ Into("body", Self.body, val, FALSE)
        /\ UNCHANGED fate
     \/ /\ Self.kind = "try" /\ Top.stage # "last" /\ Self.last # <<>>
        /\ Into("last", Self.last, val, FALSE)
        /\ UNCHANGED fate
     \/ /\ Top.failed
        /\ ctl' = "raise"
        /\ Replace([Top EXCEPT !.failed = FALSE])
        /\ UNCHANGED <<val, fate>>
     \/ /\ \/ Self.kind = "group"
           \/ Self.kind = "repeat" /\ Top.round = Self.times
           \/ Self.kind = "try" /\ (Top.stage = "last" \/ Self.last = <<>>) /\ ~Top.failed
        /\ Return(val)
        /\ Fate(Top.step, "ok")
  /\ UNCHANGED <<run, phase, held, kept, flag, open, made, result, shown, hist>>

\* execute_try_step: an exception leads to catch_steps, or to finally_steps
\* and then on, with the browser the block was given.
Catches == Self.kind = "try" /\ Top.stage = "body" /\ Self.catch # <<>>
Defers  == Self.kind = "try" /\ Top.stage \in {"body", "catch"} /\ ~Catches /\ Self.last # <<>>

TryHandles ==
  /\ Running("step", "raise")
  /\ \/ Catches /\ Into("catch", Self.catch, Top.upd, FALSE)
     \/ Defers /\ Into("last", Self.last, Top.upd, TRUE)
  /\ UNCHANGED <<run, phase, held, kept, flag, open, made, result, shown, fate, hist>>

BadRetry ==  \* attempts are not counted
  /\ Running("step", "raise") /\ ~Catches /\ ~Defers
  /\ \/ /\ Top.at <= Self.retry
        /\ Show(Top.step, "retrying")
        /\ Replace([Call(Top.step, Top.drv) EXCEPT !.at = Top.at])
        /\ ctl' = "go"
        /\ UNCHANGED <<val, flag, fate>>
     \/ /\ Top.at > Self.retry /\ ~Self.tolerant
        /\ Fate(Top.step, "error")
        /\ stack' = Under /\ Raise
        /\ UNCHANGED <<flag, shown>>
  /\ UNCHANGED <<run, phase, held, kept, open, made, result, hist>>

\* An attempt fails: the next one, or the error is swallowed, or it goes on.
AttemptFails ==
  /\ Running("step", "raise") /\ ~Catches /\ ~Defers
  /\ \/ /\ Top.at <= Self.retry
        /\ Show(Top.step, "retrying")
        /\ Replace([Call(Top.step, Top.drv) EXCEPT !.at = Top.at + 1])
        /\ ctl' = "go"
        /\ UNCHANGED <<val, flag, fate>>
     \/ /\ Top.at > Self.retry /\ Self.tolerant
        /\ Show(Top.step, "failed") /\ Fate(Top.step, "swallowed")
        /\ flag' = TRUE
        /\ Return(Top.drv)
     \/ /\ Top.at > Self.retry /\ ~Self.tolerant
        /\ Fate(Top.step, "error")
        /\ stack' = Under /\ Raise
        /\ UNCHANGED <<flag, shown>>
  /\ UNCHANGED <<run, phase, held, kept, open, made, result, hist>>

Next ==
  \/ SkipTop \/ SkipNested \/ Begin \/ LaunchFails \/ ConditionRaises \/ StepReturns \/ StepRaises
  \/ ListEnds \/ PhaseEnds
  \/ Operate \/ OperateWithout \/ BlockBegins \/ Parallel \/ BlockGoesOn
  \/ TryHandles \/ AttemptFails

Spec == Init /\ [][Next]_vars

\* Operations end: each has its own timeout.
FairSpec == Spec /\ WF_vars(Next)

-----------------------------------------------------------------------------
(* Properties                                                              *)

InPhase(p) == In(plan[p])
Raised(p)  == \E s \in InPhase(p) : fate[s] = "error"
Touched(p) == \E s \in InPhase(p) : fate[s] # "none"

\* The steps that have begun and whose end the loop above has not reported.
InProgress ==
  IF phase = "over" THEN {}
  ELSE {stack[i].list[stack[i].at] :
          i \in {i \in 1..Depth : stack[i].is = "list" /\ (i < Depth \/ ctl # "go")}}

ParallelKids == UNION {In(Def[b].body) : b \in {b \in Steps : Def[b].kind = "parallel"}}

\* The live view shows a step as running exactly while it runs, however the
\* exception that ends it leaves the blocks around it. The exceptions are the
\* step of run_task whose browser does not start, which is shown as running
\* for ever, and the children of parallel, which report no start and no end.
ShownWhileRunning ==
  \A s \in Steps \ ParallelKids :
    IF s \in InProgress THEN shown[s] \in {"started", "retrying"} \/ flag
    ELSE shown[s] \in {"started", "retrying"}
           => fate[s] = "error" /\ Def[s].kind \in {"browser", "close"} /\ "steps" \in broke

\* A step is green only when it did what it should or, inside a block, was not
\* to be executed: no swallowed or repeated error ends up green, on any level.
GreenIsTrue ==
  \A s \in Steps : shown[s] = "succeeded" => fate[s] \in {"ok", "skipped"}

\* A run that reports success has executed every step of before_steps, steps
\* and on_success, but for those whose condition was false or whose error they
\* were allowed to swallow; one that reports a failure has one that raised.
VerdictIsTrue ==
  phase = "over" =>
    /\ result = "success" =>
         \A s \in InPhase("before") \cup InPhase("steps") \cup InPhase("success") :
           \/ fate[s] = "ok"
           \/ fate[s] = "skipped" /\ Def[s].cond
           \/ fate[s] = "swallowed" /\ Def[s].tolerant
    /\ result = "failure" => Raised("before") \/ Raised("steps") \/ Raised("success")

\* What is reported of a run is true: the live view of each step, its colour and
\* the verdict of the run, through every nesting of retries, blocks and hooks.
ReportsAreTrue == ShownWhileRunning /\ GreenIsTrue /\ VerdictIsTrue

\* The hooks: steps only after a before_steps that did not raise; on_success
\* only after steps that did not; on_failure only when one of these raised;
\* and finally_steps to their end in all cases, unless one of them raises.
HooksInPlace ==
  /\ Touched("steps") => ~Raised("before")
  /\ Touched("success") => ~Raised("before") /\ ~Raised("steps")
  /\ Touched("failure") => Raised("before") \/ Raised("steps") \/ Raised("success")
  /\ phase = "over" =>
       Raised("finally") \/ \A s \in InPhase("finally") : fate[s] # "none"

\* No browser is left open when the run is over, through retries, timeouts,
\* browsers closed and started again and the hand-over between the hooks and
\* run_task. The exceptions: a quit that fails, a step skipped in a block, and
\* an exception that leaves a block or a hook.
BrowsersQuit == phase = "over" => open = {} \/ upset \/ "quit" \in broke

\* Every run ends: no combination of retries, repeats and try blocks goes on
\* for ever.
RunEnds == <>(phase = "over")

=============================================================================
