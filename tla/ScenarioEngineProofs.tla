------------------------ MODULE ScenarioEngineProofs ------------------------
(***************************************************************************)
(* The run of a scenario is right for every scenario, however deep its     *)
(* blocks nest: the types, the browsers, the hooks and the reports.        *)
(*                                                                         *)
(* The inductive invariant EngineInv says what the Python call stack looks *)
(* like (StackInv), who knows the open browser (BrowserInv), what the live *)
(* view shows of the steps that are in hand (ShownInv) and how the steps   *)
(* of each phase have ended (PhaseInv). The lemmas first say what the      *)
(* actions do to the stack; then each part is shown to be preserved.       *)
(***************************************************************************)
EXTENDS ScenarioEngine, SequenceTheorems, TLAPS
\* The blocks whose steps are lists of frames; those of parallel are not.
Nesting == {"group", "repeat", "try"}
Busy    == {"started", "retrying"}

-----------------------------------------------------------------------------
(***************************************************************************)
(* The stack: lists and steps take turns, each step is the current one of  *)
(* the list below it, and each list belongs to the block below it.         *)
(***************************************************************************)

Calls(f, g) ==  \* g is what the frame f waits for
  \/ /\ f.is = "list" /\ g.is = "step"
     /\ f.at \in DOMAIN f.list /\ g.step = f.list[f.at]
  \/ /\ f.is = "step" /\ g.is = "list"
     /\ Def[f.step].kind \in Nesting /\ In(g.list) \subseteq Within(f.step)

Placed(f) ==
  /\ f.is = "list" => f.at \in 1..(Len(f.list) + 1)
  /\ f.is = "step" => f.step \in Steps /\ f.list = <<>>

StackInv ==
  /\ Depth >= 1
  /\ stack[1].is = "list" /\ stack[1].list = plan[phase]
  /\ \A i \in 1..Depth : Placed(stack[i])
  /\ \A i \in 1..(Depth - 1) : Calls(stack[i], stack[i + 1])
  /\ \A i, j \in 1..Depth :
       stack[i].is = "step" /\ stack[j].is = "step" /\ stack[i].step = stack[j].step => i = j
  /\ Top.is = "list" /\ ctl # "go" => Top.at \in DOMAIN Top.list

-----------------------------------------------------------------------------
(* The browsers                                                            *)

FailedInv == \A i \in 1..Depth : stack[i].failed => upset
RaiseInv  == ctl = "raise" /\ Top.is = "step" /\ Self.kind \in Nesting => upset

\* A step of the main loop has the browser that the loop has started for it.
FirstInv ==
  phase = "steps" /\ Depth >= 2 =>
    stack[2].drv = stack[1].drv /\ ~Launches(Def[stack[2].step].kind, stack[2].drv)

\* Who knows the open browser: what runs, what is returned or, where an
\* exception of a step is on its way to the loop of run_task, that loop.
KnownInv ==
  \/ upset
  \/ ctl = "back" /\ open \subseteq {val}
  \/ ctl \in {"go", "raise"} /\ open \subseteq {Top.drv}
  \/ ctl = "raise" /\ Top.is = "list" /\ (Depth > 1 \/ phase # "steps")

BrowserInv == FailedInv /\ RaiseInv /\ FirstInv /\ KnownInv

-----------------------------------------------------------------------------
(* What is shown of a step, and how it ended                               *)

\* Shown as running for ever: its browser did not start.
Stuck(s) ==
  /\ fate[s] = "error" /\ Def[s].kind \in {"browser", "close"}
  /\ "steps" \in broke /\ s \in InPhase("steps") /\ phase # "steps"

InStack(s) == \E i \in 1..Depth : stack[i].is = "step" /\ stack[i].step = s
InHand(s)  == InStack(s) \/ (Top.is = "list" /\ ctl # "go" /\ Child = s)

FlagInv == flag => ctl = "back" /\ Top.is = "list"
BusyInv == \A s \in Steps : InStack(s) => shown[s] \in Busy

\* The step whose end the list above it has not reported.
EndedInv ==
  Top.is = "list" /\ ctl # "go" =>
    /\ shown[Child] \in IF flag THEN {"failed"} ELSE Busy
    /\ ctl = "back" =>
         IF flag THEN fate[Child] = "swallowed" /\ Def[Child].tolerant ELSE fate[Child] = "ok"
    /\ ctl = "raise" => fate[Child] = "error"

HandInv == \A s \in Steps \ ParallelKids : shown[s] \in Busy => InHand(s) \/ Stuck(s)
KidsInv == \A s \in ParallelKids : shown[s] # "succeeded"

ShownInv == FlagInv /\ BusyInv /\ EndedInv /\ HandInv /\ KidsInv /\ GreenIsTrue

-----------------------------------------------------------------------------
(* The phases                                                              *)

Fine(s) ==
  \/ fate[s] = "ok"
  \/ fate[s] = "skipped" /\ Def[s].cond
  \/ fate[s] = "swallowed" /\ Def[s].tolerant

Done(p)  == \A s \in InPhase(p) : Fine(s)
Blank(p) == ~Touched(p)

\* How far the loop of the phase has come.
Progress ==
  \A i \in DOMAIN plan[phase] :
    /\ i < stack[1].at => Fine(plan[phase][i])
    /\ i > stack[1].at => fate[plan[phase][i]] = "none"
    /\ i = stack[1].at /\ (Depth > 1 \/ ctl = "go") => fate[plan[phase][i]] = "none"

Won  == Done("before") /\ Done("steps") /\ Done("success")
Lost ==
  \/ Raised("before") /\ Blank("steps") /\ Blank("success")
  \/ Done("before") /\ Raised("steps") /\ Blank("success")
  \/ Done("before") /\ Done("steps") /\ Raised("success")

PhaseInv ==
  /\ phase # "over" => Progress
  /\ phase = "before" => Blank("steps")
  /\ phase \in {"steps", "success"} => Done("before")
  /\ phase \in {"before", "steps"} => Blank("success")
  /\ phase = "success" => Done("steps")
  /\ phase \in {"before", "steps", "success"} => Blank("failure")
  /\ phase = "failure" => Lost
  /\ phase \in {"finally", "over"} => (Won /\ Blank("failure")) \/ Lost
  /\ phase \notin {"finally", "over"} => Blank("finally") /\ result = "none"
  /\ phase = "over" => Raised("finally") \/ Done("finally")
  /\ result = "success" => Won
  /\ result = "failure" => Lost

-----------------------------------------------------------------------------
(* The inductive invariant                                                 *)

ShownOver ==
  GreenIsTrue /\ \A s \in Steps \ ParallelKids : shown[s] \in Busy => Stuck(s)

EngineInv ==
  /\ phase # "over" => StackInv /\ BrowserInv /\ ShownInv
  /\ phase = "over" => BrowsersQuit /\ ShownOver
  /\ PhaseInv

-----------------------------------------------------------------------------
(* Sequences and frames                                                    *)

LEMMA FrontIs ==
  ASSUME NEW S, NEW st \in Seq(S), NEW n \in Nat, Len(st) = n + 1
  PROVE  /\ SubSeq(st, 1, n) \in Seq(S) /\ Len(SubSeq(st, 1, n)) = n
         /\ \A i \in 1..n : SubSeq(st, 1, n)[i] = st[i]
<1>1. \A i \in 1..n : st[i] \in S
  BY ElementOfSeq
<1>2. /\ SubSeq(st, 1, n) \in Seq(S)
      /\ Len(SubSeq(st, 1, n)) = IF 1 <= n THEN n - 1 + 1 ELSE 0
      /\ \A i \in 1..(n - 1 + 1) : SubSeq(st, 1, n)[i] = st[1 + i - 1]
  BY <1>1, SubSeqProperties
<1>3. Len(SubSeq(st, 1, n)) = n
  BY <1>2
<1>4. n - 1 + 1 = n /\ \A i \in 1..n : 1 + i - 1 = i
  OBVIOUS
<1> QED
  BY <1>2, <1>3, <1>4

LEMMA PairIs ==
  ASSUME NEW S, NEW u \in Seq(S), NEW n \in Nat, Len(u) = n, NEW f \in S, NEW g \in S
  PROVE  /\ u \o <<f, g>> \in Seq(S) /\ Len(u \o <<f, g>>) = n + 2
         /\ (u \o <<f, g>>)[n + 1] = f /\ (u \o <<f, g>>)[n + 2] = g
         /\ \A i \in 1..n : (u \o <<f, g>>)[i] = u[i]
<1>1. <<f, g>> \in Seq(S) /\ Len(<<f, g>>) = 2 /\ <<f, g>>[1] = f /\ <<f, g>>[2] = g
  OBVIOUS
<1>2. /\ u \o <<f, g>> \in Seq(S)
      /\ Len(u \o <<f, g>>) = n + 2
      /\ \A i \in 1..(n + 2) : (u \o <<f, g>>)[i] = IF i <= n THEN u[i] ELSE <<f, g>>[i - n]
  BY <1>1, ConcatProperties
<1>3. n + 1 \in 1..(n + 2) /\ n + 2 \in 1..(n + 2) /\ ~(n + 1 <= n) /\ ~(n + 2 <= n)
      /\ (n + 1) - n = 1 /\ (n + 2) - n = 2
  OBVIOUS
<1>4. \A i \in 1..n : i \in 1..(n + 2) /\ i <= n
  OBVIOUS
<1> QED
  BY <1>1, <1>2, <1>3, <1>4

LEMMA LastIs ==
  ASSUME NEW S, NEW u \in Seq(S), NEW n \in Nat, Len(u) = n, NEW f \in S
  PROVE  /\ Append(u, f) \in Seq(S) /\ Len(Append(u, f)) = n + 1
         /\ Append(u, f)[n + 1] = f
         /\ \A i \in 1..n : Append(u, f)[i] = u[i]
OBVIOUS

\* What a frame is, apart from how far it has come.
Alike(f, g) == f.is = g.is /\ f.step = g.step /\ f.list = g.list

Onward(f, d)     == [f EXCEPT !.at = @ + 1, !.drv = d]
Deeper(f, s, d, b) == [f EXCEPT !.stage = s, !.upd = d, !.round = @ + 1, !.failed = b]

LEMMA OnwardFields ==
  ASSUME NEW f \in Frame, NEW d \in Driver
  PROVE  /\ Onward(f, d) \in Frame /\ Alike(f, Onward(f, d)) /\ Onward(f, d).at = f.at + 1
         /\ Onward(f, d).drv = d /\ Onward(f, d).failed = f.failed
<1>1. PICK g : g = Onward(f, d)
  OBVIOUS
<1>2. f.at \in Nat /\ f.at + 1 \in Nat
  BY DEF Frame
<1>3. /\ g.is = f.is /\ g.step = f.step /\ g.list = f.list /\ g.at = f.at + 1 /\ g.drv = d
      /\ g.stage = f.stage /\ g.upd = f.upd /\ g.round = f.round /\ g.failed = f.failed
  BY <1>1 DEF Frame, Onward
<1>4. g \in Frame
  BY <1>1, <1>2 DEF Frame, Onward
<1> QED
  BY <1>1, <1>3, <1>4 DEF Alike

LEMMA AtFields ==
  ASSUME NEW f \in Frame, NEW n \in Nat, NEW g, g = [f EXCEPT !.at = n]
  PROVE  g \in Frame /\ Alike(f, g) /\ g.at = n /\ g.drv = f.drv /\ g.failed = f.failed
BY DEF Frame, Alike

LEMMA DrvFields ==
  ASSUME NEW f \in Frame, NEW d \in Driver, NEW g, g = [f EXCEPT !.drv = d]
  PROVE  g \in Frame /\ Alike(f, g) /\ g.at = f.at /\ g.drv = d /\ g.failed = f.failed
BY DEF Frame, Alike

LEMMA FailedFields ==
  ASSUME NEW f \in Frame, NEW b \in BOOLEAN, NEW g, g = [f EXCEPT !.failed = b]
  PROVE  g \in Frame /\ Alike(f, g) /\ g.at = f.at /\ g.drv = f.drv /\ g.failed = b
BY DEF Frame, Alike

LEMMA DeeperFields ==
  ASSUME NEW f \in Frame, NEW s \in {"start", "body", "catch", "last"}, NEW d \in Driver,
         NEW b \in BOOLEAN
  PROVE  /\ Deeper(f, s, d, b) \in Frame /\ Alike(f, Deeper(f, s, d, b))
         /\ Deeper(f, s, d, b).at = f.at /\ Deeper(f, s, d, b).drv = f.drv
         /\ Deeper(f, s, d, b).failed = b
<1>1. PICK g : g = Deeper(f, s, d, b)
  OBVIOUS
<1>2. f.round \in Nat /\ f.round + 1 \in Nat
  BY DEF Frame
<1>3. /\ g.is = f.is /\ g.step = f.step /\ g.list = f.list /\ g.at = f.at /\ g.drv = f.drv
      /\ g.stage = s /\ g.upd = d /\ g.round = f.round + 1 /\ g.failed = b
  BY <1>1 DEF Frame, Deeper
<1>4. g \in Frame
  BY <1>1, <1>2 DEF Frame, Deeper
<1> QED
  BY <1>1, <1>3, <1>4 DEF Alike

LEMMA ListFields ==
  ASSUME NEW list \in Seq(Steps), NEW d \in Driver
  PROVE  /\ List(list, d) \in Frame /\ List(list, d).is = "list" /\ List(list, d).list = list
         /\ List(list, d).at = 1 /\ List(list, d).drv = d /\ ~List(list, d).failed
BY DEF Frame, List, Driver

LEMMA CallFields ==
  ASSUME NEW s \in Steps, NEW d \in Driver
  PROVE  /\ Call(s, d) \in Frame /\ Call(s, d).is = "step" /\ Call(s, d).step = s
         /\ Call(s, d).drv = d /\ ~Call(s, d).failed /\ Call(s, d).list = <<>>
<1>1. <<>> \in Seq(Steps)
  BY EmptySeq
<1> QED
  BY <1>1 DEF Frame, Call

-----------------------------------------------------------------------------
(* What an action may do to the stack                                      *)

\* The last frame becomes f.
Swapped(f) ==
  /\ stack' \in Seq(Frame) /\ Len(stack') = Depth
  /\ stack'[Depth] = f /\ Alike(Top, f)
  /\ \A i \in 1..(Depth - 1) : stack'[i] = stack[i]

\* It becomes f, and calls g.
Pushed(f, g) ==
  /\ stack' \in Seq(Frame) /\ Len(stack') = Depth + 1
  /\ stack'[Depth] = f /\ stack'[Depth + 1] = g /\ Alike(Top, f)
  /\ \A i \in 1..(Depth - 1) : stack'[i] = stack[i]

\* It returns.
Popped ==
  /\ stack' \in Seq(Frame) /\ Len(stack') = Depth - 1
  /\ \A i \in 1..(Depth - 1) : stack'[i] = stack[i]

\* The first list of a phase.
Started(d) ==
  /\ stack' \in Seq(Frame) /\ Len(stack') = 1
  /\ stack'[1] = List(plan[phase'], d) /\ phase' \in Phases

LEMMA ReplaceDoes ==
  ASSUME TypeOK, Depth >= 1, NEW f \in Frame, Alike(Top, f), Replace(f) PROVE Swapped(f)
<1>1. stack \in Seq(Frame) /\ Depth \in Nat /\ Depth - 1 \in Nat /\ Depth = (Depth - 1) + 1
  BY DEF TypeOK, Depth
<1>2. Under \in Seq(Frame) /\ Len(Under) = Depth - 1 /\ \A i \in 1..(Depth - 1) : Under[i] = stack[i]
  BY <1>1, FrontIs DEF Under, Depth
<1>3. /\ Append(Under, f) \in Seq(Frame) /\ Len(Append(Under, f)) = (Depth - 1) + 1
      /\ Append(Under, f)[(Depth - 1) + 1] = f
      /\ \A i \in 1..(Depth - 1) : Append(Under, f)[i] = Under[i]
  BY <1>1, <1>2, LastIs
<1> QED
  BY <1>1, <1>2, <1>3 DEF Replace, Swapped

LEMMA PushDoes ==
  ASSUME TypeOK, Depth >= 1, NEW f \in Frame, Alike(Top, f), NEW g \in Frame, Push(f, g)
  PROVE  Pushed(f, g)
<1>1. stack \in Seq(Frame) /\ Depth \in Nat /\ Depth - 1 \in Nat /\ Depth = (Depth - 1) + 1
      /\ Depth + 1 = (Depth - 1) + 2
  BY DEF TypeOK, Depth
<1>2. Under \in Seq(Frame) /\ Len(Under) = Depth - 1 /\ \A i \in 1..(Depth - 1) : Under[i] = stack[i]
  BY <1>1, FrontIs DEF Under, Depth
<1>3. PICK n \in Nat : n = Depth - 1
  BY <1>1
<1>4. /\ Under \o <<f, g>> \in Seq(Frame) /\ Len(Under \o <<f, g>>) = n + 2
      /\ (Under \o <<f, g>>)[n + 1] = f /\ (Under \o <<f, g>>)[n + 2] = g
      /\ \A i \in 1..n : (Under \o <<f, g>>)[i] = Under[i]
  BY <1>2, <1>3, PairIs
<1> QED
  BY <1>1, <1>2, <1>3, <1>4 DEF Push, Pushed

LEMMA PopDoes ==
  ASSUME TypeOK, Depth >= 1, stack' = Under PROVE Popped
<1>1. stack \in Seq(Frame) /\ Depth \in Nat /\ Depth - 1 \in Nat /\ Depth = (Depth - 1) + 1
  BY DEF TypeOK, Depth
<1> QED
  BY <1>1, FrontIs DEF Under, Depth, Popped

LEMMA EnterDoes ==
  ASSUME TypeOK, NEW p \in Phases, NEW d \in Driver, Enter(p, d)
  PROVE  Started(d) /\ phase' = p /\ ctl' = "go" /\ stack'[1].at = 1 /\ stack'[1].drv = d
         /\ stack'[1].is = "list" /\ stack'[1].list = plan[p] /\ ~stack'[1].failed
<1>1. plan[p] \in Seq(Steps)
  BY EngineAssumption DEF TypeOK
<1>2. List(plan[p], d) \in Frame
  BY <1>1, ListFields
<1> QED
  BY <1>1, <1>2, ListFields DEF Enter, Started

-----------------------------------------------------------------------------
(* The frame that is running                                               *)

LEMMA Here ==
  ASSUME TypeOK, StackInv
  PROVE  /\ Depth \in Nat /\ Depth >= 1 /\ Top = stack[Depth] /\ Top \in Frame
         /\ \A i \in 1..Depth : stack[i] \in Frame
         /\ Top.is = "list" \/ Top.is = "step"
         /\ Top.is = "list" => Top.list \in Seq(Steps) /\ Top.at \in Nat /\ Top.at >= 1
         /\ Top.is = "list" /\ (Top.at <= Len(Top.list) \/ ctl # "go") =>
              /\ Top.at \in DOMAIN Top.list /\ Child \in Steps /\ Child \in In(Top.list)
              /\ Top.at <= Len(Top.list) /\ Top.at + 1 \in 1..(Len(Top.list) + 1)
         /\ Top.is = "step" => Depth >= 2 /\ Top.step \in Steps /\ Self \in StepDef /\ Top.list = <<>>
         /\ Top.drv \in Driver /\ Top.upd \in Driver
         /\ Depth = 1 => Top.is = "list" /\ Top.list = plan[phase]
<1>1. Depth \in Nat /\ Depth >= 1 /\ Depth \in 1..Depth /\ stack \in Seq(Frame)
  BY DEF TypeOK, StackInv, Depth
<1>2. \A i \in 1..Depth : stack[i] \in Frame
  BY <1>1, ElementOfSeq DEF Depth
<1>3. Top \in Frame /\ Placed(Top)
  BY <1>1, <1>2 DEF StackInv, Top
<1>4. /\ Top.is \in {"list", "step"} /\ Top.list \in Seq(Steps) /\ Top.at \in Nat
      /\ Top.drv \in Driver /\ Top.upd \in Driver
  BY <1>3 DEF Frame
<1>5. DOMAIN Top.list = 1..Len(Top.list) /\ Len(Top.list) \in Nat
  BY <1>4, LenProperties
<1>6. Top.is = "list" => Top.at >= 1
  BY <1>3, <1>4, <1>5 DEF Placed
<1>7. Top.is = "list" /\ (Top.at <= Len(Top.list) \/ ctl # "go") =>
              /\ Top.at \in DOMAIN Top.list /\ Child \in Steps /\ Child \in In(Top.list)
              /\ Top.at <= Len(Top.list) /\ Top.at + 1 \in 1..(Len(Top.list) + 1)
  <2> SUFFICES ASSUME Top.is = "list", Top.at <= Len(Top.list) \/ ctl # "go"
               PROVE  /\ Top.at \in DOMAIN Top.list /\ Child \in Steps /\ Child \in In(Top.list)
                      /\ Top.at <= Len(Top.list) /\ Top.at + 1 \in 1..(Len(Top.list) + 1)
    OBVIOUS
  <2>1. Top.at \in DOMAIN Top.list
    BY <1>4, <1>5, <1>6 DEF StackInv
  <2>2. Child \in Steps
    BY <2>1, <1>4, <1>5, ElementOfSeq DEF Child
  <2> QED
    BY <2>1, <2>2, <1>4, <1>5 DEF Child, In
<1>8. Top.is = "step" => Top.step \in Steps /\ Self \in StepDef /\ Depth >= 2 /\ Top.list = <<>>
  BY <1>1, <1>3, EngineAssumption DEF Placed, Self, StackInv, Top
<1>9. Depth = 1 => Top.is = "list" /\ Top.list = plan[phase]
  BY <1>1 DEF StackInv, Top
<1> QED
  BY <1>1, <1>2, <1>3, <1>4, <1>6, <1>7, <1>8, <1>9 DEF Top

\* A step that begins is not already running: it has one place.
LEMMA ChildIsNew ==
  ASSUME TypeOK, StackInv, phase \in Phases, Top.is = "list", Child \in In(Top.list),
         NEW i \in 1..Depth, stack[i].is = "step"
  PROVE  stack[i].step # Child
<1> SUFFICES ASSUME stack[i].step = Child PROVE FALSE
  OBVIOUS
<1>1. Depth \in Nat /\ Depth >= 1 /\ Top = stack[Depth]
  BY Here
<1>2. i # 1 /\ i # Depth
  BY <1>1 DEF StackInv
<1>3. i - 1 \in 1..(Depth - 1) /\ Depth - 1 \in 1..(Depth - 1) /\ i \in 2..(Depth - 1)
      /\ (i - 1) + 1 = i /\ (Depth - 1) + 1 = Depth
  BY <1>1, <1>2
<1>4. Calls(stack[i - 1], stack[i]) /\ Calls(stack[Depth - 1], stack[Depth])
  BY <1>3 DEF StackInv
<1>5. Child \in In(stack[i - 1].list) /\ stack[i - 1].is = "list"
  BY <1>4 DEF Calls, In
<1>6. stack[Depth - 1].is = "step" /\ Child \in Within(stack[Depth - 1].step)
  BY <1>1, <1>4 DEF Calls
<1>7. stack[Depth - 1].step \in Steps
  BY <1>3, <1>6 DEF StackInv, Placed
<1>8. CASE i = 2
  BY <1>5, <1>6, <1>7, <1>8, PlaceAssumption DEF StackInv, TypeOK
<1>9. CASE i # 2
  <2>1. i - 2 \in 1..(Depth - 1) /\ (i - 2) + 1 = i - 1 /\ i - 2 \in 1..Depth
        /\ Depth - 1 \in 1..Depth
    BY <1>1, <1>3, <1>9
  <2>2. Calls(stack[i - 2], stack[i - 1])
    BY <2>1 DEF StackInv
  <2>3. stack[i - 2].is = "step" /\ Child \in Within(stack[i - 2].step)
    BY <2>2, <1>5 DEF Calls
  <2>4. stack[i - 2].step \in Steps
    BY <2>1, <2>3 DEF StackInv, Placed
  <2>5. stack[i - 2].step = stack[Depth - 1].step
    BY <2>3, <2>4, <1>6, <1>7, PlaceAssumption
  <2>6. i - 2 = Depth - 1
    BY <2>1, <2>3, <2>5, <1>6 DEF StackInv
  <2> QED
    BY <2>6, <1>1, <1>3
<1> QED
  BY <1>8, <1>9

LEMMA SwapStack ==
  ASSUME TypeOK, StackInv, NEW f \in Frame, Swapped(f), Placed(f), UNCHANGED <<plan, phase>>,
         f.is = "list" /\ ctl' # "go" => f.at \in DOMAIN f.list
  PROVE  StackInv'
<1>1. Depth \in Nat /\ Depth >= 1 /\ Top = stack[Depth]
  BY Here
<1>2. Len(stack') = Depth /\ stack'[Depth] = f /\ Alike(stack[Depth], f)
      /\ \A i \in 1..(Depth - 1) : stack'[i] = stack[i]
  BY <1>1 DEF Swapped
<1>3. \A i \in 1..Depth : i = Depth \/ i \in 1..(Depth - 1)
  BY <1>1
<1>4. \A i \in 1..Depth : Alike(stack[i], stack'[i])
  BY <1>2, <1>3 DEF Alike
<1>5. stack'[1].is = "list" /\ stack'[1].list = plan'[phase']
  BY <1>1, <1>4 DEF StackInv, Alike
<1>6. \A i \in 1..Depth : Placed(stack'[i])
  BY <1>2, <1>3 DEF StackInv
<1>7. \A i \in 1..(Depth - 1) : Calls(stack'[i], stack'[i + 1])
  <2> SUFFICES ASSUME NEW i \in 1..(Depth - 1) PROVE Calls(stack'[i], stack'[i + 1])
    OBVIOUS
  <2>1. stack'[i] = stack[i] /\ Alike(stack[i + 1], stack'[i + 1]) /\ Calls(stack[i], stack[i + 1])
    BY <1>1, <1>2, <1>4 DEF StackInv
  <2> QED
    BY <2>1 DEF Alike, Calls
<1>8. \A i, j \in 1..Depth :
        stack'[i].is = "step" /\ stack'[j].is = "step" /\ stack'[i].step = stack'[j].step => i = j
  BY <1>4 DEF StackInv, Alike
<1> QED
  BY <1>1, <1>2, <1>5, <1>6, <1>7, <1>8 DEF StackInv, Depth, Top

LEMMA PushStack ==
  ASSUME TypeOK, StackInv, NEW f \in Frame, NEW g \in Frame, Pushed(f, g),
         Placed(f), Placed(g), Calls(f, g), UNCHANGED <<plan, phase>>, ctl' = "go",
         g.is = "step" => \A i \in 1..Depth : stack[i].is = "step" => stack[i].step # g.step
  PROVE  StackInv'
<1>1. Depth \in Nat /\ Depth >= 1 /\ Top = stack[Depth]
  BY Here
<1>2. Len(stack') = Depth + 1 /\ stack'[Depth] = f /\ Alike(stack[Depth], f)
      /\ (\A i \in 1..(Depth - 1) : stack'[i] = stack[i]) /\ stack'[Depth + 1] = g
  BY <1>1 DEF Pushed
<1>3. /\ \A i \in 1..(Depth + 1) : i = Depth + 1 \/ i \in 1..Depth
      /\ \A i \in 1..Depth : i = Depth \/ i \in 1..(Depth - 1)
  BY <1>1
<1>4. \A i \in 1..Depth : Alike(stack[i], stack'[i])
  BY <1>2, <1>3 DEF Alike
<1>5. stack'[1].is = "list" /\ stack'[1].list = plan'[phase']
  BY <1>1, <1>4 DEF StackInv, Alike
<1>6. \A i \in 1..(Depth + 1) : Placed(stack'[i])
  <2>1. \A i \in 1..(Depth - 1) : Placed(stack'[i])
    BY <1>1, <1>2 DEF StackInv
  <2> QED
    BY <2>1, <1>2, <1>3
<1>7. \A i \in 1..Depth : Calls(stack'[i], stack'[i + 1])
  <2> SUFFICES ASSUME NEW i \in 1..Depth PROVE Calls(stack'[i], stack'[i + 1])
    OBVIOUS
  <2>1. CASE i = Depth
    BY <2>1, <1>2
  <2>2. CASE i \in 1..(Depth - 1)
    <3>1. stack'[i] = stack[i] /\ Alike(stack[i + 1], stack'[i + 1]) /\ Calls(stack[i], stack[i + 1])
      BY <2>2, <1>1, <1>2, <1>4 DEF StackInv
    <3> QED
      BY <3>1 DEF Alike, Calls
  <2> QED
    BY <2>1, <2>2, <1>3
<1>8. \A i, j \in 1..(Depth + 1) :
        stack'[i].is = "step" /\ stack'[j].is = "step" /\ stack'[i].step = stack'[j].step => i = j
  <2>1. \A i, j \in 1..Depth :
          stack'[i].is = "step" /\ stack'[j].is = "step" /\ stack'[i].step = stack'[j].step => i = j
    BY <1>4 DEF StackInv, Alike
  <2>2. g.is = "step" => \A i \in 1..Depth : stack'[i].is = "step" => stack'[i].step # g.step
    BY <1>4 DEF Alike
  <2>3. \A i \in 1..(Depth + 1) : i = Depth + 1 \/ i \in 1..Depth
    BY <1>1
  <2> QED
    BY <2>1, <2>2, <2>3, <1>2
<1> QED
  BY <1>1, <1>2, <1>5, <1>6, <1>7, <1>8 DEF StackInv, Depth, Top

LEMMA PopStack ==
  ASSUME TypeOK, StackInv, Popped, Depth >= 2, UNCHANGED <<plan, phase>>
  PROVE  StackInv' /\ Top' = stack[Depth - 1] /\ Depth' = Depth - 1
<1>1. Depth \in Nat /\ Depth >= 1 /\ Top = stack[Depth] /\ Depth - 1 \in 1..(Depth - 1)
      /\ (Depth - 1) + 1 = Depth
  BY Here
<1>2. Len(stack') = Depth - 1 /\ \A i \in 1..(Depth - 1) : stack'[i] = stack[i]
  BY DEF Popped
<1>3. Calls(stack[Depth - 1], stack[Depth])
  BY <1>1 DEF StackInv
<1>4. stack[Depth - 1].is = "list" => stack[Depth - 1].at \in DOMAIN stack[Depth - 1].list
  BY <1>3 DEF Calls
<1>5. stack'[1].is = "list" /\ stack'[1].list = plan'[phase']
  BY <1>1, <1>2 DEF StackInv
<1>6. \A i \in 1..(Depth - 1) : Placed(stack'[i])
  BY <1>1, <1>2 DEF StackInv
<1>7. \A i \in 1..((Depth - 1) - 1) : Calls(stack'[i], stack'[i + 1])
  BY <1>1, <1>2 DEF StackInv
<1>8. \A i, j \in 1..(Depth - 1) :
        stack'[i].is = "step" /\ stack'[j].is = "step" /\ stack'[i].step = stack'[j].step => i = j
  BY <1>1, <1>2 DEF StackInv
<1>9. Top' = stack[Depth - 1] /\ Depth' = Depth - 1
  BY <1>1, <1>2 DEF Top, Depth
<1> QED
  BY <1>1, <1>2, <1>4, <1>5, <1>6, <1>7, <1>8, <1>9 DEF StackInv

LEMMA StartStack ==
  ASSUME TypeOK, NEW d \in Driver, Started(d), ctl' = "go", UNCHANGED plan
  PROVE  StackInv' /\ Top' = List(plan[phase'], d) /\ Depth' = 1
<1>1. plan[phase'] \in Seq(Steps)
  BY EngineAssumption DEF TypeOK, Started
<1>2. Len(plan[phase']) \in Nat
  BY <1>1, LenProperties
<1>3. Depth' = 1 /\ Top' = List(plan[phase'], d) /\ stack'[1] = List(plan[phase'], d)
  BY DEF Started, Depth, Top
<1>4. Placed(List(plan[phase'], d))
  BY <1>1, <1>2, ListFields DEF Placed
<1>5. 1 \in 1..Depth' /\ (\A i \in 1..Depth' : i = 1) /\ 1..(Depth' - 1) = {}
  BY <1>3
<1> QED
  BY <1>1, <1>3, <1>4, <1>5, ListFields DEF StackInv

-----------------------------------------------------------------------------
(* What the actions do to the stack                                        *)

\* The list goes on with its next step, and the browser d.
Advances(d) ==
  \E f \in Frame : Swapped(f) /\ f.at = Top.at + 1 /\ f.drv = d /\ f.failed = Top.failed

LEMMA AdvanceDoes ==
  ASSUME TypeOK, StackInv, NEW d \in Driver, Top.is = "list",
         \/ Replace([Top EXCEPT !.at = @ + 1, !.drv = d])
         \/ Replace([Top EXCEPT !.at = @ + 1]) /\ d = Top.drv
  PROVE  Advances(d)
<1>1. Top \in Frame /\ Top.at \in Nat /\ Top.at + 1 \in Nat /\ Depth >= 1
  BY Here
<1>2. CASE Replace([Top EXCEPT !.at = @ + 1, !.drv = d])
  <2>1. PICK f : f = Onward(Top, d)
    OBVIOUS
  <2>2. f \in Frame /\ Alike(Top, f) /\ f.at = Top.at + 1 /\ f.drv = d /\ f.failed = Top.failed
    BY <1>1, <2>1, OnwardFields
  <2>3. Replace(f)
    BY <1>2, <2>1 DEF Onward
  <2> QED
    BY <1>1, <2>2, <2>3, ReplaceDoes DEF Advances
<1>3. CASE Replace([Top EXCEPT !.at = @ + 1]) /\ d = Top.drv
  <2> DEFINE f == [Top EXCEPT !.at = @ + 1]
  <2>1. f = [Top EXCEPT !.at = Top.at + 1]
    OBVIOUS
  <2>2. f \in Frame /\ Alike(Top, f) /\ f.at = Top.at + 1 /\ f.drv = d /\ f.failed = Top.failed
    BY <1>1, <1>3, <2>1, AtFields
  <2> HIDE DEF f
  <2>3. Replace(f)
    BY <1>3 DEF f
  <2> QED
    BY <1>1, <2>2, <2>3, ReplaceDoes DEF Advances
<1> QED
  BY <1>2, <1>3

LEMMA AdvanceStack ==
  ASSUME TypeOK, StackInv, NEW d \in Driver, Advances(d), Top.is = "list",
         Top.at <= Len(Top.list) \/ ctl # "go", ctl' = "go", UNCHANGED <<plan, phase>>
  PROVE  /\ StackInv' /\ stack' \in Seq(Frame) /\ Depth' = Depth /\ Alike(Top, Top')
         /\ Top'.at = Top.at + 1 /\ Top'.drv = d /\ Top'.failed = Top.failed
         /\ \A i \in 1..(Depth - 1) : stack'[i] = stack[i]
<1>1. PICK f \in Frame : Swapped(f) /\ f.at = Top.at + 1 /\ f.drv = d /\ f.failed = Top.failed
  BY DEF Advances
<1>2. Placed(f)
  BY <1>1, Here DEF Placed, Swapped, Alike
<1>3. StackInv'
  BY <1>1, <1>2, SwapStack
<1>4. Top' = f /\ Depth' = Depth
  BY <1>1 DEF Swapped, Top, Depth
<1> QED
  BY <1>1, <1>3, <1>4 DEF Swapped

\* The frame waits for a new frame g, and keeps its place.
Descends(d, b, g) ==
  \E f \in Frame : Pushed(f, g) /\ f.at = Top.at /\ f.drv = d /\ f.failed = b

LEMMA BeginDoes ==
  ASSUME TypeOK, StackInv, phase \in Phases, Begin
  PROVE  \E d \in Driver :
           /\ Descends(d, Top.failed, Call(Child, d))
           /\ made' \in 0..MaxBrowsers
           /\ \/ ~LaunchesFirst /\ d = Top.drv /\ UNCHANGED <<made, open>>
              \/ /\ LaunchesFirst /\ d = made' /\ made' = made + 1 /\ d \in Browsers
                 /\ open' = open \cup {d}
<1>1. Top \in Frame /\ Top.at \in Nat /\ Depth >= 1 /\ Child \in Steps /\ Top.drv \in Driver
  BY Here DEF Begin, Running
<1>2. MaxBrowsers \in Nat /\ made \in 0..MaxBrowsers
  BY EngineAssumption DEF TypeOK
<1>3. CASE LaunchesFirst
  <2> DEFINE f == [Top EXCEPT !.drv = made']
  <2>1. made < MaxBrowsers /\ made' = made + 1 /\ open' = open \cup {made'}
        /\ Push(f, Call(Child, made'))
    BY <1>3 DEF Begin
  <2>2. made' \in Browsers /\ made' \in Driver /\ made' \in 0..MaxBrowsers
    BY <1>2, <2>1 DEF Browsers, Driver
  <2>3. f \in Frame /\ Alike(Top, f) /\ f.at = Top.at /\ f.drv = made' /\ f.failed = Top.failed
    BY <1>1, <2>2, DrvFields
  <2>4. Call(Child, made') \in Frame
    BY <1>1, <2>2, CallFields
  <2> HIDE DEF f
  <2>5. Pushed(f, Call(Child, made'))
    BY <1>1, <2>1, <2>3, <2>4, PushDoes
  <2> QED
    BY <1>3, <2>1, <2>2, <2>3, <2>5 DEF Descends
<1>4. CASE ~LaunchesFirst
  <2>1. Push(Top, Call(Child, Top.drv)) /\ UNCHANGED <<made, open>>
    BY <1>4 DEF Begin
  <2>2. Call(Child, Top.drv) \in Frame /\ Alike(Top, Top)
    BY <1>1, CallFields DEF Alike
  <2>3. Pushed(Top, Call(Child, Top.drv))
    BY <1>1, <2>1, <2>2, PushDoes
  <2> QED
    BY <1>1, <1>2, <1>4, <2>1, <2>3 DEF Descends
<1> QED
  BY <1>3, <1>4

LEMMA BeginStack ==
  ASSUME TypeOK, StackInv, phase \in Phases, Begin
  PROVE  StackInv' /\ stack' \in Seq(Frame)
<1>1. PICK d \in Driver : Descends(d, Top.failed, Call(Child, d))
  BY BeginDoes
<1>2. PICK f \in Frame : Pushed(f, Call(Child, d)) /\ f.at = Top.at
  BY <1>1 DEF Descends
<1>3. Top.is = "list" /\ Top.at <= Len(Top.list) /\ UNCHANGED <<plan, phase>> /\ ctl' = "go"
  BY DEF Begin, Running, run
<1>4. Child \in Steps /\ Child \in In(Top.list) /\ Top.at \in DOMAIN Top.list /\ Top \in Frame
      /\ Child = Top.list[Top.at] /\ Placed(Top)
  BY <1>3, Here DEF Child, Placed, StackInv, Top
<1>5. Call(Child, d) \in Frame /\ Call(Child, d).is = "step" /\ Call(Child, d).step = Child
      /\ Call(Child, d).list = <<>>
  BY <1>4, CallFields
<1>6. Placed(f) /\ Placed(Call(Child, d)) /\ Calls(f, Call(Child, d))
  BY <1>2, <1>3, <1>4, <1>5 DEF Placed, Calls, Pushed, Alike
<1>7. \A i \in 1..Depth : stack[i].is = "step" => stack[i].step # Child
  BY <1>3, <1>4, ChildIsNew
<1>8. StackInv'
  BY <1>2, <1>3, <1>5, <1>6, <1>7, PushStack
<1> QED
  BY <1>2, <1>8 DEF Pushed

LEMMA IntoDoes ==
  ASSUME TypeOK, StackInv, Top.is = "step", NEW s \in {"start", "body", "catch", "last"},
         NEW list \in Seq(Steps), NEW d \in Driver, NEW b \in BOOLEAN, Into(s, list, d, b)
  PROVE  Descends(Top.drv, b, List(list, d)) /\ ctl' = "go" /\ val' = val
<1>1. Top \in Frame /\ Depth >= 1
  BY Here
<1>0. PICK f : f = Deeper(Top, s, d, b)
  OBVIOUS
<1>2. f \in Frame /\ Alike(Top, f) /\ f.at = Top.at /\ f.drv = Top.drv /\ f.failed = b
  BY <1>0, <1>1, DeeperFields
<1>3. List(list, d) \in Frame
  BY ListFields
<1>4. Push(f, List(list, d)) /\ ctl' = "go" /\ val' = val
  BY <1>0 DEF Into, Deeper
<1>5. Pushed(f, List(list, d))
  BY <1>1, <1>2, <1>3, <1>4, PushDoes
<1> QED
  BY <1>2, <1>4, <1>5 DEF Descends

LEMMA IntoStack ==
  ASSUME TypeOK, StackInv, Top.is = "step", NEW list \in Seq(Steps), NEW d \in Driver, NEW b,
         Descends(Top.drv, b, List(list, d)), ctl' = "go", UNCHANGED <<plan, phase>>,
         Self.kind \in Nesting, In(list) \subseteq Within(Top.step)
  PROVE  StackInv' /\ stack' \in Seq(Frame)
<1>1. PICK f \in Frame : Pushed(f, List(list, d)) /\ f.at = Top.at
  BY DEF Descends
<1>2. List(list, d) \in Frame /\ List(list, d).is = "list" /\ List(list, d).list = list
      /\ List(list, d).at = 1
  BY ListFields
<1>3. Top.step \in Steps /\ Len(list) \in Nat /\ Top.list = <<>>
  BY Here, LenProperties
<1>4. Placed(f) /\ Placed(List(list, d)) /\ Calls(f, List(list, d))
  BY <1>1, <1>2, <1>3 DEF Placed, Calls, Pushed, Alike, Self
<1>5. StackInv'
  BY <1>1, <1>2, <1>4, PushStack
<1> QED
  BY <1>1, <1>5 DEF Pushed

\* The step frame takes over a browser, with which it may be tried again.
LEMMA TriedStack ==
  ASSUME TypeOK, StackInv, Top.is = "step", NEW f \in Frame, Replace(f), f.is = "step",
         Alike(Top, f), UNCHANGED <<plan, phase>>
  PROVE  /\ StackInv' /\ stack' \in Seq(Frame) /\ Depth' = Depth /\ Top' = f
         /\ \A i \in 1..(Depth - 1) : stack'[i] = stack[i]
<1>1. Depth >= 1 /\ Top.step \in Steps /\ Top.list = <<>>
  BY Here
<1>2. Swapped(f) /\ Placed(f)
  BY <1>1, ReplaceDoes DEF Placed, Alike
<1>3. StackInv'
  BY <1>2, SwapStack
<1> QED
  BY <1>2, <1>3 DEF Swapped, Top, Depth

LEMMA SameStack ==
  ASSUME TypeOK, StackInv, UNCHANGED <<plan, phase, stack>>, Top.is = "step"
  PROVE  StackInv' /\ Top' = Top /\ Depth' = Depth
BY DEF StackInv, Top, Depth

LEMMA RaisesDoes ==
  ASSUME TypeOK, StackInv, phase \in Phases, PhaseRaises
  PROVE  /\ held' \in Driver /\ UNCHANGED <<kept, open, made, val>>
         /\ phase = "steps" => held' = Top.drv
         /\ phase # "steps" => upset'
         /\ broke' = broke \cup {phase} /\ (upset => upset')
         /\ \/ /\ phase \in {"before", "steps", "success"} /\ phase' = "failure"
               /\ Started(held') /\ ctl' = "go" /\ UNCHANGED result
            \/ /\ phase = "failure" /\ phase' = "finally"
               /\ Started(held') /\ ctl' = "go" /\ result' = "raised"
            \/ phase = "finally" /\ phase' = "over" /\ result' = "raised" /\ UNCHANGED <<stack, ctl>>
<1>1. Top.drv \in Driver /\ held \in Driver
  BY Here DEF TypeOK
<1>2. held' \in Driver
  BY <1>1 DEF PhaseRaises
<1>3. \A p \in Phases : Enter(p, held') => Started(held') /\ phase' = p /\ ctl' = "go"
  BY <1>2, EnterDoes
<1>4. phase # "steps" => held' = held
  BY DEF PhaseRaises
<1>5. /\ phase = "steps" => held' = Top.drv
      /\ phase # "steps" => upset'
      /\ broke' = broke \cup {phase} /\ (upset => upset') /\ UNCHANGED <<kept, open, made, val>>
  BY DEF PhaseRaises
<1> QED
  BY <1>2, <1>3, <1>4, <1>5 DEF PhaseRaises, Phases

LEMMA EndsDoes ==
  ASSUME TypeOK, StackInv, phase \in Phases, PhaseEnds
  PROVE  /\ held' \in Driver /\ kept' \in Driver
         /\ UNCHANGED <<run, val, flag, made, shown, fate, upset>>
         /\ Top.drv # None => held' = Top.drv
         /\ phase = "steps" => held' = Top.drv
         /\ \/ /\ \/ phase = "before" /\ phase' = "steps" /\ UNCHANGED result
                  \/ phase = "steps" /\ phase' = "success" /\ UNCHANGED result
                  \/ phase = "success" /\ phase' = "finally" /\ result' = "success"
                  \/ phase = "failure" /\ phase' = "finally" /\ result' = "failure"
               /\ Started(held') /\ ctl' = "go" /\ UNCHANGED <<open, broke>>
            \/ /\ phase = "finally" /\ phase' = "over" /\ UNCHANGED <<stack, ctl>>
               /\ \/ open' = open \ {held'} /\ UNCHANGED <<result, broke>>
                  \/ result' = "raised" /\ broke' = broke \cup {"quit"} /\ UNCHANGED open
<1>1. Top.drv \in Driver /\ held \in Driver /\ kept \in Driver
  BY Here DEF TypeOK
<1>2. /\ kept' = IF phase # "steps" /\ Top.drv # None THEN Top.drv ELSE kept
      /\ held' = IF phase = "steps" THEN Top.drv ELSE IF kept' # None THEN kept' ELSE held
      /\ UNCHANGED <<run, val, flag, made, shown, fate, upset>>
  BY DEF PhaseEnds
<1>3. held' \in Driver /\ kept' \in Driver
  BY <1>1, <1>2
<1>4. \A p \in Phases : Enter(p, held') => Started(held') /\ phase' = p /\ ctl' = "go"
  BY <1>3, EnterDoes
<1>5. (Top.drv # None => held' = Top.drv) /\ (phase = "steps" => held' = Top.drv)
  BY <1>2
<1>6. \/ /\ \/ phase = "before" /\ Enter("steps", held') /\ UNCHANGED result
            \/ phase = "steps" /\ Enter("success", held') /\ UNCHANGED result
            \/ phase = "success" /\ Enter("finally", held') /\ result' = "success"
            \/ phase = "failure" /\ Enter("finally", held') /\ result' = "failure"
         /\ UNCHANGED <<open, broke>>
      \/ /\ phase = "finally" /\ phase' = "over" /\ UNCHANGED <<stack, ctl>>
         /\ \/ open' = open \ {held'} /\ UNCHANGED <<result, broke>>
            \/ result' = "raised" /\ broke' = broke \cup {"quit"} /\ UNCHANGED open
  BY DEF PhaseEnds
<1>7. {"steps", "success", "finally"} \subseteq Phases
  BY DEF Phases
<1> QED
  BY <1>2, <1>3, <1>4, <1>5, <1>6, <1>7

\* The children of a parallel block, after it: how they ended and what was
\* shown of them. Nothing else was touched.
ChildrenEnd(kids) ==
  /\ DOMAIN shown' = Steps /\ DOMAIN fate' = Steps
  /\ \A k \in kids : /\ shown'[k] \in {shown[k], "retrying", "failed"}
                     /\ fate'[k] \in {"ok", "skipped", "error", "swallowed"}
  /\ \A s \in Steps \ kids : shown'[s] = shown[s]
  /\ \A s \in Steps \ (kids \cup {Top.step}) : fate'[s] = fate[s]

LEMMA ParallelDoes ==
  ASSUME TypeOK, StackInv, phase \in Phases, Parallel
  PROVE  /\ ChildrenEnd(In(Self.body)) /\ Top.step \notin In(Self.body)
         /\ In(Self.body) \subseteq Steps
         /\ \/ ctl' = "raise" /\ UNCHANGED <<val, stack>> /\ fate'[Top.step] = fate[Top.step]
            \/ ctl' = "back" /\ val' = Top.drv /\ Popped /\ fate'[Top.step] = "ok"
<1> DEFINE kids == In(Self.body)
           last(k) == IF Def[k].retry > 0 THEN "retrying" ELSE shown[k]
           Ends(k) == {[end |-> "ok", event |-> e] : e \in {shown[k], last(k)}}
                      \cup {[end |-> e, event |-> shown[k]] :
                              e \in IF Def[k].cond THEN {"skipped", "error"} ELSE {}}
                      \cup {IF Def[k].tolerant THEN [end |-> "swallowed", event |-> "failed"]
                                              ELSE [end |-> "error", event |-> last(k)]}
<1>1. /\ Top.is = "step" /\ Top.step \in Steps /\ Self \in StepDef /\ Depth >= 1
      /\ Self.kind = "parallel"
      /\ fate \in [Steps -> {"none", "ok", "error", "swallowed", "skipped"}]
      /\ DOMAIN shown = Steps
  BY Here DEF Parallel, Running, TypeOK
<1>2. kids \subseteq Steps
  <2>1. Self.body \in Seq(Steps)
    BY <1>1 DEF StepDef
  <2> QED
    BY <2>1, LenProperties, ElementOfSeq DEF In
<1>3. Top.step \notin kids
  BY <1>1, <1>2, EngineAssumption DEF In, Self
<1>4. PICK e : /\ \A k \in kids : e[k] \in Ends(k)
               /\ shown' = [s \in Steps |-> IF s \in kids THEN e[s].event ELSE shown[s]]
               /\ LET fated == [s \in Steps |-> IF s \in kids THEN e[s].end ELSE fate[s]] IN
                  IF \E k \in kids : e[k].end = "error"
                    THEN Raise /\ fate' = fated /\ UNCHANGED stack
                    ELSE Return(Top.drv) /\ fate' = [fated EXCEPT ![Top.step] = "ok"]
  BY DEF Parallel
<1>5. \A k \in kids : /\ e[k].event \in {shown[k], "retrying", "failed"}
                      /\ e[k].end \in {"ok", "skipped", "error", "swallowed"}
  <2> SUFFICES ASSUME NEW k \in kids
               PROVE  /\ e[k].event \in {shown[k], "retrying", "failed"}
                      /\ e[k].end \in {"ok", "skipped", "error", "swallowed"}
    OBVIOUS
  <2>1. e[k] \in Ends(k)
    BY <1>4
  <2>2. last(k) \in {shown[k], "retrying"}
    OBVIOUS
  <2> HIDE DEF last, kids
  <2> QED
    BY <2>1, <2>2
<1> HIDE DEF kids, Ends
<1>6. CASE Raise /\ UNCHANGED stack
           /\ fate' = [s \in Steps |-> IF s \in kids THEN e[s].end ELSE fate[s]]
  BY <1>1, <1>2, <1>3, <1>4, <1>5, <1>6 DEF ChildrenEnd, Raise, kids
<1>7. CASE /\ Return(Top.drv)
           /\ fate' = [[s \in Steps |-> IF s \in kids THEN e[s].end ELSE fate[s]]
                         EXCEPT ![Top.step] = "ok"]
  <2>1. Popped
    BY <1>1, <1>7, PopDoes DEF Return
  <2>2. fate'[Top.step] = "ok" /\ DOMAIN fate' = Steps
        /\ \A s \in Steps \ {Top.step} : fate'[s] = IF s \in kids THEN e[s].end ELSE fate[s]
    BY <1>1, <1>7
  <2> QED
    BY <1>1, <1>2, <1>3, <1>4, <1>5, <1>7, <2>1, <2>2 DEF ChildrenEnd, Return, kids
<1> QED
  BY <1>4, <1>6, <1>7

-----------------------------------------------------------------------------
(* Types, and the stack                                                    *)

ShownEvents == {"none", "started", "succeeded", "failed", "skipped", "retrying"}
FateEnds    == {"none", "ok", "error", "swallowed", "skipped"}

LEMMA ShowTyped ==
  ASSUME TypeOK, NEW s \in Steps
  PROVE  /\ \A e \in ShownEvents : Show(s, e) =>
              /\ shown' \in [Steps -> ShownEvents] /\ shown'[s] = e
              /\ \A t \in Steps \ {s} : shown'[t] = shown[t]
         /\ \A e \in FateEnds : Fate(s, e) =>
              /\ fate' \in [Steps -> FateEnds] /\ fate'[s] = e
              /\ \A t \in Steps \ {s} : fate'[t] = fate[t]
BY DEF TypeOK, Show, Fate, ShownEvents, FateEnds

\* The types of everything but the stack.
RestOK ==
  /\ plan \in Plans /\ dry \in BOOLEAN /\ phase \in Phases \cup {"over"}
  /\ ctl \in {"go", "back", "raise"} /\ val \in Driver /\ held \in Driver /\ kept \in Driver
  /\ flag \in BOOLEAN /\ open \subseteq 1..made /\ made \in 0..MaxBrowsers
  /\ result \in {"none", "success", "failure", "raised"}
  /\ shown \in [Steps -> ShownEvents] /\ fate \in [Steps -> FateEnds]
  /\ broke \subseteq Phases \cup {"quit"} /\ upset \in BOOLEAN

LEMMA RestIs == TypeOK <=> RestOK /\ stack \in Seq(Frame)
BY DEF TypeOK, RestOK, ShownEvents, FateEnds

Sound == RestOK' /\ stack' \in Seq(Frame) /\ (phase' # "over" => StackInv')

LEMMA NextStack ==
  ASSUME TypeOK, phase \in Phases, StackInv, Next
  PROVE  Sound
<1> USE DEF ShownEvents, FateEnds
<1>0. /\ RestOK /\ Top.drv \in Driver /\ "over" \notin Phases /\ MaxBrowsers \in Nat
      /\ None \in Driver /\ stack \in Seq(Frame)
  BY RestIs, Here, EngineAssumption DEF Phases, Driver
<1>1. CASE SkipTop \/ SkipNested
  <2>1. Top.is = "list" /\ Top.at <= Len(Top.list) /\ Child \in Steps /\ ctl' = "go"
        /\ UNCHANGED <<plan, phase>>
    BY <1>1, Here DEF SkipTop, SkipNested, Running, run
  <2>2. \E d \in Driver : Advances(d)
    BY <1>0, <1>1, <2>1, AdvanceDoes DEF SkipTop, SkipNested
  <2>3. StackInv' /\ stack' \in Seq(Frame)
    BY <2>1, <2>2, AdvanceStack
  <2>4. RestOK'
    BY <1>0, <1>1, <2>1, ShowTyped DEF SkipTop, SkipNested, RestOK, run, hist
  <2> QED
    BY <2>3, <2>4 DEF Sound
<1>2. CASE Begin
  <2>1. StackInv' /\ stack' \in Seq(Frame)
    BY <1>2, BeginStack
  <2>2. Child \in Steps
    BY <1>2, Here DEF Begin, Running
  <2>3. shown' \in [Steps -> ShownEvents]
    BY <1>2, <2>2, ShowTyped DEF Begin
  <2>4. made' \in 0..MaxBrowsers /\ open' \subseteq 1..made'
    BY <1>0, <1>2 DEF Begin, RestOK
  <2> QED
    BY <1>0, <1>2, <2>1, <2>3, <2>4 DEF Sound, Begin, RestOK, run, hist
<1>3. ASSUME PhaseRaises, shown' \in [Steps -> ShownEvents], fate' \in [Steps -> FateEnds],
             flag' = flag, UNCHANGED run
      PROVE  Sound
  <2>1. /\ held' \in Driver /\ phase' \in Phases \cup {"over"}
        /\ UNCHANGED <<kept, open, made, val>>
        /\ ctl' \in {"go", "back", "raise"} /\ result' \in {"none", "success", "failure", "raised"}
        /\ stack' \in Seq(Frame) /\ broke' \subseteq Phases \cup {"quit"}
        /\ phase' # "over" => Started(held') /\ ctl' = "go"
    BY <1>0, <1>3, RaisesDoes DEF RestOK, Started, Phases
  <2>2. upset' \in BOOLEAN
    BY <1>0, <1>3 DEF PhaseRaises, RestOK
  <2>3. phase' # "over" => StackInv'
    BY <2>1, <1>3, StartStack DEF run
  <2>4. RestOK'
    BY <1>0, <1>3, <2>1, <2>2 DEF RestOK, run
  <2> QED
    BY <2>1, <2>3, <2>4 DEF Sound
\* The last frame goes, and nothing changes but what is typed.
<1>4. ASSUME Popped, Depth >= 2, ctl' \in {"go", "back", "raise"}, val' \in Driver,
             shown' \in [Steps -> ShownEvents], fate' \in [Steps -> FateEnds],
             flag' \in BOOLEAN, upset' \in BOOLEAN, open' \subseteq 1..made',
             made' \in 0..MaxBrowsers,
             UNCHANGED <<run, phase, held, kept, result, broke>>
      PROVE  Sound
  <2>1. StackInv' /\ stack' \in Seq(Frame)
    BY <1>4, PopStack DEF Popped, run
  <2> QED
    BY <1>0, <1>4, <2>1 DEF Sound, RestOK, run
<1>5. CASE LaunchFails
  <2>1. Child \in Steps
    BY <1>5, Here DEF LaunchFails, Running
  <2> QED
    BY <1>3, <1>5, <2>1, ShowTyped DEF LaunchFails
<1>6. CASE ConditionRaises
  <2>1. Child \in Steps /\ Depth \in Nat /\ Depth >= 1
    BY <1>6, Here DEF ConditionRaises, Running
  <2>2. fate' \in [Steps -> FateEnds]
    BY <1>6, <2>1, ShowTyped DEF ConditionRaises
  <2>3. CASE PhaseRaises /\ UNCHANGED <<shown, flag>>
    BY <1>0, <1>3, <1>6, <2>2, <2>3 DEF ConditionRaises, RestOK
  <2>4. CASE /\ Depth > 1 /\ Show(Child, "failed") /\ flag' = FALSE /\ stack' = Under /\ Raise
             /\ upset' = TRUE /\ UNCHANGED <<phase, held, kept, open, made, result, broke>>
    <3>1. shown' \in [Steps -> ShownEvents]
      BY <2>1, <2>4, ShowTyped
    <3>2. Popped /\ Depth >= 2
      BY <2>1, <2>4, PopDoes
    <3>3. ctl' = "raise" /\ val' = val /\ UNCHANGED run
      BY <1>6, <2>4 DEF Raise, ConditionRaises
    <3> QED
      BY <1>0, <1>4, <2>2, <2>4, <3>1, <3>2, <3>3 DEF RestOK
  <2> QED
    BY <1>6, <2>3, <2>4 DEF ConditionRaises
<1>7. CASE StepReturns
  <2>1. Top.is = "list" /\ ctl # "go" /\ Child \in Steps /\ ctl' = "go" /\ UNCHANGED <<plan, phase>>
    BY <1>7, Here DEF StepReturns, Running, run
  <2>2. Advances(val)
    BY <1>0, <1>7, <2>1, AdvanceDoes DEF StepReturns, RestOK
  <2>3. StackInv' /\ stack' \in Seq(Frame)
    BY <1>0, <2>1, <2>2, AdvanceStack DEF RestOK
  <2>4. shown' \in [Steps -> ShownEvents]
    BY <1>0, <1>7, <2>1, ShowTyped DEF StepReturns, RestOK
  <2> QED
    BY <1>0, <1>7, <2>3, <2>4 DEF StepReturns, RestOK, Sound, run, hist
<1>8. CASE StepRaises
  <2>1. Child \in Steps /\ Depth \in Nat /\ Depth >= 1
    BY <1>8, Here DEF StepRaises, Running
  <2>2. shown' \in [Steps -> ShownEvents] /\ UNCHANGED <<run, flag, fate>>
    BY <1>8, <2>1, ShowTyped DEF StepRaises
  <2>3. CASE PhaseRaises
    BY <1>0, <1>3, <2>2, <2>3 DEF RestOK
  <2>4. CASE /\ Depth > 1 /\ stack' = Under /\ upset' = TRUE
             /\ UNCHANGED <<phase, ctl, val, held, kept, open, made, result, broke>>
    <3>1. Popped /\ Depth >= 2
      BY <2>1, <2>4, PopDoes
    <3> QED
      BY <1>0, <1>4, <2>2, <2>4, <3>1 DEF RestOK
  <2> QED
    BY <1>8, <2>3, <2>4 DEF StepRaises
<1>9. CASE ListEnds
  <2>1. Popped /\ Depth >= 2
    BY <1>9, Here, PopDoes DEF ListEnds, Return
  <2> QED
    BY <1>0, <1>4, <1>9, <2>1 DEF ListEnds, Return, RestOK, hist
<1>10. CASE PhaseEnds
  <2>1. /\ held' \in Driver /\ kept' \in Driver /\ phase' \in Phases \cup {"over"}
        /\ ctl' \in {"go", "back", "raise"} /\ result' \in {"none", "success", "failure", "raised"}
        /\ stack' \in Seq(Frame) /\ broke' \subseteq Phases \cup {"quit"}
        /\ UNCHANGED <<run, val, flag, made, shown, fate, upset>> /\ open' \subseteq open
        /\ phase' # "over" => Started(held') /\ ctl' = "go"
    BY <1>0, <1>10, EndsDoes DEF RestOK, Started, Phases
  <2>2. phase' # "over" => StackInv'
    BY <2>1, StartStack DEF run
  <2>3. RestOK'
    BY <1>0, <2>1 DEF RestOK, run
  <2> QED
    BY <2>1, <2>2, <2>3 DEF Sound
\* A step is tried: it ends or raises.
<1>11. ASSUME NEW f \in Frame, Top.is = "step", Replace(f), f.is = "step", Alike(Top, f),
              ctl' \in {"go", "raise"}, val' = val, flag' \in BOOLEAN,
              shown' \in [Steps -> ShownEvents], fate' \in [Steps -> FateEnds],
              open' \subseteq 1..made', made' \in 0..MaxBrowsers,
              UNCHANGED <<run, phase, held, kept, result, hist>>
       PROVE  Sound
  <2>1. StackInv' /\ stack' \in Seq(Frame)
    BY <1>11, TriedStack DEF run
  <2> QED
    BY <1>0, <1>11, <2>1 DEF Sound, RestOK, run, hist
<1>12. CASE Operate
  <2>1. Top.is = "step" /\ Top.step \in Steps /\ Top \in Frame /\ Depth >= 2 /\ Depth >= 1
    BY <1>12, Here DEF Operate, Running
  <2>2. PICK d \in IF Launches(Self.kind, Top.drv) THEN {made + 1} ELSE {Top.drv} :
          /\ d # Top.drv => d <= MaxBrowsers
          /\ made' = IF d # Top.drv THEN d ELSE made
          /\ open' \subseteq open \cup (IF d # Top.drv THEN {d} ELSE {})
          /\ \/ Return(d) /\ Fate(Top.step, "ok")
             \/ Return(None) /\ Fate(Top.step, "ok")
             \/ Replace([Top EXCEPT !.drv = d]) /\ Raise /\ fate' = fate
    BY <1>12 DEF Operate
  <2>3. d \in Driver /\ made' \in 0..MaxBrowsers /\ open' \subseteq 1..made'
    <3>1. CASE d = Top.drv
      BY <1>0, <2>2, <3>1 DEF RestOK
    <3>2. CASE d # Top.drv
      BY <1>0, <2>2, <3>2 DEF RestOK, Driver, Browsers
    <3> QED
      BY <3>1, <3>2
  <2>4. UNCHANGED <<run, phase, held, kept, flag, result, shown, hist>>
    BY <1>12 DEF Operate
  <2>5. CASE (Return(d) \/ Return(None)) /\ Fate(Top.step, "ok")
    <3>1. Popped /\ ctl' = "back" /\ val' \in Driver
      BY <1>0, <2>1, <2>3, <2>5, PopDoes DEF Return
    <3>2. fate' \in [Steps -> FateEnds]
      BY <2>1, <2>5, ShowTyped
    <3> QED
      BY <1>0, <1>4, <2>1, <2>3, <2>4, <3>1, <3>2 DEF RestOK, hist
  <2>6. CASE Replace([Top EXCEPT !.drv = d]) /\ Raise /\ fate' = fate
    <3>1. PICK f : f = [Top EXCEPT !.drv = d]
      OBVIOUS
    <3>2. f \in Frame /\ Alike(Top, f) /\ f.is = "step" /\ Replace(f)
      BY <2>1, <2>3, <2>6, <3>1, DrvFields DEF Alike
    <3>3. ctl' = "raise" /\ val' = val
      BY <2>6 DEF Raise
    <3> QED
      BY <1>0, <1>11, <2>1, <2>3, <2>4, <2>6, <3>2, <3>3 DEF RestOK
  <2> QED
    BY <2>2, <2>5, <2>6
<1>13. CASE OperateWithout
  <2>1. StackInv' /\ stack' = stack
    BY <1>13, SameStack DEF OperateWithout, Running, run
  <2> QED
    BY <1>0, <1>13, <2>1 DEF Sound, OperateWithout, Raise, RestOK, run, hist
\* A block goes into a list.
<1>14. ASSUME NEW s \in {"start", "body", "catch", "last"}, NEW list \in Seq(Steps),
              NEW d \in Driver,
              NEW b \in BOOLEAN, Into(s, list, d, b), Top.is = "step", Self.kind \in Nesting,
              In(list) \subseteq Within(Top.step),
              UNCHANGED <<run, phase, held, kept, flag, open, made, result, shown, fate, hist>>
       PROVE  Sound
  <2>1. Descends(Top.drv, b, List(list, d)) /\ ctl' = "go" /\ val' = val
    BY <1>14, IntoDoes
  <2>2. StackInv' /\ stack' \in Seq(Frame)
    BY <1>14, <2>1, IntoStack DEF run
  <2> QED
    BY <1>0, <1>14, <2>1, <2>2 DEF Sound, RestOK, run, hist
<1>15. Top.is = "step" =>
         /\ Self.body \in Seq(Steps) /\ Self.catch \in Seq(Steps) /\ Self.last \in Seq(Steps)
         /\ In(Self.body) \subseteq Within(Top.step) /\ In(Self.catch) \subseteq Within(Top.step)
         /\ In(Self.last) \subseteq Within(Top.step) /\ Top.upd \in Driver
         /\ Top.step \in Steps /\ Depth >= 2 /\ Top \in Frame
  BY Here DEF StepDef, Within, Self
<1>16. CASE BlockBegins
  BY <1>0, <1>14, <1>15, <1>16 DEF BlockBegins, Running, Nesting
<1>17. CASE Parallel
  <2>1. /\ ChildrenEnd(In(Self.body)) /\ In(Self.body) \subseteq Steps
        /\ \/ ctl' = "raise" /\ UNCHANGED <<val, stack>> /\ fate'[Top.step] = fate[Top.step]
           \/ ctl' = "back" /\ val' = Top.drv /\ Popped /\ fate'[Top.step] = "ok"
    BY <1>17, ParallelDoes
  <2>2. UNCHANGED <<run, phase, held, kept, flag, open, made, result, hist>> /\ Top.is = "step"
        /\ Top.step \in Steps
    BY <1>15, <1>17 DEF Parallel, Running
  <2>3. shown' \in [Steps -> ShownEvents] /\ fate' \in [Steps -> FateEnds]
    <3>1. DOMAIN shown' = Steps /\ DOMAIN fate' = Steps
      BY <2>1 DEF ChildrenEnd
    <3>2. \A s \in Steps : shown'[s] \in ShownEvents
      BY <1>0, <2>1 DEF ChildrenEnd, RestOK
    <3>3. \A s \in Steps : fate'[s] \in FateEnds
      BY <1>0, <2>1, <2>2 DEF ChildrenEnd, RestOK
    <3>4. shown' = [s \in Steps |-> shown'[s]] /\ fate' = [s \in Steps |-> fate'[s]]
      BY <1>17, <3>1 DEF Parallel, Return, Raise
    <3> QED
      BY <3>2, <3>3, <3>4
  <2>4. CASE ctl' = "raise" /\ UNCHANGED <<val, stack>>
    <3>1. StackInv' /\ stack' \in Seq(Frame)
      BY <1>0, <2>2, <2>4, SameStack DEF run
    <3> QED
      BY <1>0, <2>2, <2>3, <2>4, <3>1 DEF Sound, RestOK, run, hist
  <2>5. CASE ctl' = "back" /\ val' = Top.drv /\ Popped
    BY <1>0, <1>4, <1>15, <2>2, <2>3, <2>5 DEF RestOK, hist
  <2> QED
    BY <2>1, <2>4, <2>5
<1>18. CASE BlockGoesOn
  <2>1. Top.is = "step" /\ val \in Driver
    BY <1>0, <1>18 DEF BlockGoesOn, Running, RestOK
  <2>2. UNCHANGED <<run, phase, held, kept, flag, open, made, result, shown, hist>>
    BY <1>18 DEF BlockGoesOn
  <2>3. CASE Self.kind = "repeat" /\ Into("body", Self.body, val, FALSE) /\ UNCHANGED fate
    BY <1>14, <1>15, <2>1, <2>2, <2>3 DEF Nesting
  <2>4. CASE Self.kind = "try" /\ Into("last", Self.last, val, FALSE) /\ UNCHANGED fate
    BY <1>14, <1>15, <2>1, <2>2, <2>4 DEF Nesting
  <2>5. CASE ctl' = "raise" /\ Replace([Top EXCEPT !.failed = FALSE]) /\ UNCHANGED <<val, fate>>
    <3>1. PICK f : f = [Top EXCEPT !.failed = FALSE]
      OBVIOUS
    <3>2. f \in Frame /\ Alike(Top, f) /\ f.is = "step" /\ Replace(f)
      BY <1>15, <2>1, <2>5, <3>1, FailedFields DEF Alike
    <3> QED
      BY <1>0, <1>11, <2>1, <2>2, <2>5, <3>2 DEF RestOK
  <2>6. CASE Return(val) /\ Fate(Top.step, "ok")
    <3>1. Popped /\ ctl' = "back" /\ val' = val
      BY <1>15, <2>1, <2>6, Here, PopDoes DEF Return
    <3>2. fate' \in [Steps -> FateEnds]
      BY <1>15, <2>1, <2>6, ShowTyped
    <3> QED
      BY <1>0, <1>4, <1>15, <2>1, <2>2, <3>1, <3>2 DEF RestOK, hist
  <2> QED
    BY <1>18, <2>3, <2>4, <2>5, <2>6 DEF BlockGoesOn
<1>19. CASE TryHandles
  BY <1>14, <1>15, <1>19 DEF TryHandles, Running, Catches, Defers, Nesting
<1>20. CASE AttemptFails
  <2>1. Top.is = "step" /\ Top.step \in Steps /\ Depth >= 2 /\ Top.at \in Nat /\ Top.at + 1 \in Nat
        /\ Top.list = <<>>
    BY <1>15, <1>20, Here DEF AttemptFails, Running, Frame
  <2>2. UNCHANGED <<run, phase, held, kept, open, made, result, hist>>
    BY <1>20 DEF AttemptFails
  <2>3. CASE /\ Show(Top.step, "retrying") /\ ctl' = "go" /\ UNCHANGED <<val, flag, fate>>
             /\ Replace([Call(Top.step, Top.drv) EXCEPT !.at = Top.at + 1])
    <3>1. PICK f : f = [Call(Top.step, Top.drv) EXCEPT !.at = Top.at + 1]
      OBVIOUS
    <3>2. f \in Frame /\ f.is = "step" /\ f.step = Top.step
      BY <1>0, <2>1, <3>1, CallFields, AtFields DEF Alike
    <3>3. f.list = <<>> /\ Replace(f)
      BY <2>3, <3>1 DEF Call
    <3>4. shown' \in [Steps -> ShownEvents]
      BY <2>1, <2>3, ShowTyped
    <3> QED
      BY <1>0, <1>11, <2>1, <2>2, <2>3, <3>2, <3>3, <3>4 DEF RestOK, Alike
  <2>4. CASE Show(Top.step, "failed") /\ Fate(Top.step, "swallowed") /\ flag' = TRUE /\ Return(Top.drv)
    <3>1. Popped /\ ctl' = "back" /\ val' = Top.drv
      BY <2>1, <2>4, Here, PopDoes DEF Return
    <3>2. shown' \in [Steps -> ShownEvents] /\ fate' \in [Steps -> FateEnds]
      BY <2>1, <2>4, ShowTyped
    <3> QED
      BY <1>0, <1>4, <2>1, <2>2, <2>4, <3>1, <3>2 DEF RestOK, hist
  <2>5. CASE Fate(Top.step, "error") /\ stack' = Under /\ Raise /\ UNCHANGED <<flag, shown>>
    <3>1. Popped /\ ctl' = "raise" /\ val' = val
      BY <2>1, <2>5, Here, PopDoes DEF Raise
    <3>2. fate' \in [Steps -> FateEnds]
      BY <2>1, <2>5, ShowTyped
    <3> QED
      BY <1>0, <1>4, <2>1, <2>2, <2>5, <3>1, <3>2 DEF RestOK, hist
  <2> QED
    BY <1>20, <2>3, <2>4, <2>5 DEF AttemptFails
<1> QED
  BY <1>1, <1>2, <1>5, <1>6, <1>7, <1>8, <1>9, <1>10, <1>12, <1>13, <1>16, <1>17, <1>18,
     <1>19, <1>20 DEF Next

-----------------------------------------------------------------------------
(* The browsers                                                            *)

LEMMA Turns ==
  ASSUME TypeOK, StackInv
  PROVE  /\ Depth >= 2 => stack[2].is = "step" /\ stack[2].step \in Steps
         /\ Top.is = "list" /\ Depth > 1 => Depth >= 3
         /\ Top.is = "step" => stack[Depth - 1].is = "list" /\ Depth - 1 \in 1..(Depth - 1)
<1>1. Depth \in Nat /\ Depth >= 1 /\ Top = stack[Depth]
  BY Here
<1>2. ASSUME Depth >= 2 PROVE stack[2].is = "step" /\ stack[2].step \in Steps
  <2>1. 1 \in 1..(Depth - 1) /\ 2 \in 1..Depth /\ 1 + 1 = 2
    BY <1>1, <1>2
  <2>2. Calls(stack[1], stack[2]) /\ stack[1].is = "list" /\ Placed(stack[2])
    BY <2>1 DEF StackInv
  <2> QED
    BY <2>2 DEF Calls, Placed
<1>3. ASSUME Top.is = "list", Depth > 1 PROVE Depth >= 3
  <2>1. Depth # 2
    BY <1>1, <1>2, <1>3
  <2> QED
    BY <1>1, <1>3, <2>1
<1>4. ASSUME Top.is = "step" PROVE stack[Depth - 1].is = "list" /\ Depth - 1 \in 1..(Depth - 1)
  <2>1. Depth >= 2
    BY <1>4, Here
  <2>2. Depth - 1 \in 1..(Depth - 1) /\ (Depth - 1) + 1 = Depth
    BY <1>1, <2>1
  <2>3. Calls(stack[Depth - 1], stack[Depth])
    BY <2>2 DEF StackInv
  <2> QED
    BY <1>1, <1>4, <2>2, <2>3 DEF Calls
<1> QED
  BY <1>2, <1>3, <1>4

\* The two lowest frames keep their browsers.
LEMMA FirstKept ==
  ASSUME FirstInv, UNCHANGED <<phase, dry>>,
         Depth' >= 2 => /\ Depth >= 2 /\ stack'[1].drv = stack[1].drv
                        /\ stack'[2].drv = stack[2].drv /\ stack'[2].step = stack[2].step
  PROVE  FirstInv'
BY DEF FirstInv, Launches

LEMMA AdvanceBrowsers ==
  ASSUME TypeOK, StackInv, FailedInv, FirstInv, NEW d \in Driver, Advances(d), Top.is = "list",
         Top.at <= Len(Top.list) \/ ctl # "go", ctl' = "go",
         UNCHANGED run, UNCHANGED phase, upset => upset'
  PROVE  FailedInv' /\ RaiseInv' /\ FirstInv' /\ Top'.drv = d
<1>1. /\ Depth' = Depth /\ Top'.drv = d /\ Top'.failed = Top.failed
      /\ \A i \in 1..(Depth - 1) : stack'[i] = stack[i]
  BY AdvanceStack DEF run
<1>2. Depth \in Nat /\ Depth >= 1 /\ Top = stack[Depth] /\ (Depth > 1 => Depth >= 3)
      /\ Top' = stack'[Depth']
  BY Here, Turns DEF Top
<1>3. \A i \in 1..Depth : i = Depth \/ i \in 1..(Depth - 1)
  BY <1>2
<1>4. FailedInv'
  BY <1>1, <1>2, <1>3 DEF FailedInv
<1>5. Depth >= 2 => stack'[1] = stack[1] /\ stack'[2] = stack[2]
  BY <1>1, <1>2
<1>6. FirstInv'
  BY <1>1, <1>5, FirstKept DEF run
<1> QED
  BY <1>1, <1>4, <1>6 DEF RaiseInv

LEMMA DescendBrowsers ==
  ASSUME TypeOK, StackInv, FailedInv, FirstInv, Top.is = "step", NEW list \in Seq(Steps),
         NEW d \in Driver, NEW b \in BOOLEAN, b => upset, Descends(Top.drv, b, List(list, d)),
         ctl' = "go", UNCHANGED <<run, phase, upset>>
  PROVE  FailedInv' /\ RaiseInv' /\ FirstInv' /\ Top'.drv = d
<1>1. PICK f \in Frame : Pushed(f, List(list, d)) /\ f.drv = Top.drv /\ f.failed = b
  BY DEF Descends
<1>2. Depth \in Nat /\ Depth >= 2 /\ Top = stack[Depth]
  BY Here
<1>3. /\ Len(stack') = Depth + 1 /\ stack'[Depth] = f /\ stack'[Depth + 1] = List(list, d)
      /\ Alike(Top, f) /\ \A i \in 1..(Depth - 1) : stack'[i] = stack[i]
  BY <1>1 DEF Pushed
<1>4. Depth' = Depth + 1 /\ Top' = List(list, d)
  BY <1>3 DEF Depth, Top
<1>5. \A i \in 1..(Depth + 1) : i = Depth + 1 \/ i = Depth \/ (i \in 1..(Depth - 1) /\ i \in 1..Depth)
  BY <1>2
<1>6. FailedInv'
  <2> SUFFICES ASSUME NEW i \in 1..(Depth + 1), stack'[i].failed PROVE upset
    BY <1>4 DEF FailedInv
  <2>1. ~List(list, d).failed
    BY ListFields
  <2>2. CASE i \in 1..(Depth - 1) /\ i \in 1..Depth
    BY <1>3, <2>2 DEF FailedInv
  <2> QED
    BY <1>1, <1>3, <1>5, <2>1, <2>2
<1>7. stack'[1].drv = stack[1].drv /\ stack'[2].drv = stack[2].drv /\ stack'[2].step = stack[2].step
  <2>1. stack'[1] = stack[1]
    BY <1>2, <1>3
  <2>2. CASE Depth = 2
    BY <1>1, <1>2, <1>3, <2>1, <2>2 DEF Alike
  <2>3. CASE Depth > 2
    <3>1. 2 \in 1..(Depth - 1)
      BY <1>2, <2>3
    <3> QED
      BY <1>3, <2>1, <3>1
  <2> QED
    BY <1>2, <2>2, <2>3
<1>8. FirstInv'
  BY <1>2, <1>7, FirstKept DEF run
<1> QED
  BY <1>4, <1>6, <1>8, ListFields DEF RaiseInv

LEMMA PopBrowsers ==
  ASSUME TypeOK, StackInv, FailedInv, FirstInv, Popped, Depth >= 2,
         UNCHANGED <<run, phase>>, upset => upset'
  PROVE  /\ FailedInv' /\ FirstInv' /\ Top' = stack[Depth - 1] /\ Depth' = Depth - 1
<1>1. Depth \in Nat
  BY Here
<1>2. Top' = stack[Depth - 1] /\ Depth' = Depth - 1
  BY PopStack DEF run
<1>3. \A i \in 1..(Depth - 1) : stack'[i] = stack[i] /\ i \in 1..Depth
  BY <1>1 DEF Popped
<1>4. FailedInv'
  BY <1>2, <1>3 DEF FailedInv
<1>5. Depth - 1 >= 2 => 1 \in 1..(Depth - 1) /\ 2 \in 1..(Depth - 1)
  BY <1>1
<1>6. FirstInv'
  BY <1>2, <1>3, <1>5, FirstKept DEF run
<1> QED
  BY <1>2, <1>4, <1>6

LEMMA StartBrowsers ==
  ASSUME TypeOK, NEW d \in Driver, Started(d), ctl' = "go", UNCHANGED plan
  PROVE  FailedInv' /\ RaiseInv' /\ FirstInv' /\ Top'.drv = d
<1>1. plan[phase'] \in Seq(Steps)
  BY EngineAssumption DEF TypeOK, Started
<1>2. Top' = List(plan[phase'], d) /\ Depth' = 1 /\ stack'[1] = List(plan[phase'], d)
  BY StartStack DEF Started
<1>3. \A i \in 1..1 : i = 1
  OBVIOUS
<1> QED
  BY <1>1, <1>2, <1>3, ListFields DEF FailedInv, RaiseInv, FirstInv

LEMMA TriedBrowsers ==
  ASSUME TypeOK, StackInv, FailedInv, FirstInv, Top.is = "step", NEW f \in Frame, Replace(f),
         f.is = "step", Alike(Top, f), UNCHANGED <<run, phase>>, f.failed => upset',
         upset => upset',
         phase = "steps" /\ Depth = 2 => f.drv = Top.drv
  PROVE  FailedInv' /\ FirstInv' /\ Top' = f
<1>1. Depth' = Depth /\ Top' = f /\ \A i \in 1..(Depth - 1) : stack'[i] = stack[i]
  BY TriedStack DEF run
<1>2. Depth \in Nat /\ Depth >= 2 /\ Top = stack[Depth] /\ Top' = stack'[Depth']
  BY Here DEF Top
<1>3. \A i \in 1..Depth : i = Depth \/ i \in 1..(Depth - 1)
  BY <1>2
<1>4. FailedInv'
  BY <1>1, <1>2, <1>3 DEF FailedInv
<1>5. stack'[1] = stack[1] /\ (Depth > 2 => stack'[2] = stack[2])
  BY <1>1, <1>2
<1>6. phase = "steps" => stack'[2].drv = stack[2].drv /\ stack'[2].step = stack[2].step
  BY <1>1, <1>2, <1>5 DEF Alike
<1>7. FirstInv'
  BY <1>1, <1>2, <1>5, <1>6 DEF FirstInv, Launches, run
<1> QED
  BY <1>1, <1>4, <1>7

\* What PhaseRaises and PhaseEnds leave of the browsers.
LEMMA RaisedBrowsers ==
  ASSUME TypeOK, StackInv, phase \in Phases, PhaseRaises, UNCHANGED plan,
         phase = "steps" => upset \/ open \subseteq {Top.drv}
  PROVE  /\ phase' # "over" => BrowserInv'
         /\ phase' = "over" => BrowsersQuit'
<1>1. /\ held' \in Driver /\ open' = open
      /\ phase = "steps" => held' = Top.drv
      /\ phase # "steps" => upset'
      /\ upset => upset'
      /\ \/ Started(held') /\ ctl' = "go" /\ phase' # "over"
         \/ phase = "finally" /\ phase' = "over"
  BY RaisesDoes
<1>2. CASE Started(held') /\ ctl' = "go" /\ phase' # "over"
  <2>1. FailedInv' /\ RaiseInv' /\ FirstInv' /\ Top'.drv = held'
    BY <1>1, <1>2, StartBrowsers
  <2>2. KnownInv'
    BY <1>1, <1>2, <2>1 DEF KnownInv
  <2> QED
    BY <1>2, <2>1, <2>2 DEF BrowserInv
<1>3. CASE phase = "finally" /\ phase' = "over"
  BY <1>1, <1>3 DEF BrowsersQuit
<1> QED
  BY <1>1, <1>2, <1>3

LEMMA EndedBrowsers ==
  ASSUME TypeOK, StackInv, phase \in Phases, BrowserInv, PhaseEnds
  PROVE  /\ phase' # "over" => BrowserInv'
         /\ phase' = "over" => BrowsersQuit'
<1>1. /\ held' \in Driver /\ UNCHANGED <<run, upset>>
      /\ Top.drv # None => held' = Top.drv
      /\ \/ Started(held') /\ ctl' = "go" /\ phase' # "over" /\ open' = open
         \/ /\ phase' = "over"
            /\ open' = open \ {held'} \/ "quit" \in broke'
  BY EndsDoes DEF Phases
<1>2. upset \/ open \subseteq {held'}
  <2>1. upset \/ open \subseteq {Top.drv}
    BY DEF PhaseEnds, Running, BrowserInv, KnownInv
  <2>2. open \subseteq 1..MaxBrowsers /\ None \notin 1..MaxBrowsers
    BY EngineAssumption DEF TypeOK
  <2>3. CASE Top.drv # None
    BY <1>1, <2>1, <2>3
  <2>4. CASE Top.drv = None
    BY <2>1, <2>2, <2>4
  <2> QED
    BY <2>3, <2>4
<1>3. CASE Started(held') /\ ctl' = "go" /\ phase' # "over" /\ open' = open
  <2>1. FailedInv' /\ RaiseInv' /\ FirstInv' /\ Top'.drv = held'
    BY <1>1, <1>3, StartBrowsers DEF run
  <2>2. KnownInv'
    BY <1>1, <1>2, <1>3, <2>1 DEF KnownInv
  <2> QED
    BY <1>3, <2>1, <2>2 DEF BrowserInv
<1>4. CASE phase' = "over" /\ (open' = open \ {held'} \/ "quit" \in broke')
  BY <1>1, <1>2, <1>4 DEF BrowsersQuit
<1> QED
  BY <1>1, <1>3, <1>4

TracedBy(d) == upset \/ open \subseteq {d}

LEMMA NextBrowsers ==
  ASSUME TypeOK, phase \in Phases, StackInv, BrowserInv, Next
  PROVE  /\ phase' # "over" => BrowserInv'
         /\ phase' = "over" => BrowsersQuit'
<1>0. /\ FailedInv /\ RaiseInv /\ FirstInv /\ KnownInv /\ "over" \notin Phases
      /\ Top.drv \in Driver /\ None \in Driver /\ val \in Driver
      /\ Depth \in Nat /\ Depth >= 1 /\ None \notin open
  <2>1. open \subseteq 1..MaxBrowsers /\ None \notin 1..MaxBrowsers
    BY EngineAssumption DEF TypeOK
  <2> QED
    BY <2>1, Here DEF BrowserInv, Phases, Driver, TypeOK
<1>k. /\ ctl = "go" => TracedBy(Top.drv)
      /\ ctl = "back" => TracedBy(val)
      /\ ctl = "raise" /\ Top.is = "step" => TracedBy(Top.drv)
      /\ ctl = "raise" /\ Top.is = "list" /\ Depth = 1 /\ phase = "steps" => TracedBy(Top.drv)
  BY <1>0 DEF KnownInv, TracedBy
<1>1. CASE SkipTop \/ SkipNested
  <2>1. /\ Top.is = "list" /\ Top.at <= Len(Top.list) /\ ctl' = "go" /\ ctl = "go"
        /\ UNCHANGED run /\ UNCHANGED phase /\ (upset => upset') /\ open' = open
        /\ \/ UNCHANGED upset /\ Replace([Top EXCEPT !.at = @ + 1])
           \/ upset' = TRUE /\ Replace([Top EXCEPT !.at = @ + 1, !.drv = None])
    BY <1>1, Here DEF SkipTop, SkipNested, Running, run, hist
  <2>2. PICK d \in {Top.drv, None} : Advances(d) /\ (upset' \/ d = Top.drv)
    BY <1>0, <2>1, AdvanceDoes
  <2>3. FailedInv' /\ RaiseInv' /\ FirstInv' /\ Top'.drv = d
    BY <1>0, <2>1, <2>2, AdvanceBrowsers DEF run
  <2>4. KnownInv'
    BY <1>k, <2>1, <2>2, <2>3 DEF KnownInv, TracedBy
  <2> QED
    BY <1>0, <2>1, <2>3, <2>4 DEF BrowserInv
<1>2. CASE Begin
  <2>1. Top.is = "list" /\ Top.at <= Len(Top.list) /\ ctl = "go" /\ ctl' = "go"
        /\ UNCHANGED run /\ UNCHANGED phase /\ upset' = upset
    BY <1>2 DEF Begin, Running, hist
  <2>2. PICK d \in Driver :
           /\ Descends(d, Top.failed, Call(Child, d))
           /\ \/ ~LaunchesFirst /\ d = Top.drv /\ UNCHANGED <<made, open>>
              \/ LaunchesFirst /\ d \in Browsers /\ open' = open \cup {d}
    BY <1>2, BeginDoes
  <2>3. PICK f \in Frame : Pushed(f, Call(Child, d)) /\ f.drv = d /\ f.failed = Top.failed
    BY <2>2 DEF Descends
  <2>4. Child \in Steps /\ Top = stack[Depth] /\ (Depth > 1 => Depth >= 3)
    BY <2>1, Here, Turns
  <2>5. /\ Depth' = Depth + 1 /\ stack'[Depth] = f /\ stack'[Depth + 1] = Call(Child, d)
        /\ Top' = Call(Child, d) /\ \A i \in 1..(Depth - 1) : stack'[i] = stack[i]
    BY <1>0, <2>3 DEF Pushed, Depth, Top
  <2>6. /\ ~Call(Child, d).failed /\ Call(Child, d).drv = d /\ Call(Child, d).step = Child
        /\ Call(Child, d).is = "step"
    BY <2>4, CallFields
  <2>7. FailedInv'
    <3> SUFFICES ASSUME NEW i \in 1..(Depth + 1), stack'[i].failed PROVE upset
      BY <2>1, <2>5 DEF FailedInv
    <3>1. i = Depth + 1 \/ i = Depth \/ (i \in 1..(Depth - 1) /\ i \in 1..Depth)
      BY <1>0
    <3>2. CASE i = Depth
      BY <1>0, <2>3, <2>4, <2>5, <3>2 DEF FailedInv
    <3>3. CASE i \in 1..(Depth - 1) /\ i \in 1..Depth
      BY <1>0, <2>5, <3>3 DEF FailedInv
    <3> QED
      BY <2>5, <2>6, <3>1, <3>2, <3>3
  <2>8. FirstInv'
    <3>1. CASE Depth = 1
      <4>1. stack'[1].drv = d /\ stack'[2] = Call(Child, d)
        BY <2>3, <2>5, <3>1
      <4>2. phase = "steps" => ~Launches(Def[Child].kind, d)
        BY <2>2, <3>1, EngineAssumption DEF LaunchesFirst, Launches, Browsers
      <4> QED
        BY <2>1, <2>6, <4>1, <4>2 DEF FirstInv, Launches, run
    <3>2. CASE Depth >= 3
      <4>1. stack'[1] = stack[1] /\ stack'[2] = stack[2]
        BY <2>5, <3>2, <1>0
      <4> QED
        BY <1>0, <2>1, <3>2, <4>1, FirstKept DEF run
    <3> QED
      BY <1>0, <2>4, <3>1, <3>2
  <2>9. KnownInv'
    <3>1. CASE ~LaunchesFirst /\ d = Top.drv /\ UNCHANGED <<made, open>>
      BY <1>k, <2>1, <2>5, <2>6, <3>1 DEF KnownInv, TracedBy
    <3>2. CASE LaunchesFirst /\ d \in Browsers /\ open' = open \cup {d}
      <4>1. upset \/ open \subseteq {None}
        BY <1>k, <2>1, <3>2 DEF LaunchesFirst, Launches, TracedBy
      <4>2. upset \/ open' \subseteq {d}
        BY <1>0, <3>2, <4>1
      <4> QED
        BY <2>1, <2>5, <2>6, <4>2 DEF KnownInv
    <3> QED
      BY <2>2, <3>1, <3>2
  <2>10. RaiseInv'
    BY <2>1 DEF RaiseInv
  <2> QED
    BY <1>0, <2>1, <2>7, <2>8, <2>9, <2>10 DEF BrowserInv
<1>3. CASE LaunchFails
  BY <1>k, <1>3, RaisedBrowsers DEF LaunchFails, Running, TracedBy, run
\* A list that is not the first one is left by an exception.
<1>4. ASSUME Top.is = "list", Depth > 1, stack' = Under, upset' = TRUE, UNCHANGED run,
             UNCHANGED phase
      PROVE  BrowserInv'
  <2>1. Popped /\ Depth >= 2
    BY <1>0, <1>4, PopDoes
  <2>2. FailedInv' /\ FirstInv'
    BY <1>0, <1>4, <2>1, PopBrowsers
  <2> QED
    BY <1>4, <2>2 DEF BrowserInv, RaiseInv, KnownInv
<1>5. CASE ConditionRaises
  <2>1. CASE Depth = 1 /\ PhaseRaises
    BY <1>k, <1>5, <2>1, RaisedBrowsers DEF ConditionRaises, Running, TracedBy, run
  <2>2. CASE Depth > 1 /\ stack' = Under /\ upset' = TRUE /\ UNCHANGED phase
    BY <1>0, <1>4, <1>5, <2>2 DEF ConditionRaises, Running
  <2> QED
    BY <1>5, <2>1, <2>2 DEF ConditionRaises
<1>6. CASE StepReturns
  <2>1. Top.is = "list" /\ ctl = "back" /\ ctl' = "go" /\ UNCHANGED run /\ UNCHANGED phase
        /\ open' = open /\ upset' = upset
        /\ Replace([Top EXCEPT !.at = @ + 1, !.drv = val])
    BY <1>6 DEF StepReturns, Running, hist
  <2>2. Advances(val)
    BY <1>0, <2>1, AdvanceDoes
  <2>3. FailedInv' /\ RaiseInv' /\ FirstInv' /\ Top'.drv = val
    BY <1>0, <2>1, <2>2, AdvanceBrowsers
  <2>4. KnownInv'
    BY <1>k, <2>1, <2>3 DEF KnownInv, TracedBy
  <2> QED
    BY <1>0, <2>1, <2>3, <2>4 DEF BrowserInv
<1>7. CASE StepRaises
  <2>1. CASE Depth = 1 /\ PhaseRaises
    BY <1>k, <1>7, <2>1, RaisedBrowsers DEF StepRaises, Running, TracedBy, run
  <2>2. CASE Depth > 1 /\ stack' = Under /\ upset' = TRUE /\ UNCHANGED phase
    BY <1>0, <1>4, <1>7, <2>2 DEF StepRaises, Running
  <2> QED
    BY <1>7, <2>1, <2>2 DEF StepRaises
\* A frame returns the browser d.
<1>8. ASSUME NEW d, Popped, Depth >= 2, ctl' = "back", val' = d, UNCHANGED <<run, phase, upset>>,
             upset \/ open' \subseteq {d}
      PROVE  BrowserInv'
  <2>1. FailedInv' /\ FirstInv'
    BY <1>0, <1>8, PopBrowsers
  <2> QED
    BY <1>8, <2>1 DEF BrowserInv, RaiseInv, KnownInv
<1>9. CASE ListEnds
  <2>1. Popped /\ Depth >= 2
    BY <1>0, <1>9, PopDoes DEF ListEnds, Return
  <2> QED
    BY <1>0, <1>k, <1>8, <1>9, <2>1 DEF ListEnds, Return, Running, TracedBy, hist
<1>10. CASE PhaseEnds
  BY <1>10, EndedBrowsers
<1>11. Top.is = "step" => Depth >= 2 /\ Top \in Frame /\ Top.step \in Steps /\ Self \in StepDef
  BY Here
<1>12. CASE Operate
  <2>1. /\ Top.is = "step" /\ ctl = "go" /\ Self.kind \notin Blocks
        /\ UNCHANGED <<run, phase, upset>>
        /\ phase # "over"
    BY <1>12 DEF Operate, Running, hist
  <2>2. PICK d \in IF Launches(Self.kind, Top.drv) THEN {made + 1} ELSE {Top.drv} :
          LET opened == IF d # Top.drv THEN open \cup {d} ELSE open
              closes == ~dry /\ Self.kind = "close"
          IN
          /\ d # Top.drv => d <= MaxBrowsers
          /\ \/ Return(IF closes THEN None ELSE d)
                /\ open' = IF closes THEN opened \ {d} ELSE opened
             \/ /\ Replace([Top EXCEPT !.drv = d]) /\ Raise
                /\ open' = opened \/ open' = opened \ {d}
    BY <1>12 DEF Operate
  <2>3. d \in Driver /\ (upset \/ (IF d # Top.drv THEN open \cup {d} ELSE open) \subseteq {d})
    <3>1. MaxBrowsers \in Nat /\ made \in 0..MaxBrowsers /\ None \notin open /\ TracedBy(Top.drv)
      BY <1>0, <1>k, <2>1, EngineAssumption DEF TypeOK
    <3>2. CASE d = Top.drv
      BY <1>0, <3>1, <3>2 DEF TracedBy
    <3>3. CASE d # Top.drv
      <4>1. d = made + 1 /\ Top.drv = None
        BY <2>2, <3>3 DEF Launches
      <4>2. d \in Driver
        BY <2>2, <3>1, <3>3, <4>1 DEF Driver, Browsers
      <4>3. upset \/ open = {}
        BY <3>1, <4>1 DEF TracedBy
      <4> QED
        BY <3>3, <4>2, <4>3
    <3> QED
      BY <3>2, <3>3
  <2>4. CASE /\ Return(IF ~dry /\ Self.kind = "close" THEN None ELSE d)
             /\ open' = IF ~dry /\ Self.kind = "close"
                          THEN (IF d # Top.drv THEN open \cup {d} ELSE open) \ {d}
                          ELSE (IF d # Top.drv THEN open \cup {d} ELSE open)
    <3>1. Popped
      BY <1>0, <2>4, PopDoes DEF Return
    <3>2. CASE ~dry /\ Self.kind = "close"
      BY <1>0, <1>8, <1>11, <2>1, <2>3, <2>4, <3>1, <3>2 DEF Return
    <3>3. CASE ~(~dry /\ Self.kind = "close")
      BY <1>0, <1>8, <1>11, <2>1, <2>3, <2>4, <3>1, <3>3 DEF Return
    <3> QED
      BY <3>2, <3>3
  <2>5. CASE /\ Replace([Top EXCEPT !.drv = d]) /\ Raise
             /\ open' \subseteq (IF d # Top.drv THEN open \cup {d} ELSE open)
    <3>1. PICK f : f = [Top EXCEPT !.drv = d]
      OBVIOUS
    <3>2. /\ f \in Frame /\ Alike(Top, f) /\ f.is = "step" /\ f.drv = d /\ f.failed = Top.failed
          /\ Replace(f) /\ ctl' = "raise"
      BY <1>11, <2>1, <2>3, <2>5, <3>1, DrvFields DEF Alike, Raise
    <3>3. phase = "steps" /\ Depth = 2 => d = Top.drv
      BY <1>0, <2>2, Here DEF FirstInv, Self
    <3>4. f.failed => upset'
      <4>1. Top = stack[Depth] /\ Depth \in 1..Depth /\ upset' = upset
        BY <1>0, <2>1, Here
      <4>2. Top.failed => upset
        BY <1>0, <4>1 DEF FailedInv
      <4> QED
        BY <3>2, <4>1, <4>2
    <3>5. FailedInv' /\ FirstInv' /\ Top' = f
      BY <1>0, <2>1, <3>2, <3>3, <3>4, TriedBrowsers
    <3>6. f.step = Top.step /\ Self.kind \notin Nesting
      BY <2>1, <3>2 DEF Alike, Blocks, Nesting
    <3>7. RaiseInv'
      BY <3>5, <3>6 DEF RaiseInv, Self
    <3>8. KnownInv'
      BY <2>1, <2>3, <2>5, <3>2, <3>5 DEF KnownInv
    <3> QED
      BY <1>0, <2>1, <3>5, <3>7, <3>8 DEF BrowserInv
  <2> QED
    BY <1>0, <2>1, <2>2, <2>4, <2>5
\* An operation or a parallel block raises, with its frame as it was.
<1>13. ASSUME Top.is = "step", ctl = "go", ctl' = "raise", Self.kind \notin Nesting,
              UNCHANGED <<run, phase, upset, stack, open>>
       PROVE  BrowserInv'
  <2>1. Top' = Top /\ Depth' = Depth
    BY <1>13 DEF Top, Depth
  <2>2. FailedInv' /\ FirstInv'
    BY <1>0, <1>13, <2>1 DEF FailedInv, FirstInv, Launches, run
  <2>3. RaiseInv' /\ KnownInv'
    BY <1>k, <1>13, <2>1 DEF RaiseInv, KnownInv, TracedBy, Self
  <2> QED
    BY <2>2, <2>3 DEF BrowserInv
<1>14. CASE OperateWithout
  BY <1>0, <1>13, <1>14 DEF OperateWithout, Running, Raise, Launches, hist, Nesting
<1>15. CASE Parallel
  <2>1. \/ ctl' = "raise" /\ UNCHANGED <<val, stack>>
        \/ ctl' = "back" /\ val' = Top.drv /\ Popped
    BY <1>15, ParallelDoes
  <2>2. Top.is = "step" /\ ctl = "go" /\ Self.kind \notin Nesting /\ phase # "over"
        /\ UNCHANGED <<run, phase, upset, open>>
    BY <1>15 DEF Parallel, Running, Nesting, hist
  <2>3. CASE ctl' = "raise" /\ UNCHANGED <<val, stack>>
    BY <1>0, <1>13, <2>2, <2>3
  <2>4. CASE ctl' = "back" /\ val' = Top.drv /\ Popped
    BY <1>0, <1>k, <1>8, <1>11, <2>2, <2>4 DEF TracedBy
  <2> QED
    BY <2>1, <2>3, <2>4
\* A block goes into a list with the browser d.
<1>16. ASSUME NEW s \in {"start", "body", "catch", "last"}, NEW list \in Seq(Steps),
              NEW d \in Driver,
              NEW b \in BOOLEAN, b => upset, Into(s, list, d, b), Top.is = "step",
              UNCHANGED <<run, phase, open, hist>>, TracedBy(d)
       PROVE  BrowserInv'
  <2>1. Descends(Top.drv, b, List(list, d)) /\ ctl' = "go" /\ val' = val /\ upset' = upset
    BY <1>16, IntoDoes DEF hist
  <2>2. FailedInv' /\ RaiseInv' /\ FirstInv' /\ Top'.drv = d
    BY <1>0, <1>16, <2>1, DescendBrowsers
  <2>3. KnownInv'
    BY <1>16, <2>1, <2>2 DEF KnownInv, TracedBy
  <2> QED
    BY <2>2, <2>3 DEF BrowserInv
<1>17. Top.is = "step" => /\ Self.body \in Seq(Steps) /\ Self.catch \in Seq(Steps)
                          /\ Self.last \in Seq(Steps) /\ Top.upd \in Driver
  BY Here DEF StepDef
<1>18. CASE BlockBegins
  <2>1. /\ Top.is = "step" /\ ctl = "go" /\ Into("body", Self.body, Top.drv, FALSE)
        /\ phase # "over"
        /\ UNCHANGED <<run, phase, open, hist>>
    BY <1>18 DEF BlockBegins, Running
  <2> QED
    BY <1>0, <1>k, <1>16, <1>17, <2>1
<1>19. CASE BlockGoesOn
  <2>1. Top.is = "step" /\ ctl = "back" /\ phase # "over" /\ UNCHANGED <<run, phase, open, hist>>
    BY <1>19 DEF BlockGoesOn, Running
  <2>2. CASE Into("body", Self.body, val, FALSE) \/ Into("last", Self.last, val, FALSE)
    BY <1>0, <1>k, <1>16, <1>17, <2>1, <2>2
  <2>3. CASE Top.failed /\ ctl' = "raise" /\ Replace([Top EXCEPT !.failed = FALSE])
    <3>1. PICK f : f = [Top EXCEPT !.failed = FALSE]
      OBVIOUS
    <3>2. /\ f \in Frame /\ Alike(Top, f) /\ f.is = "step" /\ f.drv = Top.drv /\ ~f.failed
          /\ Replace(f)
      BY <1>11, <2>1, <2>3, <3>1, FailedFields DEF Alike
    <3>3. upset
      BY <1>0, <2>1, <2>3, Here DEF FailedInv
    <3>4. FailedInv' /\ FirstInv'
      BY <1>0, <2>1, <3>2, <3>3, TriedBrowsers DEF hist
    <3> QED
      BY <2>1, <3>3, <3>4 DEF BrowserInv, RaiseInv, KnownInv, hist
  <2>4. CASE Return(val)
    <3>1. Popped
      BY <1>0, <2>4, PopDoes DEF Return
    <3> QED
      BY <1>0, <1>k, <1>8, <1>11, <2>1, <2>4, <3>1 DEF Return, TracedBy, hist
  <2> QED
    BY <1>19, <2>2, <2>3, <2>4 DEF BlockGoesOn
<1>20. CASE TryHandles
  <2>1. /\ Top.is = "step" /\ ctl = "raise" /\ phase # "over"
        /\ UNCHANGED <<run, phase, open, hist>>
        /\ Self.kind = "try"
        /\ Into("catch", Self.catch, Top.upd, FALSE) \/ Into("last", Self.last, Top.upd, TRUE)
    BY <1>20 DEF TryHandles, Running, Catches, Defers
  <2>2. upset
    BY <1>0, <2>1 DEF RaiseInv, Nesting
  <2> QED
    BY <1>0, <1>16, <1>17, <2>1, <2>2 DEF TracedBy
<1>21. CASE AttemptFails
  <2>1. Top.is = "step" /\ ctl = "raise" /\ phase # "over" /\ UNCHANGED <<run, phase, open, upset>>
    BY <1>21 DEF AttemptFails, Running, hist
  <2>2. CASE ctl' = "go" /\ Replace([Call(Top.step, Top.drv) EXCEPT !.at = Top.at + 1])
    <3>1. PICK f : f = [Call(Top.step, Top.drv) EXCEPT !.at = Top.at + 1]
      OBVIOUS
    <3>2. Top.at + 1 \in Nat /\ Top.list = <<>>
      BY <1>11, <2>1, Here DEF Frame
    <3>3. /\ f \in Frame /\ Alike(Top, f) /\ f.is = "step" /\ f.drv = Top.drv /\ ~f.failed
          /\ Replace(f)
      BY <1>0, <1>11, <2>1, <2>2, <3>1, <3>2, CallFields, AtFields DEF Alike
    <3>4. FailedInv' /\ FirstInv' /\ Top' = f
      BY <1>0, <2>1, <3>3, TriedBrowsers
    <3> QED
      BY <1>k, <2>1, <2>2, <3>3, <3>4 DEF BrowserInv, RaiseInv, KnownInv, TracedBy
  <2>3. CASE Return(Top.drv)
    <3>1. Popped
      BY <1>0, <2>3, PopDoes DEF Return
    <3> QED
      BY <1>0, <1>k, <1>8, <1>11, <2>1, <2>3, <3>1 DEF Return, TracedBy
  <2>4. CASE stack' = Under /\ Raise
    <3>1. Popped /\ Depth >= 2 /\ ctl' = "raise"
      BY <1>0, <1>11, <2>1, <2>4, PopDoes DEF Raise
    <3>2. FailedInv' /\ FirstInv' /\ Top' = stack[Depth - 1] /\ Depth' = Depth - 1
      BY <1>0, <2>1, <3>1, PopBrowsers
    <3>3. Top'.is = "list"
      BY <2>1, <3>2, Turns
    <3>4. RaiseInv'
      BY <3>3 DEF RaiseInv
    <3>5. Depth - 1 > 1 \/ phase # "steps" \/ upset \/ open \subseteq {stack[1].drv}
      BY <1>0, <1>k, <2>1, <3>1, Here DEF FirstInv, TracedBy
    <3>6. Depth - 1 > 1 \/ Top' = stack[1]
      BY <1>0, <3>1, <3>2
    <3>7. KnownInv'
      BY <2>1, <3>1, <3>2, <3>3, <3>5, <3>6 DEF KnownInv
    <3> QED
      BY <1>0, <2>1, <3>2, <3>4, <3>7 DEF BrowserInv
  <2> QED
    BY <1>21, <2>2, <2>3, <2>4 DEF AttemptFails
<1> QED
  BY <1>1, <1>2, <1>3, <1>5, <1>6, <1>7, <1>9, <1>10, <1>12, <1>14, <1>15, <1>18, <1>19,
     <1>20, <1>21 DEF Next

-----------------------------------------------------------------------------
(* The place of the running step                                           *)

LEMMA KidsAreSteps == ParallelKids \subseteq Steps
<1> SUFFICES ASSUME NEW b \in Steps, NEW s \in In(Def[b].body) PROVE s \in Steps
  BY DEF ParallelKids
<1>1. Def[b].body \in Seq(Steps)
  BY EngineAssumption DEF StepDef
<1> QED
  BY <1>1, LenProperties, ElementOfSeq DEF In

LEMMA PhasesApart ==
  ASSUME TypeOK, NEW p \in Phases
  PROVE  /\ DOMAIN plan[p] \subseteq Nat \ {0}
         /\ InPhase(p) \subseteq Steps \ ParallelKids
         /\ \A q \in Phases : p # q => InPhase(p) \cap InPhase(q) = {}
         /\ \A i, j \in DOMAIN plan[p] : plan[p][i] = plan[p][j] => i = j
         /\ \A b \in Steps : InPhase(p) \cap Within(b) = {}
<1>1. plan[p] \in Seq(Steps) /\ plan \in Plans
  BY EngineAssumption DEF TypeOK
<1>2. DOMAIN plan[p] \subseteq Nat \ {0} /\ InPhase(p) \subseteq Steps
  BY <1>1, LenProperties, ElementOfSeq DEF InPhase, In
<1>3. \A q \in Phases : \A i \in DOMAIN plan[p], j \in DOMAIN plan[q] :
        plan[p][i] = plan[q][j] => p = q /\ i = j
  BY <1>1, PlaceAssumption
<1>4. \A b \in Steps : InPhase(p) \cap Within(b) = {}
  BY <1>1, PlaceAssumption DEF InPhase
<1>5. ParallelKids \subseteq UNION {Within(b) : b \in Steps}
  BY DEF ParallelKids, Within
<1>6. InPhase(p) \cap ParallelKids = {}
  BY <1>4, <1>5
<1>7. \A q \in Phases : p # q => InPhase(p) \cap InPhase(q) = {}
  BY <1>3 DEF InPhase, In
<1> QED
  BY <1>2, <1>3, <1>4, <1>6, <1>7

LEMMA BlockApart ==
  ASSUME NEW b \in Steps, Def[b].kind \in Nesting
  PROVE  Within(b) \cap ParallelKids = {}
<1> SUFFICES ASSUME NEW s \in Within(b), s \in ParallelKids PROVE FALSE
  OBVIOUS
<1>1. PICK c \in Steps : Def[c].kind = "parallel" /\ s \in In(Def[c].body)
  BY DEF ParallelKids
<1>2. c # b /\ s \in Within(c)
  BY <1>1 DEF Nesting, Within
<1> QED
  BY <1>2, PlaceAssumption

\* Where a step stands that is the current one of the list at i: in its place
\* of the phase, or in a block.
Nested(s) == s \in Steps \ ParallelKids /\ \A p \in Phases : s \notin InPhase(p)
Ours(s) ==
  /\ s \in Steps \ ParallelKids /\ stack[1].at \in DOMAIN plan[phase]
  /\ s = plan[phase][stack[1].at]

LEMMA CurrentIs ==
  ASSUME TypeOK, StackInv, phase \in Phases, NEW i \in 1..Depth,
         stack[i].is = "list", stack[i].at \in DOMAIN stack[i].list
  PROVE  LET s == stack[i].list[stack[i].at] IN IF i = 1 THEN Ours(s) ELSE Nested(s)
<1>0. Depth \in Nat /\ Depth >= 1
  BY Here
<1> DEFINE s == stack[i].list[stack[i].at]
<1>1. s \in In(stack[i].list)
  BY DEF In
<1>2. CASE i = 1
  <2>1. stack[1].list = plan[phase]
    BY DEF StackInv
  <2>2. s \in InPhase(phase)
    BY <1>1, <1>2, <2>1 DEF InPhase
  <2> QED
    BY <1>2, <2>1, <2>2, PhasesApart DEF Ours
<1>3. CASE i # 1
  <2>1. i - 1 \in 1..(Depth - 1) /\ (i - 1) + 1 = i /\ i - 1 \in 1..Depth
    BY <1>0, <1>3
  <2>2. Calls(stack[i - 1], stack[i]) /\ Placed(stack[i - 1])
    BY <2>1 DEF StackInv
  <2>3. PICK b \in Steps : Def[b].kind \in Nesting /\ In(stack[i].list) \subseteq Within(b)
    BY <2>2 DEF Calls, Placed
  <2>4. s \in Within(b) /\ s \notin ParallelKids
    BY <1>1, <2>3, BlockApart
  <2>5. \A p \in Phases : s \notin InPhase(p)
    BY <2>3, <2>4, PhasesApart
  <2>6. stack[i] \in Frame
    BY Here
  <2>7. stack[i].list \in Seq(Steps)
    BY <2>6 DEF Frame
  <2>8. s \in Steps
    BY <2>7, ElementOfSeq, LenProperties
  <2> HIDE DEF s
  <2> QED
    BY <1>3, <2>4, <2>5, <2>8 DEF Nested, s
<1> QED
  BY <1>2, <1>3

LEMMA StepIs ==
  ASSUME TypeOK, StackInv, phase \in Phases, NEW i \in 1..Depth, stack[i].is = "step"
  PROVE  /\ i >= 2 /\ i - 1 \in 1..(Depth - 1) /\ i - 1 \in 1..Depth
         /\ stack[i - 1].is = "list" /\ stack[i - 1].at \in DOMAIN stack[i - 1].list
         /\ stack[i].step = stack[i - 1].list[stack[i - 1].at]
         /\ IF i = 2 THEN Ours(stack[i].step) ELSE Nested(stack[i].step)
<1>1. Depth \in Nat /\ Depth >= 1
  BY Here
<1>2. i # 1
  BY DEF StackInv
<1>3. i >= 2 /\ i - 1 \in 1..(Depth - 1) /\ i - 1 \in 1..Depth /\ (i - 1) + 1 = i
      /\ (i = 2 <=> i - 1 = 1)
  BY <1>1, <1>2
<1>4. Calls(stack[i - 1], stack[i])
  BY <1>3 DEF StackInv
<1>5. /\ stack[i - 1].is = "list" /\ stack[i - 1].at \in DOMAIN stack[i - 1].list
      /\ stack[i].step = stack[i - 1].list[stack[i - 1].at]
  BY <1>4 DEF Calls
<1>6. IF i - 1 = 1 THEN Ours(stack[i].step) ELSE Nested(stack[i].step)
  BY <1>3, <1>5, CurrentIs
<1> QED
  BY <1>3, <1>5, <1>6

LEMMA ChildIs ==
  ASSUME TypeOK, StackInv, phase \in Phases, Top.is = "list", Top.at <= Len(Top.list) \/ ctl # "go"
  PROVE  IF Depth = 1 THEN Ours(Child) ELSE Nested(Child)
<1>1. Top = stack[Depth] /\ Depth \in 1..Depth /\ Top.at \in DOMAIN Top.list
  BY Here
<1> QED
  BY <1>1, CurrentIs DEF Child

LEMMA SelfIs ==
  ASSUME TypeOK, StackInv, phase \in Phases, Top.is = "step"
  PROVE  IF Depth = 2 THEN Ours(Top.step) ELSE Nested(Top.step)
<1>1. Top = stack[Depth] /\ Depth \in 1..Depth
  BY Here
<1> QED
  BY <1>1, StepIs

\* Both are in no other phase, and only the one in its place of this one.
LEMMA OursIs ==
  ASSUME TypeOK, phase \in Phases, NEW s, Ours(s) \/ Nested(s)
  PROVE  /\ s \in Steps \ ParallelKids
         /\ \A p \in Phases \ {phase} : s \notin InPhase(p)
         /\ \A i \in DOMAIN plan[phase] :
              plan[phase][i] = s => Ours(s) /\ i = stack[1].at
         /\ Ours(s) => s \in InPhase(phase)
<1>1. CASE Ours(s)
  <2>1. s \in InPhase(phase)
    BY <1>1 DEF Ours, InPhase, In
  <2>2. \A p \in Phases \ {phase} : s \notin InPhase(p)
    BY <2>1, PhasesApart
  <2>3. \A i \in DOMAIN plan[phase] : plan[phase][i] = s => i = stack[1].at
    BY <1>1, PhasesApart DEF Ours
  <2> QED
    BY <1>1, <2>1, <2>2, <2>3 DEF Ours
<1>2. CASE Nested(s)
  BY <1>2 DEF Nested, Ours, InPhase, In
<1> QED
  BY <1>1, <1>2

-----------------------------------------------------------------------------
(* The phases                                                              *)

Same(p) == \A s \in InPhase(p) : fate'[s] = fate[s]

LEMMA SameIs ==
  ASSUME NEW p, UNCHANGED plan, Same(p)
  PROVE  /\ Done(p)' <=> Done(p)
         /\ Raised(p)' <=> Raised(p)
         /\ Blank(p)' <=> Blank(p)
<1>1. InPhase(p)' = InPhase(p)
  BY DEF InPhase
<1>2. \A s \in InPhase(p) : Fine(s)' <=> Fine(s)
  BY DEF Same, Fine
<1> QED
  BY <1>1, <1>2 DEF Same, Done, Raised, Blank, Touched

LEMMA ProgressKept ==
  ASSUME TypeOK, phase \in Phases, Progress, UNCHANGED <<plan, phase>>,
         stack'[1].at = stack[1].at, NEW T, \A s \in Steps \ T : fate'[s] = fate[s],
         \A i \in DOMAIN plan[phase] :
           plan[phase][i] \in T => i = stack[1].at /\ ~(Depth' > 1 \/ ctl' = "go"),
         Depth' > 1 \/ ctl' = "go" => Depth > 1 \/ ctl = "go"
  PROVE  Progress'
<1> SUFFICES ASSUME NEW i \in DOMAIN plan[phase]
             PROVE  /\ i < stack[1].at => Fine(plan[phase][i])'
                    /\ i > stack[1].at => fate'[plan[phase][i]] = "none"
                    /\ i = stack[1].at /\ (Depth' > 1 \/ ctl' = "go") =>
                         fate'[plan[phase][i]] = "none"
  BY DEF Progress
<1>1. plan[phase][i] \in Steps
  BY PhasesApart DEF InPhase, In
<1>2. CASE plan[phase][i] \in T
  <2>1. i \in Nat /\ i = stack[1].at /\ ~(Depth' > 1 \/ ctl' = "go")
    BY <1>2, PhasesApart
  <2>2. ~(i < stack[1].at) /\ ~(i > stack[1].at)
    BY <2>1
  <2> QED
    BY <2>1, <2>2
<1>3. CASE plan[phase][i] \notin T
  <2>1. fate'[plan[phase][i]] = fate[plan[phase][i]]
    BY <1>1, <1>3
  <2>2. Fine(plan[phase][i]) => Fine(plan[phase][i])'
    BY <2>1 DEF Fine
  <2> QED
    BY <2>1, <2>2 DEF Progress
<1> QED
  BY <1>2, <1>3

LEMMA ProgressOn ==
  ASSUME TypeOK, phase \in Phases, Progress, UNCHANGED <<plan, phase>>, Depth = 1,
         stack[1].at \in DOMAIN plan[phase], stack'[1].at = stack[1].at + 1,
         NEW s, s = plan[phase][stack[1].at], Fine(s)', \A t \in Steps \ {s} : fate'[t] = fate[t]
  PROVE  Progress'
<1> DEFINE at == stack[1].at
<1> SUFFICES ASSUME NEW i \in DOMAIN plan[phase]
             PROVE  /\ i < at + 1 => Fine(plan[phase][i])'
                    /\ i > at + 1 \/ i = at + 1 => fate'[plan[phase][i]] = "none"
  BY DEF Progress
<1>1. i \in Nat /\ at \in Nat /\ (i = at \/ i < at \/ i > at)
  BY PhasesApart
<1>2. CASE i = at
  <2>1. ~(i > at + 1 \/ i = at + 1)
    BY <1>1, <1>2
  <2>2. Fine(plan[phase][i])'
    BY <1>2 DEF Fine
  <2> QED
    BY <2>1, <2>2
<1>3. CASE i # at
  <2>1. plan[phase][i] \in Steps /\ plan[phase][i] # s
    BY <1>3, PhasesApart DEF InPhase, In
  <2>2. fate'[plan[phase][i]] = fate[plan[phase][i]]
    BY <2>1
  <2>3. Fine(plan[phase][i]) => Fine(plan[phase][i])'
    BY <2>2 DEF Fine
  <2>4. /\ i < at => Fine(plan[phase][i])
        /\ i > at => fate[plan[phase][i]] = "none"
    BY DEF Progress
  <2>5. /\ i < at + 1 => i < at
        /\ i > at + 1 \/ i = at + 1 => i > at
    BY <1>1, <1>3
  <2> HIDE DEF at
  <2> QED
    BY <2>2, <2>3, <2>4, <2>5
<1> QED
  BY <1>2, <1>3

LEMMA ProgressStart ==
  ASSUME TypeOK, UNCHANGED plan, NEW p \in Phases, phase' = p, stack'[1].at = 1, Blank(p)'
  PROVE  Progress'
<1> SUFFICES ASSUME NEW i \in DOMAIN plan[p]
             PROVE  i >= 1 /\ fate'[plan[p][i]] = "none"
  BY PhasesApart DEF Progress
<1>1. i >= 1
  BY PhasesApart
<1>2. plan[p][i] \in InPhase(p)'
  BY DEF InPhase, In
<1> QED
  BY <1>1, <1>2 DEF Blank, Touched

LEMMA PhaseKept ==
  ASSUME TypeOK, PhaseInv, phase \in Phases, UNCHANGED <<plan, phase, result>>,
         \A p \in Phases \ {phase} : Same(p), Progress'
  PROVE  PhaseInv'
<1> DEFINE Frozen(p) == /\ Done(p)' <=> Done(p)
                        /\ Raised(p)' <=> Raised(p)
                        /\ Blank(p)' <=> Blank(p)
<1>1. \A p \in Phases \ {phase} : Frozen(p)
  BY SameIs
<1>2. phase = "before" =>
        Frozen("steps") /\ Frozen("success") /\ Frozen("failure") /\ Frozen("finally")
  BY <1>1 DEF Phases
<1>3. phase = "steps" =>
        Frozen("before") /\ Frozen("success") /\ Frozen("failure") /\ Frozen("finally")
  BY <1>1 DEF Phases
<1>4. phase = "success" =>
        Frozen("before") /\ Frozen("steps") /\ Frozen("failure") /\ Frozen("finally")
  BY <1>1 DEF Phases
<1>5. phase = "failure" =>
        Frozen("before") /\ Frozen("steps") /\ Frozen("success") /\ Frozen("finally")
  BY <1>1 DEF Phases
<1>6. phase = "finally" =>
        Frozen("before") /\ Frozen("steps") /\ Frozen("success") /\ Frozen("failure")
  BY <1>1 DEF Phases
<1>7. phase = "before" \/ phase = "steps" \/ phase = "success" \/ phase = "failure"
      \/ phase = "finally"
  BY DEF Phases
<1> USE DEF PhaseInv, Won, Lost
<1>8. CASE phase = "before"
  BY <1>2, <1>8
<1>9. CASE phase = "steps"
  BY <1>3, <1>9
<1>10. CASE phase = "success"
  BY <1>4, <1>10
<1>11. CASE phase = "failure"
  BY <1>5, <1>11
<1>12. CASE phase = "finally"
  BY <1>6, <1>12
<1> QED
  BY <1>7, <1>8, <1>9, <1>10, <1>11, <1>12

Hidden(K) == \A p \in Phases : InPhase(p) \cap K = {}

LEMMA StayPhase ==
  ASSUME TypeOK, PhaseInv, phase \in Phases, UNCHANGED <<plan, phase, result>>,
         stack'[1].at = stack[1].at, Depth > 1 \/ ctl = "go",
         NEW K, Hidden(K), \A s \in Steps \ K : fate'[s] = fate[s]
  PROVE  PhaseInv'
<1>1. \A p \in Phases : Same(p)
  BY PhasesApart DEF Hidden, Same
<1>2. \A i \in DOMAIN plan[phase] : plan[phase][i] \notin K
  BY DEF Hidden, InPhase, In
<1>3. Progress
  BY DEF PhaseInv, Phases
<1>4. Progress'
  BY <1>2, <1>3, ProgressKept
<1> QED
  BY <1>1, <1>4, PhaseKept

LEMMA PopPhase ==
  ASSUME TypeOK, StackInv, PhaseInv, phase \in Phases, Popped, Top.is = "step", ctl' # "go",
         UNCHANGED <<plan, phase, result>>,
         NEW K, Hidden(K), \A s \in Steps \ (K \cup {Top.step}) : fate'[s] = fate[s]
  PROVE  PhaseInv'
<1>1. /\ Depth \in Nat /\ Depth >= 2 /\ Depth' = Depth - 1 /\ stack'[1] = stack[1]
      /\ IF Depth = 2 THEN Ours(Top.step) ELSE Nested(Top.step)
  BY Here, PopStack, SelfIs DEF Popped
<1>2. \A p \in Phases \ {phase} : Same(p)
  BY <1>1, PhasesApart, OursIs DEF Hidden, Same
<1>3. \A i \in DOMAIN plan[phase] : plan[phase][i] \in K \cup {Top.step} =>
        i = stack[1].at /\ ~(Depth' > 1 \/ ctl' = "go")
  <2> SUFFICES ASSUME NEW i \in DOMAIN plan[phase], plan[phase][i] \in K \cup {Top.step}
               PROVE  i = stack[1].at /\ ~(Depth' > 1 \/ ctl' = "go")
    OBVIOUS
  <2>1. plan[phase][i] \in InPhase(phase)
    BY DEF InPhase, In
  <2>2. plan[phase][i] = Top.step
    BY <2>1 DEF Hidden
  <2>3. i = stack[1].at /\ ~Nested(Top.step)
    BY <1>1, <2>1, <2>2, OursIs DEF Nested
  <2>4. Depth = 2
    BY <1>1, <2>3
  <2> QED
    BY <1>1, <2>3, <2>4
<1>4. Progress
  BY DEF PhaseInv, Phases
<1>5. Depth > 1 /\ stack'[1].at = stack[1].at
  BY <1>1
<1>6. PICK T : T = K \cup {Top.step}
  OBVIOUS
<1>7. Progress'
  BY <1>3, <1>4, <1>5, <1>6, ProgressKept
<1> QED
  BY <1>2, <1>7, PhaseKept

LEMMA RaisedPhase ==
  ASSUME TypeOK, StackInv, PhaseInv, phase \in Phases, PhaseRaises, UNCHANGED plan,
         NEW r, r = phase, Raised(r)', \A p \in Phases \ {phase} : Same(p)
  PROVE  PhaseInv'
<1>1. \/ /\ phase \in {"before", "steps", "success"} /\ phase' = "failure"
         /\ \E d \in Driver : Started(d)
         /\ UNCHANGED result
      \/ /\ phase = "failure" /\ phase' = "finally"
         /\ \E d \in Driver : Started(d)
         /\ result' = "raised"
      \/ phase = "finally" /\ phase' = "over" /\ result' = "raised"
  BY RaisesDoes
<1>2. ASSUME NEW p \in Phases, phase' = p, \E d \in Driver : Started(d), Blank(p)' PROVE Progress'
  <2>1. PICK d \in Driver : Started(d)
    BY <1>2
  <2>2. plan[phase'] \in Seq(Steps) /\ stack'[1] = List(plan[phase'], d)
    BY <1>2, <2>1, EngineAssumption DEF Started, TypeOK
  <2>3. stack'[1].at = 1
    BY <2>2, ListFields
  <2> QED
    BY <1>2, <2>3, ProgressStart
<1> DEFINE Frozen(p) == /\ Done(p)' <=> Done(p)
                        /\ Raised(p)' <=> Raised(p)
                        /\ Blank(p)' <=> Blank(p)
<1>3. \A p \in Phases \ {phase} : Frozen(p)
  BY SameIs
<1>4. "failure" \in Phases /\ "finally" \in Phases
  BY DEF Phases
<1>5. CASE phase = "before" /\ phase' = "failure"
  <2>1. Frozen("steps") /\ Frozen("success") /\ Frozen("failure") /\ Frozen("finally")
    BY <1>3, <1>5 DEF Phases
  <2>2. Progress'
    BY <1>1, <1>2, <1>4, <1>5, <2>1 DEF PhaseInv
  <2> QED
    BY <1>1, <1>5, <2>1, <2>2 DEF PhaseInv, Won, Lost
<1>6. CASE phase = "steps" /\ phase' = "failure"
  <2>1. Frozen("before") /\ Frozen("success") /\ Frozen("failure") /\ Frozen("finally")
    BY <1>3, <1>6 DEF Phases
  <2>2. Progress'
    BY <1>1, <1>2, <1>4, <1>6, <2>1 DEF PhaseInv
  <2> QED
    BY <1>1, <1>6, <2>1, <2>2 DEF PhaseInv, Won, Lost
<1>7. CASE phase = "success" /\ phase' = "failure"
  <2>1. Frozen("before") /\ Frozen("steps") /\ Frozen("failure") /\ Frozen("finally")
    BY <1>3, <1>7 DEF Phases
  <2>2. Progress'
    BY <1>1, <1>2, <1>4, <1>7, <2>1 DEF PhaseInv
  <2> QED
    BY <1>1, <1>7, <2>1, <2>2 DEF PhaseInv, Won, Lost
<1>8. CASE phase = "failure" /\ phase' = "finally"
  <2>1. Frozen("before") /\ Frozen("steps") /\ Frozen("success") /\ Frozen("finally")
    BY <1>3, <1>8 DEF Phases
  <2>2. Progress'
    BY <1>1, <1>2, <1>4, <1>8, <2>1 DEF PhaseInv
  <2> QED
    BY <1>1, <1>8, <2>1, <2>2 DEF PhaseInv, Won, Lost
<1>9. CASE phase = "finally" /\ phase' = "over"
  <2>1. Frozen("before") /\ Frozen("steps") /\ Frozen("success") /\ Frozen("failure")
    BY <1>3, <1>9 DEF Phases
  <2> QED
    BY <1>1, <1>9, <2>1 DEF PhaseInv, Won, Lost
<1> QED
  BY <1>1, <1>5, <1>6, <1>7, <1>8, <1>9

LEMMA EndedPhase ==
  ASSUME TypeOK, StackInv, PhaseInv, phase \in Phases, PhaseEnds
  PROVE  PhaseInv'
<1>1. /\ UNCHANGED <<plan, fate>>
      /\ \/ phase = "before" /\ phase' = "steps" /\ UNCHANGED result
         \/ phase = "steps" /\ phase' = "success" /\ UNCHANGED result
         \/ phase = "success" /\ phase' = "finally" /\ result' = "success"
         \/ phase = "failure" /\ phase' = "finally" /\ result' = "failure"
         \/ phase = "finally" /\ phase' = "over" /\ (UNCHANGED result \/ result' = "raised")
      /\ phase' # "over" => \E d \in Driver : Started(d)
  BY EndsDoes DEF run
<1>2. ASSUME NEW p \in Phases, phase' = p, phase' # "over", Blank(p)' PROVE Progress'
  <2>1. PICK d \in Driver : Started(d)
    BY <1>1, <1>2
  <2>2. plan[phase'] \in Seq(Steps) /\ stack'[1] = List(plan[phase'], d)
    BY <1>2, <2>1, EngineAssumption DEF Started, TypeOK
  <2>3. stack'[1].at = 1
    BY <2>2, ListFields
  <2> QED
    BY <1>1, <1>2, <2>3, ProgressStart
<1>3. \A p : Same(p)
  BY <1>1 DEF Same
<1>4. \A p : /\ Done(p)' <=> Done(p)
             /\ Raised(p)' <=> Raised(p)
             /\ Blank(p)' <=> Blank(p)
  BY <1>1, <1>3, SameIs
<1>5. Done(phase)
  <2>1. /\ Depth = 1 /\ Top.at > Len(Top.list) /\ Top.is = "list" /\ Top = stack[1]
        /\ Top.list = plan[phase] /\ Progress /\ Top.at \in Nat
    BY Here DEF PhaseEnds, Running, PhaseInv
  <2>2. plan[phase] \in Seq(Steps)
    BY EngineAssumption DEF TypeOK
  <2>3. \A i \in DOMAIN plan[phase] : i < stack[1].at
    BY <2>1, <2>2, LenProperties
  <2> QED
    BY <2>1, <2>3 DEF Done, InPhase, In, Progress
<1>6. {"steps", "success", "finally"} \subseteq Phases
  BY DEF Phases
<1>7. CASE phase = "before" /\ phase' = "steps"
  BY <1>1, <1>2, <1>4, <1>5, <1>6, <1>7 DEF PhaseInv, Won, Lost
<1>8. CASE phase = "steps" /\ phase' = "success"
  BY <1>1, <1>2, <1>4, <1>5, <1>6, <1>8 DEF PhaseInv, Won, Lost
<1>9. CASE phase = "success" /\ phase' = "finally"
  BY <1>1, <1>2, <1>4, <1>5, <1>6, <1>9 DEF PhaseInv, Won, Lost
<1>10. CASE phase = "failure" /\ phase' = "finally"
  BY <1>1, <1>2, <1>4, <1>5, <1>6, <1>10 DEF PhaseInv, Won, Lost
<1>11. CASE phase = "finally" /\ phase' = "over"
  BY <1>1, <1>4, <1>5, <1>11 DEF PhaseInv, Won, Lost
<1> QED
  BY <1>1, <1>7, <1>8, <1>9, <1>10, <1>11

LEMMA HiddenAre ==
  ASSUME TypeOK, phase \in Phases
  PROVE  /\ Hidden({}) /\ Hidden(ParallelKids)
         /\ \A s : Nested(s) => Hidden({s})
BY PhasesApart DEF Hidden, Nested

LEMMA NextPhase ==
  ASSUME TypeOK, phase \in Phases, StackInv, ShownInv, PhaseInv, Next
  PROVE  PhaseInv'
<1>0. /\ Depth \in Nat /\ Depth >= 1 /\ Progress /\ Top = stack[Depth]
      /\ fate \in [Steps -> FateEnds]
      /\ Top.is = "step" => Depth >= 2
      /\ Top.is = "list" /\ Depth > 1 => Depth >= 3
  BY Here, Turns DEF PhaseInv, Phases, TypeOK, FateEnds
<1>1. Top.is = "list" /\ (Top.at <= Len(Top.list) \/ ctl # "go") =>
        /\ Child \in Steps
        /\ IF Depth = 1 THEN Ours(Child) ELSE Nested(Child)
  BY Here, ChildIs
\* The loop of the phase goes on behind its current step.
<1>2. ASSUME Depth = 1, Ours(Child), UNCHANGED <<plan, phase, result>>,
             stack'[1].at = stack[1].at + 1,
             NEW s, s = Child, Fine(s)', \A t \in Steps \ {s} : fate'[t] = fate[t]
      PROVE  PhaseInv'
  <2>1. stack[1].at \in DOMAIN plan[phase] /\ s = plan[phase][stack[1].at]
    BY <1>2 DEF Ours
  <2>2. Progress'
    BY <1>0, <1>2, <2>1, ProgressOn
  <2>3. \A p \in Phases \ {phase} : Same(p)
    BY <1>2, OursIs, PhasesApart DEF Same
  <2> QED
    BY <1>2, <2>2, <2>3, PhaseKept
\* The list that runs is not that of the phase, and nothing happens to the phase.
<1>3. ASSUME Depth > 1 \/ ctl = "go", UNCHANGED <<plan, phase, result>>, stack'[1].at = stack[1].at,
             NEW K, Hidden(K), \A t \in Steps \ K : fate'[t] = fate[t]
      PROVE  PhaseInv'
  BY <1>3, StayPhase
<1>4. CASE SkipTop
  <2>1. /\ Top.is = "list" /\ Depth = 1 /\ Top.at <= Len(Top.list) /\ ctl' = "go" /\ Def[Child].cond
        /\ Fate(Child, "skipped") /\ Replace([Top EXCEPT !.at = @ + 1])
        /\ UNCHANGED <<plan, phase, result>>
    BY <1>4 DEF SkipTop, Running, run
  <2>2. Advances(Top.drv)
    BY <2>1, Here, AdvanceDoes
  <2>3. stack'[1].at = stack[1].at + 1
    <3>1. Top'.at = Top.at + 1 /\ Depth' = Depth
      BY <2>1, <2>2, Here, AdvanceStack
    <3> QED
      BY <1>0, <2>1, <3>1 DEF Top
  <2>4. PICK s \in Steps : s = Child
    BY <1>1, <2>1
  <2>5. fate'[s] = "skipped" /\ \A t \in Steps \ {s} : fate'[t] = fate[t]
    BY <2>1, <2>4, ShowTyped DEF FateEnds
  <2>6. Fine(s)'
    BY <2>1, <2>4, <2>5 DEF Fine
  <2> QED
    BY <1>1, <1>2, <2>1, <2>3, <2>4, <2>5, <2>6
<1>5. CASE SkipNested
  <2>1. /\ Top.is = "list" /\ Depth > 1 /\ Top.at <= Len(Top.list) /\ ctl' = "go"
        /\ Fate(Child, "skipped") /\ Replace([Top EXCEPT !.at = @ + 1, !.drv = None])
        /\ UNCHANGED <<plan, phase, result>> /\ None \in Driver
    BY <1>5 DEF SkipNested, Running, run, Driver
  <2>2. Advances(None)
    BY <2>1, AdvanceDoes
  <2>3. stack'[1] = stack[1]
    BY <1>0, <2>1, <2>2, AdvanceStack
  <2>4. Child \in Steps /\ Hidden({Child})
    BY <1>0, <1>1, <2>1, HiddenAre
  <2>5. \A t \in Steps \ {Child} : fate'[t] = fate[t]
    BY <2>1, <2>4, ShowTyped DEF FateEnds
  <2> QED
    BY <1>3, <2>1, <2>3, <2>4, <2>5
<1>6. CASE Begin
  <2>1. /\ Top.is = "list" /\ Top.at <= Len(Top.list) /\ ctl = "go"
        /\ UNCHANGED <<plan, phase, result, fate>>
    BY <1>6 DEF Begin, Running, run
  <2>2. PICK d \in Driver : Descends(d, Top.failed, Call(Child, d))
    BY <1>6, BeginDoes
  <2>3. PICK f \in Frame : Pushed(f, Call(Child, d)) /\ f.at = Top.at
    BY <2>2 DEF Descends
  <2>4. stack'[1].at = stack[1].at
    <3>1. CASE Depth = 1
      BY <1>0, <2>3, <3>1 DEF Pushed
    <3>2. CASE Depth > 1
      BY <1>0, <2>3, <3>2 DEF Pushed
    <3> QED
      BY <1>0, <3>1, <3>2
  <2> QED
    BY <1>3, <2>1, <2>4, HiddenAre
<1>7. ASSUME Depth = 1, Ours(Child), PhaseRaises, UNCHANGED plan,
             NEW s, s = Child, fate'[s] = "error", \A t \in Steps \ {s} : fate'[t] = fate[t]
      PROVE  PhaseInv'
  <2>1. \A p \in Phases \ {phase} : Same(p)
    BY <1>7, OursIs, PhasesApart DEF Same
  <2>2. PICK r : r = phase
    OBVIOUS
  <2>3. s \in InPhase(r)
    BY <1>7, <2>2, OursIs
  <2>4. Raised(r)'
    BY <1>7, <2>3 DEF Raised, InPhase
  <2> QED
    BY <1>7, <2>1, <2>2, <2>4, RaisedPhase
<1>8. CASE LaunchFails
  <2>1. /\ Top.is = "list" /\ Depth = 1 /\ Top.at <= Len(Top.list)
        /\ Fate(Child, "error") /\ PhaseRaises /\ UNCHANGED plan
    BY <1>8 DEF LaunchFails, Running, LaunchesFirst, run
  <2>2. PICK s \in Steps : s = Child
    BY <1>1, <2>1
  <2>3. fate'[s] = "error" /\ \A t \in Steps \ {s} : fate'[t] = fate[t]
    BY <2>1, <2>2, ShowTyped DEF FateEnds
  <2> QED
    BY <1>1, <1>7, <2>1, <2>2, <2>3
\* A list that is not the first one is left.
<1>9. ASSUME Top.is = "list", Depth > 1, stack' = Under, UNCHANGED <<plan, phase, result>>,
             NEW K, Hidden(K), \A t \in Steps \ K : fate'[t] = fate[t]
      PROVE  PhaseInv'
  <2>1. Popped
    BY <1>0, <1>9, PopDoes
  <2>2. stack'[1] = stack[1]
    BY <1>0, <1>9, <2>1 DEF Popped
  <2> QED
    BY <1>3, <1>9, <2>2
<1>10. CASE ConditionRaises
  <2>1. /\ Top.is = "list" /\ Top.at <= Len(Top.list) /\ Fate(Child, "error") /\ UNCHANGED plan
        /\ \/ Depth = 1 /\ PhaseRaises
           \/ Depth > 1 /\ stack' = Under /\ UNCHANGED <<phase, result>>
    BY <1>10 DEF ConditionRaises, Running, run
  <2>2. PICK s \in Steps : s = Child
    BY <1>1, <2>1
  <2>3. fate'[s] = "error" /\ \A t \in Steps \ {s} : fate'[t] = fate[t]
    BY <2>1, <2>2, ShowTyped DEF FateEnds
  <2>4. CASE Depth = 1 /\ PhaseRaises
    BY <1>1, <1>7, <2>1, <2>2, <2>3, <2>4
  <2>5. CASE Depth > 1 /\ stack' = Under /\ UNCHANGED <<phase, result>>
    <3>1. Hidden({s})
      BY <1>0, <1>1, <2>1, <2>2, <2>5, HiddenAre
    <3> QED
      BY <1>9, <2>1, <2>3, <2>5, <3>1
  <2> QED
    BY <2>1, <2>4, <2>5
<1>11. CASE StepReturns
  <2>1. /\ Top.is = "list" /\ ctl = "back" /\ ctl' = "go" /\ val \in Driver
        /\ Replace([Top EXCEPT !.at = @ + 1, !.drv = val])
        /\ UNCHANGED <<plan, phase, result, fate>>
    BY <1>11 DEF StepReturns, Running, run, TypeOK
  <2>2. Advances(val)
    BY <2>1, AdvanceDoes
  <2>3. /\ Top'.at = Top.at + 1 /\ Depth' = Depth
        /\ \A i \in 1..(Depth - 1) : stack'[i] = stack[i]
    BY <2>1, <2>2, AdvanceStack
  <2>4. CASE Depth = 1
    <3>1. stack'[1].at = stack[1].at + 1
      BY <1>0, <2>3, <2>4 DEF Top
    <3>2. PICK s \in Steps : s = Child
      BY <1>1, <2>1
    <3>3. Fine(s)'
      BY <2>1, <3>2 DEF ShownInv, EndedInv, Fine
    <3> QED
      BY <1>1, <1>2, <2>1, <2>4, <3>1, <3>2, <3>3
  <2>5. CASE Depth > 1
    <3>1. stack'[1] = stack[1]
      BY <1>0, <2>1, <2>3, <2>5
    <3> QED
      BY <1>3, <2>1, <2>5, <3>1, HiddenAre
  <2> QED
    BY <1>0, <2>4, <2>5
<1>12. CASE StepRaises
  <2>1. /\ Top.is = "list" /\ ctl = "raise" /\ fate' = fate /\ UNCHANGED plan
        /\ \/ Depth = 1 /\ PhaseRaises
           \/ Depth > 1 /\ stack' = Under /\ UNCHANGED <<phase, result>>
    BY <1>12 DEF StepRaises, Running, run
  <2>2. CASE Depth = 1 /\ PhaseRaises
    <3>1. PICK s \in Steps : s = Child
      BY <1>1, <2>1
    <3>2. fate'[s] = "error"
      BY <2>1, <3>1 DEF ShownInv, EndedInv
    <3> QED
      BY <1>1, <1>7, <2>1, <2>2, <3>1, <3>2
  <2>3. CASE Depth > 1 /\ stack' = Under /\ UNCHANGED <<phase, result>>
    BY <1>9, <2>1, <2>3, HiddenAre
  <2> QED
    BY <2>1, <2>2, <2>3
<1>13. CASE ListEnds
  BY <1>9, <1>13, HiddenAre DEF ListEnds, Running, Return, run
<1>14. CASE PhaseEnds
  BY <1>14, EndedPhase
\* A step frame stays, or calls a list.
<1>15. ASSUME Top.is = "step", stack'[1] = stack[1], UNCHANGED <<plan, phase, result>>,
              NEW K, Hidden(K), \A t \in Steps \ K : fate'[t] = fate[t]
       PROVE  PhaseInv'
  BY <1>0, <1>3, <1>15
\* It ends.
<1>16. ASSUME Top.is = "step", stack' = Under, ctl' # "go", UNCHANGED <<plan, phase, result>>,
              NEW e \in FateEnds, Fate(Top.step, e)
       PROVE  PhaseInv'
  <2>1. Popped
    BY <1>0, <1>16, PopDoes
  <2>2. Top.step \in Steps
    BY <1>16, Here
  <2>3. \A t \in Steps \ {Top.step} : fate'[t] = fate[t]
    BY <1>16, <2>2, ShowTyped
  <2>4. \A t \in Steps \ ({} \cup {Top.step}) : fate'[t] = fate[t]
    BY <2>3
  <2> QED
    BY <1>16, <2>1, <2>4, HiddenAre, PopPhase
<1>17. {"ok", "error", "swallowed"} \subseteq FateEnds
  BY DEF FateEnds
\* Replacing a step frame leaves the first list alone.
<1>18. ASSUME Top.is = "step", NEW f, Replace(f) PROVE stack'[1] = stack[1]
  <2>1. stack \in Seq(Frame) /\ Depth = (Depth - 1) + 1 /\ Depth - 1 \in Nat /\ 1 \in 1..(Depth - 1)
    BY <1>0, <1>18 DEF TypeOK
  <2>2. Under \in Seq(Frame) /\ Len(Under) = Depth - 1 /\ Under[1] = stack[1]
    BY <2>1, FrontIs DEF Under, Depth
  <2> QED
    BY <1>18, <2>1, <2>2 DEF Replace
<1>19. ASSUME Top.is = "step", NEW f, NEW g, Push(f, g) PROVE stack'[1] = stack[1]
  <2>1. stack \in Seq(Frame) /\ Depth = (Depth - 1) + 1 /\ Depth - 1 \in Nat /\ 1 \in 1..(Depth - 1)
    BY <1>0, <1>19 DEF TypeOK
  <2>2. Under \in Seq(Frame) /\ Len(Under) = Depth - 1 /\ Under[1] = stack[1]
    BY <2>1, FrontIs DEF Under, Depth
  <2> QED
    BY <1>19, <2>1, <2>2 DEF Push
<1>20. CASE Operate
  <2>1. /\ Top.is = "step" /\ UNCHANGED <<plan, phase, result>>
        /\ \/ \E d : Return(d) /\ Fate(Top.step, "ok")
           \/ \E f : Replace(f) /\ UNCHANGED fate
    BY <1>20 DEF Operate, Running, run
  <2>2. CASE \E d : Return(d) /\ Fate(Top.step, "ok")
    BY <1>16, <1>17, <2>1, <2>2 DEF Return
  <2>3. CASE \E f : Replace(f) /\ UNCHANGED fate
    BY <1>15, <1>18, <2>1, <2>3, HiddenAre
  <2> QED
    BY <2>1, <2>2, <2>3
<1>21. CASE OperateWithout
  BY <1>15, <1>21, HiddenAre DEF OperateWithout, Running, run
<1>22. CASE BlockBegins
  BY <1>15, <1>19, <1>22, HiddenAre DEF BlockBegins, Running, Into, run
<1>23. CASE Parallel
  <2>1. /\ ChildrenEnd(In(Self.body)) /\ Top.is = "step" /\ UNCHANGED <<plan, phase, result>>
        /\ \/ ctl' = "raise" /\ UNCHANGED <<val, stack>> /\ fate'[Top.step] = fate[Top.step]
           \/ ctl' = "back" /\ val' = Top.drv /\ Popped /\ fate'[Top.step] = "ok"
        /\ Top.step \in Steps /\ Self.kind = "parallel"
    BY <1>23, ParallelDoes, Here DEF Parallel, Running, run
  <2>2. In(Self.body) \subseteq ParallelKids
    BY <2>1 DEF ParallelKids, Self
  <2>3. \A t \in Steps \ (ParallelKids \cup {Top.step}) : fate'[t] = fate[t]
    BY <2>1, <2>2 DEF ChildrenEnd
  <2>4. CASE UNCHANGED stack /\ fate'[Top.step] = fate[Top.step]
    <3>1. \A t \in Steps \ ParallelKids : fate'[t] = fate[t]
      BY <2>3, <2>4
    <3> QED
      BY <1>15, <2>1, <2>4, <3>1, HiddenAre
  <2>5. CASE ctl' = "back" /\ Popped
    BY <2>1, <2>3, <2>5, HiddenAre, PopPhase
  <2> QED
    BY <2>1, <2>4, <2>5
<1>24. CASE BlockGoesOn
  <2>1. /\ Top.is = "step" /\ UNCHANGED <<plan, phase, result>>
        /\ \/ \E f, g : Push(f, g) /\ UNCHANGED fate
           \/ \E f : Replace(f) /\ UNCHANGED fate
           \/ Return(val) /\ Fate(Top.step, "ok")
    BY <1>24 DEF BlockGoesOn, Running, Into, run
  <2>2. CASE \E f, g : Push(f, g) /\ UNCHANGED fate
    BY <1>15, <1>19, <2>1, <2>2, HiddenAre
  <2>3. CASE \E f : Replace(f) /\ UNCHANGED fate
    BY <1>15, <1>18, <2>1, <2>3, HiddenAre
  <2>4. CASE Return(val) /\ Fate(Top.step, "ok")
    BY <1>16, <1>17, <2>1, <2>4 DEF Return
  <2> QED
    BY <2>1, <2>2, <2>3, <2>4
<1>25. CASE TryHandles
  <2>1. /\ Top.is = "step" /\ UNCHANGED <<plan, phase, result, fate>>
        /\ \E f, g : Push(f, g)
    BY <1>25 DEF TryHandles, Running, Into, run
  <2> QED
    BY <1>15, <1>19, <2>1, HiddenAre
<1>26. CASE AttemptFails
  <2>1. /\ Top.is = "step" /\ UNCHANGED <<plan, phase, result>>
        /\ \/ \E f : Replace(f) /\ UNCHANGED fate
           \/ Return(Top.drv) /\ Fate(Top.step, "swallowed")
           \/ stack' = Under /\ Raise /\ Fate(Top.step, "error")
    BY <1>26 DEF AttemptFails, Running, run
  <2>2. CASE \E f : Replace(f) /\ UNCHANGED fate
    BY <1>15, <1>18, <2>1, <2>2, HiddenAre
  <2>3. CASE Return(Top.drv) /\ Fate(Top.step, "swallowed")
    BY <1>16, <1>17, <2>1, <2>3 DEF Return
  <2>4. CASE stack' = Under /\ Raise /\ Fate(Top.step, "error")
    BY <1>16, <1>17, <2>1, <2>4 DEF Raise
  <2> QED
    BY <2>1, <2>2, <2>3, <2>4
<1> QED
  BY <1>4, <1>5, <1>6, <1>8, <1>10, <1>11, <1>12, <1>13, <1>14, <1>20, <1>21, <1>22, <1>23,
     <1>24, <1>25, <1>26 DEF Next

-----------------------------------------------------------------------------
(* What is shown                                                           *)

LEMMA InStackIs ==
  ASSUME TypeOK, StackInv, phase \in Phases, NEW s, InStack(s)
  PROVE  s \in Steps \ ParallelKids /\ (Ours(s) \/ Nested(s))
<1>1. PICK i \in 1..Depth : stack[i].is = "step" /\ stack[i].step = s
  BY DEF InStack
<1>2. Ours(s) \/ Nested(s)
  BY <1>1, StepIs
<1> QED
  BY <1>2 DEF Ours, Nested

LEMMA SwappedSteps ==
  ASSUME TypeOK, StackInv, NEW f, Swapped(f), NEW s
  PROVE  InStack(s)' <=> InStack(s)
<1>1. Depth \in Nat /\ Depth >= 1 /\ Top = stack[Depth] /\ Depth' = Depth
  BY Here DEF Swapped, Depth
<1>2. \A i \in 1..Depth : i = Depth \/ i \in 1..(Depth - 1)
  BY <1>1
<1>3. \A i \in 1..Depth : stack'[i].is = stack[i].is /\ stack'[i].step = stack[i].step
  BY <1>1, <1>2 DEF Swapped, Alike
<1> QED
  BY <1>1, <1>3 DEF InStack

LEMMA PushedSteps ==
  ASSUME TypeOK, StackInv, NEW f, NEW g, Pushed(f, g), NEW s
  PROVE  InStack(s)' <=> InStack(s) \/ (g.is = "step" /\ g.step = s)
<1>1. Depth \in Nat /\ Depth >= 1 /\ Top = stack[Depth] /\ Depth' = Depth + 1
      /\ stack'[Depth + 1] = g
  BY Here DEF Pushed, Depth
<1>2. /\ \A i \in 1..Depth : i = Depth \/ i \in 1..(Depth - 1)
      /\ \A i \in 1..(Depth + 1) : i = Depth + 1 \/ i \in 1..Depth
      /\ \A i \in 1..Depth : i \in 1..(Depth + 1)
      /\ Depth + 1 \in 1..(Depth + 1)
  BY <1>1
<1>3. \A i \in 1..Depth : stack'[i].is = stack[i].is /\ stack'[i].step = stack[i].step
  BY <1>1, <1>2 DEF Pushed, Alike
<1>4. InStack(s)' <=> \E i \in 1..(Depth + 1) : stack'[i].is = "step" /\ stack'[i].step = s
  BY <1>1 DEF InStack
<1> QED
  BY <1>1, <1>2, <1>3, <1>4 DEF InStack

LEMMA PoppedSteps ==
  ASSUME TypeOK, StackInv, Popped, Depth >= 2, UNCHANGED <<plan, phase>>, NEW s
  PROVE  InStack(s)' <=> InStack(s) /\ ~(Top.is = "step" /\ Top.step = s)
<1>1. Depth \in Nat /\ Top = stack[Depth] /\ Depth' = Depth - 1
  BY Here, PopStack
<1>2. /\ \A i \in 1..Depth : i = Depth \/ i \in 1..(Depth - 1)
      /\ \A i \in 1..(Depth - 1) : i \in 1..Depth /\ i # Depth
      /\ Depth \in 1..Depth
  BY <1>1
<1>3. \A i \in 1..(Depth - 1) : stack'[i] = stack[i]
  BY DEF Popped
<1>4. InStack(s)' <=> \E i \in 1..(Depth - 1) : stack[i].is = "step" /\ stack[i].step = s
  BY <1>1, <1>3 DEF InStack
<1>5. \A i \in 1..(Depth - 1) :
        ~(stack[i].is = "step" /\ Top.is = "step" /\ stack[i].step = Top.step)
  BY <1>1, <1>2 DEF StackInv
<1> QED
  BY <1>1, <1>2, <1>4, <1>5 DEF InStack

LEMMA StartedSteps ==
  ASSUME TypeOK, NEW d \in Driver, Started(d), ctl' = "go", UNCHANGED plan, NEW s
  PROVE  ~InStack(s)'
<1>1. plan[phase'] \in Seq(Steps) /\ Depth' = 1 /\ stack'[1] = List(plan[phase'], d)
  BY StartStack, EngineAssumption DEF Started, TypeOK
<1>2. stack'[1].is = "list" /\ \A i \in 1..1 : i = 1
  BY <1>1, ListFields
<1> QED
  BY <1>1, <1>2 DEF InStack

\* A step that did not start stays as it ended.
LEMMA StuckKept ==
  ASSUME TypeOK, UNCHANGED plan, broke \subseteq broke', phase' # "steps",
         NEW K, phase # "steps" => InPhase("steps") \cap K = {},
         \A s \in Steps \ K : fate'[s] = fate[s], NEW s, Stuck(s)
  PROVE  Stuck(s)'
<1>1. s \in InPhase("steps") /\ s \in InPhase("steps")' /\ s \in Steps
  BY PhasesApart DEF Stuck, InPhase, Phases
<1> QED
  BY <1>1 DEF Stuck

\* t, which begins, goes on or has ended; K: the children of parallel that end with it.
Moved(t, K) ==
  /\ Ours(t) \/ Nested(t)
  /\ K \subseteq ParallelKids
  /\ \A s \in Steps \ (K \cup {t}) : shown'[s] = shown[s] /\ fate'[s] = fate[s]
  /\ \A k \in K : shown'[k] \in {shown[k], "retrying", "failed"}

LEMMA MovedApart ==
  ASSUME TypeOK, phase \in Phases, NEW t, NEW K, Moved(t, K)
  PROVE  /\ t \in Steps \ ParallelKids
         /\ \A s \in Steps \ ParallelKids : s # t => shown'[s] = shown[s] /\ fate'[s] = fate[s]
         /\ phase # "steps" => InPhase("steps") \cap (K \cup {t}) = {}
<1>1. t \in Steps \ ParallelKids /\ \A p \in Phases \ {phase} : t \notin InPhase(p)
  BY OursIs DEF Moved
<1>2. "steps" \in Phases
  BY DEF Phases
<1>3. InPhase("steps") \cap ParallelKids = {}
  BY <1>2, PhasesApart
<1> QED
  BY <1>1, <1>2, <1>3 DEF Moved

LEMMA MovedColours ==
  ASSUME TypeOK, phase \in Phases, KidsInv, GreenIsTrue, NEW t, NEW K, Moved(t, K),
         shown'[t] = "succeeded" => fate'[t] \in {"ok", "skipped"}
  PROVE  KidsInv' /\ GreenIsTrue'
<1>1. t \in Steps \ ParallelKids
  BY MovedApart
<1>2. \A s \in Steps : s = t \/ s \in K \/ (shown'[s] = shown[s] /\ fate'[s] = fate[s])
  BY DEF Moved
<1>3. \A k \in K : shown'[k] # "succeeded"
  BY DEF Moved, KidsInv
<1>4. GreenIsTrue'
  BY <1>2, <1>3 DEF GreenIsTrue
<1>5. ParallelKids \subseteq Steps
  BY KidsAreSteps
<1>6. KidsInv'
  <2> SUFFICES ASSUME NEW s \in ParallelKids PROVE shown'[s] # "succeeded"
    BY DEF KidsInv
  <2>1. s # t
    BY <1>1
  <2> QED
    BY <1>2, <1>3, <1>5, <2>1 DEF KidsInv
<1> QED
  BY <1>4, <1>6

\* t goes on, or an exception comes to a block.
LEMMA OnShown ==
  ASSUME TypeOK, phase \in Phases, ShownInv, UNCHANGED <<plan, phase, broke>>,
         StackInv, StackInv', TypeOK',
         ctl' = "go" \/ Top'.is = "step", ~flag', NEW t, NEW K, Moved(t, K),
         \A s \in Steps : s # t => (InStack(s)' <=> InStack(s)) /\ (InHand(s) => InStack(s)),
         InStack(t)' <=> shown'[t] \in Busy,
         shown'[t] = "succeeded" => fate'[t] \in {"ok", "skipped"}
  PROVE  ShownInv'
<1>1. /\ t \in Steps \ ParallelKids
      /\ \A s \in Steps \ ParallelKids : s # t => shown'[s] = shown[s] /\ fate'[s] = fate[s]
      /\ phase # "steps" => InPhase("steps") \cap (K \cup {t}) = {}
  BY MovedApart
<1>2. FlagInv' /\ EndedInv'
  BY DEF FlagInv, EndedInv
<1>3. BusyInv'
  <2> SUFFICES ASSUME NEW s \in Steps, InStack(s)' PROVE shown'[s] \in Busy
    BY DEF BusyInv
  <2>1. CASE s = t
    BY <2>1
  <2>2. CASE s # t
    <3>1. InStack(s)
      BY <2>2
    <3>2. s \in Steps \ ParallelKids /\ shown[s] \in Busy
      BY <3>1, InStackIs DEF ShownInv, BusyInv
    <3> QED
      BY <1>1, <2>2, <3>2
  <2> QED
    BY <2>1, <2>2
<1>4. HandInv'
  <2> SUFFICES ASSUME NEW s \in Steps \ ParallelKids, shown'[s] \in Busy
               PROVE  InStack(s)' \/ Stuck(s)'
    BY DEF HandInv, InHand
  <2>1. CASE s = t
    BY <2>1
  <2>2. CASE s # t
    <3>1. InHand(s) \/ Stuck(s)
      BY <1>1, <2>2 DEF ShownInv, HandInv
    <3>2. CASE InHand(s)
      BY <2>2, <3>2
    <3>3. CASE Stuck(s)
      <4>1. phase # "steps" /\ \A r \in Steps \ (K \cup {t}) : fate'[r] = fate[r]
        BY <3>3 DEF Stuck, Moved
      <4>2. PICK L : L = K \cup {t}
        OBVIOUS
      <4> QED
        BY <1>1, <3>3, <4>1, <4>2, StuckKept
    <3> QED
      BY <3>1, <3>2, <3>3
  <2> QED
    BY <2>1, <2>2
<1>5. KidsInv' /\ GreenIsTrue'
  BY MovedColours DEF ShownInv
<1> QED
  BY <1>2, <1>3, <1>4, <1>5 DEF ShownInv

\* A call ends, and the list above it has to take it.
LEMMA OutShown ==
  ASSUME TypeOK, phase \in Phases, ShownInv, UNCHANGED <<plan, phase, broke>>,
         StackInv, Top.is = "step", Popped, NEW K, Moved(Top.step, K), ctl' \in {"back", "raise"},
         flag' => ctl' = "back", NEW t, t = Top.step,
         shown'[t] \in IF flag' THEN {"failed"} ELSE Busy,
         ctl' = "back" =>
           IF flag' THEN fate'[t] = "swallowed" /\ Def[t].tolerant ELSE fate'[t] = "ok",
         ctl' = "raise" => fate'[t] = "error"
  PROVE  ShownInv'
<1>1. /\ t \in Steps \ ParallelKids
      /\ \A s \in Steps \ ParallelKids : s # t => shown'[s] = shown[s] /\ fate'[s] = fate[s]
      /\ phase # "steps" => InPhase("steps") \cap (K \cup {t}) = {}
  BY MovedApart
<1>2. Depth \in Nat /\ Depth >= 2 /\ Top = stack[Depth] /\ Depth \in 1..Depth
  BY Here
<1>3. /\ Top' = stack[Depth - 1] /\ stack[Depth - 1].is = "list"
      /\ stack[Depth - 1].list[stack[Depth - 1].at] = t
  BY <1>2, PopStack, StepIs
<1>4. Top'.is = "list" /\ Child' = t
  BY <1>3 DEF Child
<1>5. FlagInv' /\ EndedInv'
  BY <1>4 DEF FlagInv, EndedInv
<1>6. \A s : InStack(s)' <=> InStack(s) /\ s # t
  BY <1>2, PoppedSteps
<1>7. BusyInv'
  <2> SUFFICES ASSUME NEW s \in Steps, InStack(s)' PROVE shown'[s] \in Busy
    BY DEF BusyInv
  <2>1. InStack(s) /\ s # t
    BY <1>6
  <2>2. s \in Steps \ ParallelKids /\ shown[s] \in Busy
    BY <2>1, InStackIs DEF ShownInv, BusyInv
  <2> QED
    BY <1>1, <2>1, <2>2
<1>8. HandInv'
  <2> SUFFICES ASSUME NEW s \in Steps \ ParallelKids, shown'[s] \in Busy
               PROVE  InHand(s)' \/ Stuck(s)'
    BY DEF HandInv
  <2>1. CASE s = t
    BY <1>4, <2>1 DEF InHand
  <2>2. CASE s # t
    <3>1. InHand(s) \/ Stuck(s)
      BY <1>1, <2>2 DEF ShownInv, HandInv
    <3>2. CASE InHand(s)
      BY <1>6, <2>2, <3>2 DEF InHand
    <3>3. CASE Stuck(s)
      <4>1. phase # "steps" /\ \A r \in Steps \ (K \cup {t}) : fate'[r] = fate[r]
        BY <3>3 DEF Stuck, Moved
      <4>2. PICK L : L = K \cup {t}
        OBVIOUS
      <4> QED
        BY <1>1, <3>3, <4>1, <4>2, StuckKept
    <3> QED
      BY <3>1, <3>2, <3>3
  <2> QED
    BY <2>1, <2>2
<1>9. shown'[t] # "succeeded"
  BY DEF Busy
<1>10. KidsInv' /\ GreenIsTrue'
  BY <1>9, MovedColours DEF ShownInv
<1> QED
  BY <1>5, <1>7, <1>8, <1>10 DEF ShownInv

\* A phase is left, and with it the step t.
LEMMA LeftShown ==
  ASSUME TypeOK, phase \in Phases, ShownInv, UNCHANGED plan, broke \subseteq broke',
         StackInv, NEW t, Moved(t, {}), \A s \in Steps : s # t => ~InHand(s),
         shown'[t] \in Busy => Stuck(t)',
         shown'[t] = "succeeded" => fate'[t] \in {"ok", "skipped"},
         phase' # "steps",
         phase' # "over" => ctl' = "go" /\ ~flag' /\ \E d \in Driver : Started(d)
  PROVE  /\ phase' # "over" => ShownInv'
         /\ phase' = "over" => ShownOver'
<1>1. /\ t \in Steps \ ParallelKids
      /\ \A s \in Steps \ ParallelKids : s # t => shown'[s] = shown[s] /\ fate'[s] = fate[s]
      /\ phase # "steps" => InPhase("steps") \cap ({} \cup {t}) = {}
  BY MovedApart
<1>2. \A s \in Steps \ ParallelKids : shown'[s] \in Busy => Stuck(s)'
  <2> SUFFICES ASSUME NEW s \in Steps \ ParallelKids, shown'[s] \in Busy PROVE Stuck(s)'
    OBVIOUS
  <2>1. CASE s = t
    BY <2>1
  <2>2. CASE s # t
    <3>1. Stuck(s)
      BY <1>1, <2>2 DEF ShownInv, HandInv
    <3>2. phase # "steps" /\ \A r \in Steps \ {t} : fate'[r] = fate[r]
      BY <3>1 DEF Stuck, Moved
    <3>3. InPhase("steps") \cap {t} = {}
      BY <1>1, <3>2
    <3>4. PICK L : L = {t}
      OBVIOUS
    <3> QED
      BY <3>1, <3>2, <3>3, <3>4, StuckKept
  <2> QED
    BY <2>1, <2>2
<1>3. KidsInv' /\ GreenIsTrue'
  BY MovedColours DEF ShownInv
<1>4. ASSUME phase' # "over" PROVE ShownInv'
  <2>1. \A s : ~InStack(s)'
    BY <1>4, StartedSteps
  <2> QED
    BY <1>2, <1>3, <1>4, <2>1 DEF ShownInv, FlagInv, BusyInv, EndedInv, HandInv
<1> QED
  BY <1>2, <1>3, <1>4 DEF ShownOver

LEMMA NextShown ==
  ASSUME TypeOK, phase \in Phases, StackInv, ShownInv, PhaseInv, Next, Sound
  PROVE  /\ phase' # "over" => ShownInv'
         /\ phase' = "over" => ShownOver'
<1>0. /\ Depth \in Nat /\ Depth >= 1 /\ Progress /\ Top = stack[Depth]
      /\ Top.is = "step" => Depth >= 2
      /\ Top.is = "list" /\ Depth > 1 => Depth >= 3
      /\ Top.is = "list" \/ Top.is = "step"
      /\ flag \in BOOLEAN /\ "over" \notin Phases
      /\ FateEnds = {"none", "ok", "error", "swallowed", "skipped"}
      /\ flag => ctl = "back" /\ Top.is = "list"
      /\ Top.drv \in Driver /\ val \in Driver /\ None \in Driver
      /\ ShownEvents = {"none", "started", "succeeded", "failed", "skipped", "retrying"}
  BY Here, Turns
     DEF PhaseInv, Phases, TypeOK, FateEnds, ShownEvents, ShownInv, FlagInv, Driver
<1>1. Top.is = "list" /\ (Top.at <= Len(Top.list) \/ ctl # "go") =>
        /\ Child \in Steps /\ (Ours(Child) \/ Nested(Child))
        /\ Depth = 1 => Ours(Child)
        /\ ~InStack(Child)
  BY Here, ChildIs, ChildIsNew DEF InStack
<1>2. Top.is = "step" =>
        /\ Top.step \in Steps /\ (Ours(Top.step) \/ Nested(Top.step))
        /\ InStack(Top.step) /\ shown[Top.step] \in Busy
  <2> SUFFICES ASSUME Top.is = "step"
               PROVE  /\ Top.step \in Steps /\ (Ours(Top.step) \/ Nested(Top.step))
                      /\ InStack(Top.step) /\ shown[Top.step] \in Busy
    OBVIOUS
  <2>1. Top.step \in Steps /\ (Ours(Top.step) \/ Nested(Top.step)) /\ Depth \in 1..Depth
    BY <1>0, Here, SelfIs
  <2>2. InStack(Top.step)
    BY <1>0, <2>1 DEF InStack
  <2> QED
    BY <2>1, <2>2 DEF ShownInv, BusyInv
\* What else is in hand is in the stack.
<1>3. \A s : InHand(s) => InStack(s) \/ (Top.is = "list" /\ ctl # "go" /\ s = Child)
  BY DEF InHand
<1>4. phase' # "over" => StackInv' /\ TypeOK'
  BY RestIs, NextStack DEF Sound, TypeOK, RestOK, ShownEvents, FateEnds
\* The list goes on to its next step, and t is shown as it ended.
<1>5. ASSUME NEW d \in Driver, Advances(d), Top.is = "list", Top.at <= Len(Top.list) \/ ctl # "go",
             ctl' = "go", ~flag', UNCHANGED <<plan, phase, broke>>,
             NEW t, t = Child, Moved(t, {}), shown'[t] \notin Busy,
             shown'[t] = "succeeded" => fate'[t] \in {"ok", "skipped"}
      PROVE  ShownInv'
  <2>1. PICK f \in Frame : Swapped(f)
    BY <1>5 DEF Advances
  <2>2. \A s : InStack(s)' <=> InStack(s)
    BY <2>1, SwappedSteps
  <2>3. \A s : s # t => (InHand(s) => InStack(s))
    BY <1>3, <1>5
  <2>4. InStack(t)' <=> shown'[t] \in Busy
    BY <1>1, <1>5, <2>2
  <2> QED
    BY <1>0, <1>4, <1>5, <2>2, <2>3, <2>4, OnShown
<1>6. CASE SkipTop \/ SkipNested
  <2>1. /\ Top.is = "list" /\ Top.at <= Len(Top.list) /\ ctl' = "go" /\ ctl = "go" /\ ~flag'
        /\ UNCHANGED <<plan, phase, broke>> /\ Fate(Child, "skipped")
        /\ Show(Child, "skipped") \/ Show(Child, "succeeded")
        /\ \/ Replace([Top EXCEPT !.at = @ + 1])
           \/ Replace([Top EXCEPT !.at = @ + 1, !.drv = None])
    BY <1>0, <1>6 DEF SkipTop, SkipNested, Running, run, hist
  <2>2. PICK d \in Driver : Advances(d)
    BY <1>0, <2>1, AdvanceDoes
  <2>3. PICK t \in Steps : t = Child
    BY <1>1, <2>1
  <2>4. /\ shown'[t] \in {"skipped", "succeeded"} /\ fate'[t] = "skipped"
        /\ \A s \in Steps \ {t} : shown'[s] = shown[s] /\ fate'[s] = fate[s]
    BY <1>0, <2>1, <2>3, ShowTyped
  <2>5. Moved(t, {})
    BY <1>1, <2>1, <2>3, <2>4 DEF Moved
  <2>6. shown'[t] \notin Busy
    BY <2>4 DEF Busy
  <2>7. ShownInv'
    BY <1>5, <2>1, <2>2, <2>3, <2>4, <2>5, <2>6
  <2> QED
    BY <1>0, <2>1, <2>7
<1>7. CASE Begin
  <2>1. /\ Top.is = "list" /\ Top.at <= Len(Top.list) /\ ctl = "go" /\ ctl' = "go" /\ ~flag'
        /\ UNCHANGED <<plan, phase, broke, fate>> /\ Show(Child, "started")
    BY <1>7 DEF Begin, Running, run, hist
  <2>2. PICK d \in Driver : Descends(d, Top.failed, Call(Child, d))
    BY <1>7, BeginDoes
  <2>3. PICK f \in Frame : Pushed(f, Call(Child, d))
    BY <2>2 DEF Descends
  <2>4. PICK t \in Steps : t = Child
    BY <1>1, <2>1
  <2>5. Call(Child, d).is = "step" /\ Call(Child, d).step = t
    BY <2>4, CallFields
  <2>6. \A s : InStack(s)' <=> InStack(s) \/ s = t
    BY <2>3, <2>5, PushedSteps
  <2>7. shown'[t] = "started" /\ \A s \in Steps \ {t} : shown'[s] = shown[s] /\ fate'[s] = fate[s]
    BY <1>0, <2>1, <2>4, ShowTyped
  <2>8. Moved(t, {})
    BY <1>1, <2>1, <2>4, <2>7 DEF Moved
  <2>9. InStack(t)' <=> shown'[t] \in Busy
    BY <2>6, <2>7 DEF Busy
  <2>10. \A s : s # t => (InHand(s) => InStack(s))
    BY <1>3, <2>1
  <2>11. ShownInv'
    BY <1>0, <1>4, <2>1, <2>6, <2>7, <2>8, <2>9, <2>10, OnShown
  <2> QED
    BY <1>0, <2>1, <2>11
\* The phase raises: its step has failed, or is stuck.
<1>8. ASSUME PhaseRaises, UNCHANGED plan, flag' = flag, ctl # "back", Depth = 1, Top.is = "list",
             NEW t \in Steps, t = Child, Ours(t),
             \A s \in Steps \ {t} : shown'[s] = shown[s] /\ fate'[s] = fate[s],
             shown'[t] \in Busy => Stuck(t)', shown'[t] # "succeeded"
      PROVE  /\ phase' # "over" => ShownInv'
             /\ phase' = "over" => ShownOver'
  <2>1. /\ phase' # "steps" /\ broke \subseteq broke'
        /\ phase' # "over" => ctl' = "go" /\ \E d \in Driver : Started(d)
    BY <1>8, RaisesDoes
  <2>2. ~flag'
    BY <1>0, <1>8
  <2>3. \A s \in Steps : s # t => ~InHand(s)
    <3>1. \A i \in 1..Depth : stack[i].is # "step"
      BY <1>0, <1>8
    <3> QED
      BY <1>3, <1>8, <3>1 DEF InStack
  <2>4. Moved(t, {})
    BY <1>8 DEF Moved
  <2> QED
    BY <1>8, <2>1, <2>2, <2>3, <2>4, LeftShown
<1>9. CASE LaunchFails
  <2>1. /\ Top.is = "list" /\ Depth = 1 /\ Top.at <= Len(Top.list) /\ ctl = "go" /\ phase = "steps"
        /\ Show(Child, "started") /\ Fate(Child, "error") /\ PhaseRaises /\ UNCHANGED plan
        /\ flag' = flag /\ Def[Child].kind \in {"browser", "close"}
    BY <1>9 DEF LaunchFails, Running, LaunchesFirst, Launches, run
  <2>2. PICK t \in Steps : t = Child
    BY <1>1, <2>1
  <2>3. /\ fate'[t] = "error" /\ shown'[t] = "started" /\ Ours(t)
        /\ \A s \in Steps \ {t} : shown'[s] = shown[s] /\ fate'[s] = fate[s]
    BY <1>0, <1>1, <2>1, <2>2, ShowTyped
  <2>4. t \in InPhase("steps")'
    BY <2>1, <2>3, OursIs DEF InPhase
  <2>5. phase' = "failure" /\ "steps" \in broke'
    BY <2>1, RaisesDoes
  <2>6. Stuck(t)'
    BY <2>1, <2>2, <2>3, <2>4, <2>5 DEF Stuck
  <2> QED
    BY <1>8, <2>1, <2>2, <2>3, <2>6
\* A list in a block is left by the exception of its step.
<1>10. ASSUME Top.is = "list", Depth > 1, Top.at <= Len(Top.list) \/ ctl # "go", stack' = Under,
              ~flag',
              UNCHANGED <<plan, phase, broke>>, NEW t \in Steps, t = Child,
              \A s \in Steps \ {t} : shown'[s] = shown[s] /\ fate'[s] = fate[s],
              shown'[t] = "failed"
       PROVE  ShownInv'
  <2>1. Popped /\ Depth >= 2
    BY <1>0, <1>10, PopDoes
  <2>2. \A s : InStack(s)' <=> InStack(s)
    BY <1>10, <2>1, PoppedSteps
  <2>3. Top'.is = "step"
    <3>1. Top' = stack[Depth - 1] /\ Depth - 1 \in 1..(Depth - 1) /\ (Depth - 1) + 1 = Depth
      BY <1>0, <1>10, <2>1, PopStack
    <3>2. Calls(stack[Depth - 1], Top)
      BY <1>0, <3>1 DEF StackInv
    <3> QED
      BY <1>10, <3>1, <3>2 DEF Calls
  <2>4. Moved(t, {})
    BY <1>1, <1>10 DEF Moved
  <2>5. \A s : s # t => (InHand(s) => InStack(s))
    BY <1>3, <1>10
  <2>6. InStack(t)' <=> shown'[t] \in Busy
    BY <1>1, <1>10, <2>2 DEF Busy
  <2> QED
    BY <1>0, <1>4, <1>10, <2>2, <2>3, <2>4, <2>5, <2>6, OnShown
<1>11. CASE ConditionRaises
  <2>1. /\ Top.is = "list" /\ Top.at <= Len(Top.list) /\ ctl = "go" /\ Fate(Child, "error")
        /\ UNCHANGED plan
        /\ \/ Depth = 1 /\ PhaseRaises /\ UNCHANGED <<shown, flag>>
           \/ Depth > 1 /\ stack' = Under /\ Show(Child, "failed") /\ flag' = FALSE
              /\ UNCHANGED <<phase, broke>>
    BY <1>11 DEF ConditionRaises, Running, run
  <2>2. PICK t \in Steps : t = Child
    BY <1>1, <2>1
  <2>3. fate'[t] = "error" /\ \A s \in Steps \ {t} : fate'[s] = fate[s]
    BY <1>0, <2>1, <2>2, ShowTyped
  <2>4. CASE Depth = 1 /\ PhaseRaises /\ UNCHANGED <<shown, flag>>
    <3>1. Ours(t) /\ fate[t] = "none"
      BY <1>0, <1>1, <2>1, <2>2, <2>4 DEF Progress, Ours
    <3>2. shown[t] # "succeeded"
      BY <3>1 DEF ShownInv, GreenIsTrue
    <3>3. ~InHand(t) /\ ~Stuck(t) /\ t \in Steps \ ParallelKids
      BY <1>1, <1>3, <2>1, <2>2, <3>1 DEF Stuck, Ours
    <3>4. shown[t] \notin Busy
      BY <3>3 DEF ShownInv, HandInv
    <3> QED
      BY <1>8, <2>1, <2>2, <2>3, <2>4, <3>1, <3>2, <3>4
  <2>5. CASE Depth > 1 /\ stack' = Under /\ Show(Child, "failed") /\ flag' = FALSE
             /\ UNCHANGED <<phase, broke>>
    <3>1. shown'[t] = "failed" /\ \A s \in Steps \ {t} : shown'[s] = shown[s]
      BY <1>0, <2>2, <2>5, ShowTyped
    <3>2. ShownInv'
      BY <1>10, <2>1, <2>2, <2>3, <2>5, <3>1
    <3> QED
      BY <1>0, <2>5, <3>2
  <2> QED
    BY <2>1, <2>4, <2>5
<1>12. CASE StepReturns
  <2>1. /\ Top.is = "list" /\ ctl = "back" /\ ctl' = "go" /\ ~flag' /\ fate' = fate
        /\ IF flag THEN UNCHANGED shown ELSE Show(Child, "succeeded")
        /\ Replace([Top EXCEPT !.at = @ + 1, !.drv = val])
        /\ UNCHANGED <<plan, phase, broke>>
    BY <1>12 DEF StepReturns, Running, run, hist
  <2>2. Advances(val)
    BY <1>0, <2>1, AdvanceDoes
  <2>3. PICK t \in Steps : t = Child
    BY <1>1, <2>1
  <2>4. /\ IF flag THEN shown'[t] = "failed" ELSE shown'[t] = "succeeded" /\ fate'[t] = "ok"
        /\ \A s \in Steps \ {t} : shown'[s] = shown[s] /\ fate'[s] = fate[s]
    <3>1. CASE flag
      BY <2>1, <2>3, <3>1 DEF ShownInv, EndedInv
    <3>2. CASE ~flag
      BY <1>0, <2>1, <2>3, <3>2, ShowTyped DEF ShownInv, EndedInv
    <3> QED
      BY <1>0, <3>1, <3>2
  <2>5. Moved(t, {})
    BY <1>1, <2>1, <2>3, <2>4 DEF Moved
  <2>6. shown'[t] \notin Busy /\ (shown'[t] = "succeeded" => fate'[t] \in {"ok", "skipped"})
    BY <1>0, <2>4 DEF Busy
  <2>7. ShownInv'
    BY <1>0, <1>5, <2>1, <2>2, <2>3, <2>5, <2>6
  <2> QED
    BY <1>0, <2>1, <2>7
<1>13. CASE StepRaises
  <2>1. /\ Top.is = "list" /\ ctl = "raise" /\ fate' = fate /\ flag' = flag /\ UNCHANGED plan
        /\ Show(Child, "failed")
        /\ \/ Depth = 1 /\ PhaseRaises
           \/ Depth > 1 /\ stack' = Under /\ UNCHANGED <<phase, broke>>
    BY <1>13 DEF StepRaises, Running, run
  <2>2. PICK t \in Steps : t = Child
    BY <1>1, <2>1
  <2>3. shown'[t] = "failed" /\ \A s \in Steps \ {t} : shown'[s] = shown[s] /\ fate'[s] = fate[s]
    BY <1>0, <2>1, <2>2, ShowTyped
  <2>4. shown'[t] \notin Busy
    BY <2>3 DEF Busy
  <2>5. CASE Depth = 1 /\ PhaseRaises
    BY <1>1, <1>8, <2>1, <2>2, <2>3, <2>4, <2>5
  <2>6. CASE Depth > 1 /\ stack' = Under /\ UNCHANGED <<phase, broke>>
    <3>1. ShownInv'
      BY <1>0, <1>10, <2>1, <2>2, <2>3, <2>6
    <3> QED
      BY <1>0, <2>6, <3>1
  <2> QED
    BY <2>1, <2>5, <2>6
\* Nothing changes but the frames, and t is still running.
<1>14. ASSUME UNCHANGED <<plan, phase, broke>>, ctl' = "go" \/ Top'.is = "step", ~flag',
              Top.is = "step" \/ ctl = "go", NEW K, NEW t, Moved(t, K), InStack(t),
              shown'[t] \in Busy, \A s : InStack(s)' <=> InStack(s)
       PROVE  ShownInv'
  <2>1. \A s : s # t => (InHand(s) => InStack(s))
    BY <1>0, <1>3, <1>14
  <2>2. shown'[t] # "succeeded"
    BY <1>14 DEF Busy
  <2> QED
    BY <1>0, <1>4, <1>14, <2>1, <2>2, OnShown
<1>15. CASE ListEnds
  <2>1. /\ Top.is = "list" /\ Depth > 1 /\ ctl = "go" /\ ctl' = "back" /\ stack' = Under
        /\ UNCHANGED <<plan, phase, broke, flag, shown, fate>>
    BY <1>15 DEF ListEnds, Running, Return, run, hist
  <2>2. Popped /\ Depth >= 2
    BY <1>0, <2>1, PopDoes
  <2>3. \A s : InStack(s)' <=> InStack(s)
    BY <2>1, <2>2, PoppedSteps
  <2>4. /\ Top' = stack[Depth - 1] /\ Depth - 1 \in 1..(Depth - 1) /\ (Depth - 1) + 1 = Depth
        /\ Depth - 1 \in 1..Depth
    BY <1>0, <2>1, <2>2, PopStack
  <2>5. Calls(stack[Depth - 1], Top)
    BY <1>0, <2>4 DEF StackInv
  <2>6. PICK t : t = stack[Depth - 1].step
    OBVIOUS
  <2>7. Top'.is = "step" /\ InStack(t)
    BY <2>1, <2>4, <2>5, <2>6 DEF Calls, InStack
  <2>8. t \in Steps /\ (Ours(t) \/ Nested(t)) /\ shown[t] \in Busy
    BY <2>7, InStackIs DEF ShownInv, BusyInv
  <2>9. Moved(t, {})
    BY <2>1, <2>8 DEF Moved
  <2>10. ShownInv'
    BY <1>0, <1>14, <2>1, <2>3, <2>7, <2>8, <2>9
  <2> QED
    BY <1>0, <2>1, <2>10
<1>16. CASE PhaseEnds
  <2>1. /\ Top.is = "list" /\ ctl = "go" /\ Depth = 1
        /\ UNCHANGED <<plan, flag, shown, fate>> /\ broke \subseteq broke'
        /\ phase' # "over" => ctl' = "go" /\ \E d \in Driver : Started(d)
        /\ phase' = "steps" => phase = "before"
    BY <1>16, EndsDoes DEF PhaseEnds, Running, run
  <2>2. \A s : ~InHand(s)
    <3>1. \A i \in 1..Depth : stack[i].is # "step"
      BY <1>0, <2>1
    <3> QED
      BY <1>3, <2>1, <3>1 DEF InStack
  <2>3. \A s \in Steps \ ParallelKids : shown[s] \in Busy => Stuck(s)'
    <3> SUFFICES ASSUME NEW s \in Steps \ ParallelKids, shown[s] \in Busy PROVE Stuck(s)'
      OBVIOUS
    <3>1. Stuck(s)
      BY <2>2 DEF ShownInv, HandInv
    <3>2. phase # "before"
      BY <3>1 DEF PhaseInv, Blank, Touched, Stuck
    <3> QED
      BY <2>1, <3>1, <3>2 DEF Stuck, InPhase
  <2>4. KidsInv' /\ GreenIsTrue'
    BY <2>1 DEF ShownInv, KidsInv, GreenIsTrue
  <2>5. ASSUME phase' # "over" PROVE ShownInv'
    <3>1. (\A s : ~InStack(s)') /\ ~flag'
      BY <1>0, <2>1, <2>5, StartedSteps
    <3> QED
      BY <2>1, <2>3, <2>4, <2>5, <3>1 DEF ShownInv, FlagInv, BusyInv, EndedInv, HandInv
  <2> QED
    BY <2>1, <2>3, <2>4, <2>5 DEF ShownOver
<1>17. Top.is = "step" => ~flag /\ Top \in Frame /\ Self \in StepDef /\ Top.list = <<>>
  BY <1>0, Here
\* The step frame stays.
<1>18. ASSUME Top.is = "step", NEW f \in Frame, Replace(f), Alike(Top, f), flag' = flag,
              UNCHANGED <<plan, phase, broke>>,
              NEW t, t = Top.step, Moved(t, {}), shown'[t] \in Busy
       PROVE  ShownInv'
  <2>1. Swapped(f) /\ Top'.is = "step"
    <3>1. Swapped(f)
      BY <1>0, <1>18, ReplaceDoes
    <3>2. Top' = f
      BY <1>0, <3>1 DEF Swapped, Top, Depth
    <3> QED
      BY <1>18, <3>1, <3>2 DEF Alike
  <2>2. \A s : InStack(s)' <=> InStack(s)
    BY <2>1, SwappedSteps
  <2> QED
    BY <1>2, <1>14, <1>17, <1>18, <2>1, <2>2
<1>19. Top.is = "step" /\ UNCHANGED <<shown, fate>> => Moved(Top.step, {})
  BY <1>2 DEF Moved
\* It ends, with the end e of its fate.
<1>20. ASSUME Top.is = "step", stack' = Under, UNCHANGED <<plan, phase, broke>>,
              NEW e \in FateEnds, Fate(Top.step, e), ctl' \in {"back", "raise"},
              \/ UNCHANGED <<shown, flag>>
              \/ Show(Top.step, "failed") /\ flag' = TRUE /\ ctl' = "back",
              ctl' = "back" => IF flag' THEN e = "swallowed" /\ Self.tolerant ELSE e = "ok",
              ctl' = "raise" => e = "error"
       PROVE  ShownInv'
  <2>1. Popped
    BY <1>0, <1>20, PopDoes
  <2>2. PICK t \in Steps : t = Top.step
    BY <1>2, <1>20
  <2>3. fate'[t] = e /\ \A s \in Steps \ {t} : fate'[s] = fate[s]
    BY <1>20, <2>2, ShowTyped
  <2>4. /\ shown'[t] \in IF flag' THEN {"failed"} ELSE Busy
        /\ flag' => ctl' = "back"
        /\ \A s \in Steps \ {t} : shown'[s] = shown[s]
    <3>1. CASE UNCHANGED <<shown, flag>>
      BY <1>2, <1>17, <1>20, <2>2, <3>1
    <3>2. CASE Show(Top.step, "failed") /\ flag' = TRUE /\ ctl' = "back"
      BY <1>0, <2>2, <3>2, ShowTyped
    <3> QED
      BY <1>20, <3>1, <3>2
  <2>5. Moved(Top.step, {})
    BY <1>2, <1>20, <2>2, <2>3, <2>4 DEF Moved
  <2>6. ctl' = "back" =>
          IF flag' THEN fate'[t] = "swallowed" /\ Def[t].tolerant ELSE fate'[t] = "ok"
    BY <1>20, <2>2, <2>3 DEF Self
  <2>7. ctl' = "raise" => fate'[t] = "error"
    BY <1>20, <2>3
  <2> QED
    BY <1>20, <2>1, <2>2, <2>4, <2>5, <2>6, <2>7, OutShown
<1>21. CASE Operate
  <2>1. /\ Top.is = "step" /\ UNCHANGED <<plan, phase, broke, flag, shown>> /\ phase # "over"
        /\ \E d \in IF Launches(Self.kind, Top.drv) THEN {made + 1} ELSE {Top.drv} :
             /\ d # Top.drv => d <= MaxBrowsers
             /\ \/ \E r : Return(r) /\ Fate(Top.step, "ok")
                \/ Replace([Top EXCEPT !.drv = d]) /\ Raise /\ UNCHANGED fate
    BY <1>21 DEF Operate, Running, run, hist
  <2>2. PICK d \in IF Launches(Self.kind, Top.drv) THEN {made + 1} ELSE {Top.drv} :
             /\ d # Top.drv => d <= MaxBrowsers
             /\ \/ \E r : Return(r) /\ Fate(Top.step, "ok")
                \/ Replace([Top EXCEPT !.drv = d]) /\ Raise /\ UNCHANGED fate
    BY <2>1
  <2>3. CASE \E r : Return(r) /\ Fate(Top.step, "ok")
    <3>1. ShownInv'
      BY <1>0, <1>17, <1>20, <2>1, <2>3 DEF Return
    <3> QED
      BY <1>0, <2>1, <3>1
  <2>4. CASE Replace([Top EXCEPT !.drv = d]) /\ Raise /\ UNCHANGED fate
    <3>1. d \in Driver
      <4>1. MaxBrowsers \in Nat /\ made \in Nat
        BY EngineAssumption DEF TypeOK
      <4> QED
        BY <1>0, <2>2, <4>1 DEF Driver, Browsers
    <3>2. PICK f : f = [Top EXCEPT !.drv = d]
      OBVIOUS
    <3>3. f \in Frame /\ Alike(Top, f) /\ Replace(f)
      BY <1>17, <2>1, <2>4, <3>1, <3>2, DrvFields
    <3>4. PICK t : t = Top.step
      OBVIOUS
    <3>5. shown'[t] \in Busy /\ Moved(t, {})
      BY <1>2, <1>19, <2>1, <2>4, <3>4
    <3>6. ShownInv'
      BY <1>18, <2>1, <3>3, <3>4, <3>5
    <3> QED
      BY <1>0, <2>1, <3>6
  <2> QED
    BY <2>2, <2>3, <2>4
<1>22. CASE OperateWithout
  <2>1. /\ Top.is = "step" /\ UNCHANGED <<plan, phase, broke, flag, shown, fate, stack>>
    BY <1>22 DEF OperateWithout, Running, run, hist
  <2>2. Top' = Top /\ \A s : InStack(s)' <=> InStack(s)
    BY <2>1 DEF Top, Depth, InStack
  <2>3. PICK t : t = Top.step
    OBVIOUS
  <2>4. ShownInv'
    BY <1>2, <1>14, <1>17, <1>19, <2>1, <2>2, <2>3
  <2> QED
    BY <1>0, <2>1, <2>4
\* A block goes into a list.
<1>23. ASSUME NEW s \in {"start", "body", "catch", "last"}, NEW list \in Seq(Steps),
              NEW d \in Driver,
              NEW b \in BOOLEAN, Into(s, list, d, b), Top.is = "step",
              UNCHANGED <<plan, phase, broke, flag, shown, fate>>
       PROVE  ShownInv'
  <2>1. Descends(Top.drv, b, List(list, d)) /\ ctl' = "go"
    BY <1>23, IntoDoes
  <2>2. PICK f \in Frame : Pushed(f, List(list, d))
    BY <2>1 DEF Descends
  <2>3. \A r : InStack(r)' <=> InStack(r)
    BY <2>2, PushedSteps, ListFields
  <2>4. PICK t : t = Top.step
    OBVIOUS
  <2> QED
    BY <1>2, <1>14, <1>17, <1>19, <1>23, <2>1, <2>3, <2>4
<1>24. Top.is = "step" => /\ Self.body \in Seq(Steps) /\ Self.catch \in Seq(Steps)
                          /\ Self.last \in Seq(Steps) /\ Top.upd \in Driver
  BY Here DEF StepDef
<1>25. CASE BlockBegins
  <2>1. /\ Top.is = "step" /\ UNCHANGED <<plan, phase, broke, flag, shown, fate>>
        /\ Into("body", Self.body, Top.drv, FALSE)
    BY <1>25 DEF BlockBegins, Running, run, hist
  <2>2. ShownInv'
    BY <1>0, <1>23, <1>24, <2>1
  <2> QED
    BY <1>0, <2>1, <2>2
<1>26. CASE Parallel
  <2>1. /\ Top.is = "step" /\ UNCHANGED <<plan, phase, broke, flag>> /\ Self.kind = "parallel"
        /\ ChildrenEnd(In(Self.body)) /\ Top.step \notin In(Self.body)
        /\ \/ ctl' = "raise" /\ UNCHANGED <<val, stack>> /\ fate'[Top.step] = fate[Top.step]
           \/ ctl' = "back" /\ val' = Top.drv /\ Popped /\ fate'[Top.step] = "ok"
    BY <1>26, ParallelDoes DEF Parallel, Running, run, hist
  <2>2. PICK K : K = In(Self.body)
    OBVIOUS
  <2>3. PICK t : t = Top.step
    OBVIOUS
  <2>4. K \subseteq ParallelKids /\ t \notin K
    BY <1>2, <2>1, <2>2, <2>3 DEF ParallelKids, Self
  <2>5. Moved(t, K) /\ shown'[t] = shown[t] /\ shown'[t] \in Busy
    BY <1>2, <2>1, <2>2, <2>3, <2>4 DEF ChildrenEnd, Moved
  <2>6. CASE ctl' = "raise" /\ UNCHANGED <<val, stack>>
    <3>1. Top' = Top /\ \A s : InStack(s)' <=> InStack(s)
      BY <2>6 DEF Top, Depth, InStack
    <3>2. ShownInv'
      BY <1>2, <1>14, <1>17, <2>1, <2>3, <2>5, <3>1
    <3> QED
      BY <1>0, <2>1, <3>2
  <2>7. CASE ctl' = "back" /\ Popped /\ fate'[Top.step] = "ok"
    <3>1. ShownInv'
      BY <1>17, <2>1, <2>3, <2>5, <2>7, OutShown
    <3> QED
      BY <1>0, <2>1, <3>1
  <2> QED
    BY <2>1, <2>6, <2>7
<1>27. CASE BlockGoesOn
  <2>1. Top.is = "step" /\ UNCHANGED <<plan, phase, broke, flag, shown>>
    BY <1>27 DEF BlockGoesOn, Running, run, hist
  <2>2. CASE (Into("body", Self.body, val, FALSE) \/ Into("last", Self.last, val, FALSE))
             /\ UNCHANGED fate
    <3>1. ShownInv'
      BY <1>0, <1>23, <1>24, <2>1, <2>2
    <3> QED
      BY <1>0, <2>1, <3>1
  <2>3. CASE Replace([Top EXCEPT !.failed = FALSE]) /\ UNCHANGED fate
    <3>1. PICK f : f = [Top EXCEPT !.failed = FALSE]
      OBVIOUS
    <3>2. f \in Frame /\ Alike(Top, f) /\ Replace(f)
      BY <1>17, <2>1, <2>3, <3>1, FailedFields
    <3>3. PICK t : t = Top.step
      OBVIOUS
    <3>4. shown'[t] \in Busy /\ Moved(t, {})
      BY <1>2, <1>19, <2>1, <2>3, <3>3
    <3>5. ShownInv'
      BY <1>18, <2>1, <3>2, <3>3, <3>4
    <3> QED
      BY <1>0, <2>1, <3>5
  <2>4. CASE Return(val) /\ Fate(Top.step, "ok")
    <3>1. ShownInv'
      BY <1>0, <1>17, <1>20, <2>1, <2>4 DEF Return
    <3> QED
      BY <1>0, <2>1, <3>1
  <2> QED
    BY <1>27, <2>2, <2>3, <2>4 DEF BlockGoesOn
<1>28. CASE TryHandles
  <2>1. /\ Top.is = "step" /\ UNCHANGED <<plan, phase, broke, flag, shown, fate>>
        /\ Into("catch", Self.catch, Top.upd, FALSE) \/ Into("last", Self.last, Top.upd, TRUE)
    BY <1>28 DEF TryHandles, Running, run, hist
  <2>2. ShownInv'
    BY <1>0, <1>23, <1>24, <2>1
  <2> QED
    BY <1>0, <2>1, <2>2
<1>29. CASE AttemptFails
  <2>1. Top.is = "step" /\ UNCHANGED <<plan, phase, broke>>
    BY <1>29 DEF AttemptFails, Running, run, hist
  <2>2. CASE /\ Show(Top.step, "retrying") /\ UNCHANGED <<flag, fate>>
             /\ Replace([Call(Top.step, Top.drv) EXCEPT !.at = Top.at + 1])
    <3>1. PICK f : f = [Call(Top.step, Top.drv) EXCEPT !.at = Top.at + 1]
      OBVIOUS
    <3>2. Top.at + 1 \in Nat
      BY <1>17, <2>1 DEF Frame
    <3>3. f \in Frame /\ Alike(Top, f) /\ Replace(f)
      BY <1>0, <1>2, <1>17, <2>1, <2>2, <3>1, <3>2, CallFields, AtFields DEF Alike
    <3>4. PICK t \in Steps : t = Top.step
      BY <1>2, <2>1
    <3>5. shown'[t] = "retrying" /\ \A s \in Steps \ {t} : shown'[s] = shown[s]
      BY <1>0, <2>2, <3>4, ShowTyped
    <3>6. shown'[t] \in Busy /\ Moved(t, {})
      BY <1>2, <2>1, <2>2, <3>4, <3>5 DEF Moved, Busy
    <3>7. ShownInv'
      BY <1>18, <2>1, <2>2, <3>3, <3>4, <3>6
    <3> QED
      BY <1>0, <2>1, <3>7
  <2>3. CASE /\ Self.tolerant /\ Show(Top.step, "failed") /\ Fate(Top.step, "swallowed")
             /\ flag' = TRUE /\ Return(Top.drv)
    <3>1. ShownInv'
      BY <1>0, <1>20, <2>1, <2>3 DEF Return
    <3> QED
      BY <1>0, <2>1, <3>1
  <2>4. CASE Fate(Top.step, "error") /\ stack' = Under /\ Raise /\ UNCHANGED <<flag, shown>>
    <3>1. ShownInv'
      BY <1>0, <1>20, <2>1, <2>4 DEF Raise
    <3> QED
      BY <1>0, <2>1, <3>1
  <2> QED
    BY <1>29, <2>2, <2>3, <2>4 DEF AttemptFails
<1> QED
  BY <1>6, <1>7, <1>9, <1>11, <1>12, <1>13, <1>15, <1>16, <1>21, <1>22, <1>25, <1>26, <1>27,
     <1>28, <1>29 DEF Next

-----------------------------------------------------------------------------
(* The theorems                                                            *)

LEMMA InitHolds ==
  ASSUME Init PROVE TypeOK /\ EngineInv
<1>1. /\ plan \in Plans /\ plan \in [Phases -> Seq(Steps)] /\ "before" \in Phases
      /\ None \in Driver /\ MaxBrowsers \in Nat
  BY EngineAssumption DEF Init, Phases, Driver
<1>2. plan["before"] \in Seq(Steps) /\ Len(plan["before"]) \in Nat
  BY <1>1, LenProperties
<1>3. PICK f : f = List(plan["before"], None)
  OBVIOUS
<1>4. /\ f \in Frame /\ f.is = "list" /\ f.list = plan["before"] /\ f.at = 1 /\ f.drv = None
      /\ ~f.failed
  BY <1>1, <1>2, <1>3, ListFields
<1>5. stack = <<f>> /\ phase = "before" /\ ctl = "go"
  BY <1>3 DEF Init
<1>6. stack \in Seq(Frame) /\ Depth = 1 /\ Top = f /\ stack[1] = f /\ \A i \in 1..1 : i = 1
  BY <1>4, <1>5 DEF Depth, Top
<1>7. TypeOK
  <2>1. shown \in [Steps -> ShownEvents] /\ fate \in [Steps -> FateEnds]
    BY DEF Init, ShownEvents, FateEnds
  <2>2. made \in 0..MaxBrowsers /\ open \subseteq 1..made
    BY <1>1 DEF Init
  <2>3. RestOK
    BY <1>1, <2>1, <2>2 DEF Init, RestOK
  <2> QED
    BY <1>6, <2>3, RestIs
<1>8. StackInv
  BY <1>2, <1>4, <1>5, <1>6 DEF StackInv, Placed
<1>9. BrowserInv
  BY <1>4, <1>5, <1>6 DEF Init, BrowserInv, FailedInv, RaiseInv, FirstInv, KnownInv
<1>10. ShownInv
  <2>1. \A s : ~InStack(s)
    BY <1>4, <1>6 DEF InStack
  <2>2. \A s \in Steps : shown[s] = "none"
    BY DEF Init
  <2>3. ParallelKids \subseteq Steps
    BY KidsAreSteps
  <2> QED
    BY <1>5, <2>1, <2>2, <2>3
       DEF Init, ShownInv, FlagInv, BusyInv, EndedInv, HandInv, KidsInv, GreenIsTrue, Busy
<1>11. PhaseInv
  <2>1. \A p \in Phases : Blank(p)
    BY <1>7, PhasesApart DEF Init, Blank, Touched
  <2>2. Progress
    <3> SUFFICES ASSUME NEW i \in DOMAIN plan["before"]
                 PROVE  ~(i < 1) /\ fate[plan["before"][i]] = "none"
      BY <1>4, <1>5, <1>6 DEF Progress
    <3>1. i \in Nat \ {0} /\ plan["before"][i] \in InPhase("before")
      BY <1>1, <1>7, PhasesApart DEF InPhase, In
    <3> QED
      BY <1>1, <2>1, <3>1 DEF Blank, Touched
  <2> QED
    BY <1>5, <2>1, <2>2 DEF Init, PhaseInv, Phases
<1> QED
  BY <1>5, <1>7, <1>8, <1>9, <1>10, <1>11 DEF EngineInv

LEMMA NextHolds ==
  ASSUME TypeOK, EngineInv, [Next]_vars PROVE TypeOK' /\ EngineInv'
<1>1. CASE Next
  <2>1. phase # "over"
    BY <1>1
       DEF Next, SkipTop, SkipNested, Begin, LaunchFails, ConditionRaises, StepReturns, StepRaises,
           ListEnds, PhaseEnds, Operate, OperateWithout, BlockBegins, Parallel, BlockGoesOn,
           TryHandles, AttemptFails, Running
  <2>2. phase \in Phases /\ StackInv /\ BrowserInv /\ ShownInv /\ PhaseInv
    BY <2>1 DEF EngineInv, TypeOK
  <2>3. Sound
    BY <1>1, <2>2, NextStack
  <2>4. TypeOK' /\ (phase' # "over" => StackInv')
    BY <2>3 DEF Sound, TypeOK, RestOK, ShownEvents, FateEnds
  <2>5. (phase' # "over" => BrowserInv') /\ (phase' = "over" => BrowsersQuit')
    BY <1>1, <2>2, NextBrowsers
  <2>6. (phase' # "over" => ShownInv') /\ (phase' = "over" => ShownOver')
    BY <1>1, <2>2, <2>3, NextShown
  <2>7. PhaseInv'
    BY <1>1, <2>2, NextPhase
  <2> QED
    BY <2>4, <2>5, <2>6, <2>7 DEF EngineInv
<1>2. CASE UNCHANGED vars
  <2>1. TypeOK'
    BY <1>2 DEF vars, TypeOK
  <2>2. Depth' = Depth /\ Top' = Top /\ Child' = Child /\ Self' = Self
        /\ (\A p : InPhase(p)' = InPhase(p)) /\ \A s : InStack(s)' <=> InStack(s)
    BY <1>2 DEF vars, Depth, Top, Child, Self, InPhase, InStack
  <2>3. (phase # "over" => StackInv') /\ (phase # "over" => BrowserInv')
    BY <1>2, <2>2 DEF vars, EngineInv, StackInv, BrowserInv, FailedInv, RaiseInv, FirstInv,
       KnownInv,
                      Launches
  <2>4. \A s : (Stuck(s)' <=> Stuck(s)) /\ (InHand(s)' <=> InHand(s)) /\ (Fine(s)' <=> Fine(s))
    BY <1>2, <2>2 DEF vars, Stuck, InHand, Fine
  <2>5. phase # "over" => ShownInv'
    BY <1>2, <2>2, <2>4 DEF vars, EngineInv, ShownInv, FlagInv, BusyInv, EndedInv, HandInv, KidsInv,
                            GreenIsTrue
  <2>6. phase = "over" => BrowsersQuit' /\ ShownOver'
    BY <1>2, <2>4 DEF vars, EngineInv, BrowsersQuit, ShownOver, GreenIsTrue
  <2>7. \A p : /\ Done(p)' <=> Done(p)
               /\ Raised(p)' <=> Raised(p)
               /\ Blank(p)' <=> Blank(p)
    BY <1>2, SameIs DEF vars, run, Same
  <2>8. Progress' <=> Progress
    BY <1>2, <2>2, <2>4 DEF vars, Progress
  <2>9. PhaseInv'
    BY <1>2, <2>7, <2>8 DEF vars, EngineInv, PhaseInv, Won, Lost
  <2> QED
    BY <1>2, <2>1, <2>3, <2>5, <2>6, <2>9 DEF vars, EngineInv
<1> QED
  BY <1>1, <1>2

\* The invariant of the engine, for every scenario.
LEMMA Engine == Spec => [](TypeOK /\ EngineInv)
<1>1. Init => TypeOK /\ EngineInv
  BY InitHolds
<1>2. (TypeOK /\ EngineInv) /\ [Next]_vars => (TypeOK /\ EngineInv)'
  BY NextHolds
<1> QED
  BY <1>1, <1>2, PTL DEF Spec

\* The variables of a run have their types: the frames of the stack are
\* frames, and the browsers are the ones that were created.
THEOREM TypeCorrect == Spec => []TypeOK
BY Engine, PTL

\* No browser is left open by a run, whatever its scenario nests, retries,
\* closes and hands over.
THEOREM BrowsersQuitHolds == Spec => []BrowsersQuit
<1>1. TypeOK /\ EngineInv => BrowsersQuit
  BY DEF EngineInv, BrowsersQuit
<1> QED
  BY <1>1, Engine, PTL

\* The hooks run in their places, whichever step raises.
THEOREM HooksInPlaceHolds == Spec => []HooksInPlace
<1>1. TypeOK /\ EngineInv => HooksInPlace
  <2> SUFFICES ASSUME TypeOK, PhaseInv PROVE HooksInPlace
    BY DEF EngineInv
  <2>1. \A p : Done(p) => ~Raised(p) /\ \A s \in InPhase(p) : fate[s] # "none"
    BY DEF Done, Raised, Fine
  <2>2. \A p : Blank(p) <=> ~Touched(p)
    BY DEF Blank
  <2>3. phase \in Phases \cup {"over"}
    BY DEF TypeOK
  <2>4. Touched("steps") => ~Raised("before")
    BY <2>1, <2>2, <2>3 DEF PhaseInv, Won, Lost, Phases
  <2>5. Touched("success") => ~Raised("before") /\ ~Raised("steps")
    BY <2>1, <2>2, <2>3 DEF PhaseInv, Won, Lost, Phases
  <2>6. Touched("failure") => Raised("before") \/ Raised("steps") \/ Raised("success")
    BY <2>1, <2>2, <2>3 DEF PhaseInv, Won, Lost, Phases
  <2>7. phase = "over" => Raised("finally") \/ \A s \in InPhase("finally") : fate[s] # "none"
    BY <2>1 DEF PhaseInv
  <2> QED
    BY <2>4, <2>5, <2>6, <2>7 DEF HooksInPlace
<1> QED
  BY <1>1, Engine, PTL

\* What is in progress is what the stack holds.
LEMMA InProgressIs ==
  ASSUME TypeOK, StackInv, phase \in Phases, NEW s
  PROVE  s \in InProgress <=> InHand(s)
<1>1. /\ Depth \in Nat /\ Depth >= 1 /\ Depth \in 1..Depth /\ Top = stack[Depth]
      /\ phase # "over"
  BY Here DEF Phases
<1>2. ASSUME s \in InProgress PROVE InHand(s)
  <2>1. PICK i \in 1..Depth : /\ stack[i].is = "list" /\ (i < Depth \/ ctl # "go")
                              /\ s = stack[i].list[stack[i].at]
    BY <1>1, <1>2 DEF InProgress
  <2>2. CASE i = Depth
    BY <1>1, <2>1, <2>2 DEF InHand, Child
  <2>3. CASE i # Depth
    <3>1. i \in 1..(Depth - 1) /\ i + 1 \in 1..Depth
      BY <1>1, <2>3
    <3>2. Calls(stack[i], stack[i + 1])
      BY <3>1 DEF StackInv
    <3> QED
      BY <2>1, <3>1, <3>2 DEF Calls, InHand, InStack
  <2> QED
    BY <2>2, <2>3
<1>3. ASSUME InHand(s) PROVE s \in InProgress
  <2>1. CASE InStack(s)
    <3>1. PICK i \in 1..Depth : stack[i].is = "step" /\ stack[i].step = s
      BY <2>1 DEF InStack
    <3>2. /\ i - 1 \in 1..Depth /\ i - 1 \in 1..(Depth - 1) /\ stack[i - 1].is = "list"
          /\ s = stack[i - 1].list[stack[i - 1].at]
      BY <3>1, StepIs
    <3>3. i - 1 < Depth
      BY <1>1, <3>2
    <3> QED
      BY <1>1, <3>2, <3>3 DEF InProgress
  <2>2. CASE Top.is = "list" /\ ctl # "go" /\ Child = s
    BY <1>1, <2>2 DEF InProgress, Child
  <2> QED
    BY <1>3, <2>1, <2>2 DEF InHand
<1> QED
  BY <1>2, <1>3

\* What is reported of a run is true: the live view, the colours, the verdict.
THEOREM ReportsAreTrueHolds == Spec => []ReportsAreTrue
<1>1. TypeOK /\ EngineInv => ReportsAreTrue
  <2> SUFFICES ASSUME TypeOK, EngineInv PROVE ReportsAreTrue
    OBVIOUS
  <2>1. GreenIsTrue
    BY DEF EngineInv, ShownInv, ShownOver
  <2>2. VerdictIsTrue
    <3>1. Won => \A s \in InPhase("before") \cup InPhase("steps") \cup InPhase("success") : Fine(s)
      BY DEF Won, Done
    <3>2. Lost => Raised("before") \/ Raised("steps") \/ Raised("success")
      BY DEF Lost
    <3> QED
      BY <3>1, <3>2 DEF EngineInv, PhaseInv, VerdictIsTrue, Fine
  <2>3. \A s : Stuck(s) =>
          fate[s] = "error" /\ Def[s].kind \in {"browser", "close"} /\ "steps" \in broke
    BY DEF Stuck
  <2>4. CASE phase = "over"
    <3>1. ShownWhileRunning
      BY <2>3, <2>4 DEF EngineInv, ShownOver, ShownWhileRunning, InProgress, Busy
    <3> QED
      BY <2>1, <2>2, <3>1 DEF ReportsAreTrue
  <2>5. CASE phase # "over"
    <3>1. phase \in Phases /\ StackInv /\ ShownInv
      BY <2>5 DEF EngineInv, TypeOK
    <3>2. \A s \in Steps \ ParallelKids : InHand(s) => shown[s] \in Busy \/ flag
      <4> SUFFICES ASSUME NEW s \in Steps \ ParallelKids, InHand(s) PROVE shown[s] \in Busy \/ flag
        OBVIOUS
      <4>1. CASE InStack(s)
        BY <3>1, <4>1 DEF ShownInv, BusyInv
      <4>2. CASE Top.is = "list" /\ ctl # "go" /\ Child = s
        BY <3>1, <4>2 DEF ShownInv, EndedInv
      <4> QED
        BY <4>1, <4>2 DEF InHand
    <3>3. \A s \in Steps \ ParallelKids : shown[s] \in Busy => InHand(s) \/ Stuck(s)
      BY <3>1 DEF ShownInv, HandInv
    <3>4. ShownWhileRunning
      BY <2>3, <3>1, <3>2, <3>3, InProgressIs DEF ShownWhileRunning, Busy
    <3> QED
      BY <2>1, <2>2, <3>4 DEF ReportsAreTrue
  <2> QED
    BY <2>4, <2>5
<1> QED
  BY <1>1, Engine, PTL

=============================================================================
