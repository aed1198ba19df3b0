-------------------------- MODULE MCScenarioEngine --------------------------
(* Instances of ScenarioEngine for TLC: a small library of steps, and all  *)
(* the scenarios made of them within the given shapes.                     *)
EXTENDS ScenarioEngine, TLC

Plain == [kind |-> "plain", cond |-> FALSE, retry |-> 0, timed |-> FALSE, tolerant |-> FALSE,
          times |-> 0, body |-> <<>>, catch |-> <<>>, last |-> <<>>]

\* open: a browser that may be retried; quit: close_browser with a timeout;
\* try: catch and finally around a browser; twice: a repeated block with an
\* optional step; both: two threads; soft: a group that may fail.
MCDef ==
  [open  |-> [Plain EXCEPT !.kind = "browser", !.retry = 1],
   quit  |-> [Plain EXCEPT !.kind = "close", !.timed = TRUE, !.tolerant = TRUE],
   maybe |-> [Plain EXCEPT !.cond = TRUE],
   try   |-> [Plain EXCEPT !.kind = "try", !.body = <<"t1">>, !.catch = <<"t2">>, !.last = <<"t3">>],
   t1    |-> [Plain EXCEPT !.kind = "browser", !.timed = TRUE],
   t2    |-> Plain,
   t3    |-> [Plain EXCEPT !.kind = "close"],
   twice |-> [Plain EXCEPT !.kind = "repeat", !.times = 2, !.body = <<"w1", "w2">>],
   w1    |-> [Plain EXCEPT !.kind = "browser"],
   w2    |-> [Plain EXCEPT !.cond = TRUE, !.tolerant = TRUE],
   soft  |-> [Plain EXCEPT !.kind = "group", !.retry = 1, !.tolerant = TRUE, !.body = <<"both">>],
   both  |-> [Plain EXCEPT !.kind = "parallel", !.body = <<"p1", "p2">>],
   p1    |-> [Plain EXCEPT !.retry = 1],
   p2    |-> [Plain EXCEPT !.cond = TRUE, !.tolerant = TRUE],
   hb    |-> [Plain EXCEPT !.kind = "browser"],
   hs    |-> [Plain EXCEPT !.kind = "close"],
   hf    |-> [Plain EXCEPT !.kind = "browser", !.cond = TRUE],
   hl    |-> Plain]

MCSteps == DOMAIN MCDef

Main == {"open", "quit", "maybe", "try", "twice", "soft"}

MCPlans ==
  {[before |-> b, steps |-> m, success |-> s, failure |-> f, finally |-> <<"hl">>] :
     b \in {<<>>, <<"hb">>}, s \in {<<>>, <<"hs">>}, f \in {<<"hf">>},
     m \in {<<x, y>> : x, y \in Main} \ {<<x, x>> : x \in Main}}

=============================================================================
