------------------------------ MODULE SlotPlan ------------------------------
(***************************************************************************)
(* The slot model (scheduler/model.py): which executions the scheduler may *)
(* plan at a given time. The instant inside a window is drawn at random,   *)
(* so an operator returns the set of what the code may return.             *)
(*                                                                         *)
(* A time is a natural number of seconds; day d is made of the DayLength   *)
(* seconds from d * DayLength on, all in the one zone of the scheduler.    *)
(***************************************************************************)
EXTENDS Integers

CONSTANTS
  Slots,      \* TimeSlot records: id, days, start, end, network
  DayLength,  \* bound: seconds in a day
  Lookahead   \* lookahead_days

\* network: the scenario of the slot has requires_enterprise_network. The
\* window of a slot is inside one day: its end is at most 23:59:00, and a day
\* goes on after that.
ASSUME PlanAssumption ==
  /\ DayLength \in Nat \ {0}
  /\ Lookahead \in Nat \ {0}
  /\ Slots \subseteq [id : STRING, days : SUBSET (0..6), start : 0..(DayLength - 1),
                      end : 0..(DayLength - 2), network : BOOLEAN]

Day(time)      == time \div DayLength
MakeDt(d, sec) == d * DayLength + sec
SlotsOn(d)     == {s \in Slots : d % 7 \in s.days}

\* to_key: a slot runs once a day.
ToKey(s, d) == [day |-> d, slot |-> s]
Opens(key)  == MakeDt(key.day, key.slot.start)
Closes(key) == MakeDt(key.day, key.slot.end)

BadDraws(s, d, now) ==  \* the end of the window included
  LET first == IF d = Day(now) /\ now > MakeDt(d, s.start) THEN now ELSE MakeDt(d, s.start)
  IN  first .. MakeDt(d, s.end)

\* random_datetime_in_slot: from the start of the window, or from now when it
\* is open; the end is excluded.
Draws(s, d, now) ==
  LET first == IF d = Day(now) /\ now > MakeDt(d, s.start) THEN now ELSE MakeDt(d, s.start)
  IN  first .. (MakeDt(d, s.end) - 1)

\* pick_next_execution keeps a draw that is later than now. So the window has
\* no candidate when it is over, and also when the draw was now itself.
Candidates(s, d, now) == {t \in Draws(s, d, now) : t > now}
MayMiss(s, d, now)    == now \in Draws(s, d, now) \/ Candidates(s, d, now) = {}

\* pick_next_execution: on the first day with a candidate, the earliest.
PickNext(now) ==
  LET firsts == {d \in Day(now) .. (Day(now) + Lookahead - 1) :
                   \A e \in Day(now) .. (d - 1) : \A s \in SlotsOn(e) : MayMiss(s, e, now)}
      Earliest(s, d) ==
        {t \in Candidates(s, d, now) :
           \A x \in SlotsOn(d) \ {s} :
             MayMiss(x, d, now) \/ \E u \in Candidates(x, d, now) : u >= t}
      PicksOn(d) ==
        UNION {{[at |-> t, key |-> ToKey(s, d)] : t \in Earliest(s, d)} : s \in SlotsOn(d)}
  IN  UNION {PicksOn(d) : d \in firsts}

\* It raises RuntimeError when no day of the lookahead has a candidate.
MayFail(now) ==
  \A d \in Day(now) .. (Day(now) + Lookahead - 1) : \A s \in SlotsOn(d) : MayMiss(s, d, now)

\* find_next_pending_execution: where the search goes on after an execution
\* that is done already.
NextProbe(key) == Closes(key) + 1

=============================================================================
