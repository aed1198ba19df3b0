\* Two days, a loop that may be restarted and a run-next, east of UTC.
SPECIFICATION Spec
CONSTANTS
  Slots <- MCSlots
  DayLength = 7
  Lookahead = 2
  Loops = {l1}
  Manuals = {m1}
  Directs = {d1}
  UtcOffset <- MCEast
  Pause = 1
  None = None
  MaxClock = 10
  MaxStarts = 2
INVARIANTS TypeOK MarksStay NoWindowSleptThrough RunningIsTrue
PROPERTIES NoSecondRun 
CHECK_DEADLOCK FALSE
