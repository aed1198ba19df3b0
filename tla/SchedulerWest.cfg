\* West of UTC.
SPECIFICATION Spec
CONSTANTS
  Slots <- MCLateSlots
  DayLength = 9
  Lookahead = 2
  Loops = {l1}
  Manuals = {}
  Directs = {}
  UtcOffset <- MCWest
  Pause = 1
  None = None
  MaxClock = 8
  MaxStarts = 1
PROPERTY NoSecondRun
CHECK_DEADLOCK FALSE
