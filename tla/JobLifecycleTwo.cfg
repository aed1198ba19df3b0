\* Two jobs, two requests: a retry reads one job and creates another.
SPECIFICATION Spec
CONSTANTS
  Jobs = {j1, j2}
  Requests = {r1, r2}
  Workers = {w1}
  Transports = {"celery"}
  NoJob = NoJob
  NoTask = NoTask
  MaxSteps = 0
  MaxFaults = 0
  MaxRedeliveries = 0
SYMMETRY Symmetry
PROPERTY SettledStays
CHECK_DEADLOCK FALSE
