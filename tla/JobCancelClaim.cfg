\* The code against its own words: CancelOnlyActive.
SPECIFICATION Spec
CONSTANTS
  Jobs = {j1}
  Requests = {r1, r2}
  Workers = {w1}
  Transports = {"celery"}
  NoJob = NoJob
  NoTask = NoTask
  MaxSteps = 0
  MaxFaults = 0
  MaxRedeliveries = 0
PROPERTY CancelOnlyActive
CHECK_DEADLOCK FALSE
