\* One job, two requests over Celery, one fault.
SPECIFICATION FairSpec
CONSTANTS
  Jobs = {j1}
  Requests = {r1, r2}
  Workers = {w1}
  Transports = {"celery"}
  NoJob = NoJob
  NoTask = NoTask
  MaxSteps = 0
  MaxFaults = 1
  MaxRedeliveries = 0
PROPERTY EveryJobSettles
CHECK_DEADLOCK FALSE
