\* One job, two requests, both transports, one worker, one fault.
SPECIFICATION Spec
CONSTANTS
  Jobs = {j1}
  Requests = {r1, r2}
  Workers = {w1}
  Transports = {"celery", "inline"}
  NoJob = NoJob
  NoTask = NoTask
  MaxSteps = 1
  MaxFaults = 1
  MaxRedeliveries = 0
SYMMETRY Symmetry
INVARIANTS TypeOK RowCoherent RunsOnce
PROPERTIES LogOrdered LedgerSpec
CHECK_DEADLOCK FALSE
