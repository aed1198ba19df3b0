\* Both platforms; any process may die anywhere, or be the one that is left.
SPECIFICATION FairSpec
CONSTANTS
  Procs = {p1, p2, p3}
  Platforms = {"posix", "windows"}
  MaxAttempts = 3
INVARIANTS WindowsExclusion
PROPERTY SurvivorGetsIn
CHECK_DEADLOCK FALSE
