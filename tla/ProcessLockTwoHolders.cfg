\* The code against its own words: two holders on POSIX.
SPECIFICATION Spec
CONSTANTS
  Procs = {p1, p2}
  Platforms = {"posix"}
  MaxAttempts = 2
SYMMETRY Symmetry
INVARIANTS MutualExclusion
CHECK_DEADLOCK FALSE
