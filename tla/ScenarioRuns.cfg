\* Every scenario of two main steps from the library, with or without hooks.
SPECIFICATION FairSpec
CONSTANTS
  Steps <- MCSteps
  Def <- MCDef
  Plans <- MCPlans
  None = None
  MaxBrowsers = 3
INVARIANTS TypeOK ReportsAreTrue HooksInPlace BrowsersQuit
PROPERTY RunEnds
CHECK_DEADLOCK FALSE
