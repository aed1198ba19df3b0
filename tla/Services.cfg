\* Ten modules in one run, a behaviour being one of one of them. Hours, ticks
\* and intervals are the bounds of their modules; b and a are bodies of jobs,
\* s of a scenario.
SPECIFICATION ServicesSpec
CONSTANTS
  Calls = {c1, c2, c3}
  Keys = {k1, k2}
  NoKey = NoKey
  Payloads = {a, b, s}
  Named = {s}
  None = None
  MaxDeaths = 1
  Subs = {sub1, sub2}
  Admins = {adm}
  Before = 3
  Extension = 3
  MinAsk = 4
  MaxAsk = 4
  MaxMisses = 1
  MaxHour = 5
  n1 = n1
  n2 = n2
  n3 = n3
  hook1 = hook1
  hook2 = hook2
  Hooks = {hook1, hook2}
  Notices = {n1, n2, n3}
  HookOf <- MCHookOf
  Lifecycle = {n2}
  Batches <- MCBatches
  Handlers = {h1, h2}
  MaxPosts = 3
  Writers = {w1, w2, w3}
  MaxCuts = 1
  Requests = {r1, r2, r3}
  Earlier = r0
  Targets = {t1, t2}
  Savers = {v1, v2, v3}
  Workers = {g1, g2}
  Window = 2
  MaxRequests = 1
  Recovery = 1
  MaxTick = 4
  SchedulerStale = 2
  BeatStale = 2
  BeatEvery = 1
  MaxLost = 1
  Users = {alice, bob, root}
  Superusers = {root}
  Scenarios = {x1, x2}
  SlotIds = {slot1}
  Nobody = Nobody
  Steps <- MCSteps
  Collections = {"steps", "on_failure"}
  Clocks = {8, 9, 25}
  NoRow = NoRow
VIEW ServicesView
INVARIANTS ServicesTypeOK AnswersAreReal OneResourcePerKey   HistoryKept
INVARIANTS ColumnsKept OneDefault WindowBound StatusIsTrue StoredIsRunnable
PROPERTIES  ShownIsAllowed
CHECK_DEADLOCK FALSE
