\* Two requests of one process or of two, one of which may fail.
SPECIFICATION FairSpec
CONSTANTS
  s = s
  t = t
  p1 = p1
  p2 = p2
  x = x
  u = u
  Names = {s, t}
  Seeds = {p1, p2}
  Slots = {x}
  Shares <- MCShares
  Config = Config
  Requests = {r1, r2}
  Processes = {w1, w2}
  Catalogs <- MCCatalogs
  SlotsLock = SlotsLock
  None = None
  MaxFaults = 1
INVARIANTS TypeOK FilesMirrorTables EditsSurvive 
PROPERTIES SlotsStay RequestsEnd
CHECK_DEADLOCK FALSE
