SPECIFICATION Spec
CONSTANTS
  t1 = t1
  t2 = t2
  t3 = t3
  q1 = q1
  Tabs = {t1, t2, t3}
  Reqs = {q1}
  MaxTabs = 2
  p1 = p1
  asA = asA
  asB = asB
  without = without
  broken = broken
  A = A
  B = B
  NoDef = NoDef
  NoText = NoText
  Texts = {asA, asB, without, broken}
  Valid = {asA, asB, without}
  Procs = {p1}
  DefOf <- Definitions
  MaxWrites = 2
  a1 = a1
  u1 = u1
  Sampled = {a1}
  RuleIds = {u1}
  Windows = {1}
  MaxAlerts = 2
  MaxTicks = 4
  MaxRules = 1
  Logged = {a1}
  MaxLogs = 3
  MaxPending = 3
  MaxQueued = 3
  MaxFile = 1
  MaxLines = 5
  e1 = e1
  Records = {e1}
  MaxChanges = 2
  MaxDrops = 1
  c1 = c1
  c2 = c2
  Callers = {c1, c2}
  Dirs <- Folder
  Roots = {"r", "b"}
  Children <- Below
  FilesIn <- DevwebuiFiles
  Packages = {"r"}
  MaxDepth = 1
  Limits = {2, 5}
  Concurrency = 2
  MaxWalks = 2
CHECK_DEADLOCK FALSE
INVARIANTS ServicesTypeOK DriftIsFlagged ReportsAreTrue
PROPERTIES SettlesOnce EveryAskEnds LooksAtLast OneEventPerBreach
