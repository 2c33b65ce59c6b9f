SPECIFICATION Spec
CONSTANTS
  p1 = p1
  p2 = p2
  c1 = c1
  c2 = c2
  NoProc = NoProc
  Procs = {p1}
  ComposeProcs = {p1}
  WaitProcs = {p1}
  FreeProcs = {p1}
  WaitsOn <- Alone
  CoStart <- NoFriends
  Callers = {c1, c2}
  Outcomes = {"ok", "nopid", "throw"}
  KillMayFail = FALSE
  MaxCalls = 4
INVARIANTS TypeOK StatusCoherent NoOrphan
PROPERTIES StopWins KeepsPromise
CHECK_DEADLOCK FALSE
