SPECIFICATION FairSpec
CONSTANTS
  p1 = p1
  p2 = p2
  c1 = c1
  c2 = c2
  NoProc = NoProc
  Procs = {p1}
  ComposeProcs = {}
  WaitProcs = {p1}
  FreeProcs = {p1}
  WaitsOn <- Alone
  CoStart <- NoFriends
  Callers = {c1}
  Outcomes = {"ok", "nopid", "throw"}
  KillMayFail = FALSE
  MaxCalls = 3
CHECK_DEADLOCK FALSE
PROPERTIES WaitingResolves
