SPECIFICATION LiveSpec
CONSTANTS
  p1 = p1
  p2 = p2
  c1 = c1
  c2 = c2
  NoProc = NoProc
  Procs = {p1, p2}
  ComposeProcs = {p1, p2}
  WaitProcs = {p1, p2}
  FreeProcs = {}
  WaitsOn <- P2WaitsOnP1
  CoStart <- Linked
  Callers = {c1}
  Outcomes = {"ok", "nopid", "throw"}
  KillMayFail = TRUE
  MaxCalls = 3
CHECK_DEADLOCK FALSE
PROPERTIES StopTerminates StartResolves RestartReturns
