SPECIFICATION HoldsSpec
CONSTANTS
  p1 = p1
  p2 = p2
  c1 = c1
  NoProc = NoProc
  Procs = {p1, p2}
  ComposeProcs = {p1, p2}
  StopProcs = {p1}
  WaitProcs = {}
  FreeProcs = {}
  WaitsOn <- P2WaitsOnP1
  CoStart <- Linked
  Callers = {}
  Outcomes = {"ok"}
  KillMayFail = FALSE
  MaxCalls = 3
CHECK_DEADLOCK FALSE
CONSTRAINT OneExitCode
INVARIANTS IInv
PROPERTIES StopsOnlyOurs
