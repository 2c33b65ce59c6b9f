SPECIFICATION HoldsFairSpec
CONSTANTS
  p1 = p1
  p2 = p2
  c1 = c1
  NoProc = NoProc
  Procs = {p1}
  ComposeProcs = {p1}
  StopProcs = {p1}
  WaitProcs = {}
  FreeProcs = {}
  WaitsOn <- Alone
  CoStart <- NoFriends
  Callers = {c1}
  Outcomes = {"ok", "nopid", "throw"}
  KillMayFail = FALSE
  MaxCalls = 3
CHECK_DEADLOCK FALSE
INVARIANTS HoldsCoherent
PROPERTIES KeepsHold UnusedGoesDown
