SPECIFICATION Spec
CONSTANTS
  f1 = f1
  f2 = f2
  a1 = a1
  a2 = a2
  Files = {f1, f2}
  Programs = {f1}
  MaxTip = 2
  Touches <- TwoCommits
  Removes <- OneRemoved
  Steps = 2
  Faults = {"check", "advance", "aside", "unstage", "steps", "restore", "rbStatus", "rbStash", "rbReset"}
  MaxPasses = 2
  Appliers = {a1, a2}
  MaxRelease = 2
CHECK_DEADLOCK FALSE
INVARIANTS UpdateTypeOK NothingIsLost HalfUpdatedIsReported OneLoop
PROPERTIES LandedEditsComeBack ApplyEnds HeldBackIsNotAdopted
