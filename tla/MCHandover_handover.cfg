SPECIFICATION Spec
CONSTANTS
  MaxRun = 3
  MaxFaults = 2
  MaxGen = 3
  ReviveAfterMisses = 2
  BusyPatience = 4
  ReviveGrace = 2
  CrashLoopWindow = 9
  CrashLoopMax = 2
  MaxLate = 2
CHECK_DEADLOCK FALSE
INVARIANTS HandoverTypeOK DaemonIsFound CrashIsReported BreakerTrips
PROPERTIES DaemonComesBack
