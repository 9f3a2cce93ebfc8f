\* One axis, two callers, three calls, an exchange that fails.  The program may
\* be done, or wait for a line whose owner was cancelled: no deadlock check.
SPECIFICATION FairSpec
CONSTANTS
  Axes = {"X"}
  Callers = {c1, c2}
  Far = 1
  Ops = {"move", "correct", "short", "stop", "ask", "quit", "init"}
  Mount = mount
  None = None
  MOTOR_STOPPED_CNT = 1
  MAX_ERR_CTR = 1
  MaxCalls = 3
  MaxFaults = 1
INVARIANTS
  SidTypeOK
  StoppedMeansRest
  SyncMeetsRest
PROPERTIES
  RestIsNoticed
  CallsReturn
CHECK_DEADLOCK FALSE
