CONSTANTS
  p1 = p1
  p2 = p2
  p3 = p3
  Proc <- MCProc
  PidOf <- MCPidOf
  Casts <- MCCasts
  Overlap = FALSE
  Nobody = Nobody
  Absent = Absent
  Corrupt = Corrupt
  Legacy = Legacy
SPECIFICATION ControlFairSpec
INVARIANTS
  AtMostOneScheduler
  MarkerNamesOwner
  AnswersNameOwner
  NotRunningWasTrue
  StopIsExact
PROPERTIES
  OnlyOwnerWithdraws
  UnverifiableKept
  StartResolves
  StopHonoured
  TimedOutChildEnds
  RequestsReturn
  NoLastingZombie
CHECK_DEADLOCK FALSE
