CONSTANTS
  t1 = t1
  t2 = t2
  t3 = t3
  t4 = t4
  Task = {t1, t2, t3, t4}
  Position <- MCPosition
SPECIFICATION FairSpec
INVARIANTS
  AcceptedIsAcyclic
  ReportedIsACycle
  OrderSound
  SearchExact
PROPERTIES
  Terminates
CHECK_DEADLOCK FALSE
