CONSTANTS
  t1 = t1
  t2 = t2
  t3 = t3
  t4 = t4
  Task = {t1, t2, t3, t4}
  Position <- MCPosition
  Retries <- MCRetries
  Watched <- MCWatched
  Unread = Unread
SPECIFICATION MonitorFairSpec
INVARIANTS
  DependenciesSucceeded
  AttemptsExplain
  ResultTruthful
  WithheldExplained
  AnswersCohere
PROPERTIES
  KeepsPromise
  Terminates
  ShownNeverRegresses
  EndReachesPage
CHECK_DEADLOCK FALSE
