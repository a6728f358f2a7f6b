CONSTANTS
  w1 = w1
  w2 = w2
  k1 = k1
  k2 = k2
  bad = bad
  Writer = {w1, w2}
  Retries <- MCRetries
  Mode = {"append", "replace", "fail", "truncate", "upsert"}
  Key = {k1, k2, bad}
  Malformed = {bad}
  ActionCount = 2
  Condition <- MCCondition
  MatchAll = {2}
SPECIFICATION FairSpec
INVARIANTS
  SuccessDelivered
PROPERTIES
  OnlyResetsRemove
  NothingBeforePreparation
  ResetSeesOnlyConcurrent
  TaskEnds
CHECK_DEADLOCK FALSE
