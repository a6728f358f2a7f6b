CONSTANTS
  a = a
  b = b
  c = c
  Dag = {a, b, c}
  NoDag = NoDag
  Upstreams <- MCUpstreams
  Rank <- MCRank
  NamePos <- MCNamePos
  Scheduled = {c}
  Manual = {m}
  Daemon = daemon
  Unverifiable = {}
  Editable <- BrokenB
  ByHand = {a}
  Known = {b, c}
  MaxRuns = 3
SPECIFICATION FairSpec
PROPERTIES
  AbandonedIsInterrupted
  TriggerServed
CHECK_DEADLOCK FALSE
