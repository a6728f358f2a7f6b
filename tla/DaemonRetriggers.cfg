CONSTANTS
  a = a
  b = b
  c = c
  Dag = {a, b}
  NoDag = NoDag
  Upstreams <- MCUpstreams
  Rank <- MCRank
  NamePos <- MCNamePos
  Scheduled = {a}
  Manual = {}
  Daemon = daemon
  Unverifiable = {}
  Editable <- Unedited
  ByHand = {a, b}
  Known = {}
  MaxRuns = 3
SPECIFICATION UndisturbedSpec
PROPERTIES
  NeverRetriggers
CHECK_DEADLOCK FALSE
