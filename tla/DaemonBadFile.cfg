CONSTANTS
  a = a
  b = b
  c = c
  Dag = {a, b}
  NoDag = NoDag
  Upstreams <- MCUpstreams
  Rank <- MCRank
  NamePos <- MCNamePos
  Scheduled = {a}
  Manual = {}
  Daemon = daemon
  Unverifiable = {}
  Editable <- EditedA
  ByHand = {a, b}
  Known = {}
  MaxRuns = 3
SPECIFICATION UndisturbedSpec
PROPERTIES
  DaemonSurvivesBadFile
CHECK_DEADLOCK FALSE
