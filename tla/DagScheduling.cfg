CONSTANTS
  a = a
  b = b
  c = c
  Dag = {a, b}
  NoDag = NoDag
  Upstreams <- MCUpstreams
  Rank <- MCRank
  NamePos <- MCNamePos
  Scheduled = {a}
  Manual = {m}
  Daemon = daemon
  Unverifiable = {}
  Editable <- Unedited
  ByHand = {a, b}
  Known = {}
  MaxRuns = 3
SPECIFICATION Spec
INVARIANTS
  ReactionNamesASuccess
  ExecutingRunIsOpen
PROPERTIES
  RowsKeepPromise
  MarkedWasSeen
CHECK_DEADLOCK FALSE
