CONSTANTS
  Commands = {c1}
  ALLEVENTS = ALLEVENTS
  NoUid = NoUid
  Uids = {u1, u2}
  Dispatchers = {d1, d2}
  MaxRuns <- MCReMaxRuns
  MaxOps <- MCReMaxOps
SPECIFICATION RSpec
PROPERTY ExecReturns
CHECK_DEADLOCK FALSE
