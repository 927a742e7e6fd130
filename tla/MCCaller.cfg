CONSTANTS
  Commands = {c1}
  ALLEVENTS = ALLEVENTS
  NoUid = NoUid
  Uids = {u1, u2, u3}
  Dispatchers = {d1, d2}
  MaxRuns <- MCMaxRuns
  MaxOps <- MCMaxOps
SPECIFICATION Spec
INVARIANT TypeOK
INVARIANT ExecBarrier
PROPERTY ExecReturns
