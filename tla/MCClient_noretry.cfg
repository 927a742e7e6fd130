CONSTANTS
  Users = {u1, u2}
  Retries <- MCNone
  QueueCap <- MCQueueCap
  MaxSessions <- MCMaxSessions
  MaxCalls <- MCMaxCalls
  MaxLines <- MCMaxLines
  MaxFaults <- MCMaxFaults
SPECIFICATION Spec
INVARIANT ReconnectFlagSound
SYMMETRY MCUserSymmetry
