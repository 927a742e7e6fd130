CONSTANTS
  Users = {u1, u2}
  Retries <- MCRetries
  QueueCap <- MCQueueCap
  MaxSessions <- MCMaxSessions
  MaxCalls <- MCMaxCalls
  MaxLines <- MCMaxLines
  MaxFaults <- MCMaxFaults
SPECIFICATION Spec
SYMMETRY MCUserSymmetry
PROPERTY RetryCallsConnect
