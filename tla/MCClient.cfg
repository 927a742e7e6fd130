CONSTANTS
  Users = {u1, u2}
  Retries <- MCRetries
  QueueCap <- MCQueueCap
  MaxSessions <- MCMaxSessions
  MaxCalls <- MCMaxCalls
  MaxLines <- MCMaxLines
  MaxFaults <- MCMaxFaults
SPECIFICATION Spec
INVARIANT TypeOK
INVARIANT ReconnectFlagSound
INVARIANT SetupNotTornDown
SYMMETRY MCUserSymmetry
PROPERTY ImplementsLifecycle
