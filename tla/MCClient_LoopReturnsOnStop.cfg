CONSTANTS
  Users = {u1, u2}
  Retries <- MCRetries
  QueueCap <- MCQueueCap
  MaxSessions <- MCMaxSessions
  MaxCalls <- MCMaxCalls
  MaxLines <- MCNone
  MaxFaults <- MCNone
SPECIFICATION LiveSpec
PROPERTY LoopReturnsOnStop
