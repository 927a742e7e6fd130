CONSTANTS
  Users = {u1, u2}
  Retries <- MCRetries
  QueueCap <- MCSmallQueueCap
  MaxSessions <- MCMaxSessions
  MaxCalls <- MCMaxCalls
  MaxLines <- MCNone
  MaxFaults <- MCNone
SPECIFICATION LiveSpec
PROPERTY CallsReturn
CHECK_DEADLOCK FALSE
