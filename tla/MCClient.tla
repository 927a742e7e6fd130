------------------------------ MODULE MCClient ------------------------------
(* Model-checking instance of Client: two user goroutines, one retry, and *)
(* budgets that let two user calls, one network fault and one server line *)
(* happen, so that a Connect races a Reconnect, a Quit or a read error.    *)
EXTENDS Client, TLC

MCRetries == 1
MCMaxCalls == 2
MCMaxLines == 1
MCMaxFaults == 1
\* Three sessions: a Connect, the reconnect its read error triggers, and
\* one more; an actor that would create a fourth stops (OutOfSessions).
MCMaxSessions == 3
\* Room for every event the budgets allow: the pass run does not block on
\* a full channel (MCClient_hang shows what happens when it does).
MCQueueCap == MCMaxSessions + 2 * MCMaxCalls + MCMaxLines
\* A channel that fills: two events.
MCSmallQueueCap == 2
\* No network faults and no server lines.
MCNone == 0
\* The user goroutines are interchangeable (safety-only runs).
MCUserSymmetry == Permutations(Users)
=============================================================================
