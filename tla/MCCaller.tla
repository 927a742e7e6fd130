------------------------------ MODULE MCCaller ------------------------------
(* Model-checking instance of Caller: two dispatchers (the client's       *)
(* execLoop and a user goroutine calling RunHandlers), one command plus   *)
(* the wildcard, three handler uids.                                       *)
EXTENDS Caller

MCMaxRuns == 2
MCMaxOps == 3
=============================================================================
