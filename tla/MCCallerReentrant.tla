-------------------------- MODULE MCCallerReentrant --------------------------
(* Model-checking instance of CallerReentrant: the execLoop and one      *)
(* nested RunHandlers call, one command, two handler uids.               *)
EXTENDS CallerReentrant

MCReMaxRuns == 1
MCReMaxOps == 1
=============================================================================
