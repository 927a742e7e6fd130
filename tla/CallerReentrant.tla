--------------------------- MODULE CallerReentrant ---------------------------
(***************************************************************************)
(* The dispatch engine with handler bodies that call back into it.  A      *)
(* handler gets the *Client, and Client.RunHandlers is exported            *)
(* (handler.go:16-17): a handler may run the handlers of another event on *)
(* its own goroutine.  That nested RunHandlers is one more dispatcher of   *)
(* Caller; the handler that hosts it returns, and calls wg.Done()          *)
(* (handler.go:182-190), only after the nested call has returned.         *)
(***************************************************************************)
EXTENDS Caller

\* No handler hosts the call: RunHandlers runs on a goroutine of its own.
NoHost == <<>>

VARIABLE
  host  \* host[d]: the handler <<d0, u>> whose body makes d's RunHandlers call

rvars == <<vars, host>>

RInit == Init /\ host = [d \in Dispatchers |-> NoHost]

\* The handler r is still inside a RunHandlers call its body made.
Hosting(r) == \E x \in Dispatchers : host[x] = r /\ pc[x] # "idle"

\* RunHandlers called by the execLoop or by user code outside a handler.
TopRunHandlers(d, c) ==
  /\ RunHandlers(d, c)
  /\ host' = [host EXCEPT ![d] = NoHost]

\* RunHandlers called from the body of the running handler r.
NestedRunHandlers(d, c, r) ==
  /\ r \in running
  /\ ~Hosting(r)
  /\ RunHandlers(d, c)
  /\ host' = [host EXCEPT ![d] = r]

\* The handler goroutine of exec: the body returns, after the RunHandlers
\* call it made, and wg.Done() runs.
RHandlerDone(d, u) ==
  /\ ~Hosting(<<d, u>>)
  /\ HandlerDone(d, u)
  /\ UNCHANGED host

RNext ==
  \/ /\ ~crashed
     /\ \/ /\ \/ \E b \in BOOLEAN, k \in Keys, u \in Uids : register(b, k, u)
              \/ \E k \in Keys : Clear(k)
              \/ \E d \in Dispatchers : exec(d) \/ Wait(d) \/ Woken(d)
           /\ UNCHANGED host
        \/ \E d \in Dispatchers, c \in Commands : TopRunHandlers(d, c)
        \/ \E d \in Dispatchers, c \in Commands, r \in running :
             NestedRunHandlers(d, c, r)
        \/ \E d \in Dispatchers, u \in Uids : RHandlerDone(d, u)
  \/ (Terminated \/ Halted) /\ UNCHANGED host

\* The scheduling of Caller: goroutines run, handler bodies return once
\* their own calls have.
RFairness ==
  \A d \in Dispatchers :
    /\ WF_rvars(exec(d) /\ UNCHANGED host)
    /\ WF_rvars(Wait(d) /\ UNCHANGED host)
    /\ WF_rvars(Woken(d) /\ UNCHANGED host)
    /\ \A u \in Uids : WF_rvars(RHandlerDone(d, u))

RSpec == RInit /\ [][RNext]_rvars /\ RFairness

=============================================================================
