------------------------------- MODULE Caller -------------------------------
(***************************************************************************)
(* The event-dispatch engine of girc: type Caller and Client.RunHandlers   *)
(* in src/handler.go.                                                      *)
(*                                                                         *)
(* Two registries, internal and external, map an upper-case command (or    *)
(* the wildcard ALLEVENTS) to the set of handler uids registered for it.   *)
(* RunHandlers(event) calls exec(ALLEVENTS) and then exec(event.Command);  *)
(* exec snapshots the handlers of its key under the read lock, calls       *)
(* wg.Add(len(stack)), starts one goroutine per handler and then blocks in *)
(* wg.Wait().  The WaitGroup wg is a field of the Caller, so every         *)
(* goroutine that calls RunHandlers (the client's execLoop, user code)     *)
(* shares it.  wg is modelled with the state Go's sync.WaitGroup keeps: a  *)
(* counter, the set of sleeping waiters, and the check a woken waiter      *)
(* makes that the group was not reused before it returned.                *)
(*                                                                         *)
(* Handler bodies are abstract: a handler is launched and later finishes   *)
(* (wg.Done()).  A handler registered with AddBg is one whose body returns *)
(* at once, so it is covered by the same two steps.                        *)
(***************************************************************************)
EXTENDS Naturals, FiniteSets

CONSTANTS
  Commands,     \* commands an incoming event may carry (model values)
  ALLEVENTS,    \* the wildcard key every event is dispatched to first
  Uids,         \* the random suffixes cuid() may produce
  NoUid,        \* the empty uid cuidToID leaves when its scan fails
  Dispatchers,  \* goroutines that call RunHandlers
  MaxRuns,      \* bound: events each dispatcher runs handlers for
  MaxOps        \* bound: registry operations performed by user code

ASSUME CallerAssumption ==
  /\ IsFiniteSet(Commands) /\ IsFiniteSet(Uids) /\ IsFiniteSet(Dispatchers)
  /\ Commands # {}
  /\ ALLEVENTS \notin Commands
  /\ NoUid \notin Uids
  /\ MaxRuns \in Nat /\ MaxOps \in Nat

\* The keys of both registries (handler.go:60-67).
Keys == Commands \cup {ALLEVENTS}

\* A cuid is the string cmd + ":" + uid (handler.go:129-137); the record
\* stands for that string.
CUIDs == [cmd : Keys, uid : Uids]

VARIABLES
  internal,   \* internal[k]: uids of built-in handlers for key k
  external,   \* external[k]: uids of user handlers for key k
  used,       \* uids handed out so far
  cuids,      \* cuids returned to user code by external registrations
  ops,        \* registry operations done (bounded by MaxOps)
  pc,         \* pc[d]: where dispatcher d is in RunHandlers
  key,        \* key[d]: the key d's current exec call dispatches
  ev,         \* ev[d]: the command of the event d is running handlers for
  runs,       \* runs[d]: events d has dispatched
  running,    \* <<d, u>>: handler u launched by d's exec has not returned
  wgCount,    \* the counter of the shared WaitGroup Caller.wg
  wgWaiters,  \* dispatchers asleep in wg.Wait()
  crashed     \* the process panicked

vars == <<internal, external, used, cuids, ops, pc, key, ev, runs,
          running, wgCount, wgWaiters, crashed>>

PCs == {"idle", "exec", "wait", "sleep", "woken"}

NoHandlers == [k \in Keys |-> {}]

Init ==
  /\ internal = NoHandlers
  /\ external = NoHandlers
  /\ used = {}
  /\ cuids = {}
  /\ ops = 0
  /\ pc = [d \in Dispatchers |-> "idle"]
  /\ key = [d \in Dispatchers |-> ALLEVENTS]
  /\ ev = [d \in Dispatchers |-> CHOOSE c \in Commands : TRUE]
  /\ runs = [d \in Dispatchers |-> 0]
  /\ running = {}
  /\ wgCount = 0
  /\ wgWaiters = {}
  /\ crashed = FALSE

-----------------------------------------------------------------------------
(* Registry operations, each atomic under the write lock Caller.mu.       *)

UserOp == ops < MaxOps /\ ops' = ops + 1

DispatchUnchanged == UNCHANGED <<pc, key, ev, runs, running, wgCount, wgWaiters>>

\* sregister/register: a fresh uid is stored under the key in the chosen
\* registry; an external registration returns its cuid to the caller
\* (AddHandler, Add and AddBg all register externally).
register(isInternal, k, u) ==
  /\ UserOp
  /\ u \notin used
  /\ used' = used \cup {u}
  /\ IF isInternal
       THEN /\ internal' = [internal EXCEPT ![k] = @ \cup {u}]
            /\ UNCHANGED <<external, cuids>>
       ELSE /\ external' = [external EXCEPT ![k] = @ \cup {u}]
            /\ cuids' = cuids \cup {[cmd |-> k, uid |-> u]}
            /\ UNCHANGED internal
  /\ UNCHANGED crashed
  /\ DispatchUnchanged

\* cuidToID scans its input with fmt.Sscanf("%s:%s").  The verb %s reads
\* up to white space, so it takes the whole cuid, the literal ':' then has
\* no input left, and uid stays "".
cuidToID(input) == [cmd |-> input, uid |-> NoUid]

\* Remove/remove: parse the cuid, look it up, delete it from external.
\* The lookup indexes external[cmd] by the whole cuid although the map is
\* keyed by uid.  The result is returned to the caller and not kept.
Remove(cuid) ==
  LET id    == cuidToID(cuid)
      found == /\ id.uid # NoUid
               /\ id.cmd \in Keys
               /\ cuid \in external[id.cmd]
  IN /\ UserOp
     /\ external' = IF found
                      THEN [external EXCEPT ![id.cmd] = @ \ {id.uid}]
                      ELSE external
     /\ UNCHANGED <<internal, used, cuids, crashed>>
     /\ DispatchUnchanged

\* ClearAll drops every external handler.
ClearAll ==
  /\ UserOp
  /\ external' = NoHandlers
  /\ UNCHANGED <<internal, used, cuids, crashed>>
  /\ DispatchUnchanged

\* clearInternal drops every internal handler (the Disable* toggles).
clearInternal ==
  /\ UserOp
  /\ internal' = NoHandlers
  /\ UNCHANGED <<external, used, cuids, crashed>>
  /\ DispatchUnchanged

\* Clear(cmd) deletes the external handlers of one key.
Clear(k) ==
  /\ UserOp
  /\ external' = [external EXCEPT ![k] = {}]
  /\ UNCHANGED <<internal, used, cuids, crashed>>
  /\ DispatchUnchanged

-----------------------------------------------------------------------------
(* Dispatch.                                                               *)

RegistryUnchanged == UNCHANGED <<internal, external, used, cuids, ops>>

\* RunHandlers(event): the wildcard handlers are executed first.
RunHandlers(d, c) ==
  /\ pc[d] = "idle"
  /\ runs[d] < MaxRuns
  /\ pc' = [pc EXCEPT ![d] = "exec"]
  /\ key' = [key EXCEPT ![d] = ALLEVENTS]
  /\ ev' = [ev EXCEPT ![d] = c]
  /\ UNCHANGED <<runs, running, wgCount, wgWaiters, crashed>>
  /\ RegistryUnchanged

\* The handlers exec(k) snapshots: internal first, then external.
stack(k) == internal[k] \cup external[k]

\* A variant of exec whose wg.Add counts one handler too few.
execAddsOneLess(d) ==
  /\ pc[d] = "exec"
  /\ running' = running \cup ({d} \X stack(key[d]))
  /\ wgCount' = wgCount + Cardinality(stack(key[d])) - 1
  /\ pc' = [pc EXCEPT ![d] = "wait"]
  /\ UNCHANGED <<key, ev, runs, wgWaiters, crashed>>
  /\ RegistryUnchanged

\* exec up to wg.Wait(): snapshot under the read lock, wg.Add(len(stack)),
\* one goroutine per handler.
exec(d) ==
  /\ pc[d] = "exec"
  /\ running' = running \cup ({d} \X stack(key[d]))
  /\ wgCount' = wgCount + Cardinality(stack(key[d]))
  /\ pc' = [pc EXCEPT ![d] = "wait"]
  /\ UNCHANGED <<key, ev, runs, wgWaiters, crashed>>
  /\ RegistryUnchanged

\* exec returns to RunHandlers: after the wildcard pass comes the pass for
\* the event's own command; after that, RunHandlers returns (the CTCP
\* decode hook it calls last is not modelled).
execReturn(d) ==
  IF key[d] = ALLEVENTS
    THEN /\ pc' = [pc EXCEPT ![d] = "exec"]
         /\ key' = [key EXCEPT ![d] = ev[d]]
         /\ UNCHANGED runs
    ELSE /\ pc' = [pc EXCEPT ![d] = "idle"]
         /\ runs' = [runs EXCEPT ![d] = @ + 1]
         /\ UNCHANGED key

\* A variant of Wait that returns without waiting for the handlers.
WaitSkipsCounter(d) ==
  /\ pc[d] = "wait"
  /\ execReturn(d)
  /\ UNCHANGED <<ev, running, wgCount, wgWaiters, crashed>>
  /\ RegistryUnchanged

\* wg.Wait(): return at once if the counter is zero, otherwise register as
\* a waiter and sleep.
Wait(d) ==
  /\ pc[d] = "wait"
  /\ IF wgCount = 0
       THEN /\ execReturn(d)
            /\ UNCHANGED wgWaiters
       ELSE /\ wgWaiters' = wgWaiters \cup {d}
            /\ pc' = [pc EXCEPT ![d] = "sleep"]
            /\ UNCHANGED <<key, runs>>
  /\ UNCHANGED <<ev, running, wgCount, crashed>>
  /\ RegistryUnchanged

\* A variant of HandlerDone whose last Done does not wake the waiters.
HandlerDoneNoWake(d, u) ==
  /\ <<d, u>> \in running
  /\ running' = running \ {<<d, u>>}
  /\ wgCount' = wgCount - 1
  /\ UNCHANGED <<pc, wgWaiters, key, ev, runs, crashed>>
  /\ RegistryUnchanged

\* A handler goroutine returns and calls wg.Done().  The Done that brings
\* the counter to zero resets the group's state and wakes every waiter.
HandlerDone(d, u) ==
  /\ <<d, u>> \in running
  /\ running' = running \ {<<d, u>>}
  /\ wgCount' = wgCount - 1
  /\ IF wgCount' = 0 /\ wgWaiters # {}
       THEN /\ pc' = [x \in Dispatchers |-> IF x \in wgWaiters THEN "woken" ELSE pc[x]]
            /\ wgWaiters' = {}
       ELSE UNCHANGED <<pc, wgWaiters>>
  /\ UNCHANGED <<key, ev, runs, crashed>>
  /\ RegistryUnchanged

\* A woken waiter finds the group's state non-zero if another goroutine
\* called wg.Add (or wg.Wait on a non-zero counter) between the reset and
\* its wake-up: sync.WaitGroup then panics with "WaitGroup is reused
\* before previous Wait has returned", which ends the process.
Woken(d) ==
  /\ pc[d] = "woken"
  /\ IF wgCount # 0 \/ wgWaiters # {}
       THEN /\ crashed' = TRUE
            /\ UNCHANGED <<pc, key, runs>>
       ELSE /\ execReturn(d)
            /\ UNCHANGED crashed
  /\ UNCHANGED <<ev, running, wgCount, wgWaiters>>
  /\ RegistryUnchanged

\* The bounded run is over: every dispatcher is idle and done.
Terminated ==
  /\ \A d \in Dispatchers : pc[d] = "idle" /\ runs[d] = MaxRuns
  /\ UNCHANGED vars

\* After a panic nothing runs any more.
Halted == crashed /\ UNCHANGED vars

Next ==
  \/ /\ ~crashed
     /\ \/ \E b \in BOOLEAN, k \in Keys, u \in Uids : register(b, k, u)
        \/ \E c \in cuids : Remove(c)
        \/ ClearAll
        \/ clearInternal
        \/ \E k \in Keys : Clear(k)
        \/ \E d \in Dispatchers, c \in Commands : RunHandlers(d, c)
        \/ \E d \in Dispatchers : exec(d) \/ Wait(d) \/ Woken(d)
        \/ \E d \in Dispatchers, u \in Uids : HandlerDone(d, u)
  \/ Terminated
  \/ Halted

\* Goroutines are scheduled fairly and handler bodies return (girc leaves
\* the latter to the user); events and registry calls need not come.
Fairness ==
  \A d \in Dispatchers :
    /\ WF_vars(exec(d)) /\ WF_vars(Wait(d)) /\ WF_vars(Woken(d))
    /\ \A u \in Uids : WF_vars(HandlerDone(d, u))

Spec == Init /\ [][Next]_vars /\ Fairness

-----------------------------------------------------------------------------
(* Properties.                                                             *)

\* Type invariant of the dispatch engine; it includes that the counter of
\* the shared WaitGroup never goes negative (wg.Add and wg.Done,
\* handler.go:180, 189), which sync.WaitGroup turns into a panic.
TypeOK ==
  /\ internal \in [Keys -> SUBSET Uids]
  /\ external \in [Keys -> SUBSET Uids]
  /\ used \in SUBSET Uids
  /\ cuids \in SUBSET CUIDs
  /\ ops \in 0..MaxOps
  /\ pc \in [Dispatchers -> PCs]
  /\ key \in [Dispatchers -> Keys]
  /\ ev \in [Dispatchers -> Commands]
  /\ runs \in [Dispatchers -> 0..MaxRuns]
  /\ running \in SUBSET (Dispatchers \X Uids)
  /\ wgCount \in Nat
  /\ wgWaiters \in SUBSET Dispatchers
  /\ crashed \in BOOLEAN

\* The join barrier of exec (handler.go:193-195, spec 4.2): a handler that
\* an exec call launched is still running only while that call is inside
\* wg.Wait().  So the handlers of an event all return before the
\* dispatcher runs the handlers of the next pass or of its next event,
\* although the WaitGroup is shared with every other dispatcher.
ExecBarrier ==
  \A r \in running : pc[r[1]] \in {"wait", "sleep", "woken"}

\* Every exec call returns (spec 4.2: execute blocks until the handlers it
\* launched complete, then returns), although the counter it waits on is
\* shared with the handlers of every other dispatcher, unless the process
\* panicked.
ExecReturns ==
  \A d \in Dispatchers : pc[d] = "wait" ~> (pc[d] \in {"exec", "idle"} \/ crashed)

\* RunHandlers never panics.  Caller.wg is one WaitGroup shared by every
\* goroutine calling RunHandlers (the execLoop and user code), so a wg.Add
\* of one exec can land between the Done that wakes another exec's Wait and
\* that Wait's return (handler.go:58, 180, 195).
NoWaitGroupPanic == ~crashed

\* Removing a registered handler by the cuid its registration returned
\* deletes it from the external registry (handler.go:232-267, spec 8).
RemoveRemovesHandler ==
  [][\A c \in cuids :
       Remove(c) /\ c.uid \in external[c.cmd] => c.uid \notin external'[c.cmd]]_vars

=============================================================================
