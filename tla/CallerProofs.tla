---------------------------- MODULE CallerProofs ----------------------------
(***************************************************************************)
(* Proofs about the dispatch engine of Caller, for every value of the      *)
(* constants: the type invariant and the join barrier ExecBarrier of exec. *)
(*                                                                         *)
(* Neither invariant is inductive alone.  The barrier needs to know that a *)
(* dispatcher returning from wg.Wait() has no handler left, which follows  *)
(* from the WaitGroup counter being exactly the number of handlers still   *)
(* running; and the counter staying a natural needs the same fact.  IInv   *)
(* adds that equation (with the finiteness of running it rests on), that a *)
(* dispatcher inside RunHandlers has not used up its bound, and that the   *)
(* waiters of the group are exactly asleep in it.                          *)
(***************************************************************************)
EXTENDS Caller, FiniteSetTheorems, TLAPS

IInv ==
  /\ TypeOK
  /\ IsFiniteSet(running)
  /\ wgCount = Cardinality(running)
  /\ \A d \in Dispatchers : pc[d] # "idle" => runs[d] < MaxRuns
  /\ \A d \in wgWaiters : pc[d] = "sleep"
  /\ ExecBarrier

\* The handlers one exec call launches are as many as its snapshot holds.
LEMMA LaunchCount ==
  ASSUME NEW d, NEW S, IsFiniteSet(S)
  PROVE  /\ IsFiniteSet({d} \X S)
         /\ Cardinality({d} \X S) = Cardinality(S)
<1>1. IsFiniteSet({d}) /\ Cardinality({d}) = 1
  BY FS_Singleton
<1>2. IsFiniteSet({d} \X S) /\ Cardinality({d} \X S) = 1 * Cardinality(S)
  BY <1>1, FS_Product
<1>3. Cardinality(S) \in Nat
  BY FS_CardinalityType
<1> QED BY <1>2, <1>3

\* A snapshot of the registries is a finite set of uids.
LEMMA StackFinite ==
  ASSUME TypeOK, NEW k \in Keys
  PROVE  IsFiniteSet(stack(k)) /\ stack(k) \subseteq Uids
BY CallerAssumption, FS_Subset DEF TypeOK, stack

-----------------------------------------------------------------------------

\* The initial state satisfies the inductive invariant.
LEMMA InitIInv == Init => IInv
<1> SUFFICES ASSUME Init PROVE IInv
  OBVIOUS
<1>1. TypeOK
  <2>1. (CHOOSE c \in Commands : TRUE) \in Commands
    BY CallerAssumption
  <2>2. ev \in [Dispatchers -> Commands]
    BY <2>1 DEF Init
  <2>3. ops \in 0..MaxOps /\ runs \in [Dispatchers -> 0..MaxRuns]
    BY CallerAssumption DEF Init
  <2> QED BY <2>2, <2>3 DEF Init, TypeOK, NoHandlers, Keys, PCs
<1>2. IsFiniteSet(running) /\ wgCount = Cardinality(running)
  BY FS_EmptySet DEF Init
<1>3. \A d \in Dispatchers : pc[d] # "idle" => runs[d] < MaxRuns
  BY DEF Init
<1>4. ExecBarrier /\ \A d \in wgWaiters : pc[d] = "sleep"
  BY DEF Init, ExecBarrier
<1> QED BY <1>1, <1>2, <1>3, <1>4 DEF IInv

\* A registry operation changes no dispatch state.
LEMMA RegistryStep ==
  ASSUME IInv,
         \/ \E b \in BOOLEAN, k \in Keys, u \in Uids : register(b, k, u)
         \/ \E c \in cuids : Remove(c)
         \/ ClearAll \/ clearInternal \/ \E k \in Keys : Clear(k)
  PROVE  IInv'
<1> USE CallerAssumption DEF IInv, TypeOK, ExecBarrier, UserOp, DispatchUnchanged
<1>1. CASE \E b \in BOOLEAN, k \in Keys, u \in Uids : register(b, k, u)
  BY <1>1 DEF register, CUIDs
<1>2. CASE \E c \in cuids : Remove(c)
  <2> PICK c \in cuids : Remove(c)
    BY <1>2
  <2> QED BY DEF Remove, cuidToID
<1>3. CASE ClearAll
  BY <1>3 DEF ClearAll, NoHandlers
<1>4. CASE clearInternal
  BY <1>4 DEF clearInternal, NoHandlers
<1>5. CASE \E k \in Keys : Clear(k)
  BY <1>5 DEF Clear
<1> QED BY <1>1, <1>2, <1>3, <1>4, <1>5

\* RunHandlers starts a dispatcher that has no handler running.
LEMMA RunHandlersStep ==
  ASSUME IInv, NEW d \in Dispatchers, NEW c \in Commands, RunHandlers(d, c)
  PROVE  IInv'
<1>1. TypeOK'
  BY DEF IInv, TypeOK, RunHandlers, RegistryUnchanged, Keys, PCs
<1>2. ExecBarrier'
  BY DEF IInv, TypeOK, ExecBarrier, RunHandlers
<1>3. (\A x \in Dispatchers : pc[x] # "idle" => runs[x] < MaxRuns)'
  BY DEF IInv, TypeOK, RunHandlers
<1>4. (IsFiniteSet(running) /\ wgCount = Cardinality(running))'
  BY DEF IInv, RunHandlers
<1>5. (\A x \in wgWaiters : pc[x] = "sleep")'
  BY DEF IInv, TypeOK, RunHandlers
<1> QED BY <1>1, <1>2, <1>3, <1>4, <1>5 DEF IInv

\* exec launches its snapshot and counts it in wg.Add: the dispatcher had
\* no handler running (the barrier), so the new pairs are fresh and the
\* counter keeps matching running.
LEMMA ExecStep ==
  ASSUME IInv, NEW d \in Dispatchers, exec(d)
  PROVE  IInv'
<1> DEFINE L == {d} \X stack(key[d])
<1>1. IsFiniteSet(stack(key[d])) /\ stack(key[d]) \subseteq Uids
  BY StackFinite DEF IInv, TypeOK
<1>2. IsFiniteSet(L) /\ Cardinality(L) = Cardinality(stack(key[d]))
  BY <1>1, LaunchCount
<1>3. running \cap L = {}
  BY DEF IInv, ExecBarrier, exec
<1>4. IsFiniteSet(running') /\ Cardinality(running') = Cardinality(running) + Cardinality(L)
  <2>1. IsFiniteSet(running \cup L)
        /\ Cardinality(running \cup L) = Cardinality(running) + Cardinality(L) - Cardinality(running \cap L)
    BY <1>2, FS_Union DEF IInv
  <2>2. Cardinality(running \cap L) = 0
    BY <1>3, FS_EmptySet
  <2> QED BY <2>1, <2>2, <1>2, FS_CardinalityType DEF exec, IInv
<1>5. wgCount' = Cardinality(running')
  BY <1>2, <1>4 DEF exec, IInv
<1>6. TypeOK'
  BY <1>1, <1>2, <1>5, FS_CardinalityType DEF IInv, TypeOK, exec, RegistryUnchanged, PCs
<1>7. ExecBarrier'
  BY DEF IInv, TypeOK, ExecBarrier, exec
<1>8. (\A x \in Dispatchers : pc[x] # "idle" => runs[x] < MaxRuns)'
  BY DEF IInv, TypeOK, exec
<1>9. (\A x \in wgWaiters : pc[x] = "sleep")'
  BY DEF IInv, TypeOK, exec
<1> QED BY <1>4, <1>5, <1>6, <1>7, <1>8, <1>9 DEF IInv

\* When the counter is zero no handler runs.
LEMMA NoneRunning ==
  ASSUME IInv, wgCount = 0
  PROVE  running = {}
BY FS_EmptySet DEF IInv

\* A dispatcher leaving wg.Wait() with no handler running moves to its
\* next pass or returns from RunHandlers.
LEMMA ReturnStep ==
  ASSUME IInv, NEW d \in Dispatchers, pc[d] \in {"wait", "woken"},
         running = {}, execReturn(d),
         UNCHANGED <<ev, running, wgCount, wgWaiters, crashed>>,
         RegistryUnchanged
  PROVE  IInv'
<1>1. runs[d] < MaxRuns
  BY DEF IInv
<1>2. TypeOK'
  <2>1. CASE key[d] = ALLEVENTS
    <3>1. pc' = [pc EXCEPT ![d] = "exec"] /\ key' = [key EXCEPT ![d] = ev[d]]
          /\ runs' = runs
      BY <2>1 DEF execReturn
    <3>2. ev[d] \in Keys
      BY DEF IInv, TypeOK, Keys
    <3> QED BY <3>1, <3>2 DEF IInv, TypeOK, RegistryUnchanged, PCs
  <2>2. CASE key[d] # ALLEVENTS
    <3>1. pc' = [pc EXCEPT ![d] = "idle"] /\ runs' = [runs EXCEPT ![d] = @ + 1]
          /\ key' = key
      BY <2>2 DEF execReturn
    <3>2. runs[d] + 1 \in 0..MaxRuns
      BY <1>1, CallerAssumption DEF IInv, TypeOK
    <3> QED BY <3>1, <3>2 DEF IInv, TypeOK, RegistryUnchanged, PCs
  <2> QED BY <2>1, <2>2
<1>3. (\A x \in Dispatchers : pc[x] # "idle" => runs[x] < MaxRuns)'
  BY DEF IInv, TypeOK, execReturn
<1>4. (\A x \in wgWaiters : pc[x] = "sleep")'
  BY DEF IInv, TypeOK, execReturn
<1>5. ExecBarrier'
  BY DEF ExecBarrier
<1> QED BY <1>2, <1>3, <1>4, <1>5 DEF IInv

\* wg.Wait() either returns on a zero counter or puts d to sleep.
LEMMA WaitStep ==
  ASSUME IInv, NEW d \in Dispatchers, Wait(d)
  PROVE  IInv'
<1>1. CASE wgCount = 0
  BY <1>1, NoneRunning, ReturnStep DEF Wait
<1>2. CASE wgCount # 0
  <2>1. TypeOK'
    BY <1>2 DEF IInv, TypeOK, Wait, RegistryUnchanged, PCs
  <2>2. ExecBarrier'
    BY <1>2 DEF IInv, TypeOK, ExecBarrier, Wait
  <2>3. (\A x \in Dispatchers : pc[x] # "idle" => runs[x] < MaxRuns)'
    BY <1>2 DEF IInv, TypeOK, Wait
  <2>4. (\A x \in wgWaiters : pc[x] = "sleep")'
    BY <1>2 DEF IInv, TypeOK, Wait
  <2> QED BY <1>2, <2>1, <2>2, <2>3, <2>4 DEF IInv, Wait
<1> QED BY <1>1, <1>2

\* A woken waiter either panics or, the group being at rest, returns.
LEMMA WokenStep ==
  ASSUME IInv, NEW d \in Dispatchers, Woken(d)
  PROVE  IInv'
<1>1. CASE wgCount # 0 \/ wgWaiters # {}
  BY <1>1 DEF Woken, IInv, TypeOK, ExecBarrier, RegistryUnchanged
<1>2. CASE wgCount = 0 /\ wgWaiters = {}
  BY <1>2, NoneRunning, ReturnStep DEF Woken
<1> QED BY <1>1, <1>2

\* wg.Done() removes one running handler and decrements the counter; the
\* last one wakes the sleepers, whose pcs stay inside the barrier.
LEMMA HandlerDoneStep ==
  ASSUME IInv, NEW d \in Dispatchers, NEW u \in Uids, HandlerDone(d, u)
  PROVE  IInv'
<1>1. IsFiniteSet(running') /\ Cardinality(running') = Cardinality(running) - 1
  BY FS_RemoveElement DEF IInv, HandlerDone
<1>2. wgCount' = Cardinality(running') /\ wgCount' \in Nat
  BY <1>1, FS_CardinalityType DEF IInv, HandlerDone
<1>3. pc' \in [Dispatchers -> PCs]
  BY DEF IInv, TypeOK, HandlerDone, PCs
<1>4. TypeOK'
  BY <1>2, <1>3 DEF IInv, TypeOK, HandlerDone, RegistryUnchanged
<1>5. ExecBarrier'
  BY DEF IInv, TypeOK, ExecBarrier, HandlerDone
<1>6. (\A x \in Dispatchers : pc[x] # "idle" => runs[x] < MaxRuns)'
  BY DEF IInv, TypeOK, HandlerDone
<1>7. (\A x \in wgWaiters : pc[x] = "sleep")'
  BY DEF IInv, HandlerDone
<1> QED BY <1>1, <1>2, <1>4, <1>5, <1>6, <1>7 DEF IInv

-----------------------------------------------------------------------------

\* Every step of Next, and a stuttering step, preserves IInv.
LEMMA NextIInv == IInv /\ [Next]_vars => IInv'
<1> SUFFICES ASSUME IInv, [Next]_vars PROVE IInv'
  OBVIOUS
<1>1. CASE \/ \E b \in BOOLEAN, k \in Keys, u \in Uids : register(b, k, u)
           \/ \E c \in cuids : Remove(c)
           \/ ClearAll \/ clearInternal \/ \E k \in Keys : Clear(k)
  BY <1>1, RegistryStep
<1>2. CASE \E d \in Dispatchers, c \in Commands : RunHandlers(d, c)
  BY <1>2, RunHandlersStep
<1>3. CASE \E d \in Dispatchers : exec(d)
  BY <1>3, ExecStep
<1>4. CASE \E d \in Dispatchers : Wait(d)
  BY <1>4, WaitStep
<1>5. CASE \E d \in Dispatchers : Woken(d)
  BY <1>5, WokenStep
<1>6. CASE \E d \in Dispatchers, u \in Uids : HandlerDone(d, u)
  BY <1>6, HandlerDoneStep
<1>7. CASE Terminated \/ Halted \/ UNCHANGED vars
  BY <1>7 DEF Terminated, Halted, vars, IInv, TypeOK, ExecBarrier
<1> QED BY <1>1, <1>2, <1>3, <1>4, <1>5, <1>6, <1>7 DEF Next

\* The type invariant holds in every reachable state of the dispatch
\* engine: in particular the shared WaitGroup counter of Caller.wg never
\* goes negative (handler.go:180, 187), whichever goroutines share it.
THEOREM TypeCorrect == Spec => []TypeOK
<1>1. Init => IInv
  BY InitIInv
<1>2. IInv /\ [Next]_vars => IInv'
  BY NextIInv
<1>3. IInv => TypeOK
  BY DEF IInv
<1> QED BY <1>1, <1>2, <1>3, PTL DEF Spec

\* The join barrier of exec (handler.go:193-195): every handler still
\* running was launched by a dispatcher that is inside wg.Wait(), for
\* every number of dispatchers, commands and handlers.
THEOREM ExecBarrierHolds == Spec => []ExecBarrier
<1>1. Init => IInv
  BY InitIInv
<1>2. IInv /\ [Next]_vars => IInv'
  BY NextIInv
<1>3. IInv => ExecBarrier
  BY DEF IInv
<1> QED BY <1>1, <1>2, <1>3, PTL DEF Spec

=============================================================================
