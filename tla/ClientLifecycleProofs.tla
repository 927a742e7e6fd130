------------------------ MODULE ClientLifecycleProofs ------------------------
(***************************************************************************)
(* Proof that the connection supervisor implements SessionLifecycle under *)
(* the mapping of Client.tla (c.cmux is the owner, nsess the newest       *)
(* session, conn the connections).  Every step of Client is a step of the *)
(* abstract lifecycle or leaves nsess, conn and c.cmux alone:              *)
(*   ConnectLock is Acquire, a successful dial is Open, a failed dial and  *)
(*   the end of ConnectSetup are Release, a cleanup of an open connection  *)
(*   is Close.                                                             *)
(* The argument needs IInv of ClientProofs (the lock is held exactly by   *)
(* the Connect steps after ConnectLock, and the dialed session is fresh)  *)
(* and one more fact: c.state is always the newest state (cur = nsess).   *)
(***************************************************************************)
EXTENDS ClientProofs

USE DEF sessVars, ctlVars, budgetVars

LVars == <<nsess, conn, cmux>>

\* c.state is the last state newState() made.
CurNewest == cur = nsess

RInv == IInv /\ CurNewest

LEMMA InitRInv == Init => RInv
BY InitIInv DEF Init, RInv, CurNewest

\* Only ConnectLock changes cur or nsess, and it sets both to nsess + 1.
LEMMA NextCurNewest == CurNewest /\ [Next]_vars => CurNewest'
<1> SUFFICES ASSUME CurNewest, [Next]_vars PROVE CurNewest'
  OBVIOUS
<1>1. CASE \E a \in Actors : Step(a)
  <2> PICK a \in Actors : Step(a)
    BY <1>1
  <2>1. CASE ConnectLock(a)
    BY <2>1 DEF ConnectLock, CurNewest
  <2>2. CASE ~ConnectLock(a)
    <3>1. UNCHANGED <<cur, nsess>>
      BY <2>2 DEF Step, ConnectCleanup, ConnectDial, ConnectInit, ConnectSetup,
                  ReconnectCheck, ReconnectSet, ReconnectCleanup, ReconnectLoop,
                  ReconnectEnd
    <3> QED BY <3>1 DEF CurNewest
  <2> QED BY <2>1, <2>2
<1>2. CASE ~\E a \in Actors : Step(a)
  <2>1. UNCHANGED <<cur, nsess>>
    BY <1>2 DEF Next, ReadTop, ReadDecode, ReadPush, ExecSelect, ExecRun, Connect,
                Reconnect, Quit, UserCall, QuitPush, QuitCleanup, StopPush, Loop,
                Terminated, Halted, vars
  <2> QED BY <2>1 DEF CurNewest
<1> QED BY <1>1, <1>2

LEMMA NextRInv == RInv /\ [Next]_vars => RInv'
BY NextIInv, NextCurNewest DEF RInv

-----------------------------------------------------------------------------
(* The steps, grouped by the abstract step they map to.                    *)

LEMMA LifecycleStutter ==
  ASSUME UNCHANGED <<nsess, conn, cmux>>
  PROVE  [Lifecycle!Next]_LVars
BY DEF LVars

\* cleanup under c.cmux closes the current, that is the newest,
\* connection if it is open: Close; otherwise nothing changes.
LEMMA CleanupCloses ==
  ASSUME RInv, cleanup(FALSE), UNCHANGED <<nsess, cmux>>
  PROVE  [Lifecycle!Next]_LVars
<1>1. CASE conn[cur] = "open"
  <2>1. /\ cmux = NoActor
        /\ conn[nsess] = "open"
        /\ conn' = [conn EXCEPT ![nsess] = "closed"]
    BY <1>1 DEF cleanup, RInv, CurNewest
  <2>2. Lifecycle!Close
    BY <2>1 DEF Lifecycle!Close
  <2> QED BY <2>2 DEF Lifecycle!Next
<1>2. CASE conn[cur] # "open"
  BY <1>2, LifecycleStutter DEF cleanup
<1> QED BY <1>1, <1>2

\* ConnectLock takes c.cmux and makes session nsess + 1: Acquire.
LEMMA ConnectLockAcquires ==
  ASSUME RInv, NEW a \in Actors, ConnectLock(a)
  PROVE  [Lifecycle!Next]_LVars
<1>1. /\ cmux = NoActor /\ nsess + 1 \in Sessions
      /\ cmux' = a /\ nsess' = nsess + 1 /\ conn' = conn
  BY ClientAssumption DEF ConnectLock, RInv, IInv, TypeOK, Sessions
<1>2. Lifecycle!Acquire(a)
  BY <1>1 DEF Lifecycle!Acquire
<1> QED BY <1>2 DEF Lifecycle!Next

\* The holder of c.cmux at c_dial or c_setup.
LEMMA HolderAt ==
  ASSUME RInv, NEW a \in Actors, pc[a] \in {"c_dial", "c_setup"}
  PROVE  /\ cmux = a
         /\ pc[a] = "c_dial" => conn[nsess] = "none"
BY DEF RInv, IInv, CurNewest, Locked

\* Returning from Connect with the lock released: Release.
LEMMA ReleaseStep ==
  ASSUME NEW a \in Actors, cmux = a, cmux' = NoActor,
         UNCHANGED <<nsess, conn>>
  PROVE  [Lifecycle!Next]_LVars
<1>1. Lifecycle!Release(a)
  BY DEF Lifecycle!Release
<1> QED BY <1>1 DEF Lifecycle!Next

\* A successful dial opens the fresh connection: Open; a failed one
\* returns and releases c.cmux: Release.
LEMMA ConnectDialOpens ==
  ASSUME RInv, NEW a \in Actors, ConnectDial(a)
  PROVE  [Lifecycle!Next]_LVars
<1>1. cmux = a /\ conn[nsess] = "none" /\ cur = nsess
  BY HolderAt DEF ConnectDial, RInv, CurNewest
<1>2. CASE conn' = [conn EXCEPT ![cur] = "open"] /\ UNCHANGED cmux
  <2>1. Lifecycle!Open(a)
    BY <1>1, <1>2 DEF ConnectDial, Lifecycle!Open
  <2> QED BY <2>1 DEF Lifecycle!Next
<1>3. CASE cmux' = NoActor /\ UNCHANGED conn
  BY <1>1, <1>3, ReleaseStep DEF ConnectDial
<1> QED BY <1>2, <1>3 DEF ConnectDial

LEMMA ConnectSetupReleases ==
  ASSUME RInv, NEW a \in Actors, ConnectSetup(a)
  PROVE  [Lifecycle!Next]_LVars
BY HolderAt, ReleaseStep DEF ConnectSetup

\* The cleanups: Connect's, reconnect's (and its second one after a failed
\* retry loop), quit's.
LEMMA CleanupStepsClose ==
  ASSUME RInv, NEW a \in Actors,
         ConnectCleanup(a) \/ ReconnectCleanup(a) \/ ReconnectEnd(a)
         \/ (a \in Users /\ QuitCleanup(a))
  PROVE  [Lifecycle!Next]_LVars
<1>1. UNCHANGED <<nsess, cmux>>
  BY DEF ConnectCleanup, ReconnectCleanup, ReconnectEnd, QuitCleanup
<1>2. CASE ReconnectEnd(a) /\ ~fr[a].failed
  BY <1>1, <1>2, LifecycleStutter DEF ReconnectEnd
<1>3. CASE ~(ReconnectEnd(a) /\ ~fr[a].failed)
  <2>1. cleanup(FALSE)
    BY <1>3 DEF ConnectCleanup, ReconnectCleanup, ReconnectEnd, QuitCleanup
  <2> QED BY <1>1, <2>1, CleanupCloses
<1> QED BY <1>2, <1>3

\* Every other step leaves nsess, conn and c.cmux alone.
LEMMA OtherStepsStutter ==
  ASSUME \/ \E a \in Actors : ConnectInit(a) \/ ReconnectCheck(a) \/ ReconnectSet(a)
                               \/ ReconnectLoop(a)
         \/ \E r \in Readers : ReadTop(r) \/ ReadDecode(r) \/ ReadPush(r)
         \/ \E s \in Sessions : ExecSelect(s) \/ ExecRun(s)
         \/ \E u \in Users : \/ Connect(u) \/ Reconnect(u)
                             \/ \E b \in BOOLEAN : Quit(u, b)
                             \/ QuitPush(u) \/ StopPush(u) \/ Loop(u)
         \/ Terminated \/ Halted \/ UNCHANGED vars
  PROVE  [Lifecycle!Next]_LVars
<1>1. UNCHANGED <<nsess, conn, cmux>>
  BY DEF ConnectInit, ReconnectCheck, ReconnectSet, ReconnectLoop, ReadTop, ReadDecode,
         ReadPush, ExecSelect, ExecRun, Connect, Reconnect, Quit, UserCall, QuitPush,
         StopPush, Loop, Terminated, Halted, vars
<1> QED BY <1>1, LifecycleStutter

\* Under RInv every step of Client is a step of SessionLifecycle or a
\* stutter of its variables.
LEMMA NextLifecycle == RInv /\ [Next]_vars => [Lifecycle!Next]_LVars
<1> SUFFICES ASSUME RInv, [Next]_vars PROVE [Lifecycle!Next]_LVars
  OBVIOUS
<1>1. CASE \E a \in Actors : Step(a)
  <2> PICK a \in Actors : Step(a)
    BY <1>1
  <2> QED BY ConnectLockAcquires, ConnectDialOpens, ConnectSetupReleases,
             CleanupStepsClose, OtherStepsStutter DEF Step
<1>2. CASE \E u \in Users : QuitCleanup(u)
  BY <1>2, CleanupStepsClose DEF Actors
<1> QED BY <1>1, <1>2, OtherStepsStutter DEF Next

\* The supervisor implements the session lifecycle, for every number of
\* users, sessions and retries: only the Connect holding c.cmux creates a
\* state and dials it (client.go:299-321), cleanup never closes a
\* connection a Connect is still setting up, and a closed connection is
\* never opened again.
THEOREM LifecycleRefinement == Spec => ImplementsLifecycle
<1>1. Init => RInv
  BY InitRInv
<1>2. RInv /\ [Next]_vars => RInv'
  BY NextRInv
<1>3. Init => Lifecycle!Init
  BY DEF Init, Lifecycle!Init
<1>4. RInv /\ [Next]_vars => [Lifecycle!Next]_LVars
  BY NextLifecycle
<1> QED BY <1>1, <1>2, <1>3, <1>4, PTL
        DEF Spec, ImplementsLifecycle, Lifecycle!Spec, Lifecycle!vars, LVars

=============================================================================
