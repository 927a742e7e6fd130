---------------------------- MODULE ClientProofs ----------------------------
(***************************************************************************)
(* Proofs about the connection supervisor of Client, for every number of  *)
(* users, sessions and every bound: the type invariant and                 *)
(* SetupNotTornDown, that the session a Connect is setting up under        *)
(* c.cmux is never closed under it.                                        *)
(*                                                                         *)
(* SetupNotTornDown is not inductive alone.  IInv adds what the lock       *)
(* guarantees: c.cmux is held exactly by the actors between ConnectLock    *)
(* and the end of ConnectSetup, the session they point at is a real one   *)
(* (not the connection-less state of New), it has no connection until the *)
(* dial and an open one after, and sessions newState() has not created    *)
(* yet have no connection, so the fresh state ConnectLock installs starts  *)
(* unconnected.                                                            *)
(***************************************************************************)
EXTENDS Client, TLAPS

\* The steps of Connect that run holding c.cmux.
Locked == {"c_dial", "c_init", "c_setup"}

IInv ==
  /\ TypeOK
  /\ \A s \in Sessions : s > nsess => conn[s] = "none"
  /\ \A a \in Actors : pc[a] \in Locked <=> cmux = a
  /\ cmux # NoActor => cur \in Readers
  /\ \A a \in Actors : pc[a] = "c_dial" => conn[cur] = "none"
  /\ \A a \in Actors : pc[a] \in {"c_init", "c_setup"} => conn[cur] = "open"

\* The fixed sets the model is built from.
LEMMA SetFacts ==
  /\ NoActor \notin Actors
  /\ Readers \subseteq Sessions
  /\ Blank \in Frames
  /\ 0 \in Sessions
BY ClientAssumption DEF Actors, Readers, Sessions, NoActor, Blank, Frames

\* The initial state satisfies the inductive invariant.
LEMMA InitIInv == Init => IInv
<1> SUFFICES ASSUME Init PROVE IInv
  OBVIOUS
<1>1. TypeOK
  <2>1. cur \in Sessions /\ nsess \in Sessions /\ cur <= nsess /\ closeRead \in Sessions
    BY SetFacts, ClientAssumption DEF Init
  <2>2. /\ conn \in [Sessions -> {"none", "open", "closed"}]
        /\ connected \in [Sessions -> BOOLEAN]
        /\ epc \in [Sessions -> {"off", "select", "run", "done"}]
    BY DEF Init
  <2>3. pc \in [Actors -> PCs] /\ fr \in [Actors -> Frames]
    BY SetFacts DEF Init, PCs
  <2>4. /\ queue \in 0..QueueCap /\ calls \in 0..MaxCalls
        /\ lines \in 0..MaxLines /\ faults \in 0..MaxFaults /\ tries \in Nat
    BY ClientAssumption DEF Init
  <2>5. cmux \in Actors \cup {NoActor} /\ closeLoop \in Users \cup {NoActor}
    BY DEF Init
  <2> QED BY <2>1, <2>2, <2>3, <2>4, <2>5 DEF Init, TypeOK
<1>2. \A a \in Actors : pc[a] \notin Locked
  BY DEF Init, Locked
<1> QED BY <1>1, <1>2, SetFacts DEF Init, IInv, Locked

-----------------------------------------------------------------------------
(* One lemma per step.  Each proves TypeOK' and the lock conjuncts of      *)
(* IInv'.                                                                  *)

\* The tuples that UNCHANGED clauses name are only abbreviations.
USE DEF sessVars, ctlVars, budgetVars

\* The lock part of IInv, apart from the type invariant.
LockInv ==
  /\ \A s \in Sessions : s > nsess => conn[s] = "none"
  /\ \A a \in Actors : pc[a] \in Locked <=> cmux = a
  /\ cmux # NoActor => cur \in Readers
  /\ \A a \in Actors : pc[a] = "c_dial" => conn[cur] = "none"
  /\ \A a \in Actors : pc[a] \in {"c_init", "c_setup"} => conn[cur] = "open"

\* A step that changes none of the lock's state and moves no pc into or
\* out of the locked steps keeps LockInv.
LEMMA LockFrame ==
  ASSUME LockInv, TypeOK,
         UNCHANGED <<cur, nsess, conn, cmux>>,
         \A a \in Actors : pc'[a] \in Locked <=> pc[a] \in Locked,
         \A a \in Actors : pc[a] \in Locked => pc'[a] = pc[a]
  PROVE  LockInv'
BY DEF LockInv, Locked

\* cleanup(false) and cleanup(true) keep the types.
LEMMA CleanupType ==
  ASSUME TypeOK, NEW all \in BOOLEAN, cleanup(all)
  PROVE  /\ conn' \in [Sessions -> {"none", "open", "closed"}]
         /\ execCancelled' \in SUBSET Sessions
         /\ loopCancelled' \in SUBSET Users
         /\ \A s \in Sessions : conn'[s] = "none" <=> conn[s] = "none"
         /\ \A s \in Sessions : s # cur => conn'[s] = conn[s]
BY DEF cleanup, TypeOK, NoActor, Sessions

\* Connect's cleanup, before c.cmux is taken.
LEMMA ConnectCleanupStep ==
  ASSUME IInv, NEW a \in Actors, ConnectCleanup(a)
  PROVE  IInv'
<1>1. cleanup(FALSE) /\ cmux = NoActor /\ pc' = [pc EXCEPT ![a] = "c_lock"]
      /\ UNCHANGED <<cur, nsess, cmux>>
  BY DEF ConnectCleanup, cleanup, Goto
<1>2. /\ conn' \in [Sessions -> {"none", "open", "closed"}]
      /\ execCancelled' \in SUBSET Sessions
      /\ loopCancelled' \in SUBSET Users
      /\ \A s \in Sessions : conn'[s] = "none" <=> conn[s] = "none"
  BY <1>1, CleanupType DEF IInv
<1>3. pc' \in [Actors -> PCs]
  BY <1>1 DEF IInv, TypeOK, PCs
<1>4. TypeOK'
  BY <1>2, <1>3 DEF IInv, TypeOK, ConnectCleanup
<1>5. \A x \in Actors : pc'[x] \notin Locked /\ cmux' # x
  BY <1>1, SetFacts DEF IInv, TypeOK, Locked
<1>6. (\A s \in Sessions : s > nsess => conn[s] = "none")'
  BY <1>1, <1>2 DEF IInv
<1>7. LockInv'
  BY <1>1, <1>5, <1>6 DEF LockInv, Locked
<1> QED BY <1>4, <1>7 DEF IInv, LockInv

\* ConnectLock takes c.cmux and installs the fresh session nsess + 1.
LEMMA ConnectLockStep ==
  ASSUME IInv, NEW a \in Actors, ConnectLock(a)
  PROVE  IInv'
<1>1. nsess + 1 \in Readers /\ nsess + 1 \in Sessions
  BY ClientAssumption DEF ConnectLock, IInv, TypeOK, Readers, Sessions
<1>2. conn[nsess + 1] = "none"
  BY <1>1 DEF IInv, TypeOK, Sessions
<1>3. \A x \in Actors : pc[x] \notin Locked
  BY SetFacts DEF IInv, ConnectLock
<1>4. TypeOK'
  BY <1>1 DEF IInv, TypeOK, ConnectLock, Goto, PCs
<1>5. pc' = [pc EXCEPT ![a] = "c_dial"] /\ cmux' = a /\ cur' = nsess + 1
      /\ nsess' = nsess + 1 /\ conn' = conn
  BY DEF ConnectLock, Goto
<1>6. \A x \in Actors : pc'[x] \in Locked <=> cmux' = x
  BY <1>3, <1>5 DEF IInv, TypeOK, Locked
<1>7. \A x \in Actors : pc'[x] = "c_dial" => conn'[cur'] = "none"
  BY <1>2, <1>5
<1>8. \A x \in Actors : pc'[x] \notin {"c_init", "c_setup"}
  BY <1>3, <1>5 DEF IInv, TypeOK, Locked
<1>9. \A s \in Sessions : s > nsess' => conn'[s] = "none"
  BY <1>5 DEF IInv, TypeOK, Sessions
<1>10. LockInv'
  BY <1>1, <1>5, <1>6, <1>7, <1>8, <1>9 DEF LockInv
<1> QED BY <1>4, <1>10 DEF IInv, LockInv

\* Connect returns an error: c.cmux released (or not held), the actor leaves.
LEMMA ConnectReturnType ==
  ASSUME TypeOK, NEW a \in Actors, NEW err \in BOOLEAN, ConnectReturn(a, err)
  PROVE  /\ pc' \in [Actors -> PCs] /\ fr' \in [Actors -> Frames]
         /\ pc'[a] \in {"r_loop", "idle"}
         /\ \A x \in Actors : x # a => pc'[x] = pc[x]
<1>1. CASE fr[a].inRec
  <2>1. pc' = [pc EXCEPT ![a] = "r_loop"] /\ fr' = [fr EXCEPT ![a].failed = err]
    BY <1>1 DEF ConnectReturn, Goto
  <2>2. [fr[a] EXCEPT !.failed = err] \in Frames
    BY DEF TypeOK, Frames
  <2> QED BY <2>1, <2>2 DEF TypeOK, PCs
<1>2. CASE ~fr[a].inRec
  <2>1. pc' = [pc EXCEPT ![a] = "idle"] /\ fr' = [fr EXCEPT ![a] = Blank]
    BY <1>2 DEF ConnectReturn, Goto
  <2> QED BY <2>1, SetFacts DEF TypeOK, PCs
<1> QED BY <1>1, <1>2

LEMMA ConnectDialStep ==
  ASSUME IInv, NEW a \in Actors, ConnectDial(a)
  PROVE  IInv'
<1>1. cmux = a /\ cur \in Readers /\ conn[cur] = "none"
  BY SetFacts DEF IInv, ConnectDial, Locked
<1>2. CASE /\ conn' = [conn EXCEPT ![cur] = "open"]
           /\ Goto(a, "c_init") /\ UNCHANGED <<cmux, fr, faults>>
  <2>1. TypeOK'
    BY <1>2, SetFacts DEF IInv, TypeOK, ConnectDial, Goto, PCs
  <2>2. LockInv'
    BY <1>1, <1>2, SetFacts DEF IInv, TypeOK, LockInv, ConnectDial, Goto, Locked, Readers
  <2> QED BY <2>1, <2>2 DEF IInv, LockInv
<1>3. CASE /\ Fault /\ cmux' = NoActor /\ ConnectReturn(a, TRUE)
           /\ UNCHANGED conn
  <2>1. /\ pc' \in [Actors -> PCs] /\ fr' \in [Actors -> Frames]
        /\ pc'[a] \in {"r_loop", "idle"}
        /\ \A x \in Actors : x # a => pc'[x] = pc[x]
    BY <1>3, ConnectReturnType DEF IInv
  <2>2. TypeOK'
    BY <1>3, <2>1, ClientAssumption DEF IInv, TypeOK, ConnectDial, Fault
  <2>3. LockInv'
    BY <1>1, <1>3, <2>1, SetFacts DEF IInv, TypeOK, LockInv, ConnectDial, Locked
  <2> QED BY <2>2, <2>3 DEF IInv, LockInv
<1> QED BY <1>2, <1>3 DEF ConnectDial

LEMMA ConnectInitStep ==
  ASSUME IInv, NEW a \in Actors, ConnectInit(a)
  PROVE  IInv'
<1>1. TypeOK'
  BY ClientAssumption DEF IInv, TypeOK, ConnectInit, Push, Goto, PCs
<1>2. LockInv'
  BY DEF IInv, TypeOK, LockInv, ConnectInit, Goto, Locked, sessVars, ctlVars
<1> QED BY <1>1, <1>2 DEF IInv, LockInv

\* Moving one actor to a label keeps the pc map typed.
LEMMA GotoType ==
  ASSUME TypeOK, NEW a \in Actors, NEW l \in PCs, Goto(a, l)
  PROVE  pc' \in [Actors -> PCs]
BY DEF TypeOK, Goto

\* A frame updated field by field stays a frame.
LEMMA FrameFields ==
  ASSUME NEW f \in Frames, NEW b \in BOOLEAN, NEW s \in Sessions
  PROVE  /\ [f EXCEPT !.failed = b] \in Frames
         /\ [f EXCEPT !.inRec = b] \in Frames
         /\ [f EXCEPT !.rs = s] \in Frames
BY DEF Frames

\* A cleanup run by an actor that does not hold c.cmux, while nobody does,
\* keeps the lock conjuncts, provided no actor enters the locked steps.
LEMMA CleanupLock ==
  ASSUME IInv, NEW all \in BOOLEAN, cleanup(all),
         UNCHANGED <<cur, nsess, cmux>>,
         \A x \in Actors : pc'[x] \notin Locked
  PROVE  LockInv'
<1>1. cmux = NoActor
  BY DEF cleanup
<1>2. \A s \in Sessions : conn'[s] = "none" <=> conn[s] = "none"
  BY CleanupType DEF IInv
<1>3. \A x \in Actors : cmux' # x
  BY <1>1, SetFacts
<1> QED BY <1>1, <1>2, <1>3 DEF IInv, TypeOK, LockInv, Locked

LEMMA ConnectSetupStep ==
  ASSUME IInv, NEW a \in Actors, ConnectSetup(a)
  PROVE  IInv'
<1>1. cmux = a /\ cur \in Readers /\ pc[a] = "c_setup"
  BY SetFacts DEF IInv, ConnectSetup, Locked
<1>2. \A x \in Actors : x # a => pc[x] \notin Locked
  BY <1>1 DEF IInv
<1>3. cmux' = NoActor /\ UNCHANGED <<cur, nsess, conn>>
  BY DEF ConnectSetup
<1>4. CASE /\ Fault /\ ConnectReturn(a, TRUE)
           /\ UNCHANGED <<connected, closeRead, reconnecting, tries, epc>>
  <2>1. /\ pc' \in [Actors -> PCs] /\ fr' \in [Actors -> Frames]
        /\ pc'[a] \in {"r_loop", "idle"}
        /\ \A x \in Actors : x # a => pc'[x] = pc[x]
    BY <1>4, ConnectReturnType DEF IInv
  <2>2. TypeOK'
    BY <1>3, <1>4, <2>1, SetFacts, ClientAssumption DEF IInv, TypeOK, ConnectSetup, Fault
  <2>3. \A x \in Actors : pc'[x] \notin Locked
    BY <1>2, <2>1 DEF Locked
  <2>4. LockInv'
    BY <1>3, <2>3, SetFacts DEF IInv, LockInv, Locked
  <2> QED BY <2>2, <2>4 DEF IInv, LockInv
<1>5. CASE /\ tries' = 0 /\ reconnecting' = FALSE
           /\ connected' = [connected EXCEPT ![cur] = TRUE]
           /\ closeRead' = cur
           /\ epc' = [epc EXCEPT ![cur] = "select"]
           /\ pc' = [pc EXCEPT ![a] = IF fr[a].inRec THEN "r_loop" ELSE "idle",
                               ![cur] = "top"]
           /\ fr' = [fr EXCEPT ![a] = IF fr[a].inRec THEN [@ EXCEPT !.failed = FALSE]
                                                     ELSE Blank]
           /\ UNCHANGED faults
  <2>1. fr' \in [Actors -> Frames]
    <3>1. CASE fr[a].inRec
      BY <1>5, <3>1, FrameFields DEF IInv, TypeOK
    <3>2. CASE ~fr[a].inRec
      BY <1>5, <3>2, SetFacts DEF IInv, TypeOK
    <3> QED BY <3>1, <3>2
  <2>2. pc' \in [Actors -> PCs]
    BY <1>5 DEF IInv, TypeOK, PCs
  <2>3. TypeOK'
    BY <1>1, <1>3, <1>5, <2>1, <2>2, SetFacts DEF IInv, TypeOK, ConnectSetup, Readers
  <2>4. \A x \in Actors : pc'[x] \notin Locked
    BY <1>2, <1>5 DEF IInv, TypeOK, Locked
  <2>5. LockInv'
    BY <1>3, <2>4, SetFacts DEF IInv, LockInv, Locked
  <2> QED BY <2>3, <2>5 DEF IInv, LockInv
<1> QED BY <1>4, <1>5 DEF ConnectSetup

\* An actor outside the locked steps moves to another label outside them,
\* leaving the lock's state alone.
LEMMA OwnMove ==
  ASSUME IInv, NEW a \in Actors, NEW l \in PCs \ Locked, pc[a] \notin Locked,
         Goto(a, l), UNCHANGED <<cur, nsess, conn, cmux>>
  PROVE  LockInv' /\ pc' \in [Actors -> PCs]
BY DEF IInv, LockInv, TypeOK, Goto, Locked

\* reconnect returns: the actor's label and frame.
LEMMA ReconnectReturnType ==
  ASSUME TypeOK, NEW a \in Actors, ReconnectReturn(a)
  PROVE  /\ fr' \in [Actors -> Frames]
         /\ \E l \in {"idle", "done"} : Goto(a, l)
BY SetFacts DEF TypeOK, ReconnectReturn

LEMMA ReconnectCheckStep ==
  ASSUME IInv, NEW a \in Actors, ReconnectCheck(a)
  PROVE  IInv'
<1>1. pc[a] \notin Locked /\ UNCHANGED <<cur, nsess, conn, cmux>>
  BY DEF ReconnectCheck, Locked
<1>2. CASE reconnecting
  <2>1. fr' \in [Actors -> Frames] /\ \E l \in {"idle", "done"} : Goto(a, l)
    BY <1>2, ReconnectReturnType DEF ReconnectCheck, IInv
  <2>2. LockInv' /\ pc' \in [Actors -> PCs]
    BY <1>1, <2>1, OwnMove DEF PCs, Locked
  <2> QED BY <2>1, <2>2 DEF IInv, LockInv, TypeOK, ReconnectCheck
<1>3. CASE ~reconnecting
  <2>1. Goto(a, "r_set") /\ fr' = fr
    BY <1>3 DEF ReconnectCheck
  <2>2. LockInv' /\ pc' \in [Actors -> PCs]
    BY <1>1, <2>1, OwnMove DEF PCs, Locked
  <2> QED BY <2>1, <2>2 DEF IInv, LockInv, TypeOK, ReconnectCheck
<1> QED BY <1>2, <1>3

LEMMA ReconnectSetStep ==
  ASSUME IInv, NEW a \in Actors, ReconnectSet(a)
  PROVE  IInv'
<1>1. pc[a] \notin Locked /\ UNCHANGED <<cur, nsess, conn, cmux>> /\ Goto(a, "r_cleanup")
  BY DEF ReconnectSet, Locked
<1>2. LockInv' /\ pc' \in [Actors -> PCs]
  BY <1>1, OwnMove DEF PCs, Locked
<1> QED BY <1>2 DEF IInv, LockInv, TypeOK, ReconnectSet

LEMMA ReconnectCleanupStep ==
  ASSUME IInv, NEW a \in Actors, ReconnectCleanup(a)
  PROVE  IInv'
<1>1. cleanup(FALSE) /\ cmux = NoActor /\ UNCHANGED <<cur, nsess, cmux>>
  BY DEF ReconnectCleanup, cleanup
<1>2. \A x \in Actors : pc[x] \notin Locked
  BY <1>1, SetFacts DEF IInv
<1>3. /\ conn' \in [Sessions -> {"none", "open", "closed"}]
      /\ execCancelled' \in SUBSET Sessions
      /\ loopCancelled' \in SUBSET Users
  BY <1>1, CleanupType DEF IInv
<1>4. CASE Retries < 1 /\ ~fr[a].remote
  <2>1. fr' \in [Actors -> Frames] /\ \E l \in {"idle", "done"} : Goto(a, l)
        /\ reconnecting' = FALSE
    BY <1>4, ReconnectReturnType DEF ReconnectCleanup, IInv
  <2>2. pc' \in [Actors -> PCs] /\ \A x \in Actors : pc'[x] \notin Locked
    BY <1>2, <2>1 DEF IInv, TypeOK, Goto, PCs, Locked
  <2>3. LockInv'
    BY <1>1, <2>2, CleanupLock
  <2> QED BY <1>3, <2>1, <2>2, <2>3 DEF IInv, LockInv, TypeOK, ReconnectCleanup
<1>5. CASE ~(Retries < 1 /\ ~fr[a].remote)
  <2>1. fr' = [fr EXCEPT ![a].inRec = TRUE] /\ Goto(a, "c_cleanup")
        /\ UNCHANGED reconnecting
    BY <1>5 DEF ReconnectCleanup
  <2>2. fr' \in [Actors -> Frames]
    BY <2>1, FrameFields, SetFacts DEF IInv, TypeOK
  <2>3. pc' \in [Actors -> PCs] /\ \A x \in Actors : pc'[x] \notin Locked
    BY <1>2, <2>1 DEF IInv, TypeOK, Goto, PCs, Locked
  <2>4. LockInv'
    BY <1>1, <2>3, CleanupLock
  <2> QED BY <1>3, <2>2, <2>3, <2>4, <2>1 DEF IInv, LockInv, TypeOK, ReconnectCleanup
<1> QED BY <1>4, <1>5

LEMMA ReconnectLoopStep ==
  ASSUME IInv, NEW a \in Actors, ReconnectLoop(a)
  PROVE  IInv'
<1>1. pc[a] = "r_loop" /\ UNCHANGED <<cur, nsess, conn, cmux, fr>>
  BY DEF ReconnectLoop
<1>2. CASE fr[a].failed /\ tries < Retries
  <2>1. tries' = tries + 1 /\ pc' = pc
    BY <1>2 DEF ReconnectLoop
  <2>2. tries' \in Nat
    BY <2>1 DEF IInv, TypeOK
  <2> QED BY <1>1, <2>1, <2>2 DEF IInv, LockInv, TypeOK, ReconnectLoop
<1>3. CASE ~(fr[a].failed /\ tries < Retries)
  <2>1. Goto(a, "r_end") /\ tries' = tries
    BY <1>3 DEF ReconnectLoop
  <2>2. LockInv' /\ pc' \in [Actors -> PCs]
    BY <1>1, <2>1, OwnMove DEF PCs, Locked
  <2> QED BY <1>1, <2>1, <2>2 DEF IInv, LockInv, TypeOK, ReconnectLoop
<1> QED BY <1>2, <1>3

LEMMA ReconnectEndStep ==
  ASSUME IInv, NEW a \in Actors, ReconnectEnd(a)
  PROVE  IInv'
<1>1. pc[a] \notin Locked /\ UNCHANGED <<cur, nsess, cmux>>
      /\ fr' \in [Actors -> Frames] /\ \E l \in {"idle", "done"} : Goto(a, l)
  BY ReconnectReturnType DEF ReconnectEnd, IInv, Locked
<1>2. pc' \in [Actors -> PCs]
  BY <1>1 DEF IInv, TypeOK, Goto, PCs
<1>3. CASE fr[a].failed
  <2>1. cleanup(FALSE) /\ cmux = NoActor
    BY <1>3 DEF ReconnectEnd, cleanup
  <2>2. \A x \in Actors : pc'[x] \notin Locked
    BY <1>1, <2>1, SetFacts DEF IInv, TypeOK, Goto, Locked
  <2>3. LockInv'
    BY <1>1, <2>1, <2>2, CleanupLock
  <2>4. /\ conn' \in [Sessions -> {"none", "open", "closed"}]
        /\ execCancelled' \in SUBSET Sessions
        /\ loopCancelled' \in SUBSET Users
    BY <2>1, CleanupType DEF IInv
  <2> QED BY <1>1, <1>2, <2>3, <2>4 DEF IInv, LockInv, TypeOK, ReconnectEnd
<1>4. CASE ~fr[a].failed
  <2>1. UNCHANGED <<conn, execCancelled, loopCancelled>>
    BY <1>4 DEF ReconnectEnd
  <2>2. LockInv'
    BY <1>1, <2>1, OwnMove DEF PCs, Locked
  <2> QED BY <1>1, <1>2, <2>1, <2>2 DEF IInv, LockInv, TypeOK, ReconnectEnd
<1> QED BY <1>3, <1>4

-----------------------------------------------------------------------------
(* readLoop and execLoop steps.                                            *)

LEMMA ReadTopStep ==
  ASSUME IInv, NEW r \in Readers, ReadTop(r)
  PROVE  IInv'
<1>1. r \in Actors /\ pc[r] \notin Locked /\ UNCHANGED <<cur, nsess, conn, cmux>>
  BY DEF ReadTop, Actors, Locked
<1>2. CASE conn[cur] = "none"
  BY <1>2 DEF ReadTop, IInv, LockInv, TypeOK
<1>3. CASE conn[cur] # "none"
  <2>1. fr' = [fr EXCEPT ![r].rs = cur] /\ Goto(r, "blocked")
    BY <1>3 DEF ReadTop
  <2>2. fr' \in [Actors -> Frames]
    BY <1>1, <2>1, FrameFields DEF IInv, TypeOK
  <2>3. LockInv' /\ pc' \in [Actors -> PCs]
    BY <1>1, <2>1, OwnMove DEF PCs, Locked
  <2> QED BY <1>3, <2>2, <2>3 DEF ReadTop, IInv, LockInv, TypeOK
<1> QED BY <1>2, <1>3

LEMMA ReadDecodeStep ==
  ASSUME IInv, NEW r \in Readers, ReadDecode(r)
  PROVE  IInv'
<1>1. r \in Actors /\ pc[r] \notin Locked /\ UNCHANGED <<cur, nsess, conn, cmux>>
  BY DEF ReadDecode, Actors, Locked
<1>2. fr' = [fr EXCEPT ![r] = Blank] /\ fr' \in [Actors -> Frames]
  BY SetFacts DEF ReadDecode, ReadFailed, IInv, TypeOK
<1>3. \E l \in {"push", "top", "r_check"} : Goto(r, l)
  BY DEF ReadDecode, ReadFailed
<1>4. LockInv' /\ pc' \in [Actors -> PCs]
  BY <1>1, <1>3, OwnMove DEF PCs, Locked
<1>5. lines' \in 0..MaxLines /\ faults' \in 0..MaxFaults
  BY ClientAssumption DEF ReadDecode, ReadFailed, Fault, IInv, TypeOK
<1> QED BY <1>2, <1>4, <1>5 DEF ReadDecode, ReadFailed, IInv, LockInv, TypeOK

LEMMA ReadPushStep ==
  ASSUME IInv, NEW r \in Readers, ReadPush(r)
  PROVE  IInv'
<1>1. r \in Actors /\ pc[r] \notin Locked /\ UNCHANGED <<cur, nsess, conn, cmux>>
      /\ Goto(r, "top")
  BY DEF ReadPush, Actors, Locked
<1>2. LockInv' /\ pc' \in [Actors -> PCs]
  BY <1>1, OwnMove DEF PCs, Locked
<1>3. queue' \in 0..QueueCap
  BY ClientAssumption DEF ReadPush, Push, IInv, TypeOK
<1> QED BY <1>2, <1>3 DEF ReadPush, IInv, LockInv, TypeOK

LEMMA ExecStep ==
  ASSUME IInv, NEW s \in Sessions, ExecSelect(s) \/ ExecRun(s)
  PROVE  IInv'
<1>1. queue' \in 0..QueueCap /\ epc' \in [Sessions -> {"off", "select", "run", "done"}]
  <2>1. CASE ExecSelect(s) /\ queue > 0 /\ queue' = queue - 1
              /\ epc' = [epc EXCEPT ![s] = "run"]
    BY <2>1, ClientAssumption DEF IInv, TypeOK
  <2>2. CASE ExecSelect(s) /\ UNCHANGED queue /\ epc' = [epc EXCEPT ![s] = "done"]
    BY <2>2 DEF IInv, TypeOK
  <2>3. CASE ExecRun(s)
    BY <2>3 DEF ExecRun, IInv, TypeOK
  <2> QED BY <2>1, <2>2, <2>3 DEF ExecSelect
<1> QED BY <1>1 DEF ExecSelect, ExecRun, IInv, LockInv, TypeOK

-----------------------------------------------------------------------------
(* The public API.                                                         *)

LEMMA UserCallStep ==
  ASSUME IInv, NEW u \in Users, NEW l \in {"c_cleanup", "r_check", "q_push"},
         NEW f \in Frames, UserCall(u, l, f)
  PROVE  IInv'
<1>1. u \in Actors /\ pc[u] \notin Locked /\ UNCHANGED <<cur, nsess, conn, cmux>>
      /\ Goto(u, l)
  BY DEF UserCall, Actors, Locked
<1>2. LockInv' /\ pc' \in [Actors -> PCs]
  BY <1>1, OwnMove DEF PCs, Locked
<1>3. calls' \in 0..MaxCalls /\ fr' \in [Actors -> Frames]
  BY <1>1, ClientAssumption DEF UserCall, IInv, TypeOK
<1> QED BY <1>2, <1>3 DEF UserCall, IInv, LockInv, TypeOK

LEMMA CallFrames ==
  \A b \in BOOLEAN : /\ [Blank EXCEPT !.remote = TRUE] \in Frames
                     /\ [Blank EXCEPT !.stop = b] \in Frames
BY SetFacts DEF Blank, Frames

LEMMA LoopStep ==
  ASSUME IInv, NEW u \in Users, Loop(u)
  PROVE  IInv'
<1>1. u \in Actors /\ pc[u] \notin Locked /\ UNCHANGED <<cur, nsess, conn, cmux>>
      /\ Goto(u, "l_wait")
  BY DEF Loop, Actors, Locked
<1>2. LockInv' /\ pc' \in [Actors -> PCs]
  BY <1>1, OwnMove DEF PCs, Locked
<1>3. calls' \in 0..MaxCalls /\ closeLoop' \in Users \cup {NoActor}
      /\ loopCancelled' \in SUBSET Users
  BY ClientAssumption DEF Loop, IInv, TypeOK
<1> QED BY <1>2, <1>3 DEF Loop, IInv, LockInv, TypeOK

LEMMA QuitPushStep ==
  ASSUME IInv, NEW u \in Users, QuitPush(u) \/ StopPush(u)
  PROVE  IInv'
<1>1. u \in Actors /\ pc[u] \notin Locked /\ UNCHANGED <<cur, nsess, conn, cmux>>
      /\ \E l \in {"q_cleanup", "idle"} : Goto(u, l)
  BY DEF QuitPush, StopPush, Actors, Locked
<1>2. LockInv' /\ pc' \in [Actors -> PCs]
  BY <1>1, OwnMove DEF PCs, Locked
<1>3. queue' \in 0..QueueCap /\ fr' \in [Actors -> Frames]
  BY <1>1, SetFacts, ClientAssumption DEF QuitPush, StopPush, Push, IInv, TypeOK
<1> QED BY <1>2, <1>3 DEF QuitPush, StopPush, IInv, LockInv, TypeOK

LEMMA QuitCleanupStep ==
  ASSUME IInv, NEW u \in Users, QuitCleanup(u)
  PROVE  IInv'
<1>1. u \in Actors /\ cleanup(FALSE) /\ cmux = NoActor /\ UNCHANGED <<cur, nsess, cmux>>
  BY DEF QuitCleanup, cleanup, Actors
<1>2. \A x \in Actors : pc[x] \notin Locked
  BY <1>1, SetFacts DEF IInv
<1>3. pc' \in [Actors -> PCs] /\ \A x \in Actors : pc'[x] \notin Locked
  BY <1>1, <1>2 DEF QuitCleanup, Goto, IInv, TypeOK, PCs, Locked
<1>4. fr' \in [Actors -> Frames]
  BY <1>1, SetFacts DEF QuitCleanup, IInv, TypeOK
<1>5. /\ conn' \in [Sessions -> {"none", "open", "closed"}]
      /\ execCancelled' \in SUBSET Sessions
      /\ loopCancelled' \in SUBSET Users
  BY <1>1, CleanupType DEF IInv
<1>6. LockInv'
  BY <1>1, <1>3, CleanupLock
<1> QED BY <1>3, <1>4, <1>5, <1>6 DEF QuitCleanup, IInv, LockInv, TypeOK

-----------------------------------------------------------------------------

\* Every step of Next, and a stuttering step, preserves IInv.
LEMMA NextIInv == IInv /\ [Next]_vars => IInv'
<1> SUFFICES ASSUME IInv, [Next]_vars PROVE IInv'
  OBVIOUS
<1>1. CASE \E a \in Actors : Step(a)
  <2> PICK a \in Actors : Step(a)
    BY <1>1
  <2> QED BY ConnectCleanupStep, ConnectLockStep, ConnectDialStep, ConnectInitStep,
             ConnectSetupStep, ReconnectCheckStep, ReconnectSetStep,
             ReconnectCleanupStep, ReconnectLoopStep, ReconnectEndStep DEF Step
<1>2. CASE \E r \in Readers : ReadTop(r) \/ ReadDecode(r) \/ ReadPush(r)
  BY <1>2, ReadTopStep, ReadDecodeStep, ReadPushStep
<1>3. CASE \E s \in Sessions : ExecSelect(s) \/ ExecRun(s)
  BY <1>3, ExecStep
<1>4. CASE \E u \in Users : \/ Connect(u) \/ Reconnect(u)
                            \/ \E b \in BOOLEAN : Quit(u, b)
                            \/ QuitPush(u) \/ QuitCleanup(u) \/ StopPush(u)
                            \/ Loop(u)
  <2> PICK u \in Users : \/ Connect(u) \/ Reconnect(u)
                         \/ \E b \in BOOLEAN : Quit(u, b)
                         \/ QuitPush(u) \/ QuitCleanup(u) \/ StopPush(u)
                         \/ Loop(u)
    BY <1>4
  <2>1. CASE Connect(u)
    BY <2>1, UserCallStep, SetFacts DEF Connect
  <2>2. CASE Reconnect(u)
    BY <2>2, UserCallStep, CallFrames DEF Reconnect
  <2>3. CASE \E b \in BOOLEAN : Quit(u, b)
    BY <2>3, UserCallStep, CallFrames DEF Quit
  <2> QED BY <2>1, <2>2, <2>3, QuitPushStep, QuitCleanupStep, LoopStep
<1>5. CASE Terminated \/ Halted \/ UNCHANGED vars
  BY <1>5 DEF Terminated, Halted, vars, IInv, LockInv, TypeOK
<1> QED BY <1>1, <1>2, <1>3, <1>4, <1>5 DEF Next

\* The type invariant holds in every reachable state of the supervisor,
\* for every number of users and sessions: in particular the Events
\* channel never holds more events than its capacity (client.go:146),
\* whatever the interleaving of Connect, reconnect, quit and the loops.
THEOREM TypeCorrect == Spec => []TypeOK
<1>1. Init => IInv
  BY InitIInv
<1>2. IInv /\ [Next]_vars => IInv'
  BY NextIInv
<1>3. IInv => TypeOK
  BY DEF IInv
<1> QED BY <1>1, <1>2, <1>3, PTL DEF Spec

\* A Connect that holds c.cmux (client.go:299-301) owns its fresh session:
\* no concurrent cleanup, reconnect or quit closes its connection before
\* Connect returns, however the goroutines interleave.
THEOREM SetupNotTornDownHolds == Spec => []SetupNotTornDown
<1>1. Init => IInv
  BY InitIInv
<1>2. IInv /\ [Next]_vars => IInv'
  BY NextIInv
<1>3. IInv => SetupNotTornDown
  BY DEF IInv, SetupNotTornDown, Locked
<1> QED BY <1>1, <1>2, <1>3, PTL DEF Spec

=============================================================================
