------------------------ MODULE ClientReconnectProofs ------------------------
(***************************************************************************)
(* Proof that c.reconnecting is never left set by a reconnect that has    *)
(* returned (ReconnectFlagSound), for every number of users, sessions and *)
(* retries.  The flag is set only by ReconnectSet; the goroutine that set *)
(* it stays a witness until it clears the flag itself (the deferred reset *)
(* of reconnect, or the early return when no retries are configured) or a *)
(* successful Connect clears it (client.go:347-348).  The invariant is     *)
(* inductive on top of IInv of ClientProofs, which supplies the types.     *)
(***************************************************************************)
EXTENDS ClientProofs

USE DEF sessVars, ctlVars, budgetVars

\* a is inside reconnect past the step that set the flag.
RecWitness(a) == InReconnect(a) /\ pc[a] # "r_set"

\* The places of such a witness.
WPCs == {"r_cleanup", "r_loop", "r_end",
         "c_cleanup", "c_lock", "c_dial", "c_init", "c_setup"}

LEMMA WitnessPlace ==
  ASSUME NEW a, RecWitness(a)
  PROVE  /\ pc[a] \in WPCs
         /\ pc[a] \in {"c_cleanup", "c_lock", "c_dial", "c_init", "c_setup"}
              => fr[a].inRec
BY DEF RecWitness, InReconnect, WPCs

\* A step that moves only the goroutine a, and keeps a a witness if it
\* was one, keeps a witness.
LEMMA WitnessKept ==
  ASSUME NEW a, ReconnectFlagSound, reconnecting,
         \A x \in Actors \ {a} : pc'[x] = pc[x] /\ fr'[x] = fr[x],
         RecWitness(a) => RecWitness(a)'
  PROVE  \E w \in Actors : RecWitness(w)'
<1>1. PICK w \in Actors : RecWitness(w)
  BY DEF ReconnectFlagSound, RecWitness
<1>2. CASE w = a
  BY <1>1, <1>2
<1>3. CASE w # a
  <2>1. pc'[w] = pc[w] /\ fr'[w] = fr[w]
    BY <1>3
  <2> QED BY <1>1, <2>1 DEF RecWitness, InReconnect
<1> QED BY <1>2, <1>3

\* The goroutine a leaves pc[a] for l and its frame only changes by f.
LEMMA GotoFrame ==
  ASSUME TypeOK, NEW a \in Actors, NEW l, Goto(a, l)
  PROVE  \A x \in Actors \ {a} : pc'[x] = pc[x]
BY DEF TypeOK, Goto

LEMMA OwnFrame ==
  ASSUME TypeOK, NEW a \in Actors, NEW g,
         fr' = [fr EXCEPT ![a] = g] \/ fr' = fr
  PROVE  \A x \in Actors \ {a} : fr'[x] = fr[x]
BY DEF TypeOK

\* The one step of a goroutine not at a witness place: it cannot be the
\* witness, and the flag keeps its value.
LEMMA NotWitnessStep ==
  ASSUME TypeOK, ReconnectFlagSound, NEW a \in Actors, pc[a] \notin WPCs,
         UNCHANGED reconnecting,
         \A x \in Actors \ {a} : pc'[x] = pc[x] /\ fr'[x] = fr[x]
  PROVE  ReconnectFlagSound'
<1> SUFFICES ASSUME reconnecting' PROVE \E w \in Actors : RecWitness(w)'
  BY DEF ReconnectFlagSound, RecWitness
<1>1. ~RecWitness(a)
  BY WitnessPlace
<1> QED BY <1>1, WitnessKept

-----------------------------------------------------------------------------
(* One lemma per action.                                                   *)

\* Connect inside reconnect keeps its frame (inRec) on the steps that
\* move it from c_cleanup to c_setup.
LEMMA ConnectMoveFlag ==
  ASSUME IInv, ReconnectFlagSound, NEW a \in Actors,
         ConnectCleanup(a) \/ ConnectLock(a) \/ ConnectInit(a)
         \/ (ConnectDial(a) /\ pc'[a] = "c_init")
  PROVE  ReconnectFlagSound'
<1> SUFFICES ASSUME reconnecting' PROVE \E w \in Actors : RecWitness(w)'
  BY DEF ReconnectFlagSound, RecWitness
<1>1. /\ UNCHANGED <<reconnecting, fr>>
      /\ pc[a] \in {"c_cleanup", "c_lock", "c_dial", "c_init"}
      /\ pc'[a] \in {"c_lock", "c_dial", "c_init", "c_setup"}
      /\ \E l \in PCs : Goto(a, l)
  <2>1. CASE ConnectCleanup(a) \/ ConnectLock(a) \/ ConnectInit(a)
    BY <2>1 DEF ConnectCleanup, ConnectLock, ConnectInit, Goto, IInv, TypeOK, PCs
  <2>2. CASE ConnectDial(a) /\ pc'[a] = "c_init"
    <3>1. pc[a] = "c_dial" /\ (Goto(a, "c_init") \/ ConnectReturn(a, TRUE))
      BY <2>2 DEF ConnectDial
    <3>2. ~ConnectReturn(a, TRUE)
      BY <2>2 DEF ConnectReturn, Goto, IInv, TypeOK
    <3>3. Goto(a, "c_init") /\ UNCHANGED <<reconnecting, fr>>
      BY <2>2, <3>1, <3>2 DEF ConnectDial
    <3>4. "c_init" \in PCs
      BY DEF PCs
    <3> QED BY <2>2, <3>1, <3>3, <3>4
  <2> QED BY <2>1, <2>2
<1>2. \A x \in Actors \ {a} : pc'[x] = pc[x] /\ fr'[x] = fr[x]
  BY <1>1, GotoFrame DEF IInv
<1>3. RecWitness(a) => RecWitness(a)'
  BY <1>1 DEF RecWitness, InReconnect
<1> QED BY <1>1, <1>2, <1>3, WitnessKept

\* Connect returns an error: inside reconnect it goes back to the retry
\* loop with its frame.
LEMMA ConnectFailFlag ==
  ASSUME IInv, ReconnectFlagSound, NEW a \in Actors,
         pc[a] \in {"c_dial", "c_setup"}, ConnectReturn(a, TRUE),
         UNCHANGED reconnecting
  PROVE  ReconnectFlagSound'
<1> SUFFICES ASSUME reconnecting' PROVE \E w \in Actors : RecWitness(w)'
  BY DEF ReconnectFlagSound, RecWitness
<1>1. \A x \in Actors \ {a} : pc'[x] = pc[x] /\ fr'[x] = fr[x]
  BY ConnectReturnType, GotoFrame, OwnFrame DEF ConnectReturn, IInv
<1>2. RecWitness(a) => RecWitness(a)'
  <2> SUFFICES ASSUME RecWitness(a) PROVE RecWitness(a)'
    OBVIOUS
  <2>1. fr[a].inRec
    BY WitnessPlace
  <2>2. pc'[a] = "r_loop"
    BY <2>1 DEF ConnectReturn, Goto, IInv, TypeOK
  <2> QED BY <2>2 DEF RecWitness, InReconnect
<1> QED BY <1>1, <1>2, WitnessKept

LEMMA ConnectDialFlag ==
  ASSUME IInv, ReconnectFlagSound, NEW a \in Actors, ConnectDial(a)
  PROVE  ReconnectFlagSound'
<1>1. CASE pc'[a] = "c_init"
  BY <1>1, ConnectMoveFlag
<1>2. CASE pc'[a] # "c_init"
  <2>1. ConnectReturn(a, TRUE) /\ pc[a] = "c_dial" /\ UNCHANGED reconnecting
    BY <1>2 DEF ConnectDial, Goto, IInv, TypeOK
  <2> QED BY <2>1, ConnectFailFlag
<1> QED BY <1>1, <1>2

\* A successful Connect clears the flag (client.go:347-348).
LEMMA ConnectSetupFlag ==
  ASSUME IInv, ReconnectFlagSound, NEW a \in Actors, ConnectSetup(a)
  PROVE  ReconnectFlagSound'
<1>1. CASE reconnecting' = FALSE
  BY <1>1 DEF ReconnectFlagSound
<1>2. CASE reconnecting' # FALSE
  <2>1. ConnectReturn(a, TRUE) /\ pc[a] = "c_setup" /\ UNCHANGED reconnecting
    BY <1>2 DEF ConnectSetup
  <2> QED BY <2>1, ConnectFailFlag
<1> QED BY <1>1, <1>2

\* reconnect's plain read of the flag: the goroutine at r_check is no
\* witness, and the flag is unchanged.
LEMMA ReconnectCheckFlag ==
  ASSUME IInv, ReconnectFlagSound, NEW a \in Actors, ReconnectCheck(a)
  PROVE  ReconnectFlagSound'
<1>1. pc[a] \notin WPCs /\ UNCHANGED reconnecting
  BY DEF ReconnectCheck, WPCs
<1>2. \A x \in Actors \ {a} : pc'[x] = pc[x] /\ fr'[x] = fr[x]
  BY ReconnectReturnType, GotoFrame, OwnFrame DEF ReconnectCheck, ReconnectReturn, IInv
<1> QED BY <1>1, <1>2, NotWitnessStep DEF IInv

\* c.reconnecting = true: the goroutine that sets it is the witness.
LEMMA ReconnectSetFlag ==
  ASSUME IInv, NEW a \in Actors, ReconnectSet(a)
  PROVE  ReconnectFlagSound'
<1>1. pc'[a] = "r_cleanup"
  BY DEF ReconnectSet, Goto, IInv, TypeOK
<1>2. RecWitness(a)'
  BY <1>1 DEF RecWitness, InReconnect
<1> QED BY <1>2 DEF ReconnectFlagSound, RecWitness

\* After its cleanup reconnect either gives up, clearing the flag, or
\* calls Connect with inRec set.
LEMMA ReconnectCleanupFlag ==
  ASSUME IInv, ReconnectFlagSound, NEW a \in Actors, ReconnectCleanup(a)
  PROVE  ReconnectFlagSound'
<1>1. CASE Retries < 1 /\ ~fr[a].remote
  BY <1>1 DEF ReconnectCleanup, ReconnectFlagSound
<1>2. CASE ~(Retries < 1 /\ ~fr[a].remote)
  <2> SUFFICES ASSUME reconnecting' PROVE \E w \in Actors : RecWitness(w)'
    BY DEF ReconnectFlagSound, RecWitness
  <2>1. /\ fr' = [fr EXCEPT ![a].inRec = TRUE]
        /\ Goto(a, "c_cleanup")
        /\ UNCHANGED reconnecting
    BY <1>2 DEF ReconnectCleanup
  <2>2. fr'[a].inRec /\ pc'[a] = "c_cleanup"
    BY <2>1 DEF Goto, IInv, TypeOK
  <2>3. \A x \in Actors \ {a} : pc'[x] = pc[x] /\ fr'[x] = fr[x]
    BY <2>1, GotoFrame DEF IInv, TypeOK
  <2>4. RecWitness(a)'
    BY <2>2 DEF RecWitness, InReconnect
  <2> QED BY <2>1, <2>3, <2>4, WitnessKept
<1> QED BY <1>1, <1>2

\* The retry loop stays at r_loop or goes on to r_end.
LEMMA ReconnectLoopFlag ==
  ASSUME IInv, ReconnectFlagSound, NEW a \in Actors, ReconnectLoop(a)
  PROVE  ReconnectFlagSound'
<1> SUFFICES ASSUME reconnecting' PROVE \E w \in Actors : RecWitness(w)'
  BY DEF ReconnectFlagSound, RecWitness
<1>1. /\ UNCHANGED <<reconnecting, fr>>
      /\ pc' = pc \/ Goto(a, "r_end")
  BY DEF ReconnectLoop
<1>2. \A x \in Actors \ {a} : pc'[x] = pc[x] /\ fr'[x] = fr[x]
  BY <1>1, GotoFrame DEF IInv
<1>3. pc'[a] \in {"r_loop", "r_end"}
  BY <1>1 DEF ReconnectLoop, Goto, IInv, TypeOK
<1>4. RecWitness(a)'
  BY <1>3 DEF RecWitness, InReconnect
<1> QED BY <1>1, <1>2, <1>4, WitnessKept

\* The deferred c.reconnecting = false of reconnect.
LEMMA ReconnectEndFlag ==
  ASSUME NEW a \in Actors, ReconnectEnd(a)
  PROVE  ReconnectFlagSound'
BY DEF ReconnectEnd, ReconnectFlagSound

\* The steps of a readLoop: a reader at top, blocked or push is not
\* inside reconnect.
LEMMA ReaderFlag ==
  ASSUME IInv, ReconnectFlagSound, NEW r \in Readers,
         ReadTop(r) \/ ReadDecode(r) \/ ReadPush(r)
  PROVE  ReconnectFlagSound'
<1>1. r \in Actors /\ pc[r] \notin WPCs /\ UNCHANGED reconnecting
  BY DEF ReadTop, ReadDecode, ReadPush, Actors, WPCs
<1>2. (pc' = pc \/ \E l \in PCs : Goto(r, l))
      /\ \E g : fr' = [fr EXCEPT ![r] = g] \/ fr' = fr
  <2>1. CASE ReadTop(r)
    BY <2>1 DEF ReadTop, PCs
  <2>2. CASE ReadDecode(r)
    BY <2>2 DEF ReadDecode, ReadFailed, PCs
  <2>3. CASE ReadPush(r)
    BY <2>3 DEF ReadPush, PCs
  <2> QED BY <2>1, <2>2, <2>3
<1>3. \A x \in Actors \ {r} : pc'[x] = pc[x] /\ fr'[x] = fr[x]
  BY <1>1, <1>2, GotoFrame, OwnFrame DEF IInv
<1> QED BY <1>1, <1>3, NotWitnessStep DEF IInv

\* The execLoops touch no goroutine state of reconnect.
LEMMA ExecFlag ==
  ASSUME ReconnectFlagSound, NEW s \in Sessions, ExecSelect(s) \/ ExecRun(s)
  PROVE  ReconnectFlagSound'
BY DEF ExecSelect, ExecRun, ReconnectFlagSound, InReconnect

\* The user calls and quit/Stop/Loop start from places outside reconnect.
LEMMA UserFlag ==
  ASSUME IInv, ReconnectFlagSound, NEW u \in Users,
         \/ \E l \in {"c_cleanup", "r_check", "q_push"}, f \in Frames : UserCall(u, l, f)
         \/ QuitPush(u) \/ QuitCleanup(u) \/ StopPush(u) \/ Loop(u)
  PROVE  ReconnectFlagSound'
<1>1. u \in Actors /\ pc[u] \notin WPCs /\ UNCHANGED reconnecting
  BY DEF UserCall, QuitPush, QuitCleanup, StopPush, Loop, Actors, WPCs
<1>2. (\E l \in PCs : Goto(u, l))
      /\ \E g : fr' = [fr EXCEPT ![u] = g] \/ fr' = fr
  BY DEF UserCall, QuitPush, QuitCleanup, StopPush, Loop, PCs
<1>3. \A x \in Actors \ {u} : pc'[x] = pc[x] /\ fr'[x] = fr[x]
  BY <1>1, <1>2, GotoFrame, OwnFrame DEF IInv
<1> QED BY <1>1, <1>3, NotWitnessStep DEF IInv

-----------------------------------------------------------------------------

\* Every step of Next, and a stuttering step, preserves the flag's witness.
LEMMA NextFlag ==
  IInv /\ ReconnectFlagSound /\ [Next]_vars => ReconnectFlagSound'
<1> SUFFICES ASSUME IInv, ReconnectFlagSound, [Next]_vars
             PROVE  ReconnectFlagSound'
  OBVIOUS
<1>1. CASE \E a \in Actors : Step(a)
  <2> PICK a \in Actors : Step(a)
    BY <1>1
  <2> QED BY ConnectMoveFlag, ConnectDialFlag, ConnectSetupFlag,
             ReconnectCheckFlag, ReconnectSetFlag, ReconnectCleanupFlag,
             ReconnectLoopFlag, ReconnectEndFlag DEF Step
<1>2. CASE \E r \in Readers : ReadTop(r) \/ ReadDecode(r) \/ ReadPush(r)
  BY <1>2, ReaderFlag
<1>3. CASE \E s \in Sessions : ExecSelect(s) \/ ExecRun(s)
  BY <1>3, ExecFlag
<1>4. CASE \E u \in Users : \/ Connect(u) \/ Reconnect(u)
                            \/ \E b \in BOOLEAN : Quit(u, b)
                            \/ QuitPush(u) \/ QuitCleanup(u) \/ StopPush(u)
                            \/ Loop(u)
  <2> PICK u \in Users : \/ Connect(u) \/ Reconnect(u)
                         \/ \E b \in BOOLEAN : Quit(u, b)
                         \/ QuitPush(u) \/ QuitCleanup(u) \/ StopPush(u)
                         \/ Loop(u)
    BY <1>4
  <2>1. CASE Connect(u) \/ Reconnect(u) \/ \E b \in BOOLEAN : Quit(u, b)
    BY <2>1, UserFlag, SetFacts, CallFrames DEF Connect, Reconnect, Quit
  <2> QED BY <2>1, UserFlag
<1>5. CASE Terminated \/ Halted \/ UNCHANGED vars
  BY <1>5 DEF Terminated, Halted, vars, ReconnectFlagSound, InReconnect
<1> QED BY <1>1, <1>2, <1>3, <1>4, <1>5 DEF Next

\* c.reconnecting, the flag that makes every later reconnect return
\* ErrDisconnected at once (client.go:389-391), is set only while a
\* goroutine is inside the reconnect that set it: no interleaving of
\* Connect, reconnect, quit and the loops leaves automatic reconnection
\* disabled, for every number of users, sessions and retries, Retries = 0
\* (the early return, client.go:404-406) included.
THEOREM ReconnectFlagSoundHolds == Spec => []ReconnectFlagSound
<1>1. Init => IInv /\ ReconnectFlagSound
  BY InitIInv DEF Init, ReconnectFlagSound
<1>2. IInv /\ ReconnectFlagSound /\ [Next]_vars => (IInv /\ ReconnectFlagSound)'
  BY NextIInv, NextFlag
<1> QED BY <1>1, <1>2, PTL DEF Spec

=============================================================================
