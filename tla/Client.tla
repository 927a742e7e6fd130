------------------------------- MODULE Client -------------------------------
(***************************************************************************)
(* The connection supervisor of girc: type Client in src/client.go.        *)
(*                                                                         *)
(* Connect installs a fresh session state (c.state = newState()), dials,   *)
(* pushes an INITIALIZED event, writes the registration lines and starts   *)
(* a reader goroutine (readLoop) and a dispatcher goroutine (execLoop).    *)
(* cleanup closes the current connection and calls the stored cancel       *)
(* functions; reconnect is guarded by the unsynchronised flag              *)
(* c.reconnecting and is called by the reader on a read error and by the  *)
(* user (Reconnect).  Events is the buffered channel between the readers  *)
(* and the dispatchers.                                                    *)
(*                                                                         *)
(* Actors: user goroutines (Users) and reader goroutines, one per session *)
(* that connected (reader s reads session s first); exec loops are        *)
(* indexed by the session whose Connect started them.  Sessions are       *)
(* numbered in the order newState() creates them; session 0 is the state  *)
(* New() makes, which has no connection.  Handler bodies, the wire        *)
(* format, the rate limiter and the reconnect delays are abstracted away. *)
(***************************************************************************)
EXTENDS Naturals

CONSTANTS
  Users,        \* user goroutines calling the public API
  Retries,      \* Config.Retries
  QueueCap,     \* capacity of the Events channel (100 in New)
  MaxSessions,  \* bound: sessions newState() creates
  MaxCalls,     \* bound: public API calls made by the users
  MaxLines,     \* bound: lines the server sends
  MaxFaults     \* bound: network failures (dial, write, read)

ASSUME ClientAssumption ==
  /\ Retries \in Nat
  /\ QueueCap \in Nat \ {0}
  /\ MaxSessions \in Nat /\ MaxCalls \in Nat
  /\ MaxLines \in Nat /\ MaxFaults \in Nat
  /\ Users \cap Nat = {}

Sessions == 0..MaxSessions
Readers  == 1..MaxSessions
Actors   == Users \cup Readers
NoActor  == 0


PCs == {"idle", "off", "done",                                 \* no call
        "c_cleanup", "c_lock", "c_dial", "c_init", "c_setup",  \* Connect
        "r_check", "r_set", "r_cleanup", "r_loop", "r_end",    \* reconnect
        "q_push", "q_cleanup", "s_push",                       \* quit/Stop
        "top", "blocked", "push",                              \* readLoop
        "l_wait"}                                              \* Loop

\* The locals of an actor's current call.
Frames == [remote : BOOLEAN,  \* the remoteInvoked argument of reconnect
           inRec  : BOOLEAN,  \* Connect was called by reconnect
           failed : BOOLEAN,  \* the error the last Connect returned
           stop   : BOOLEAN,  \* quit was called by Stop
           rs     : Sessions] \* the session a reader decodes from
Blank == [remote |-> FALSE, inRec |-> FALSE, failed |-> FALSE,
          stop |-> FALSE, rs |-> 0]

VARIABLES
  cur,            \* c.state: the session the client points at
  nsess,          \* sessions created so far
  conn,           \* conn[s]: "none", "open" or "closed"
  connected,      \* connected[s]: state.connected of session s
  cmux,           \* holder of c.cmux, or NoActor
  closeRead,      \* the session whose execLoop c.closeRead cancels (0: nil)
  execCancelled,  \* sessions whose execLoop context is cancelled
  reconnecting,   \* c.reconnecting
  tries,          \* c.tries
  closeLoop,      \* the user whose Loop context c.closeLoop cancels, or NoActor
  loopCancelled,  \* users whose Loop context is cancelled
  epc,            \* epc[s]: "off", "select", "run" or "done"
  queue,          \* events buffered in the Events channel (the execLoop
                  \* dispatches every kind alike, so only the count matters)
  pc,             \* pc[a]: where actor a is
  fr,             \* fr[a]: the locals of a's current call
  calls, lines, faults,  \* budgets
  crashed         \* the process panicked

sessVars   == <<cur, nsess, conn, connected>>
ctlVars    == <<cmux, closeRead, execCancelled, reconnecting, tries,
               closeLoop, loopCancelled>>
budgetVars == <<calls, lines, faults>>
vars == <<sessVars, ctlVars, epc, queue, pc, fr, budgetVars, crashed>>

Init ==
  /\ cur = 0
  /\ nsess = 0
  /\ conn = [s \in Sessions |-> "none"]
  /\ connected = [s \in Sessions |-> FALSE]
  /\ cmux = NoActor
  /\ closeRead = 0
  /\ execCancelled = {}
  /\ reconnecting = FALSE
  /\ tries = 0
  /\ closeLoop = NoActor
  /\ loopCancelled = {}
  /\ epc = [s \in Sessions |-> "off"]
  /\ queue = 0
  /\ pc = [a \in Actors |-> IF a \in Users THEN "idle" ELSE "off"]
  /\ fr = [a \in Actors |-> Blank]
  /\ calls = 0 /\ lines = 0 /\ faults = 0
  /\ crashed = FALSE

-----------------------------------------------------------------------------
(* Helpers.                                                                *)

Goto(a, l) == pc' = [pc EXCEPT ![a] = l]

\* A send of event e on the buffered channel; blocks (is disabled) while
\* it is full.  The kind e of the event is not recorded.
Push(e) == queue < QueueCap /\ queue' = queue + 1

Fault == faults < MaxFaults /\ faults' = faults + 1

\* A variant of cleanup that does not take c.cmux.
cleanupUnlocked(all) ==
  /\ conn' = IF conn[cur] = "open" THEN [conn EXCEPT ![cur] = "closed"] ELSE conn
  /\ execCancelled' = execCancelled \cup ({closeRead} \ {0})
  /\ loopCancelled' = IF all THEN loopCancelled \cup ({closeLoop} \ {NoActor})
                             ELSE loopCancelled

\* cleanup(all): under c.cmux, close the current connection and call the
\* stored cancel functions.  closeRead holds the execLoop's cancel function
\* (see ConnectSetup) and closeExec is never assigned, so only an execLoop
\* is cancelled, and with all also the context Loop waits on.  Every caller
\* in client.go passes all = false.
cleanup(all) ==
  /\ cmux = NoActor
  /\ conn' = IF conn[cur] = "open" THEN [conn EXCEPT ![cur] = "closed"] ELSE conn
  /\ execCancelled' = execCancelled \cup ({closeRead} \ {0})
  /\ loopCancelled' = IF all THEN loopCancelled \cup ({closeLoop} \ {NoActor})
                             ELSE loopCancelled

\* The actor leaves reconnect: a user returns to its caller; a reader
\* hands the error to Config.HandleError and its readLoop returns.
ReconnectReturn(a) ==
  /\ Goto(a, IF a \in Users THEN "idle" ELSE "done")
  /\ fr' = [fr EXCEPT ![a] = Blank]

\* Connect returns err: to reconnect's retry loop, or to the user.
ConnectReturn(a, err) ==
  IF fr[a].inRec
    THEN /\ Goto(a, "r_loop")
         /\ fr' = [fr EXCEPT ![a].failed = err]
    ELSE /\ Goto(a, "idle")
         /\ fr' = [fr EXCEPT ![a] = Blank]

-----------------------------------------------------------------------------
(* Connect (client.go:279-364).                                            *)

\* c.cleanup(false), before c.cmux is taken.
ConnectCleanup(a) ==
  /\ pc[a] = "c_cleanup"
  /\ cleanup(FALSE)
  /\ Goto(a, "c_lock")
  /\ UNCHANGED <<cur, nsess, connected, cmux, closeRead, closeLoop, reconnecting, tries,
                 epc, queue, fr, budgetVars, crashed>>

\* A variant of ConnectLock that keeps the old state instead of newState().
ConnectLockReusesState(a) ==
  /\ pc[a] = "c_lock"
  /\ cmux = NoActor
  /\ nsess < MaxSessions
  /\ cmux' = a
  /\ Goto(a, "c_dial")
  /\ UNCHANGED <<cur, nsess, conn, connected, closeRead, closeLoop, loopCancelled, execCancelled,
                 reconnecting, tries, epc, queue, fr, budgetVars, crashed>>

\* Take c.cmux and replace the state: c.state = newState().
ConnectLock(a) ==
  /\ pc[a] = "c_lock"
  /\ cmux = NoActor
  /\ nsess < MaxSessions
  /\ cmux' = a
  /\ nsess' = nsess + 1
  /\ cur' = nsess + 1
  /\ Goto(a, "c_dial")
  /\ UNCHANGED <<conn, connected, closeRead, closeLoop, loopCancelled, execCancelled, reconnecting,
                 tries, epc, queue, fr, budgetVars, crashed>>

\* net.Dial/tls.Dial with Config.Conn nil: on error return it, releasing
\* c.cmux by the deferred Unlock; the fresh state keeps a nil conn.  A
\* user-supplied Config.Conn (one net.Conn reinstalled in every state) is
\* not modelled.
ConnectDial(a) ==
  /\ pc[a] = "c_dial"
  /\ \/ /\ conn' = [conn EXCEPT ![cur] = "open"]
        /\ Goto(a, "c_init")
        /\ UNCHANGED <<cmux, fr, faults>>
     \/ /\ Fault
        /\ cmux' = NoActor
        /\ ConnectReturn(a, TRUE)
        /\ UNCHANGED conn
  /\ UNCHANGED <<cur, nsess, connected, closeRead, closeLoop, loopCancelled, execCancelled, reconnecting,
                 tries, epc, queue, calls, lines, crashed>>

\* c.Events <- INITIALIZED, still holding c.cmux.
ConnectInit(a) ==
  /\ pc[a] = "c_init"
  /\ Push("INITIALIZED")
  /\ Goto(a, "c_setup")
  /\ UNCHANGED <<sessVars, ctlVars, epc, fr, budgetVars, crashed>>

\* Write PASS/NICK/USER and list CAP.  A write error returns it (the
\* connection stays open and the session not connected).  On success:
\* tries = 0, reconnecting = false, connected = true, and the two loops
\* start.  Both context.WithCancel results are assigned to c.closeRead, so
\* it ends up holding the execLoop's cancel function, and the readLoop's
\* is dropped.
ConnectSetup(a) ==
  /\ pc[a] = "c_setup"
  /\ cmux' = NoActor
  /\ \/ /\ Fault
        /\ ConnectReturn(a, TRUE)
        /\ UNCHANGED <<connected, closeRead, reconnecting, tries, epc>>
     \/ /\ tries' = 0
        /\ reconnecting' = FALSE
        /\ connected' = [connected EXCEPT ![cur] = TRUE]
        /\ closeRead' = cur
        /\ epc' = [epc EXCEPT ![cur] = "select"]
        /\ pc' = [pc EXCEPT ![a] = IF fr[a].inRec THEN "r_loop" ELSE "idle",
                            ![cur] = "top"]
        /\ fr' = [fr EXCEPT ![a] = IF fr[a].inRec THEN [@ EXCEPT !.failed = FALSE]
                                                   ELSE Blank]
        /\ UNCHANGED faults
  /\ UNCHANGED <<cur, nsess, conn, execCancelled, closeLoop, loopCancelled, queue,
                 calls, lines, crashed>>

-----------------------------------------------------------------------------
(* reconnect (client.go:389-424).                                          *)

\* if c.reconnecting { return ErrDisconnected }: a plain read of the flag.
ReconnectCheck(a) ==
  /\ pc[a] = "r_check"
  /\ IF reconnecting
       THEN ReconnectReturn(a)
       ELSE /\ Goto(a, "r_set")
            /\ UNCHANGED fr
  /\ UNCHANGED <<sessVars, ctlVars, epc, queue, budgetVars, crashed>>

\* c.reconnecting = true, a separate write (the deferred reset is below).
ReconnectSet(a) ==
  /\ pc[a] = "r_set"
  /\ reconnecting' = TRUE
  /\ Goto(a, "r_cleanup")
  /\ UNCHANGED <<sessVars, cmux, closeRead, closeLoop, loopCancelled, execCancelled, tries, epc, queue,
                 fr, budgetVars, crashed>>

\* A variant of ReconnectCleanup whose early return leaves the flag set.
ReconnectCleanupKeepsFlag(a) ==
  /\ pc[a] = "r_cleanup"
  /\ cleanup(FALSE)
  /\ IF Retries < 1 /\ ~fr[a].remote
       THEN ReconnectReturn(a)
       ELSE /\ fr' = [fr EXCEPT ![a].inRec = TRUE]
            /\ Goto(a, "c_cleanup")
  /\ UNCHANGED <<cur, nsess, connected, cmux, closeRead, closeLoop, reconnecting, tries,
                 epc, queue, budgetVars, crashed>>

\* cleanup; give up at once unless retries are configured or the call is
\* remote; else (after the delay) call Connect.
ReconnectCleanup(a) ==
  /\ pc[a] = "r_cleanup"
  /\ cleanup(FALSE)
  /\ IF Retries < 1 /\ ~fr[a].remote
       THEN /\ reconnecting' = FALSE
            /\ ReconnectReturn(a)
       ELSE /\ fr' = [fr EXCEPT ![a].inRec = TRUE]
            /\ Goto(a, "c_cleanup")
            /\ UNCHANGED reconnecting
  /\ UNCHANGED <<cur, nsess, connected, cmux, closeRead, closeLoop, tries, epc, queue,
                 budgetVars, crashed>>

\* for err = c.Connect(); err != nil && c.tries < c.Config.Retries; c.tries++
\* { sleep }: the loop body sleeps and the post statement counts, and
\* Connect is only the init statement.
ReconnectLoop(a) ==
  /\ pc[a] = "r_loop"
  /\ IF fr[a].failed /\ tries < Retries
       THEN /\ tries' = tries + 1
            /\ UNCHANGED pc
       ELSE /\ Goto(a, "r_end")
            /\ UNCHANGED tries
  /\ UNCHANGED <<sessVars, cmux, closeRead, closeLoop, loopCancelled, execCancelled, reconnecting, epc,
                 queue, fr, budgetVars, crashed>>

\* A variant of ReconnectEnd without the deferred reset of the flag.
ReconnectEndKeepsFlag(a) ==
  /\ pc[a] = "r_end"
  /\ IF fr[a].failed THEN cleanup(FALSE)
                    ELSE UNCHANGED <<conn, execCancelled, loopCancelled>>
  /\ ReconnectReturn(a)
  /\ UNCHANGED <<cur, nsess, connected, cmux, closeRead, closeLoop, reconnecting, tries,
                 epc, queue, budgetVars, crashed>>

\* On error cleanup again; the deferred c.reconnecting = false runs last.
ReconnectEnd(a) ==
  /\ pc[a] = "r_end"
  /\ IF fr[a].failed THEN cleanup(FALSE)
                    ELSE UNCHANGED <<conn, execCancelled, loopCancelled>>
  /\ reconnecting' = FALSE
  /\ ReconnectReturn(a)
  /\ UNCHANGED <<cur, nsess, connected, cmux, closeRead, closeLoop, tries, epc, queue,
                 budgetVars, crashed>>

-----------------------------------------------------------------------------
(* readLoop (client.go:434-464).                                           *)

\* The select on ctx.Done() never fires: the readLoop's cancel function
\* was dropped.  SetDeadline and Decode dereference c.state.conn and
\* c.state.reader, which are nil in a state whose dial has not succeeded:
\* a nil pointer panic.  Otherwise Decode blocks on the current session.
ReadTop(r) ==
  /\ pc[r] = "top"
  /\ IF conn[cur] = "none"
       THEN /\ crashed' = TRUE
            /\ UNCHANGED <<pc, fr>>
       ELSE /\ fr' = [fr EXCEPT ![r].rs = cur]
            /\ Goto(r, "blocked")
            /\ UNCHANGED crashed
  /\ UNCHANGED <<sessVars, ctlVars, epc, queue, budgetVars>>

\* Decode failed: readLoop calls c.reconnect(false).
ReadFailed(r) ==
  /\ fr' = [fr EXCEPT ![r] = Blank]
  /\ Goto(r, "r_check")
  /\ UNCHANGED lines

\* Decode returns a line, nothing (a blank line: continue), or an error:
\* the connection was closed, or a network fault or the 300s deadline.
ReadDecode(r) ==
  /\ pc[r] = "blocked"
  /\ \/ /\ conn[fr[r].rs] = "open"
        /\ lines < MaxLines
        /\ lines' = lines + 1
        /\ Goto(r, "push")
        /\ fr' = [fr EXCEPT ![r] = Blank]
        /\ UNCHANGED faults
     \/ /\ conn[fr[r].rs] = "open"
        /\ Goto(r, "top")
        /\ fr' = [fr EXCEPT ![r] = Blank]
        /\ UNCHANGED <<lines, faults>>
     \/ /\ conn[fr[r].rs] = "closed"
        /\ ReadFailed(r)
        /\ UNCHANGED faults
     \/ /\ conn[fr[r].rs] = "open"
        /\ Fault
        /\ ReadFailed(r)
  /\ UNCHANGED <<sessVars, ctlVars, epc, queue, calls, crashed>>

\* c.Events <- event.
ReadPush(r) ==
  /\ pc[r] = "push"
  /\ Push("LINE")
  /\ Goto(r, "top")
  /\ UNCHANGED <<sessVars, ctlVars, epc, fr, budgetVars, crashed>>

-----------------------------------------------------------------------------
(* execLoop (client.go:466-475): select on the channel and on ctx.Done();  *)
(* Go picks either case when both are ready.                               *)

\* A variant of ExecSelect whose receive does not wait for an event.
ExecSelectNoBlock(s) ==
  /\ epc[s] = "select"
  /\ \/ /\ queue' = queue - 1
        /\ epc' = [epc EXCEPT ![s] = "run"]
     \/ /\ s \in execCancelled
        /\ epc' = [epc EXCEPT ![s] = "done"]
        /\ UNCHANGED queue
  /\ UNCHANGED <<sessVars, ctlVars, pc, fr, budgetVars, crashed>>

ExecSelect(s) ==
  /\ epc[s] = "select"
  /\ \/ /\ queue > 0
        /\ queue' = queue - 1
        /\ epc' = [epc EXCEPT ![s] = "run"]
     \/ /\ s \in execCancelled
        /\ epc' = [epc EXCEPT ![s] = "done"]
        /\ UNCHANGED queue
  /\ UNCHANGED <<sessVars, ctlVars, pc, fr, budgetVars, crashed>>

\* RunCallbacks returns: the event's handlers have all returned.
ExecRun(s) ==
  /\ epc[s] = "run"
  /\ epc' = [epc EXCEPT ![s] = "select"]
  /\ UNCHANGED <<sessVars, ctlVars, queue, pc, fr, budgetVars, crashed>>

-----------------------------------------------------------------------------
(* Public API called by user goroutines.                                   *)

UserCall(u, l, f) ==
  /\ pc[u] = "idle"
  /\ calls < MaxCalls
  /\ calls' = calls + 1
  /\ Goto(u, l)
  /\ fr' = [fr EXCEPT ![u] = f]
  /\ UNCHANGED <<sessVars, ctlVars, epc, queue, lines, faults, crashed>>

\* Connect() from user code.
Connect(u) == UserCall(u, "c_cleanup", Blank)

\* Reconnect() is reconnect(true).
Reconnect(u) == UserCall(u, "r_check", [Blank EXCEPT !.remote = TRUE])

\* Quit() is quit(true) and Stop() is quit(false) followed by STOPPED; the
\* QUIT line quit(true) sends changes no modelled state.
Quit(u, isStop) == UserCall(u, "q_push", [Blank EXCEPT !.stop = isStop])

\* c.Events <- DISCONNECTED.
QuitPush(u) ==
  /\ pc[u] = "q_push"
  /\ Push("DISCONNECTED")
  /\ Goto(u, "q_cleanup")
  /\ UNCHANGED <<sessVars, ctlVars, epc, fr, budgetVars, crashed>>

QuitCleanup(u) ==
  /\ pc[u] = "q_cleanup"
  /\ cleanup(FALSE)
  /\ Goto(u, IF fr[u].stop THEN "s_push" ELSE "idle")
  /\ fr' = [fr EXCEPT ![u] = IF @.stop THEN @ ELSE Blank]
  /\ UNCHANGED <<cur, nsess, connected, cmux, closeRead, closeLoop, reconnecting, tries,
                 epc, queue, budgetVars, crashed>>

\* Stop: c.Events <- STOPPED.
StopPush(u) ==
  /\ pc[u] = "s_push"
  /\ Push("STOPPED")
  /\ Goto(u, "idle")
  /\ fr' = [fr EXCEPT ![u] = Blank]
  /\ UNCHANGED <<sessVars, ctlVars, epc, budgetVars, crashed>>

\* Loop(): store the cancel function of a fresh context in c.closeLoop (a
\* plain write) and block until that context is done.  Loop returns once
\* u is in loopCancelled; as nothing calls cleanup(true), that never
\* happens and there is no return step.
Loop(u) ==
  /\ pc[u] = "idle"
  /\ calls < MaxCalls
  /\ calls' = calls + 1
  /\ closeLoop' = u
  /\ loopCancelled' = loopCancelled \ {u}
  /\ Goto(u, "l_wait")
  /\ UNCHANGED <<sessVars, cmux, closeRead, execCancelled, reconnecting, tries,
                 epc, queue, fr, lines, faults, crashed>>

-----------------------------------------------------------------------------

\* An actor that would create a session beyond the bound MaxSessions.
OutOfSessions(a) == pc[a] = "c_lock" /\ nsess = MaxSessions

\* The bounded run is over: the users made their calls and returned, and
\* every goroutine left waits for input that the bounds no longer allow.
Terminated ==
  /\ calls = MaxCalls
  /\ \A u \in Users : \/ pc[u] = "idle" \/ OutOfSessions(u)
                     \/ pc[u] = "l_wait"
  /\ \A r \in Readers : pc[r] \in {"off", "done", "blocked"} \/ OutOfSessions(r)
  /\ \A s \in Sessions : epc[s] \in {"off", "done", "select"}
  /\ UNCHANGED vars

\* After a panic nothing runs any more.
Halted == crashed /\ UNCHANGED vars

Step(a) ==
  \/ ConnectCleanup(a) \/ ConnectLock(a) \/ ConnectDial(a)
  \/ ConnectInit(a) \/ ConnectSetup(a)
  \/ ReconnectCheck(a) \/ ReconnectSet(a) \/ ReconnectCleanup(a)
  \/ ReconnectLoop(a) \/ ReconnectEnd(a)

Next ==
  \/ /\ ~crashed
     /\ \/ \E a \in Actors : Step(a)
        \/ \E r \in Readers : ReadTop(r) \/ ReadDecode(r) \/ ReadPush(r)
        \/ \E s \in Sessions : ExecSelect(s) \/ ExecRun(s)
        \/ \E u \in Users : \/ Connect(u) \/ Reconnect(u)
                            \/ \E b \in BOOLEAN : Quit(u, b)
                            \/ QuitPush(u) \/ QuitCleanup(u) \/ StopPush(u)
                            \/ Loop(u)
  \/ Terminated
  \/ Halted

Spec == Init /\ [][Next]_vars

\* Goroutines are scheduled fairly by the Go runtime, and a blocked Decode
\* returns within the 300s read deadline (client.go:443); the user calls
\* are not forced to happen.
Fairness ==
  /\ \A a \in Actors : WF_vars(~crashed /\ Step(a))
  /\ \A r \in Readers : WF_vars(~crashed /\ (ReadTop(r) \/ ReadDecode(r) \/ ReadPush(r)))
  /\ \A s \in Sessions : WF_vars(~crashed /\ (ExecSelect(s) \/ ExecRun(s)))
  /\ \A u \in Users : WF_vars(~crashed /\ (QuitPush(u) \/ QuitCleanup(u) \/ StopPush(u)))

LiveSpec == Spec /\ Fairness

-----------------------------------------------------------------------------
(* Properties.                                                             *)

\* Type invariant of the supervisor; it includes that the Events channel
\* never holds more than its capacity (client.go:146) and that a session
\* is only ever one that newState() created.
TypeOK ==
  /\ cur \in Sessions /\ nsess \in Sessions /\ cur <= nsess
  /\ conn \in [Sessions -> {"none", "open", "closed"}]
  /\ connected \in [Sessions -> BOOLEAN]
  /\ cmux \in Actors \cup {NoActor}
  /\ closeRead \in Sessions
  /\ execCancelled \in SUBSET Sessions
  /\ epc \in [Sessions -> {"off", "select", "run", "done"}]
  /\ queue \in 0..QueueCap
  /\ reconnecting \in BOOLEAN
  /\ tries \in Nat
  /\ closeLoop \in Users \cup {NoActor}
  /\ loopCancelled \in SUBSET Users
  /\ pc \in [Actors -> PCs]
  /\ fr \in [Actors -> Frames]
  /\ calls \in 0..MaxCalls /\ lines \in 0..MaxLines /\ faults \in 0..MaxFaults
  /\ crashed \in BOOLEAN

\* a is inside reconnect past its check of the flag.
InReconnect(a) ==
  \/ pc[a] \in {"r_set", "r_cleanup", "r_loop", "r_end"}
  \/ fr[a].inRec /\ pc[a] \in {"c_cleanup", "c_lock", "c_dial", "c_init", "c_setup"}

\* While c.reconnecting is set, some goroutine is inside reconnect past
\* the point that set it: the flag that makes every other reconnect return
\* ErrDisconnected at once (client.go:390-396) is never left set by a
\* reconnect that has returned, which would disable automatic reconnection
\* for good.
ReconnectFlagSound ==
  reconnecting => \E a \in Actors : InReconnect(a) /\ pc[a] # "r_set"

\* A Connect between taking c.cmux and returning owns the lock and its
\* fresh session, whose connection no concurrent cleanup closes: cleanup
\* runs under the same c.cmux (client.go:219-243, 299-301; spec 4.1).
SetupNotTornDown ==
  \A a \in Actors :
    pc[a] \in {"c_dial", "c_init", "c_setup"} => cmux = a /\ conn[cur] # "closed"

\* The session lifecycle the supervisor promises (SessionLifecycle): the
\* holder of c.cmux creates each new state (client.go:299-304) and alone
\* dials its connection; cleanup, which takes c.cmux (client.go:219-243),
\* closes only the current connection and never one being set up; no
\* connection is reopened.
Lifecycle == INSTANCE SessionLifecycle
               WITH Owners <- Actors, NoOwner <- NoActor, Slots <- Sessions,
                    newest <- nsess, link <- conn, owner <- cmux

ImplementsLifecycle == Lifecycle!Spec

\* At most one reconnect sequence is active (spec 4.1 and 8: concurrent
\* reconnect triggers collapse into one attempt, the other caller gets
\* ErrDisconnected).  The flag is read and then written without a lock
\* (client.go:390-393).
SingleReconnect ==
  \A a, b \in Actors : a # b => ~(InReconnect(a) /\ InReconnect(b))

\* No two readers read the same connection (spec 4.1: cleanup cancels the
\* reader task).  Connect assigns the readLoop's and the execLoop's cancel
\* functions both to c.closeRead (client.go:358-359), so a readLoop is
\* never cancelled and one that loops after its connection was replaced
\* reads the new one next to that connection's own reader.
OneReaderPerConnection ==
  \A r1, r2 \in Readers :
    r1 # r2 /\ pc[r1] = "blocked" /\ pc[r2] = "blocked" => fr[r1].rs # fr[r2].rs

\* Events are dispatched one at a time: the handlers of one event finish
\* before those of the next start (spec 4.2 and 5).  cleanup cancels the
\* execLoop's context but does not wait for the loop (client.go:228-233),
\* and an execLoop only sees the cancellation back in its select
\* (client.go:466-475): while it runs a callback, the next Connect starts
\* the new session's execLoop next to it.
SerialDispatch ==
  \A s1, s2 \in Sessions : s1 # s2 => ~(epc[s1] = "run" /\ epc[s2] = "run")

\* Every public call other than the blocking Loop returns to its caller
\* (spec 4.1: Quit and Stop disconnect and return).  quit and Stop send on c.Events
\* (client.go:250, 274) and Connect sends INITIALIZED while holding
\* c.cmux (client.go:332); with no execLoop running (before the first
\* Connect, or after a cleanup) a full channel blocks them for good.
CallsReturn ==
  \A u \in Users :
    pc[u] \notin {"idle", "l_wait"} ~> (pc[u] = "idle" \/ crashed \/ OutOfSessions(u))

\* Each iteration of reconnect's retry loop attempts Connect again (spec
\* 4.1: "retries up to a configured maximum attempt count"; client.go:413).
RetryCallsConnect ==
  [][\A a \in Actors :
       ReconnectLoop(a) /\ tries' = tries + 1 => pc'[a] = "c_cleanup"]_vars

\* A Loop call is released once a Stop has run its cleanup (spec 4.1: the
\* run call blocks until stop(); Stop "exits the clients main loop").
\* Loop waits on the context whose cancel function it stored in
\* c.closeLoop (client.go:479-484), which only cleanup(true) calls
\* (client.go:236-240), and quit, like every caller of cleanup, passes
\* false (client.go:252).
LoopReturnsOnStop ==
  \A u, v \in Users :
    (pc[u] = "l_wait" /\ pc[v] = "s_push") ~> (u \in loopCancelled \/ crashed)

=============================================================================
