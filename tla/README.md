# TLA+ models of girc's dispatch engine and connection supervisor

This directory holds TLA+ specifications of the concurrent core of the
girc IRC client library (`src/handler.go`, `src/client.go`), the TLC
configurations that model-check them, and TLAPS proofs about both
components.

## The system and its parts

- **Dispatch engine: `Caller`, in `src/handler.go`.**
  - Two registries map an upper-case command, or the wildcard
    `ALLEVENTS`, to handlers keyed by a random uid. The registries are
    `internal` (built-in handlers) and `external` (user handlers).
  - `RunHandlers(event)` calls `exec(ALLEVENTS)`, then
    `exec(event.Command)`.
  - `exec` does four things in order:
    1. It snapshots the handlers of its key under the read lock.
    2. It calls `wg.Add(len(stack))`.
    3. It starts one goroutine per handler. Each goroutine calls
       `wg.Done()` when its handler returns.
    4. It blocks in `wg.Wait()`.
  - `wg` is a field of the `Caller`. Every goroutine that calls
    `RunHandlers` therefore shares one WaitGroup.
- **Connection supervisor: `Client`, in `src/client.go`.**
  - `Connect` runs these steps in order:
    1. It calls `cleanup(false)`.
    2. It takes `c.cmux`.
    3. It replaces `c.state` with `newState()`.
    4. It dials.
    5. It sends an `INITIALIZED` event on the buffered `Events` channel
       (capacity 100).
    6. It writes the registration lines.
    7. It resets `tries` and `reconnecting`, and marks the state
       connected.
    8. It starts a `readLoop` and an `execLoop` goroutine.
  - `reconnect` is guarded by the unsynchronised flag `c.reconnecting`.
    It runs a cleanup, then either gives up (when `Retries < 1` and the
    call is not remote) or calls `Connect` in a retry loop.
  - `quit` and `Stop` send `DISCONNECTED` / `STOPPED` events and run a
    cleanup. `cleanup(all)` cancels the reader and, only when `all` is
    true, the context `Loop` blocks on (`c.closeLoop`).
  - `Loop` stores a fresh cancel function in `c.closeLoop` and blocks until
    it is called.
  - The `readLoop` decodes lines and sends them on `Events`. On a
    decode error it calls `reconnect(false)`.
  - The `execLoop` takes events off `Events` and calls `RunCallbacks`,
    which reaches the dispatch engine.
- **Not under `src/`:** the event type, the decoder and encoder, the
  session state with its rate limiter, CTCP, and the built-in handlers.
  Spec sections 3 and 4.3 describe them.

The two components interact through the `Events` channel and through
`RunCallbacks`. The execLoop is one of the dispatchers of the Caller
model. Its handler runs are a single abstract step in the Client model.

## Modules

| Module | Models | State | Actions |
|---|---|---|---|
| `Caller` | `Caller`, `RunHandlers`, `exec`, registry operations | `internal`, `external` (key → set of uids), `used`, `cuids`, per-dispatcher `pc`, `key`, `ev`, `runs`, `running` (pairs ⟨dispatcher, uid⟩ of launched handlers), `wgCount`, `wgWaiters`, `crashed` | `register`, `Remove`, `ClearAll`, `clearInternal`, `Clear`, `RunHandlers`, `exec`, `Wait`, `HandlerDone`, `Woken` |
| `Client` | `Connect`, `reconnect`, `cleanup(all)`, `quit`/`Stop`, `Loop`, `readLoop`, `execLoop` | `cur` (the session `c.state` points at), `nsess`, per-session `conn`, `connected` and `epc` (execLoop pc), `cmux`, `closeRead`, `execCancelled`, `closeLoop` (the user whose `Loop` stored the cancel function), `loopCancelled`, `reconnecting`, `tries`, `queue` (events buffered), per-actor `pc` and `fr` (locals of the current call), budgets, `crashed` | one action per step between shared accesses (the `Connect*`, `Reconnect*`, `Read*`, `Exec*`, `Quit*` actions) and the public calls `Connect`, `Reconnect`, `Quit`, `Loop` |
| `SessionLifecycle` | the session lifecycle spec 4.1 promises, without goroutines | `newest` session, `link[s]` (none, open, closed), lock `owner` | `Acquire`, `Open`, `Release`, `Close` |
| `CallerReentrant` | `Caller` plus handler bodies that call `Client.RunHandlers` | `host[d]`: the handler whose body made d's call | `TopRunHandlers`, `NestedRunHandlers`, `RHandlerDone` |
| `MCCaller`, `MCCallerReentrant`, `MCClient` | TLC instances | | |
| `CallerProofs` | TLAPS proofs about `Caller` | | |
| `ClientProofs` | TLAPS proofs about `Client`: types and the lock invariant | | |
| `ClientReconnectProofs` | TLAPS proof of `ReconnectFlagSound` | | |
| `ClientLifecycleProofs` | TLAPS proof that `Client` refines `SessionLifecycle` | | |

### How the modules follow the code

**Caller: the WaitGroup.** `wg` is modelled by the state Go's
`sync.WaitGroup` keeps:
- a counter;
- the set of sleeping waiters;
- the check a woken waiter makes. If the group's state is not zero when
  the waiter wakes, Go panics with "WaitGroup is reused before previous
  Wait has returned". The model records this as `crashed`.

**Caller: handlers.** Handler bodies are abstract: a handler is launched,
then later calls `wg.Done()`. A handler registered with `AddBg` is a body
that returns at once.

**CallerReentrant.** A handler gets the `*Client`, and `RunHandlers` is
exported, so a handler body may dispatch another event. That call is one
more dispatcher; `host` records which handler hosts it, and the host
cannot call `wg.Done()` before the nested call returns.

**Client refines SessionLifecycle.** The mapping sends `nsess` to
`newest`, `conn` to `link` and `cmux` to `owner`. `ConnectLock`
(`c.cmux.Lock(); c.state = newState()`) is `Acquire`, a successful dial is
`Open`, a failed dial and the end of `ConnectSetup` (the deferred
`Unlock`) are `Release`, and a `cleanup` of an open connection is `Close`.
Every other step leaves the three variables alone. The property
`ImplementsLifecycle` (`Lifecycle!Spec`) says that a session is created
and dialled only by the holder of `c.cmux`, that cleanup closes only the
newest connection and never one still being set up, and that a closed
connection is never reopened.

**Caller: `cuidToID`.** It is modelled by what `Sscanf("%s:%s")` does.
`%s` consumes the whole cuid, so the parsed uid stays empty.

**Client: actors.** The actors are user goroutines (`Users`) and reader
goroutines. A reader is numbered by the session whose `Connect` started
it. ExecLoops are indexed by session too.

**Client: actor pcs.** An actor's pc records where it is within a call
chain. `Connect` called from `reconnect` keeps `fr.inRec` so that it
returns into the retry loop.

**Client: what is abstracted.**
- The cancel functions are modelled by which session's execLoop
  `c.closeRead` cancels and which user's `Loop` `c.closeLoop` releases.
  `closeExec` is never assigned in the code.
- Network failures (dial, write, read error or deadline) are a bounded
  nondeterministic `Fault`.
- The reconnect delays and `time.Sleep` are left out.
- Event kinds are left out. The execLoop dispatches every kind alike, so
  only the number of buffered events matters.

## Runs

| Run (cfg) | Expect | Shows |
|---|---|---|
| `MCCaller.cfg` | pass | `TypeOK`, `ExecBarrier` (a running handler belongs to an exec inside `wg.Wait`), `ExecReturns` (every exec returns unless the process panicked), with 2 dispatchers, 3 uids, 1 command, 2 events per dispatcher, 3 registry operations |
| `MCCallerReentrant.cfg` | violation | `ExecReturns`: a handler of d1 (⟨d1, u1⟩) calls `RunHandlers` as d2; d2 waits on a counter that includes its host's pending `Done`, d1 sleeps in `wg.Wait` behind it, and neither exec returns |
| `MCCaller_wgpanic.cfg` | violation | `NoWaitGroupPanic`: d1's last handler wakes d1, d2's exec calls `wg.Add`, d1 wakes and panics |
| `MCCaller_remove.cfg` | violation | `RemoveRemovesHandler`: Remove by the returned cuid deletes nothing |
| `MCClient.cfg` | pass | `TypeOK`, `ReconnectFlagSound`, `SetupNotTornDown`, `ImplementsLifecycle`, with 2 users, `Retries = 1`, 2 calls, 1 line, 1 fault, 3 sessions, under user symmetry |
| `MCClient_noretry.cfg` | pass | `ReconnectFlagSound` with `Retries = 0` (the default), where the early return of reconnect must clear the flag |
| `MCClient_SingleReconnect.cfg` | violation | two Reconnects both pass the flag check |
| `MCClient_OneReaderPerConnection.cfg` | violation | after a second Connect the first, never-cancelled reader reads the new connection |
| `MCClient_SerialDispatch.cfg` | violation | Connect while a callback runs: two execLoops dispatch at once |
| `MCClient_RetryCallsConnect.cfg` | violation | the retry loop never calls Connect again |
| `MCClient_hang.cfg` | violation | `CallsReturn`: Quit and Stop with no execLoop fill a 2-slot channel and Stop blocks forever |
| `MCClient_LoopReturnsOnStop.cfg` | violation | `LoopReturnsOnStop`: a user blocks in `Loop`, another calls `Stop`, whose `cleanup(false)` never calls `closeLoop`, and `Loop` never returns |

Each violation corresponds to an entry under `findings` in `PROJECT.json`.
The model also reaches the nil-connection panic of an old reader
(`ReadTop` sets `crashed`), and two concurrent Connects also leave two
execLoops running. Both come from the same dropped cancel functions that
`OneReaderPerConnection` and `SerialDispatch` expose, so no run of their
own checks them.

**Mutants.** Each property of a passing run is also checked against a
mutant of the code, and the mutant must break it. These are the
operators named `…OneLess`, `…Skips…`, `…NoWake`, `…Unlocked`,
`…KeepsFlag` and `…NoBlock`.

## Bounds and why they suffice

- **Caller.** Two dispatchers is the least number that shares the
  WaitGroup. Three uids let handlers be registered on both keys and
  again after a clear. Two events per dispatcher let a dispatcher reuse
  the group after waking.
- **Client.** Two users can race a Connect against a Connect, a
  Reconnect or a Quit. `Retries = 1` exercises the retry loop, and the
  noretry run exercises the give-up path. One fault and one line let a
  read error and a decode happen.
  - Three sessions cover a Connect, the reconnect its reader triggers,
    and one more.
  - An actor that would create a fourth session stops
    (`OutOfSessions`). That is a bound of the model, not of the code.
  - The pass runs give the channel room for every event the budgets
    allow, so that they do not block. The hang run shows what happens
    when the channel does fill.

## Fairness

- **Caller.** `exec`, `Wait`, `Woken` and `HandlerDone` are weakly fair.
  The Go scheduler runs runnable goroutines, and handler bodies are
  assumed to return: girc leaves that duty to the user (spec 4.2).
- **Client.** `LiveSpec` makes every goroutine step weakly fair, and
  only after a crash does it stop requiring them. A blocked `Decode`
  returns within the 300 s read deadline (client.go:443), which
  justifies fairness on `ReadDecode`.
- **Both.** User calls and events are never forced.

## Proofs

The proofs cover every value of the constants.

### `CallerProofs.tla`

They rest on one assumption, `CallerAssumption`: the sets are finite,
there is at least one command, the sentinels are fresh, and the bounds
are naturals.

- `TypeCorrect: Spec => []TypeOK`
- `ExecBarrierHolds: Spec => []ExecBarrier`

**The inductive invariant `IInv`.** Neither invariant is inductive
alone. `IInv` strengthens them with three facts:
- `wgCount = Cardinality(running)`, with `running` finite;
- a dispatcher inside `RunHandlers` has not used its bound;
- every waiter of the group is asleep in it.

**Why the equation is needed.**
- It is what lets `Wait` and `Woken` conclude that no handler of theirs
  runs when the counter is zero.
- It keeps the counter a natural under `wg.Done()`.
- `exec` preserves it because the barrier guarantees that the new
  ⟨d, uid⟩ pairs are fresh. The lemmas `LaunchCount` and `StackFinite`
  and `FS_Union` supply the count.

TLC checked `IInv` as an invariant of the `MCCaller` instance before it
was proved. The proof has one lemma per action, with `InitIInv` and
`NextIInv`, and ends with PTL.

### `ClientProofs.tla`

They rest on `ClientAssumption`: the bounds are naturals, the channel
capacity is not zero, and no user is also a session number.

- `TypeCorrect: Spec => []TypeOK`. Among other things, the `Events`
  buffer never exceeds its capacity.
- `SetupNotTornDownHolds: Spec => []SetupNotTornDown`

`SetupNotTornDown` is not inductive: a cleanup by another actor could
close the connection unless it is known to wait on `c.cmux`. The
inductive invariant adds these facts:
- an actor is at one of the locked steps (`c_dial`, `c_init`, `c_setup`)
  exactly when it holds `c.cmux`;
- while the lock is held, `cur` is a session of a reader;
- sessions not yet created are not connected;
- the dialing actor's session is still `none`, and after the dial it is
  `open`.

The proof has one lemma per step of the call chains, and a few frame
lemmas (`OwnMove`, `GotoType`, `FrameFields`) shared by the user calls.

### `ClientReconnectProofs.tla`

- `ReconnectFlagSoundHolds: Spec => []ReconnectFlagSound`

The flag is raised only by `ReconnectSet`, and the goroutine that raises
it becomes the witness. `RecWitness(a)` says that a is inside reconnect
past that step. Each step of a witness keeps it inside reconnect, or
clears the flag:
- the Connect steps keep `fr.inRec`;
- a failed Connect returns to `r_loop`;
- the early return and the deferred reset clear the flag;
- a successful Connect clears it.

Any other goroutine is at a place outside reconnect and changes only its
own pc and frame (`NotWitnessStep`, `WitnessKept`). The invariant is
inductive once `IInv` supplies the types, and no strengthening was
needed. The proof covers `Retries = 0` as well, whose early return must
clear the flag.

### `ClientLifecycleProofs.tla`

- `LifecycleRefinement: Spec => ImplementsLifecycle`

It uses `IInv` and one more invariant, `CurNewest`: `cur = nsess`,
because only `ConnectLock` moves either and it sets both. `IInv` gives
the facts the mapped steps need:
- at `c_dial` and `c_setup` the actor holds `c.cmux`, so the abstract
  owner is the one that opens or releases;
- the dialled session is still `none`, so `Open` is enabled;
- `cleanup` runs with `c.cmux` free, so it maps to `Close`.

The steps are grouped by the abstract step they map to, with one lemma
each, and `NextLifecycle` combines them.

### Not proved, only model-checked

- `ExecReturns`, `CallsReturn` and `LoopReturnsOnStop`, because they are
  liveness properties. TLAPS does not handle the fairness reasoning or
  `ENABLED`.
- The properties of the violation runs. They are false, and TLC gives
  the counterexample.

## Not modelled

- The `Disable*` toggles. Their second step, `registerHandlers`, is not
  under `src/`. A hazard entry records the gap between their two steps.
- Send, write and the rate limiter.
- The command builders.
- The status queries.
- The configuration checks at the top of `Connect`. The model assumes a
  valid configuration.
- A user-supplied `Config.Conn` (client.go:322-326). With it, `Connect`
  reinstalls the same `net.Conn` in every new state instead of dialing;
  the model always dials a fresh connection per state.
- The built-in handlers, CTCP, and the event codec, which are not under
  `src/`.

`PROJECT.json` lists each of these with its reason, and the hazards no
property covers yet. Some of those hazards (the `reconnecting` flag race,
the connection leaked by two interleaved `Connect` calls, the connection
left open after a write error) are real defects: catching one would take
a violation run of its own, and the project keeps its runs to one per
question it asks of the engine and the supervisor.

## Plan

1. Compose the execLoop with the Caller, so that `SerialDispatch` is
   stated over real handler runs.
2. State the spec 8 property "a decode error triggers one reconnect
   sequence and one error callback".
