# A TLA+ verification project for wackyacp

`wackyacp` is a bridge in two directions. As a *harness driver* it lets wackypub
(through the D112 agent protocol) run a turn on an ACP harness subprocess, on the
`agy` CLI (through the ACP server `wackyagy`), or on the Claude Agent SDK (through
a node worker). As a *server* (`wackyacp serve`) it lets ACP frontends talk to an
agent that wackypub runs. This directory models the concurrent core of both.

## 1. Inventory

| Component | Source | State it keeps | Operations | Who it talks to |
|---|---|---|---|---|
| Serve: turns | `internal/serve/turn.go`, `server.go` | `turnsInFlight`, `active`, a `turnState` per turn, one goroutine per request, a pump per stream | prompt, cancel, close, teardown | ACP frontends; wackypub RPCs |
| Serve: replay | `internal/serve/replay.go` | none (pairs tool calls with results) | `session/load` | `ReadSession` |
| Serve: dialer | `internal/serve/dialer.go` | the one live wackypub child, `closed` | `Dial`, `Close` | gRPC, the child |
| Serve: process | `cmd/wackyacp/serve.go`, `serve/remote.go`, `grpc.go`, `identity.go` | list of connections | accept loop, shutdown | signals |
| ACP client | `internal/acp/client.go` | pending requests, `activeTurn` and its text buffer, session capabilities | initialize, establish, prompt, cancel, set option, permission replies | the harness's stdio |
| ACP decoding | `acp/tool_events.go`, `types.go`, `model_info.go` | none | mapping of notifications, `/model` | |
| D112 server | `internal/d112/server.go` | the turn gate `inFlight` | four turn RPCs, `ReadSession`, scratchpads | wackypub; a driver |
| agy bridge | `internal/agy/bridge.go`, `session.go` | session cache and its order, running turns, durable store | ACP methods, turn goroutine | frontends; the runner |
| agy turn | `internal/agy/runner.go`, `poller.go`, `db.go`, `protobuf.go`, `errorsniff.go` | row watermark, narration already emitted, bound conversation | spawn, poll, drain, map outcome | the `agy` child and its database |
| Claude driver | `internal/claudesdk/driver.go`, `protocol.go`, `worker/claude-sdk-worker.mjs` | worker generation, pending turn, session id | prompt, cancel, close, worker loop | the node worker |
| Skill sync | `internal/claudesdk/skillsync.go` | manifest of created links | sync | the file system |
| Session lock and record | `internal/session/session.go` | flock, `session.json` | acquire, read, write, release | other processes |
| Bridge process | `cmd/wackyacp/main.go`, `model.go`, `sdk_direct.go` | held lock, harness | one turn session, `model set` | all of the above |
| Harness process | `internal/harness/process.go` | child, its process group | start, close with escalation | the kernel |
| OAuth lock | `internal/harness/oauth_lock.go` | lock files and directories | recover stale locks | other processes |

Turns flow frontend -> `Server` -> `Backend` -> wackypub, and wackypub -> D112
server -> driver (ACP client or SDK driver) -> harness. Cancels flow along the same
path but on other goroutines, which is where most of the hard behaviour is:
a cancel, a lost connection or the end of a turn may come between any two steps of
the others. The remaining hazards are files shared with other processes (locks,
session records, the agy database) and crashes between two writes of them.
`PROJECT.json` lists the hazards with their lines.

## 2. Plan

Done so far, in the order of importance:

| Module | Part | Abstract specification | Proofs |
|---|---|---|---|
| `TurnGate` | what a gate promises its callers | | |
| `ServeTurn` (section 3) | serve mode: gate, prompt loop, cancellation, teardown | `TurnGate` | `ServeTurnProofs` |
| `AcpTurn` (section 4) | D112 server, ACP client and harness | `TurnGate` | `AcpTurnProofs` |
| `AgySessions` (section 5) | agy bridge: sessions, store, registry of turns | a `TurnGate` per session | `AgySessionsProofs` |
| `AgyStream` (section 6) | agy bridge: poller, drain, outcome | | `AgyStreamProofs` |
| `SdkTurn` (section 7) | SDK driver and its worker | | `SdkTurnProofs` |
| `BridgeProcess` (section 8) | lock, record, harness, session of a whole process | | `BridgeProofs` |
| `OAuthLock` (section 8) | clearing of stale OAuth locks | | `OAuthProofs` |
| `SkillSync` (section 8) | mirror of the on-demand skills | | `PartsProofs` |
| `Replay` (section 8) | replay of a history | | `PartsProofs` |
| `ServeProcess` (section 8) | accept loop, shutdown, dialer and children | | `PartsProofs` |

Left: writes of the agy store that fail; gRPC's flow control; a callback that blocks the
read loop.

`MCServeTurn`, `MCAcpTurn` and `MCAgySessions` add the symmetry of their instances.
`MCParts` checks the five parts of section 8 by one run: they share no state, so its
behaviours are those of one part, chosen at the start. `AgyStream` and `SdkTurn` are
checked as they are.

## 3. Serve turns

`ServeTurn.tla` has one action per step between two points where another goroutine
can interfere: a critical section under `turnMu`, one case of `Prompt`'s select, one
channel operation of the pump, one RPC. A `*turnState` exists once per admitted
prompt, so turns are named by prompts; a canceller is a `session/cancel` or
`session/close` message or the teardown of a connection. wackypub is external: it may
stream events, end the stream cleanly, with an error or with the canceled error, or
never; `CancelTurn` names only the agent, so it reaches whatever turn the agent runs.

`TurnGate.tla` is what the frontends are promised: one holder, every prompt settled
once, "busy" only while the gate is held, "cancelled" only if somebody asked.

| Run | Instance | Shows |
|---|---|---|
| `serve_turns` | 1 connection, 2 prompts, 1 cancel, shutdown, 1 event | type and gate invariants, honest stop reasons, `TurnGate` |
| `serve_live` | 2 connections (one may stall), 1 prompt, 1 cancel, 1 event, `FairSpec` | a cancelled turn is answered, the pump exits, a lost connection's turn is stopped |

Bounds. Two prompts are enough for every race between a turn and its successor,
one explicit canceller plus a teardown per connection gives two concurrent cancels,
and one event per turn fills the channel of capacity 1 while the pump holds the end
of the stream. The gate between two connections' prompts is proved for any number of
them; `serve_live` has two. Connections and prompts are symmetric in the safety runs.

Fairness (`Fairness`) is that of goroutines, timers and the kernel's EOF. The agent,
the peers and `CancelTurn` get none. Which ready case a select takes is left free;
since events are bounded, no case can win for ever, as Go's random choice ensures.

Where this model and the comments part, by TLC's counterexamples; they have no run of their
own. A cancel sent late stops the next turn, since `CancelTurn` names the agent and not the
turn (README.md:137-138, `CancelsExactlyThatTurn`: 2 connections, 2 prompts, 1 cancel). A
prompt admitted after its connection's teardown is orphaned (server.go:107,
`NoOrphanedTurn`, same instance under `FairSpec`). Further, without a property: the teardown
may stop another connection's turn, because the owner test and the cancel are two steps
(server.go:109-110); a cancel the agent honoured by a clean end of stream reads as
`end_turn` (turn.go:294-296); so may a turn cut short by the shutdown of the process
(turn.go:151-152); and while the loop writes to a peer that does not read, no grace period
ends the prompt (turn.go:21-23; `PeerStalled` in `CancelSettles`).

`ServeTurnProofs.tla` proves, for all constants satisfying `ServeAssumption`,
`TypeOK`, `GateConsistent`, `CancelledOnlyIfAsked`, `NoSpuriousBusy`,
`EndTurnIsReal`, `OwnCancelIsNotAFailure` and the refinement of `TurnGate`. The
inductive invariant `IInv` adds that the prompt past `BeginTurn` and before `EndTurn`
is the active one (`GateInv`), that a canceller about to close a channel holds an
admitted turn (`TargetInv`), and that the handler's locals tell the truth about the
channel (`CancelInv`). `StreamInv` and `StrayInv` relate the pump, the channel and
the agent: the end of stream found in the channel is the agent's, and a cancel that
reached the agent closed its own turn's channel first.

## 4. ACP client and D112 gate

`AcpTurn.tla` composes the D112 server's turn RPCs, the ACP client under them and the
harness subprocess (external) across its two pipes. A turn is one RPC: its handler
goroutine walks `BeginTurn`, `ActivateTurn`, `Register`, `WriteRequest`, a wait with
three ways out, `CloseTurn`, the reports and the deferred `CancelIfDone`, `EndTurn`.
The read loop is the other goroutine of the bridge: it reads one line at a time and,
between taking the buffered text under `mu` and handing it to a callback after the
unlock, can be overtaken by the handler. A callback is a step of its own, because the
handler can close the turn while it runs. The harness reads `stdin`, talks, asks
permissions, answers, or exits, in any order ACP allows.

| Run | Instance | Shows |
|---|---|---|
| `acp_turns` | 2 turns or `/model` commands, both callers may go, text and tool events, the harness may exit | types, the slot, complete and ordered streams, one sender per stream, `TurnGate` |
| `acp_live` | 2 turns, one caller may go, text and permissions, the harness may exit and may talk after its answer, `FairSpec` | a cancel stops no turn whose caller waits; released callers, stopped turns, answered permissions |

Bounds. Two turns give every race between a turn and its successor. `MaxNotes`
bounds what the harness sends for one turn: two let a tool event overtake text or text
a tool event. `MayTrail` lets a harness send updates after its answer; it is FALSE in
`acp_turns` because `CompleteTurn` and `OneSender` are promises for a harness
that does not. (With one that does, an update can follow the "final usage chunk" of
server.go:152, or be sent at the same time.)

Abstractions. `stream.Send` returns (gRPC's flow control is left out). Usage and info
updates only flush the buffer, as tool events do, so they are no kind of their own. A
unary RPC is a streaming one without events. All turns share one session id, which
`EstablishSession` fixed, so the check that drops updates of other sessions never fires.
`select` may prefer a dead harness to an answer that is there too (client.go:632-642);
both outcomes are in the model and nothing in the repository prefers one.

Fairness. `ClientFairness` is that of the handler and of the read loop, which are
goroutines. Nothing in the repository makes a harness read its input or end a turn it was
told to cancel: `HeedfulHarness` says so of one, and is the antecedent of
`AbandonedTurnStops` and `PermissionAnswered`, which are about the harness's own work.
`CallerReleased` does not assume it.

`AcpTurnProofs.tla` proves, for all turns and bounds allowed by `AcpAssumption`,
`TypeOK`, `SlotConsistent` and the refinement of `TurnGate`. `SlotConsistent` is not
inductive: that the client's `activeTurn` belongs to the slot's holder needs that only
the handlers between `beginTurn` and `endTurn` touch it (`SlotInv`), and that an
outcome is decided before it is reported (`ResultInv`); `IInv` is their conjunction.

`StopsOnlyAbandoned` is about the pipes, and follows from `PipeInv`: a turn's request is
written once and is in one place at a time, in `stdin`, with the harness or answered
(`RequestInv`); behind the end of a pipe there is nothing (`EofInv`); and a cancel lies
behind the requests of turns whose callers have gone and of no other (`AbandonInv`), because
the handler writes it before it gives up the slot. `OneSender` is proved against a harness
that sends nothing for a turn after its answer (`~MayTrail`), and rests on where the read
loop's `ref` can point (`RefInv`), on requests being answered in the order they were written
(`OrderInv`), and on every update still in a pipe, the loop or the buffer being ahead of the
answer of its own turn and behind those of earlier ones (`NoteInv`). With a harness that
trails TLC finds it violated.

`CompleteTurn`, proved under the same `~MayTrail`, needs three more. While a turn is in its
`Prompt` it is the active one, and what the read loop handles of it was captured for it
(`LiveInv`); so what goes to its stream is its own, or of turns whose caller has gone
(`ForeignInv`). And its messages stand in one line (`ChainInv`): each number the harness has
used is in exactly one of the turn's stream, the text the read loop took, the text the
handler took, the buffer, the message being handled and `stdout`, and whatever is further
along has the smaller number. A handler past its `Prompt` finds all of these but the stream
empty. The proof uses nothing of the turn's result: a prompt that failed with its caller
still there has sent the same messages.

`NoBleed` is what a test says and the code does not keep: text of a turn whose caller has
gone reaches the next turn's stream (d112/server.go:38-41, client_test.go:743; 2 turns of
which one may be abandoned, one text each). It has no run; `CompleteTurn` excepts it.

## 5. agy bridge: sessions

`AgySessions.tla` models `wackyagy`, an ACP server whose turns are run by the external
`agy` CLI. There are two kinds of goroutine. `Serve` handles one request after another
(`srv` holds the request and how far it is: `Resolve`, `ReadStore`, `Restore`, then what the
request is for); a prompt leaves a goroutine of its own behind (`pc[p]`: `Launch` or one of
its failures, `Poll`, `Drain`, `CacheRow`, `PersistRow`, `Respond`, `Unregister`). A step is
what happens between two points where the other can interfere: a critical section under
`b.mu`, a write of the store, an answer. A conversation is its position in `convs`, and the
number of rows stands for its content; a session row is the conversation, the watermark
and the model. `agy` creates and writes its conversation whenever it likes.

`born`, `sent` and `told` are the client's: the sessions it knows, the requests it sent,
and the row it was told of each session, which is what the properties compare with.

The process may end (`Eof`, `ServeReturns`) or be killed at any step (`Crash`), which
empties the cache and the registry of turns; `Restart` starts a new one on the same store.

| Run | Instance | Shows |
|---|---|---|
| `agy_sessions` | 2 sessions, a cache of 1, 2 prompts, 1 other request, orderly restarts | a turn resumes where the last one ended, across evictions and restarts; a `TurnGate` per session |
| `agy_restart` | 1 session, 2 prompts, killed at any step, `FairSpec` | what the client was told is on disk at every crash; cancelled turns are answered, an ended stdin stops the bridge |
| `agy_crosstalk` | 2 sessions, 2 prompts | counterexample: a first turn binds another session's conversation (db.go:97-98) |

Bounds. Two sessions over a cache of one force an eviction and a restore at every change
of session, also while the other's turn runs. One row per conversation tells read from
unread. The passing runs let a client send nothing in a session while its prompt is open
(`Overlap = {}`). With `Overlap = {"configure"}` TLC finds `TurnResumes` violated: a model
chosen while a turn runs is lost when the turn writes back the row it resolved at its start
(bridge.go:387, session.go:12-15).

Fairness. Goroutines run, and a child whose context is done is killed in the end
(`cmd.Cancel`, `WaitDelay`). Nothing is assumed of `agy` otherwise, or of the client.

`ImplementsGates` is one refinement per session: the holder is its registered turn, those
asked to stop are its cancelled turns and those that ended with stdin, and a turn lost in a
crash has failed. Abstractions: store writes succeed and replace the whole document (they
are made under a lock, by rename); failing listings, malformed requests, `initialize` and
the sessions of other bridges on the same store are left out; a session that was never
prompted is in the cache only and is unknown once evicted, as in the code.

`AgySessionsProofs.tla` proves, for any number of sessions and prompts and any size of the
cache:

- `ImplementsGates`, without a condition, so also for a bridge that is killed and a client
  that asks for several things of a session at once. `RegistryInv` ties the registry to the
  prompts between `Launch` and `Unregister`; `VerdictInv` says that a turn reported as
  cancelled was asked to stop.
- `ToldIsDurable` and `TurnResumes` under `Overlap = {}`: the client awaits the answer to a
  prompt before it asks for more of that session. The code does not enforce it, and without
  it `TurnResumes` is false (above).

The last two rest on `RowsInv`, which says of each session, at each point of a turn and of
`Serve`, which of its four rows (cache, store, the request's and the turn's) agree with what
the client was told. `KnownInv`: a watermark never exceeds its conversation, so that polling
only raises it. `BornInv`: what was never born has no row. `Alone`: `Serve` handles no request
of a session with a turn under way, which is what `Overlap = {}` gives. `Durable`: the store
holds all the client was told, also between the two writes of a turn. `Exact`: it holds
nothing else, unless a turn was cut off. `Steady`: the model chosen last is in the cache, or
in the store, or still in the hands of the request that stores it. Most steps keep the rows
of all sessions but one `Apart`, and are shown to do so once.

## 6. agy bridge: the stream of a turn

`AgyStream.tla` follows `runTurn` (runner.go) and the `TurnPoller` (poller.go) through
successive turns of one bound session. `rows` is the steps table; a text row has `len` of at
most `MaxUnits` units and a shape that says for which lengths it reads as narration.
`Launch` starts `agy` and a poller from the stored watermark; `Tick` is a poll of the
ticker; `Waited` the exit of the child; `Drain` one read of `drainFinal`, which may find the
database locked, and after which `finalPollTimeout` may have passed (`MayExpire`, which ends
the drain as a spent budget does); `Ends` maps the outcome and stores the watermark.
`PollOnce` sends all that is new in the order of the rows, or, with the frontend gone, ends
the child's context. `feed` is what the frontend was sent, over all turns.

| Run | Instance | Shows |
|---|---|---|
| `agy_stream` | 2 turns, 2 rows of every shape, 3 reads per drain of which 1 may fail, `FairSpec` | sent once, in order and in full; a hidden failure is told; turns end |
| `agy_lost_tail` | the same, all 3 reads may fail, the deadline may pass | counterexample: the tail of a row is below the next watermark and lost (runner.go:502) |

Bounds. Two units let a row grow between two reads and change to or from narration on the
way; two rows put one behind it. The drain's budget is 3 reads (5 in the code), which is
what it takes to find rows, then fail, then find nothing. Only one read of a drain fails
in `agy_stream`, and its deadline does not pass, so that neither ends it early: that case is
`agy_lost_tail`, and `NothingMissing` speaks of turns whose last read was clean and quiet.
`Settles` covers the three ways out: the child has exited, the turn was cancelled, or an
update could not be sent (`runner.aborted`, runner.go:285-292), also with `agy` going on.

Fairness. The runner's steps after the child's exit, and the kill of a child whose context
has ended. Ticks get none: the drain has to do without them.

Divergences. startPoller's comment that after an emit error "the next tick retries the same
data" (runner.go:341-342) does not hold: the poller has moved on, and the emit error ends
the child's context. That error is kept in a variable that shadows runTurn's
(runner.go:277), so that `mapOutcome` never sees it; the frontend it failed to reach sees no
answer either. poller.go:174-175 says narration rows are dropped "entirely": a row that
reads as narration only later was sent up to there (`Surfaced` says which units a change
leaves out). When a drain is spent on failing reads or out of time, the rows it left unread
set `hadUpdates` of the next turn, which may then hide a failure of its own:
`SwallowedErrorTold`, too, needs the bound on failing reads and the deadline.

Abstractions. One session, already bound, no rival writers (those are in `AgySessions`);
a tool row is complete when it appears. The updates of a read are written as the sequence of
`NewUnits` that is sorted by `Before`; the code gets it by a query ordered by row.

`AgyStreamProofs.tla` proves `TypeOK` and `OnceInOrder` for any number of turns, rows,
attempts and failing reads. That there is one sorted sequence of a finite set to choose
(`SortedExists`) is proved by giving each unit its rank. The inductive invariant `OrderInv`
needs that every row below the last one read is read in full, for only the last row grows
(`PollerInv`), and that what was sent lies below the watermark of the turn or the count of
its row (`FeedInv`); so a unit found by a read comes after all that was sent.

`NothingMissing` and `SwallowedErrorTold` are proved for `MaxLocked + 2 <= DrainAttempts`
and `~MayExpire`: a drain has an attempt to find what is left and one to find nothing,
beside those that fail, and the time to make them. The code has five attempts in five
seconds and no bound on failures; `agy_lost_tail` shows what happens without one, so the
conditions are the finding's other side and not a convenience. `DrainInv` counts: once agy
has exited the rows are final, so that at most one read finds something, and a drain that
ends has read everything. `SentInv` says what was sent of a row by what was read of it
(`Followed`), which is what has to surface of it (`Surfaced`) when it was read in full, and
that `hadUpdates` is set only by what was sent. `Settles` stays with TLC.

## 7. SDK driver and worker

`SdkTurn.tla` composes the D112 handler, the driver (driver.go) and the Node worker
(claude-sdk-worker.mjs) with the two pipes between them. The handler's `turn.pc` is its
place in `ensureWorker`, `runTurn`'s select, or the deferred cancel; `box` are the
one-place channels of pending requests; `Dispatch` is the read loop taking one frame.
The worker reads one frame at a time, but a query goes on beside its read loop
(`QueryLoads`, `QuerySpeaks`, `QuerySucceeds`, `QueryFails`), and its `finally` clears
`active` whatever that holds. The turn may also fail before it prompts (`PromptFails`:
composing the prompt or mirroring the skills), and a resume may fail with the transcript on
disk, when that is damaged. `transcripts` and `record` are on disk, and survive the worker
(`WorkerDies`), the bridge (`BridgeEnds`, `BridgeStarts`) and, transcripts aside, Claude's
housekeeping (`TranscriptDeleted`).

| Run | Instance | Shows |
|---|---|---|
| `sdk_turns` | 2 turns, 2 bridges, 1 death of the worker, transcripts may vanish, `FairSpec` | complete answers of the turn's own request; no interrupt of a turn whose caller waits; nothing answered is forgotten without a warning; cancelled turns and turns of a dead worker end |
| `sdk_lost_cancel` | 2 turns | counterexample: an old query's `finally` clears the next one's `active`, whose cancel is dropped (driver.go:665-666) |

Bounds. Two turns, each with up to two requests, give every race between a query that was
given up and the next one; a second bridge reads the record of the first.

Fairness is that of the handler, the read loop and the end of a dead worker; neither the
worker nor the SDK has to answer, and callers need not leave.

Abstractions. The SDK keeps the session id when it resumes, and a fresh query under an id
that exists does not erase its transcript; housekeeping takes no transcript from under a
loaded query; a write of the record succeeds. A warning of a unary turn that then fails is
counted as given, although `AddAndGenerateTurn` returns only the error.

`SdkTurnProofs.tla` proves `TypeOK`, `NoStrayInterrupt`, `CompleteAnswer` and `NoSilentLoss`
for any number of turns, bridges and deaths of the worker, with no further assumption. The
invariant `SdkInv` is built in layers, each proved from those before it:

| Layer | Says |
|---|---|
| `Shape` | the types, and what the turn, the worker and the pipes look like at each point of the handler |
| `Meant` | the frames of two turns keep their order, so that a cancel the worker reads while this turn's query runs is this turn's |
| `Replied` | a request is prompted once, its text precedes its one final frame, and both precede the answer in its box |
| `Sent` | what an earlier turn wrote is read before this turn's prompt, and a prompt no one awaits has its cancel behind it |
| `Named` | which session the record, the driver, a prompt and a query name |
| `Conversed` | what the transcript of the recorded session holds: the turns answered so far, save those a warning called lost |

`NoStrayInterrupt` follows from `Meant`, `CompleteAnswer` from `Replied`, and `NoSilentLoss`
from all of them. The proof showed a limit of `NoSilentLoss` that the instance of TLC is too
small to reach. A query whose cancel was dropped (`sdk_lost_cancel`) goes on beside later
turns; when it loads only after housekeeping has deleted the session's transcript, it starts
the transcript anew, and the next resume succeeds on a transcript without the turns between,
with no warning. `strayed`, a history variable, records that a cancel was dropped in this way,
and `NoSilentLoss` speaks of behaviours up to that point.

## 8. The parts around the turns

One run, `parts`, of `MCParts`, over these instances:

| Part | Instance | Shows |
|---|---|---|
| `BridgeProcess` | 1 bridge, 1 `model` command, 3 sessions, every start record and set of capabilities | one harness at a time; what is served is on record; a session is given up only if refused or unreadable; told processes leave |
| `OAuthLock` | 2 other processes, 2 lock files in all, 1 heartbeat each, 1 recovery | `RecoveryExact`: living holders keep their locks, and stale locks are gone at the end, save where a call failed |
| `SkillSync` | 2 skills, any number of syncs | links mirror the tree; hand-made directories stay |
| `Replay` | 3 calls of 2 names, at most 2 per turn, with ids or without, answered or not | responses complete their own calls, without ids those in step |
| `ServeProcess` | 1 connection, 2 dials, over TCP or stdio | one child with an open stdin, none left behind, a SIGTERM ends the process |

**BridgeProcess.** `process[p].pc` is the step of `run` (main.go) or `runModel` (model.go),
from `AcquireLock` (which may fail of other causes than a held lock) through `ReadSession`,
`StartHarness`, `Initialize`, `EstablishSession` (resume, load, new, and the record's write
and rename), `Serve`, `CloseHarness` to `Release`; errors take the deferred calls in their
order (`Fail`). A signal may come at any step, and so may a SIGKILL (`Killed`), which frees
the flock and leaves the harness, since that has a session of its own. The harness answers,
refuses, hangs or exits. Two processes are enough for one to come between any two steps of
the other, three sessions for each to replace the one before. Fairness: what the process
does by itself (`GoesOn`), which waits for an answer only while its context lives; `Leaves`
assumes nothing of the harness. Known limits of what holds, seen in the model: a harness of
a killed bridge may live on beside the next one's (`OneHarness` excepts it); any error of
resume and load, not only a refusal, leads on to `session/new` and so to a new record, and
when the signal comes in the middle of it that can succeed (`Continuity` excepts it); a
whole record that cannot be read counts as no session and is replaced without a refusal
(main.go:99-104, `unread`, excepted too); the end of stdin is not noticed before the bridge
serves, so that a harness that hangs in `initialize` keeps the lock until a signal.

`BridgeProofs.tla` proves `BridgeTypeOK`, `OneHarness`, `ServesRecord` and `Continuity` for
any number of processes and sessions. `OneHarness` is not inductive: that nobody's harness
lives when another is spawned needs that the spawning process holds the lock alone (`Alone`)
and that nobody gives the lock up over a living harness (`HarnessInv`); `IInv` is their
conjunction with the types. Every step of a process is first shown to have one and the same
`Effect` on the lock, the process and its harness, which preserves `IInv`. For the record,
`RecordInv` says what a process knows of it: the session it read, unless it could not read
it, is still the recorded one, and a method of reopening it was passed over for an excuse,
or after the end of its harness, which `session/new` does not survive. `Leaves` is liveness
and stays with TLC.

`OAuthProofs.tla` and `PartsProofs.tla` do the same for the other four parts, for all values
of their constants; the arguments are given with each part below.

**OAuthLock.** `recovery` walks `recoverSingleLock` over the main lock and then the legacy
one beside it, a system call at a time, each of which may fail (`StatFails`, `UnlinkFails`;
the error is told and the lock stays, so that it is no longer `doomed`), while others
acquire, beat, give up, die or clear the same locks. The age of a lock is taken at the
judgement from the time seen by the first stat (`Aged`), so that a lock kept fresh in
between may be judged stale. What the code keeps is weaker than oauth_lock.go:199-202
("ensuring a fresh lock acquired or updated during analysis is left alone"): `steady` takes
in only locks whose freshness the second stat could see, and main locks whose holder is the
one on record. A lock replaced between the second stat and the removal is lost, so is a live
one judged by the owner record of a dead predecessor, and the legacy path is removed unseen
with the main one. Of the directory's other candidates the two stand for all;
sdk_direct.go:75-76 has that the ACP path recovers locks in `harness.Start`, which
process.go does not do. `RecoveryExact` is proved. The two directions need one invariant per
lock. `Keeps`: while a lock is steady, what the recovery has stat'ed, read and judged of it
so far cannot lead to its removal: judged stale it can only be by an age it no longer has,
and then its time has changed and the second stat leaves it. `Clears`: a lock that was stale
when the recovery came to it is still judged stale at each later step, for nobody beats or
replaces the lock of a dead owner unless it is removed first. Identities are never used
again (`IdInv`).

**SkillSync.** A step is a call on the file system: the skills of the tree in any order,
then the retired names of the manifest, then the manifest, which is truncated before it is
written. A sync may break off anywhere (`SyncBreaks`), and people and the tree change things
between syncs. A manifest that cannot be read or parsed counts as empty (skillsync.go:50-53)
and the sync goes on: links of skills retired since may stay, as after a broken sync.
skillsync.go:61 says a sync "never deletes anything it did not create"; of
directories that is `HandMadeKept`. Symbolic links made by hand are replaced where a skill
wants the slot, and removed where the manifest names it, by the code and in the model. After
a sync that broke off, links of retired skills may stay for good: `Mirrors` excepts them.
`Mirrors` and `HandMadeKept` are proved, for any number of skills and syncs: the names a sync
keeps are those of the tree (`Kept`), what it has passed is as it should be (`Linked`), and
outside a broken sync a link is left at rest only where the manifest names it (`Accounted`).

**Replay.** The agent makes the history, then `Replay` goes through it. Any turn may be
without content, and any call unanswered, with ids or without. With ids `PairedRight` speaks
of every response. Without ids it speaks of responses to calls `InStep`, those of whose name
no earlier call that was shown lacks a shown response. The condition is where the code stops
being right: of two calls of one name without ids, the first never answered, the response of
the second is taken off the queue for the first (replay.go:83-85), which is then shown as
completed and the second as pending. replay.go:24-25 says that "an unmatched call is left in
pending status rather than fabricated into a result"; without ids that holds only until the
next response of its name, and TLC finds this history when the condition is dropped.
Histories in which some calls have ids and others none are left out: there a call with an id
stays in the by-name queue when it has been answered, and a response without an id may
complete it.

`PairedRight` is proved for histories of any length with any names. One half of `ReplayInv`
is about the history: calls and responses lie in the order the calls were made
(`CallOrder`), and the calls of a turn are shown or not as a whole (`SameTurn`, `InTurn`).
The other is about the replay (`OpenInv`): with ids the open calls are those shown and not
answered; without ids the queue of a name holds these in ascending order as long as the
responses of that name were to calls in step (`SoFarInStep`). Before a response to a call in
step they all were (`InStepSoFar`), and nothing of that name is open before it
(`NoneBefore`), so that the head of the queue is the call it answers.

**ServeProcess.** The accept loop, the shutdown goroutine and the deferred closes of
`runServe` beside the gRPC client's dials (serialized by `Dialer.mu`) and the children. A
child is "live" while its stdin is open. Two dials overlap, and a third would wait for the
mutex like the second. Fairness is that of the process's goroutines; a spawn returns. The
usage text has SIGTERM drain connections (serve.go:364): `runServeTCP` does not wait for
their handlers, and a connection that is listed after the shutdown goroutine ran is not
closed by it but by its own `Serve`, which sees the context. `NoOrphan` is proved for any
number of dials and connections: the mutex is held by the one dial that is spawning or has
spawned (`MutexInv`), and a child with an open stdin is the active one or that dial's, until
somebody who will close it has taken it over (`Attended`). `SigtermExits` stays with TLC.

## 9. What is not proved or not modelled

`TypeOK` of `AgySessions`, `AgyStream` and `SdkTurn`, and `BridgeTypeOK`, document the types
of their variables; they held on the instances above and have no run of their own. The last
three are proved. Of the first all is proved that other proofs need (`Types` of
`AgySessionsProofs`); the order of the cache, which the eviction filters with `SelectSeq`,
is left out of it. `CancelledOnlyIfAsked` is proved, and follows from `ImplementsGate`,
which `serve_turns` checks.

Proved for every value of the constants: all safety invariants and action properties that
the passing runs check, and the refinements of `TurnGate`. These depend on conditions beyond
the modules' own assumptions: `OneSender` and `CompleteTurn` (`~MayTrail`), `ToldIsDurable`
and `TurnResumes` (`Overlap = {}`), `NothingMissing` and `SwallowedErrorTold` (`MaxLocked +
2 <= DrainAttempts` and `~MayExpire`). Each is what the run that checks the property assumes
too, and for each TLC shows, or the section above tells, what happens without it.

Checked by TLC only, on the instances above: everything about liveness, since temporal
induction under fairness is out of this prover's reach (`CallerReleased`, `Leaves`, `Settles`,
`SigtermExits` and the others of the `FairSpec` runs), and with it the halves of arguments
that rest on it: that the settled states the proofs speak of are reached at all.

Not modelled: decoding and wording (the mapping of ACP notifications, agy's protobuf rows,
model lists), flags, TLS and identity headers, the manifest command and the scratchpad
tools, which keep no state that the properties tell apart. Abstracted away throughout: the
flow control of gRPC and of pipes, token counts, and the content of messages.
