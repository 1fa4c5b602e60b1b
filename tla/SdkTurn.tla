-------------------------------- MODULE SdkTurn --------------------------------
(***************************************************************************)
(* Turns of the SDK-direct bridge: the handler of the D112 server, the     *)
(* driver of internal/claudesdk/driver.go and the Node worker it keeps     *)
(* (worker/claude-sdk-worker.mjs), with the two pipes between them.        *)
(*                                                                         *)
(* Turns run one at a time (TurnGate has the gate).  Turn n may submit two *)
(* prompts to the worker: 2n - 1, and 2n when the worker could not resume  *)
(* the conversation.  The queries of the Agent SDK run inside the worker,  *)
(* and a query the driver has given up goes on until the SDK ends it.      *)
(***************************************************************************)
EXTENDS Naturals, Sequences

CONSTANTS
    MaxTurns,      \* turns of one history
    MaxBridges,    \* bridge processes of one history, one after the other
    MaxDeaths,     \* deaths of the worker that nobody asked for
    MayLoseFiles   \* whether Claude's housekeeping may delete a transcript

ASSUME SdkAssumption ==
    /\ MaxTurns \in Nat \ {0}
    /\ MaxBridges \in Nat \ {0}
    /\ MaxDeaths \in Nat
    /\ MayLoseFiles \in BOOLEAN

Turns == 1 .. MaxTurns
Requests == 1 .. 2 * MaxTurns
TurnOf(r) == (r + 1) \div 2

\* The bridge that comes b-th mints session b; 0 is no session.
Sessions == 1 .. MaxBridges
NoSession == 0

\* What a pending request can be answered with.
Replies == {"none", "result", "failed", "resume_failed"}

VARIABLES
    turn,         \* the turn being served, by its handler
    driver,       \* the fields of Driver
    box,          \* the channel of each request, which holds one reply
    toWorker,     \* the worker's stdin
    fromWorker,   \* its stdout
    worker,       \* the worker process
    active,       \* the query the worker would interrupt, 0 for null
    query,        \* the SDK query of each request
    transcripts,  \* per session: the turns its transcript holds, on disk
    record,       \* the session acp-session.json names
    bridge,       \* the number of the bridge, and whether it runs
    deaths,       \* deaths of the worker so far
    answered,     \* history: the turns answered with success
    lost,         \* history: the turns a warning said were lost
    cancelRead,   \* history: the turns whose cancel the worker has read
    strayed       \* history: whether a cancel was read that left a query of its turn going

vars == <<turn, driver, box, toWorker, fromWorker, worker, active, query,
          transcripts, record, bridge, deaths, answered, lost, cancelRead, strayed>>
driverVars == <<turn, driver, box>>
workerVars == <<worker, active, query>>
diskVars == <<transcripts, record>>
history == <<answered, lost, cancelRead, strayed>>

Absent == [held |-> FALSE, turns |-> {}]
Idle(n) == [n |-> n, pc |-> "idle", request |-> 0, resume |-> FALSE,
            cancelled |-> FALSE, owes |-> FALSE, outcome |-> "none"]
NoQuery == [state |-> "none", resume |-> FALSE, sid |-> NoSession,
            context |-> {}, said |-> FALSE, heard |-> FALSE]

\* New: a driver without a worker, for the session the record names.
NewDriver(sid) == [cmd |-> FALSE, ready |-> "no", gone |-> FALSE, pending |-> {},
                   established |-> sid # NoSession, sid |-> sid]

Init ==
    /\ turn = Idle(0)
    /\ driver = NewDriver(NoSession)
    /\ box = [r \in Requests |-> "none"]
    /\ toWorker = <<>>
    /\ fromWorker = <<>>
    /\ worker = "none"
    /\ active = 0
    /\ query = [r \in Requests |-> NoQuery]
    /\ transcripts = [s \in Sessions |-> Absent]
    /\ record = NoSession
    /\ bridge = [n |-> 1, up |-> TRUE]
    /\ deaths = 0
    /\ answered = {}
    /\ lost = {}
    /\ cancelRead = {}
    /\ strayed = FALSE

--------------------------------------------------------------------------------
(***************************************************************************)
(* The handler and the driver.                                             *)
(***************************************************************************)
At(pc) == bridge.up /\ turn.pc = pc
Goto(pc) == turn' = [turn EXCEPT !.pc = pc]

\* The turn ends with an error; a handler whose caller is gone cancels first.
EndsWith(t, outcome) ==
    [t EXCEPT !.pc = "leave", !.outcome = outcome, !.owes = TRUE]

\* AddAndGenerateTurn, GenerateTurn and AddAndStreamTurn, behind the gate.
BeginTurn ==
    /\ At("idle")
    /\ turn.n < MaxTurns
    /\ turn' = [Idle(turn.n + 1) EXCEPT !.pc = "ensure"]
    /\ UNCHANGED <<driver, box, toWorker, fromWorker, workerVars, diskVars, bridge, deaths, history>>

\* The caller cancels, hangs up, or reaches its deadline.
CallerLeaves ==
    /\ bridge.up
    /\ turn.pc # "idle"
    /\ ~turn.cancelled
    /\ turn' = [turn EXCEPT !.cancelled = TRUE]
    /\ UNCHANGED <<driver, box, toWorker, fromWorker, workerVars, diskVars, bridge, deaths, history>>

\* ensureWorker up to its select, with startWorker: a worker that cannot be
\* started fails the turn and leaves the driver without one.
EnsureWorker ==
    /\ At("ensure")
    /\ IF driver.cmd
       THEN /\ Goto("await")
            /\ UNCHANGED <<driver, toWorker, fromWorker, worker, active>>
       ELSE \/ /\ driver' = [driver EXCEPT !.cmd = TRUE, !.ready = "no", !.gone = FALSE]
               /\ worker' = "booting"
               /\ active' = 0
               /\ toWorker' = <<>>
               /\ fromWorker' = <<>>
               /\ Goto("await")
            \/ /\ driver' = [driver EXCEPT !.ready = "failed", !.gone = FALSE]
               /\ turn' = EndsWith(turn, "error")
               /\ UNCHANGED <<toWorker, fromWorker, worker, active>>
    /\ UNCHANGED <<box, query, diskVars, bridge, deaths, history>>

\* The select of ensureWorker: ready, the worker's end, 30 seconds, the caller.
WorkerReady ==
    /\ At("await")
    /\ driver.ready = "yes"
    /\ Goto("submit")
    /\ UNCHANGED <<driver, box, toWorker, fromWorker, workerVars, diskVars, bridge, deaths, history>>

WorkerNotReady ==
    /\ At("await")
    /\ \/ driver.ready = "failed"
       \/ driver.gone
       \/ turn.cancelled
       \/ driver.ready = "no"     \* the timer
    /\ turn' = EndsWith(turn, "error")
    /\ UNCHANGED <<driver, box, toWorker, fromWorker, workerVars, diskVars, bridge, deaths, history>>

\* The system prompt cannot be composed, or the skills not be synced.
PromptFails ==
    /\ At("submit")
    /\ turn.request = 0
    /\ turn' = EndsWith(turn, "error")
    /\ UNCHANGED <<driver, box, toWorker, fromWorker, workerVars, diskVars, bridge, deaths, history>>

\* write: one frame on the worker's stdin.  (Fault: cancels are written by a
\* goroutine of their own, which a later prompt may overtake.)
Write_async(f) ==
    toWorker' = IF f.op = "prompt" THEN <<f>> \o toWorker ELSE Append(toWorker, f)
Write(f) == toWorker' = Append(toWorker, f)

\* Prompt from the composed system prompt to the request runTurn writes: the
\* session to drive, whether to resume it, the channel and the frame.  A write
\* to a worker that has ended fails the turn.
Submit ==
    /\ At("submit")
    /\ LET sid == IF driver.sid = NoSession THEN bridge.n ELSE driver.sid
           resume == driver.established /\ turn.request = 0
           r == IF turn.request = 0 THEN 2 * turn.n - 1 ELSE 2 * turn.n
       IN IF driver.cmd /\ worker # "dead"
          THEN /\ driver' = [driver EXCEPT !.sid = sid, !.pending = @ \union {r}]
               /\ turn' = [turn EXCEPT !.pc = "wait", !.request = r, !.resume = resume]
               /\ Write([op |-> "prompt", request |-> r, sid |-> sid, resume |-> resume])
          ELSE /\ driver' = [driver EXCEPT !.sid = sid]
               /\ turn' = EndsWith(turn, "error")
               /\ UNCHANGED toWorker
    /\ UNCHANGED <<box, fromWorker, workerVars, diskVars, bridge, deaths, history>>

\* What the warning of a lost conversation covers: every turn answered so far.
WarnLost == lost' = lost \union answered

\* runTurn takes the reply.  A failed resume is tried again once, on a fresh
\* session, and the caller is warned; the retry's own failure ends the turn.
TakeReply ==
    /\ At("wait")
    /\ LET reply == box[turn.request]
       IN /\ reply # "none"
          /\ box' = [box EXCEPT ![turn.request] = "none"]
          /\ CASE reply = "result" -> Goto("record") /\ UNCHANGED lost
               [] reply = "resume_failed" /\ turn.request = 2 * turn.n - 1 ->
                      Goto("submit") /\ WarnLost
               [] OTHER -> turn' = EndsWith(turn, "error") /\ UNCHANGED lost
    /\ UNCHANGED <<driver, toWorker, fromWorker, workerVars, diskVars, bridge, deaths, answered, cancelRead, strayed>>

Forget(r) == driver' = [driver EXCEPT !.pending = @ \ {r}]

\* interrupt: a cancel frame, if there is a worker to read it.
Interrupt ==
    IF driver.cmd /\ worker # "dead"
    THEN Write([op |-> "cancel", request |-> turn.request, sid |-> driver.sid, resume |-> FALSE])
    ELSE UNCHANGED toWorker

\* Fault: the caller is looked for only when a reply has come.
TurnCancelled_onReply ==
    /\ At("wait")
    /\ turn.cancelled
    /\ box[turn.request] # "none"
    /\ Interrupt
    /\ Forget(turn.request)
    /\ turn' = EndsWith(turn, "error")
    /\ UNCHANGED <<box, fromWorker, workerVars, diskVars, bridge, deaths, history>>

\* runTurn sees the caller gone, which may be while a reply is already there.
TurnCancelled ==
    /\ At("wait")
    /\ turn.cancelled
    /\ Interrupt
    /\ Forget(turn.request)
    /\ turn' = EndsWith(turn, "error")
    /\ UNCHANGED <<box, fromWorker, workerVars, diskVars, bridge, deaths, history>>

\* runTurn sees the worker gone.
TurnOrphaned ==
    /\ At("wait")
    /\ driver.gone
    /\ Forget(turn.request)
    /\ turn' = EndsWith(turn, "error")
    /\ UNCHANGED <<box, toWorker, fromWorker, workerVars, diskVars, bridge, deaths, history>>

\* Fault: only a session restored from the record is resumed.
Record_noSession ==
    /\ At("record")
    /\ record' = driver.sid
    /\ turn' = EndsWith(turn, "ok")
    /\ UNCHANGED <<driver, box, toWorker, fromWorker, workerVars, transcripts, bridge, deaths, history>>

\* Prompt after a successful turn, with OnSessionEstablished: from now on turns
\* resume, and so does the next bridge.
Record ==
    /\ At("record")
    /\ driver' = [driver EXCEPT !.established = TRUE]
    /\ record' = driver.sid
    /\ turn' = EndsWith(turn, "ok")
    /\ UNCHANGED <<box, toWorker, fromWorker, workerVars, transcripts, bridge, deaths, history>>

\* The first deferred call of the handler: Cancel, if the caller is gone.
CancelDriver ==
    /\ At("leave")
    /\ turn.owes
    /\ turn' = [turn EXCEPT !.owes = FALSE]
    /\ IF turn.cancelled THEN Interrupt ELSE UNCHANGED toWorker
    /\ UNCHANGED <<driver, box, fromWorker, workerVars, diskVars, bridge, deaths, history>>

\* The last one: endTurn.  The answer goes out, unless nobody waits for it.
LeaveTurn ==
    /\ At("leave")
    /\ ~turn.owes
    /\ turn' = Idle(turn.n)
    /\ answered' = IF turn.outcome = "ok" /\ ~turn.cancelled
                   THEN answered \union {turn.n} ELSE answered
    /\ UNCHANGED <<driver, box, toWorker, fromWorker, workerVars, diskVars, bridge, deaths, lost, cancelRead, strayed>>

--------------------------------------------------------------------------------
(***************************************************************************)
(* readLoop: one frame at a time, in the order the worker wrote them.      *)
(***************************************************************************)
\* dispatch, with deliverEvent and deliverResult: a frame whose request nobody
\* waits for is dropped.
Dispatch ==
    /\ bridge.up
    /\ fromWorker # <<>>
    /\ fromWorker' = Tail(fromWorker)
    /\ LET f == Head(fromWorker)
           awaited == f.request \in driver.pending
       IN CASE f.type = "ready" ->
                  /\ driver' = [driver EXCEPT !.ready = IF @ = "no" THEN "yes" ELSE @]
                  /\ UNCHANGED <<box, query>>
            [] f.type = "text" ->
                  /\ query' = [query EXCEPT ![f.request].heard = @ \/ awaited]
                  /\ UNCHANGED <<driver, box>>
            [] f.type \in Replies ->
                  /\ box' = IF awaited THEN [box EXCEPT ![f.request] = f.type] ELSE box
                  /\ driver' = [driver EXCEPT !.pending = @ \ {f.request}]
                  /\ UNCHANGED query
    /\ UNCHANGED <<turn, toWorker, worker, active, diskVars, bridge, deaths, history>>

\* readLoop at the end of stdout: the worker is reaped, and shutdownWorker
\* fails whatever still waits.  The next turn starts another worker.
ShutdownWorker ==
    /\ bridge.up
    /\ worker = "dead"
    /\ fromWorker = <<>>
    /\ worker' = "none"
    /\ driver' = [driver EXCEPT !.cmd = FALSE, !.gone = TRUE, !.pending = {},
                                !.ready = IF @ = "no" THEN "failed" ELSE @]
    /\ box' = [r \in Requests |-> IF r \in driver.pending /\ box[r] = "none"
                                  THEN "failed" ELSE box[r]]
    /\ toWorker' = <<>>
    /\ UNCHANGED <<turn, fromWorker, active, query, diskVars, bridge, deaths, history>>

--------------------------------------------------------------------------------
(***************************************************************************)
(* The worker: one thread that reads a line, or resumes one query.         *)
(***************************************************************************)
Frame(type, r) == [type |-> type, request |-> r]
\* Fault: a frame may overtake those before it.
Emit_unordered(f) == fromWorker' = <<f>> \o fromWorker
Emit(f) == fromWorker' = Append(fromWorker, f)

\* The process is gone, and its queries with it.
Died(q) == [r \in Requests |->
               [q[r] EXCEPT !.state = IF @ = "none" THEN "none" ELSE "ended"]]

\* The SDK is imported and ready is reported.
Boot ==
    /\ worker = "booting"
    /\ worker' = "up"
    /\ Emit(Frame("ready", 0))
    /\ UNCHANGED <<driverVars, toWorker, active, query, diskVars, bridge, deaths, history>>

\* The import fails (an error frame that names no request, then exit), or the
\* process dies for a reason of its own.
WorkerDies ==
    /\ worker \in {"booting", "up"}
    /\ deaths < MaxDeaths
    /\ deaths' = deaths + 1
    /\ worker' = "dead"
    /\ query' = Died(query)
    /\ UNCHANGED <<driverVars, toWorker, fromWorker, active, diskVars, bridge, history>>

\* runPrompt up to its first await.  A transcript that is not on disk is a
\* failed resume; a probe that could not look lets the SDK try.
ReadPrompt ==
    /\ worker = "up"
    /\ toWorker # <<>>
    /\ Head(toWorker).op = "prompt"
    /\ toWorker' = Tail(toWorker)
    /\ LET f == Head(toWorker)
       IN \/ /\ f.resume
             /\ ~transcripts[f.sid].held
             /\ Emit(Frame("resume_failed", f.request))
             /\ UNCHANGED <<active, query>>
          \/ /\ query' = [query EXCEPT ![f.request] =
                             [NoQuery EXCEPT !.state = "open", !.resume = f.resume, !.sid = f.sid]]
             /\ active' = f.request
             /\ UNCHANGED fromWorker
    /\ UNCHANGED <<driverVars, worker, diskVars, bridge, deaths, history>>

Live == {r \in Requests : query[r].state \in {"open", "running", "interrupted"}}

\* The queries that go on although the cancel of their turn has been read.
LeftGoing == {r \in Requests : TurnOf(r) \in cancelRead /\ query[r].state \in {"open", "running"}}

\* The cancel op: interruptActive, on whatever query is the active one.
ReadCancel ==
    /\ worker = "up"
    /\ toWorker # <<>>
    /\ Head(toWorker).op = "cancel"
    /\ toWorker' = Tail(toWorker)
    /\ query' = IF active \in Live
                THEN [query EXCEPT ![active].state = "interrupted"] ELSE query
    /\ cancelRead' = cancelRead \union {TurnOf(Head(toWorker).request)}
    /\ strayed' = (strayed \/ LeftGoing' # {})
    /\ UNCHANGED <<driverVars, fromWorker, worker, active, diskVars, bridge, deaths, answered, lost>>

--------------------------------------------------------------------------------
(***************************************************************************)
(* The Agent SDK's side of a query, and the loop of runPrompt over it.     *)
(***************************************************************************)
\* The SDK loads the conversation it is to resume, or starts an empty one; from
\* then on there is a transcript.
QueryLoads(r) ==
    /\ query[r].state = "open"
    /\ query[r].resume => transcripts[query[r].sid].held
    /\ LET s == query[r].sid
           context == IF query[r].resume THEN transcripts[s].turns ELSE {}
       IN /\ query' = [query EXCEPT ![r].state = "running", ![r].context = context]
          /\ transcripts' = [transcripts EXCEPT ![s] = [@ EXCEPT !.held = TRUE]]
    /\ UNCHANGED <<driverVars, toWorker, fromWorker, worker, active, record, bridge, deaths, history>>

\* A stream event with text.
QuerySpeaks(r) ==
    /\ query[r].state = "running"
    /\ ~query[r].said
    /\ query' = [query EXCEPT ![r].said = TRUE]
    /\ Emit(Frame("text", r))
    /\ UNCHANGED <<driverVars, toWorker, worker, active, diskVars, bridge, deaths, history>>

\* The end of runPrompt: the frame, and the finally that clears active.
Ends(r, type) ==
    /\ query' = [query EXCEPT ![r].state = "ended"]
    /\ Emit(Frame(type, r))
    /\ active' = 0

\* A result that is no error: the transcript has the turn before it is reported.
QuerySucceeds(r) ==
    /\ query[r].state = "running"
    /\ Ends(r, "result")
    /\ transcripts' = [transcripts EXCEPT ![query[r].sid].turns =
                          @ \union {TurnOf(r)}]
    /\ UNCHANGED <<driverVars, toWorker, worker, record, bridge, deaths, history>>

\* The SDK throws, or its result is an error, as it is for an interrupted query.
\* Of a query that was to resume, an error that speaks of the transcript is a failed
\* resume, whether the transcript is gone or damaged.
QueryFails(r) ==
    /\ r \in Live
    /\ \/ Ends(r, "failed")
       \/ query[r].resume /\ Ends(r, "resume_failed")
    /\ UNCHANGED <<driverVars, toWorker, worker, diskVars, bridge, deaths, history>>

\* Claude's own housekeeping, which "can delete or truncate the transcript
\* behind a persisted id", though not under a query that has loaded it.
TranscriptDeleted(s) ==
    /\ MayLoseFiles
    /\ transcripts[s].held
    /\ \A r \in Requests : query[r].state = "running" => query[r].sid # s
    /\ transcripts' = [transcripts EXCEPT ![s] = Absent]
    /\ UNCHANGED <<driverVars, toWorker, fromWorker, workerVars, record, bridge, deaths, history>>

--------------------------------------------------------------------------------
(***************************************************************************)
(* The bridge process ends, at any step; the worker's stdin ends with it   *)
(* and the worker exits.                                                   *)
(***************************************************************************)
BridgeEnds ==
    /\ bridge.up
    /\ bridge.n < MaxBridges
    /\ bridge' = [bridge EXCEPT !.up = FALSE]
    /\ turn' = Idle(turn.n)
    /\ box' = [r \in Requests |-> "none"]
    /\ worker' = "none"
    /\ toWorker' = <<>>
    /\ fromWorker' = <<>>
    /\ active' = 0
    /\ query' = Died(query)
    /\ UNCHANGED <<driver, diskVars, deaths, history>>

\* runSDKDirect: the session the record names is the one to resume.
BridgeStarts ==
    /\ ~bridge.up
    /\ bridge' = [n |-> bridge.n + 1, up |-> TRUE]
    /\ driver' = NewDriver(record)
    /\ UNCHANGED <<turn, box, toWorker, fromWorker, workerVars, diskVars, deaths, history>>

DriverStep == \/ EnsureWorker \/ WorkerReady \/ WorkerNotReady
              \/ PromptFails \/ Submit \/ TakeReply \/ TurnCancelled \/ TurnOrphaned
              \/ Record \/ CancelDriver \/ LeaveTurn

QueryStep(r) == QueryLoads(r) \/ QuerySpeaks(r) \/ QuerySucceeds(r) \/ QueryFails(r)

Next == \/ BeginTurn \/ CallerLeaves \/ DriverStep
        \/ Dispatch \/ ShutdownWorker
        \/ Boot \/ WorkerDies \/ ReadPrompt \/ ReadCancel
        \/ \E r \in Requests : QueryStep(r)
        \/ \E s \in Sessions : TranscriptDeleted(s)
        \/ BridgeEnds \/ BridgeStarts

Spec == Init /\ [][Next]_vars

(***************************************************************************)
(* Fair are the goroutines of the bridge: the handler with the driver, and *)
(* the read loop.  Neither the worker nor the SDK has to answer.           *)
(***************************************************************************)
Fairness == WF_vars(DriverStep) /\ WF_vars(Dispatch) /\ WF_vars(ShutdownWorker)

FairSpec == Spec /\ Fairness

--------------------------------------------------------------------------------
(***************************************************************************)
(* Properties.                                                             *)
(***************************************************************************)
\* Every variable has its type.
TypeOK ==
    /\ turn \in [n : 0 .. MaxTurns, request : {0} \union Requests, resume : BOOLEAN,
                 pc : {"idle", "ensure", "await", "submit", "wait", "record", "leave"},
                 cancelled : BOOLEAN, owes : BOOLEAN, outcome : {"none", "ok", "error"}]
    /\ driver \in [cmd : BOOLEAN, ready : {"no", "yes", "failed"}, gone : BOOLEAN,
                   pending : SUBSET Requests, established : BOOLEAN,
                   sid : {NoSession} \union Sessions]
    /\ box \in [Requests -> Replies]
    /\ \A i \in DOMAIN toWorker :
           toWorker[i] \in [op : {"prompt", "cancel"}, request : {0} \union Requests,
                            sid : {NoSession} \union Sessions, resume : BOOLEAN]
    /\ \A i \in DOMAIN fromWorker :
           fromWorker[i] \in [type : {"ready", "text"} \union Replies,
                              request : {0} \union Requests]
    /\ worker \in {"none", "booting", "up", "dead"}
    /\ active \in {0} \union Requests
    /\ query \in [Requests -> [state : {"none", "open", "running", "interrupted", "ended"},
                               resume : BOOLEAN, sid : {NoSession} \union Sessions,
                               context : SUBSET Turns, said : BOOLEAN, heard : BOOLEAN]]
    /\ transcripts \in [Sessions -> [held : BOOLEAN, turns : SUBSET Turns]]
    /\ record \in {NoSession} \union Sessions
    /\ bridge \in [n : 1 .. MaxBridges, up : BOOLEAN]
    /\ deaths \in 0 .. MaxDeaths
    /\ answered \in SUBSET Turns
    /\ lost \in SUBSET Turns
    /\ cancelRead \in SUBSET (0 .. MaxTurns)
    /\ strayed \in BOOLEAN

\* A turn that is answered was answered by its own request, and its caller was
\* given all the text of that answer before (driver.go:394, dispatch handles
\* the events of the stream in the read loop itself, ahead of the result).
CompleteAnswer ==
    turn.pc \in {"record", "leave"} /\ turn.outcome # "error" =>
        /\ TurnOf(turn.request) = turn.n
        /\ query[turn.request].state = "ended"
        /\ query[turn.request].heard = query[turn.request].said

\* A query of the turn being served is interrupted only if that turn's own
\* caller has left, although the cancel frame names no query and two cancels
\* are written for one turn (driver.go:638 and the deferred one of the server).
NoStrayInterrupt ==
    \A r \in Requests :
        query[r].state = "interrupted" /\ TurnOf(r) = turn.n /\ turn.pc # "idle"
            => turn.cancelled

\* The conversation is never discarded in silence (the worker's comment on
\* AUTH_ERROR): when the SDK takes up the prompt of the turn being served, it
\* has before it every turn that was answered earlier, whichever bridge and
\* whichever worker did that, save those a warning said were lost.  A query that
\* was left going when its cancel was read (CancelInterrupts) is beyond this: it
\* may start a transcript anew, behind the back of the turns after it.
NoSilentLoss ==
    [][\A r \in Requests :
          ~strayed /\ query[r].state = "open" /\ query'[r].state = "running"
              /\ TurnOf(r) = turn.n /\ turn.pc = "wait" /\ turn.request = r
          => answered \subseteq query'[r].context \union lost]_vars

\* A turn whose caller has left ends, whatever the worker and the SDK do, and so
\* does a turn whose worker has died.
Settles ==
    /\ (turn.pc # "idle" /\ turn.cancelled) ~> turn.pc = "idle"
    /\ (turn.pc = "wait" /\ worker = "dead") ~> turn.pc = "idle"

\* "Cancel interrupts the in-flight turn" (driver.go:665): once the worker has
\* read the cancel of a turn, no query of that turn goes on.
CancelInterrupts == LeftGoing = {}

================================================================================
