---------------------------- MODULE AgySessions ----------------------------
(***************************************************************************)
(* The sessions of wackyagy (internal/agy/bridge.go, session.go) and the   *)
(* conversations their turns run in (runner.go, poller.go, db.go).         *)
(*                                                                         *)
(* One goroutine, Serve, reads the client's requests and handles each to   *)
(* its end; a prompt leaves a goroutine of its own behind. Both write      *)
(* session rows, to a bounded cache and then to a durable store. A turn    *)
(* runs the external agy on the row's conversation, or on a new one that   *)
(* it must recognise by looking at the directory. A turn is named by its   *)
(* prompt. The bridge may crash, or end with its stdin, and start again.   *)
(***************************************************************************)
EXTENDS Naturals, Sequences, FiniteSets

CONSTANTS Sessions,    \* session ids the bridge mints
          Prompts,     \* session/prompt requests the client may send
          NoSession,   \* before a prompt is sent
          NoPrompt,    \* no turn in flight
          Models,      \* the model ids agy lists
          NoModel,     \* "": agy's own choice
          MaxSessions, \* maxInMemorySessions
          MaxRows,     \* bound on the rows agy writes to a conversation
          Requests,    \* the requests the client may send besides prompts
          Ops,         \* what requests and prompts ask for
          Overlap,     \* what it asks for while a prompt of the session is open
          MayCrash     \* whether the bridge process may be killed

ASSUME AgyAssumption ==
    /\ NoPrompt \notin Prompts
    /\ NoModel \notin Models
    /\ {"absent", "unsure"} \cap (Models \union {NoModel}) = {}
    /\ NoSession \notin Sessions
    /\ MaxSessions \in Nat \ {0}
    /\ MaxRows \in Nat
    /\ Ops \subseteq {"load", "configure", "model", "prompt"}
    /\ Overlap \subseteq Ops
    /\ MayCrash \in BOOLEAN

VARIABLES
  bridge,    \* "up", "closing" (stdin ended) or "down"
  sessions,  \* Bridge.sessions, the cache
  order,     \* Bridge.order, its sessions from the oldest
  turns,     \* Bridge.turns: the registered turn of each session
  store,     \* sessions.json
  srv,       \* the Serve goroutine: where it is and the request it handles
  pc,        \* where each prompt is
  sess,      \* the session it is for
  row,       \* the StoredSession its handler resolved, updated by its outcome
  snap,      \* how many conversations there were when its agy was spawned
  cancelled, \* activeTurn.cancelled
  aborted,   \* turns whose context ended with Serve
  result,    \* what it is answered
  agent,     \* its agy process: "none", "running" or "exited"
  writes,    \* the conversation that process writes, 0 before it creates one
  convs,     \* the number of rows of each conversation, in order of creation
  born,      \* sessions the client has been given
  sent,      \* the requests it has sent
  told       \* the row of each session, as far as the client knows it

bridgeVars == <<sessions, order, turns>>
turnVars   == <<pc, sess, row, snap, result>>
ctxVars    == <<cancelled, aborted>>
agyVars    == <<agent, writes, convs>>
clientVars == <<born, sent, told>>
vars == <<bridge, bridgeVars, store, srv, turnVars, ctxVars, agyVars, clientVars>>

\* StoredSession: conversation (0: none), how far it was read, model.
Rows == [conv : Nat, idx : Nat, model : Models \union {NoModel}]
NoRow == [conv |-> 0, idx |-> 0, model |-> "absent"]
NewRow == [conv |-> 0, idx |-> 0, model |-> NoModel]

Idle == [at |-> "idle", op |-> "load", s |-> NoSession, p |-> NoPrompt, row |-> NewRow]

Init ==
    /\ bridge = "up"
    /\ sessions = [s \in Sessions |-> NoRow]
    /\ order = <<>>
    /\ turns = [s \in Sessions |-> NoPrompt]
    /\ store = [s \in Sessions |-> NoRow]
    /\ srv = Idle
    /\ pc = [p \in Prompts |-> "unsent"]
    /\ sess = [p \in Prompts |-> NoSession]
    /\ row = [p \in Prompts |-> NewRow]
    /\ snap = [p \in Prompts |-> 0]
    /\ cancelled = {}
    /\ aborted = {}
    /\ result = [p \in Prompts |-> "none"]
    /\ agent = [p \in Prompts |-> "none"]
    /\ writes = [p \in Prompts |-> 0]
    /\ convs = <<>>
    /\ born = {}
    /\ sent = {}
    /\ told = [s \in Sessions |-> NewRow]

-----------------------------------------------------------------------------
(* The cache.                                                              *)

\* evictLocked: the oldest session without a turn goes once the bound is exceeded.
Evictable(ids) == {i \in 1..Len(ids) : turns[ids[i]] = NoPrompt}

\* setSession(s, r)
SetSession(s, r) ==
    LET ids    == IF sessions[s] = NoRow THEN Append(order, s) ELSE order
        cached == [sessions EXCEPT ![s] = r]
    IN  IF Len(ids) <= MaxSessions \/ Evictable(ids) = {}
        THEN sessions' = cached /\ order' = ids
        ELSE LET oldest == CHOOSE i \in Evictable(ids) : \A j \in Evictable(ids) : i <= j
                 evicted == ids[oldest]
             IN  /\ sessions' = [cached EXCEPT ![evicted] = NoRow]
                 /\ order' = SelectSeq(ids, LAMBDA id : id # evicted)

-----------------------------------------------------------------------------
(* The Serve goroutine.                                                    *)

\* The client awaits an answer in session s.
Open(s) ==
    \E p \in Prompts :
        sess[p] = s /\ pc[p] \notin {"unsent", "unregister", "answered", "lost", "dropped"}

MaySend(op, s) ==
    /\ bridge = "up" /\ srv.at = "idle"
    /\ s \in born
    /\ op \in Ops
    /\ op \in Overlap \/ ~Open(s)

\* session/new: the row goes to the cache only.
NewSession(s) ==
    /\ bridge = "up" /\ srv.at = "idle"
    /\ s \notin born
    /\ SetSession(s, NewRow)
    /\ born' = born \union {s}
    /\ UNCHANGED <<bridge, turns, store, srv, turnVars, ctxVars, agyVars, sent, told>>

\* session/prompt; a "/model <id>" prompt is op "model".
SendPrompt(op, p, s) ==
    /\ MaySend(op, s)
    /\ pc[p] = "unsent"
    /\ pc' = [pc EXCEPT ![p] = "resolving"]
    /\ sess' = [sess EXCEPT ![p] = s]
    /\ srv' = [at |-> "resolve", op |-> op, s |-> s, p |-> p, row |-> NewRow]
    /\ UNCHANGED <<bridge, bridgeVars, store, row, snap, result, ctxVars, agyVars, clientVars>>

\* session/load or session/set_config_option
SendRequest(op, r, s) ==
    /\ MaySend(op, s)
    /\ r \notin sent
    /\ sent' = sent \union {r}
    /\ srv' = [at |-> "resolve", op |-> op, s |-> s, p |-> NoPrompt, row |-> NewRow]
    /\ UNCHANGED <<bridge, bridgeVars, store, turnVars, ctxVars, agyVars, born, told>>

\* resolveSession looks in memory ...
Resolve ==
    /\ srv.at = "resolve"
    /\ srv' = IF sessions[srv.s] # NoRow
              THEN [srv EXCEPT !.at = "resolved", !.row = sessions[srv.s]]
              ELSE [srv EXCEPT !.at = "read"]
    /\ UNCHANGED <<bridge, bridgeVars, store, turnVars, ctxVars, agyVars, clientVars>>

\* ... then in the store; what is in neither is refused ...
ReadStore ==
    /\ srv.at = "read"
    /\ IF store[srv.s] # NoRow
       THEN /\ srv' = [srv EXCEPT !.at = "restore", !.row = store[srv.s]]
            /\ UNCHANGED <<pc, result>>
       ELSE /\ srv' = Idle
            /\ pc' = [p \in Prompts |-> IF p = srv.p THEN "answered" ELSE pc[p]]
            /\ result' = [p \in Prompts |-> IF p = srv.p THEN "invalid" ELSE result[p]]
    /\ UNCHANGED <<bridge, bridgeVars, store, sess, row, snap, ctxVars, agyVars, clientVars>>

\* ... and what was found there is cached again.
Restore ==
    /\ srv.at = "restore"
    /\ SetSession(srv.s, srv.row)
    /\ srv' = [srv EXCEPT !.at = "resolved"]
    /\ UNCHANGED <<bridge, turns, store, turnVars, ctxVars, agyVars, clientVars>>

\* session/load answers with the row's model.
ReplyLoad ==
    /\ srv.at = "resolved" /\ srv.op = "load"
    /\ told' = [told EXCEPT ![srv.s].model = srv.row.model]
    /\ srv' = Idle
    /\ UNCHANGED <<bridge, bridgeVars, store, turnVars, ctxVars, agyVars, born, sent>>

\* Fault: a turn is registered over another.
Register_anyway ==
    /\ srv.at = "resolved" /\ srv.op \in {"prompt", "model"}
    /\ turns' = [turns EXCEPT ![srv.s] = srv.p]
    /\ row' = [row EXCEPT ![srv.p] = srv.row]
    /\ IF srv.op = "prompt"
       THEN pc' = [pc EXCEPT ![srv.p] = "launch"] /\ srv' = Idle
       ELSE pc' = [pc EXCEPT ![srv.p] = "choosing"] /\ srv' = [srv EXCEPT !.at = "lookup"]
    /\ UNCHANGED <<bridge, sessions, order, store, sess, snap, result, ctxVars, agyVars,
                   clientVars>>

\* registerTurn: a prompt gets a goroutine, "/model" stays with Serve.
Register ==
    /\ srv.at = "resolved" /\ srv.op \in {"prompt", "model"}
    /\ turns[srv.s] = NoPrompt
    /\ turns' = [turns EXCEPT ![srv.s] = srv.p]
    /\ row' = [row EXCEPT ![srv.p] = srv.row]
    /\ IF srv.op = "prompt"
       THEN pc' = [pc EXCEPT ![srv.p] = "launch"] /\ srv' = Idle
       ELSE pc' = [pc EXCEPT ![srv.p] = "choosing"] /\ srv' = [srv EXCEPT !.at = "lookup"]
    /\ UNCHANGED <<bridge, sessions, order, store, sess, snap, result, ctxVars, agyVars,
                   clientVars>>

\* "turn already in progress"
RefuseTurn ==
    /\ srv.at = "resolved" /\ srv.op \in {"prompt", "model"}
    /\ turns[srv.s] # NoPrompt
    /\ pc' = [pc EXCEPT ![srv.p] = "answered"]
    /\ result' = [result EXCEPT ![srv.p] = "busy"]
    /\ srv' = Idle
    /\ UNCHANGED <<bridge, bridgeVars, store, sess, row, snap, ctxVars, agyVars, clientVars>>

\* models.Lookup found the model, or it is not one: that is an answer too.
ChooseModel ==
    /\ srv.at = "lookup" \/ (srv.at = "resolved" /\ srv.op = "configure")
    /\ \/ \E m \in Models :
            /\ SetSession(srv.s, [srv.row EXCEPT !.model = m])
            /\ srv' = [srv EXCEPT !.at = "persist", !.row.model = m]
       \/ /\ UNCHANGED <<sessions, order>>
          /\ srv' = IF srv.op = "model" THEN [srv EXCEPT !.at = "reply"] ELSE Idle
    /\ UNCHANGED <<bridge, turns, store, turnVars, ctxVars, agyVars, clientVars>>

\* store.Write
PersistModel ==
    /\ srv.at = "persist"
    /\ store' = [store EXCEPT ![srv.s] = srv.row]
    /\ srv' = [srv EXCEPT !.at = "reply"]
    /\ UNCHANGED <<bridge, bridgeVars, turnVars, ctxVars, agyVars, clientVars>>

\* The answer; then, for "/model", the deferred unregisterTurn.
ReplyModel ==
    /\ srv.at = "reply"
    /\ told' = [told EXCEPT ![srv.s].model = srv.row.model]
    /\ IF srv.op = "model"
       THEN /\ turns' = [turns EXCEPT ![srv.s] = NoPrompt]
            /\ pc' = [pc EXCEPT ![srv.p] = "answered"]
            /\ result' = [result EXCEPT ![srv.p] = "end_turn"]
       ELSE UNCHANGED <<turns, pc, result>>
    /\ srv' = Idle
    /\ UNCHANGED <<bridge, sessions, order, store, sess, row, snap, ctxVars, agyVars, born, sent>>

\* session/cancel
CancelTurn(s) ==
    /\ bridge = "up" /\ srv.at = "idle"
    /\ turns[s] # NoPrompt
    /\ cancelled' = cancelled \union {turns[s]}
    /\ UNCHANGED <<bridge, bridgeVars, store, srv, turnVars, aborted, agyVars, clientVars>>

ServeStep ==
    Resolve \/ ReadStore \/ Restore \/ ReplyLoad \/ Register \/ RefuseTurn
    \/ ChooseModel \/ PersistModel \/ ReplyModel

-----------------------------------------------------------------------------
(* The goroutine of a prompt.                                              *)

Goto(p, l) == pc' = [pc EXCEPT ![p] = l]

\* Fault: session/cancel sets the flag and leaves the context alone.
CtxDone_flagOnly(p) == p \in aborted

\* The turn's context: cancelled by session/cancel or with Serve.
CtxDone(p) == p \in cancelled \union aborted

\* A context that is done before agy is forked: the turn reports cancelled and
\* never looks for a conversation.
SkipLaunch(p) ==
    /\ pc[p] = "launch"
    /\ CtxDone(p)
    /\ result' = [result EXCEPT ![p] = "cancelled"]
    /\ Goto(p, IF row[p].conv = 0 THEN "respond" ELSE "cache")
    /\ UNCHANGED <<bridge, bridgeVars, store, srv, sess, row, snap, ctxVars, agyVars, clientVars>>

\* The starter fails.
FailLaunch(p) ==
    /\ pc[p] = "launch"
    /\ ~CtxDone(p)
    /\ result' = [result EXCEPT ![p] = "failed"]
    /\ Goto(p, IF row[p].conv = 0 THEN "respond" ELSE "cache")
    /\ UNCHANGED <<bridge, bridgeVars, store, srv, sess, row, snap, ctxVars, agyVars, clientVars>>

\* Snapshot, then spawn agy, with --conversation if the row has one.
Launch(p) ==
    /\ pc[p] = "launch"
    /\ ~CtxDone(p)
    /\ snap' = [snap EXCEPT ![p] = Len(convs)]
    /\ agent' = [agent EXCEPT ![p] = "running"]
    /\ writes' = [writes EXCEPT ![p] = row[p].conv]
    /\ Goto(p, "running")
    /\ UNCHANGED <<bridge, bridgeVars, store, srv, sess, row, result, ctxVars, convs, clientVars>>

\* bind: the one conversation that is new since the snapshot, if it is one.
Bound(p) ==
    IF row[p].conv # 0 THEN row[p].conv
    ELSE IF Len(convs) = snap[p] + 1 THEN Len(convs) ELSE 0

\* Poll: bind, then stream the rows above lastIdx; up to n of them.
ReadRows(p, n) ==
    row' = [row EXCEPT ![p].conv = Bound(p), ![p].idx = n]

\* A tick of the poller while agy runs.
Poll(p) ==
    /\ pc[p] = "running" /\ ~CtxDone(p)
    /\ Bound(p) # 0
    /\ ReadRows(p, convs[Bound(p)])
    /\ UNCHANGED <<bridge, bridgeVars, store, srv, pc, sess, snap, result, ctxVars, agyVars,
                   clientVars>>

\* mapOutcome. agy may exit with an error, or turn out to hide one.
Outcomes(p) ==
    IF p \in cancelled THEN {"cancelled"}
    ELSE IF p \in aborted THEN {"failed"}
    ELSE {"end_turn", "failed"}

\* agy has exited: drainTurnFinal reads the rows left, as far as its budget goes.
Drain(p) ==
    /\ pc[p] = "running" /\ agent[p] # "running"
    /\ IF Bound(p) = 0
       THEN UNCHANGED row /\ Goto(p, "respond")
       ELSE (\E n \in row[p].idx..convs[Bound(p)] : ReadRows(p, n)) /\ Goto(p, "cache")
    /\ \E v \in Outcomes(p) : result' = [result EXCEPT ![p] = v]
    /\ UNCHANGED <<bridge, bridgeVars, store, srv, sess, snap, ctxVars, agyVars, clientVars>>

\* Fault: the row goes to the store only, and the cache keeps the old one.
CacheRow_skipped(p) ==
    /\ pc[p] = "cache"
    /\ Goto(p, "persist")
    /\ UNCHANGED <<bridge, bridgeVars, store, srv, sess, row, snap, result, ctxVars, agyVars,
                   clientVars>>

\* setSession with the turn's conversation, its last row and the model of its start.
CacheRow(p) ==
    /\ pc[p] = "cache"
    /\ SetSession(sess[p], row[p])
    /\ Goto(p, "persist")
    /\ UNCHANGED <<bridge, turns, store, srv, sess, row, snap, result, ctxVars, agyVars, clientVars>>

\* Fault: the row is not written.
PersistRow_skipped(p) ==
    /\ pc[p] = "persist"
    /\ Goto(p, "respond")
    /\ UNCHANGED <<bridge, bridgeVars, store, srv, sess, row, snap, result, ctxVars, agyVars,
                   clientVars>>

\* store.Write: the document is replaced as a whole, under the lock.
PersistRow(p) ==
    /\ pc[p] = "persist"
    /\ store' = [store EXCEPT ![sess[p]] = row[p]]
    /\ Goto(p, "respond")
    /\ UNCHANGED <<bridge, bridgeVars, srv, sess, row, snap, result, ctxVars, agyVars, clientVars>>

\* The client knows what it was streamed once the turn is answered.
Respond(p) ==
    /\ pc[p] = "respond"
    /\ told' = [told EXCEPT ![sess[p]].conv = row[p].conv, ![sess[p]].idx = row[p].idx]
    /\ Goto(p, "unregister")
    /\ UNCHANGED <<bridge, bridgeVars, store, srv, sess, row, snap, result, ctxVars, agyVars, born, sent>>

\* unregisterTurn, deferred
Unregister(p) ==
    /\ pc[p] = "unregister"
    /\ turns' = [turns EXCEPT ![sess[p]] = IF @ = p THEN NoPrompt ELSE @]
    /\ Goto(p, "answered")
    /\ UNCHANGED <<bridge, sessions, order, store, srv, sess, row, snap, result, ctxVars, agyVars,
                   clientVars>>

TurnStep(p) ==
    SkipLaunch(p) \/ FailLaunch(p) \/ Launch(p) \/ Drain(p)
    \/ CacheRow(p) \/ PersistRow(p) \/ Respond(p) \/ Unregister(p)

-----------------------------------------------------------------------------
(* agy: external. A turn of it that outlives the bridge goes on writing.   *)

AgyCreates(p) ==
    /\ agent[p] = "running" /\ writes[p] = 0
    /\ convs' = Append(convs, 0)
    /\ writes' = [writes EXCEPT ![p] = Len(convs')]
    /\ UNCHANGED <<bridge, bridgeVars, store, srv, turnVars, ctxVars, agent, clientVars>>

AgyWrites(p) ==
    /\ agent[p] = "running" /\ writes[p] # 0
    /\ convs[writes[p]] < MaxRows
    /\ convs' = [convs EXCEPT ![writes[p]] = @ + 1]
    /\ UNCHANGED <<bridge, bridgeVars, store, srv, turnVars, ctxVars, agent, writes, clientVars>>

\* It ends, or is killed once the turn's context is done.
AgyExits(p) ==
    /\ agent[p] = "running"
    /\ agent' = [agent EXCEPT ![p] = "exited"]
    /\ UNCHANGED <<bridge, bridgeVars, store, srv, turnVars, ctxVars, writes, convs, clientVars>>

-----------------------------------------------------------------------------
(* The bridge process.                                                     *)

\* stdin ends: Serve leaves its loop and cancels every turn, ...
Eof ==
    /\ bridge = "up" /\ srv.at = "idle"
    /\ bridge' = "closing"
    /\ aborted' = aborted \union ({turns[s] : s \in Sessions} \ {NoPrompt})
    /\ UNCHANGED <<bridgeVars, store, srv, turnVars, cancelled, agyVars, clientVars>>

\* ... waits for them and returns.
ServeReturns ==
    /\ bridge = "closing"
    /\ \A s \in Sessions : turns[s] = NoPrompt
    /\ bridge' = "down"
    /\ sessions' = [s \in Sessions |-> NoRow]
    /\ order' = <<>>
    /\ UNCHANGED <<turns, store, srv, turnVars, ctxVars, agyVars, clientVars>>

\* The process is killed: the requests it was serving are never answered.
Crash ==
    /\ MayCrash
    /\ bridge # "down"
    /\ bridge' = "down"
    /\ sessions' = [s \in Sessions |-> NoRow]
    /\ order' = <<>>
    /\ turns' = [s \in Sessions |-> NoPrompt]
    /\ srv' = Idle
    /\ pc' = [p \in Prompts |-> IF \E s \in Sessions : turns[s] = p THEN "lost"
                                ELSE IF pc[p] = "resolving" THEN "dropped" ELSE pc[p]]
    /\ told' = IF srv.at = "reply"
               THEN [told EXCEPT ![srv.s].model = "unsure"] ELSE told
    /\ UNCHANGED <<store, sess, row, snap, result, ctxVars, agyVars, born, sent>>

\* The client starts a new bridge and goes on with its sessions.
Restart ==
    /\ bridge = "down"
    /\ bridge' = "up"
    /\ UNCHANGED <<bridgeVars, store, srv, turnVars, ctxVars, agyVars, clientVars>>

-----------------------------------------------------------------------------
Next ==
    \/ \E s \in Sessions :
          \/ NewSession(s) \/ CancelTurn(s)
          \/ \E p \in Prompts : \E op \in {"prompt", "model"} : SendPrompt(op, p, s)
          \/ \E r \in Requests : \E op \in {"load", "configure"} : SendRequest(op, r, s)
    \/ ServeStep
    \/ \E p \in Prompts : TurnStep(p) \/ Poll(p)
    \/ \E p \in Prompts : AgyCreates(p) \/ AgyWrites(p) \/ AgyExits(p)
    \/ Eof \/ ServeReturns \/ Crash \/ Restart

Spec == Init /\ [][Next]_vars

\* Goroutines run, and a child whose context is done is killed in the end.
Fairness ==
    /\ WF_vars(ServeStep)
    /\ WF_vars(ServeReturns)
    /\ \A p \in Prompts : WF_vars(TurnStep(p)) /\ WF_vars(CtxDone(p) /\ AgyExits(p))

FairSpec == Spec /\ Fairness

-----------------------------------------------------------------------------
(* Safety.                                                                 *)

ServeTypes ==
    /\ srv.at \in {"idle", "resolve", "read", "restore", "resolved", "lookup", "persist", "reply"}
    /\ srv.op \in {"load", "configure", "model", "prompt"}
    /\ srv.s \in Sessions \union {NoSession}
    /\ srv.at # "idle" => srv.s \in Sessions
    /\ srv.p \in Prompts \union {NoPrompt}
    /\ srv.row \in Rows

TurnTypes ==
    /\ pc \in [Prompts -> {"unsent", "resolving", "choosing", "launch", "running", "cache",
                           "persist", "respond", "unregister", "answered", "lost", "dropped"}]
    /\ sess \in [Prompts -> Sessions \union {NoSession}]
    /\ \A p \in Prompts : pc[p] # "unsent" => sess[p] \in Sessions
    /\ row \in [Prompts -> Rows]
    /\ snap \in [Prompts -> Nat]
    /\ result \in [Prompts -> {"none", "invalid", "busy", "end_turn", "cancelled", "failed"}]

TypeOK ==
    /\ bridge \in {"up", "closing", "down"}
    /\ sessions \in [Sessions -> Rows \union {NoRow}]
    /\ order \in Seq(Sessions)
    /\ turns \in [Sessions -> Prompts \union {NoPrompt}]
    /\ store \in [Sessions -> Rows \union {NoRow}]
    /\ ServeTypes
    /\ TurnTypes
    /\ cancelled \in SUBSET Prompts
    /\ aborted \in SUBSET Prompts
    /\ agent \in [Prompts -> {"none", "running", "exited"}]
    /\ writes \in [Prompts -> Nat]
    /\ convs \in Seq(Nat)
    /\ born \in SUBSET Sessions
    /\ sent \in SUBSET Requests
    /\ told \in [Sessions -> [conv : Nat, idx : Nat, model : Models \union {NoModel, "unsure"}]]

\* What the client was told is on disk: whatever is evicted, and whenever the
\* bridge is killed, a session is found again with at least the rows its client
\* has seen answered (session.go:12-15, bridge.go:385-401, 496-498).
ToldIsDurable ==
    \A s \in Sessions :
        told[s].conv # 0 => /\ store[s].conv = told[s].conv
                            /\ store[s].idx >= told[s].idx

CutOff(s) == \E p \in Prompts : pc[p] = "lost" /\ sess[p] = s

\* A turn starts where the last answered turn of its session ended, in the same
\* conversation and with the model last chosen, across evictions and restarts; only
\* a turn that was cut off unanswered can have moved it on (session.go:12-15,
\* bridge.go:316, 466-484).
TurnResumes ==
    [][\A p \in Prompts :
         pc[p] # "launch" /\ pc'[p] = "launch" =>
            LET r == row'[p]
                t == told[sess[p]]
            IN  /\ t.conv # 0 => r.conv = t.conv /\ r.idx >= t.idx
                /\ <<r.conv, r.idx>> # <<t.conv, t.idx>> => CutOff(sess[p])
                /\ t.model # "unsure" => r.model = t.model]_vars

\* "binding the wrong conversation would stream another session's output"
\* (db.go:97-98): a turn reads the conversation its own agy writes.
NoCrossTalk ==
    \A p \in Prompts :
        pc[p] \in {"running", "cache", "persist", "respond"} /\ row[p].conv # 0
            => row[p].conv = writes[p] \/ agent[p] = "none"

-----------------------------------------------------------------------------
(* Liveness.                                                               *)

\* A cancelled turn is answered, or lost with the bridge (bridge.go:536-546); and when
\* its stdin ends the bridge stops its turns and ends, whatever they were at
\* (bridge.go:165-177).
Settles ==
    /\ \A p \in Prompts : p \in cancelled ~> pc[p] \in {"answered", "lost"}
    /\ bridge = "closing" ~> bridge = "down"

-----------------------------------------------------------------------------
(* Every session has a gate like that of serve mode.                       *)

phaseOf(p, s) ==
    IF sess[p] # s \/ pc[p] \in {"unsent", "resolving", "dropped"} THEN "new"
    ELSE IF pc[p] \in {"answered", "lost"} THEN "settled" ELSE "running"

verdictOf(p, s) ==
    IF phaseOf(p, s) # "settled" THEN "none"
    ELSE IF pc[p] = "lost" THEN "failed" ELSE result[p]

Gate(s) == INSTANCE TurnGate WITH
               NoTurn  <- NoPrompt,
               holder  <- turns[s],
               phase   <- [p \in Prompts |-> phaseOf(p, s)],
               verdict <- [p \in Prompts |-> verdictOf(p, s)],
               asked   <- {p \in cancelled \union aborted : sess[p] = s},
               down    <- FALSE

\* One turn at a time in a session, "already in progress" only while there is one,
\* "cancelled" only of a turn that was cancelled or ended with stdin.
ImplementsGates ==
    /\ \A s \in Sessions : Gate(s)!GateInit
    /\ [][\A s \in Sessions : Gate(s)!GateNext \/ UNCHANGED Gate(s)!gateVars]_vars
=============================================================================
