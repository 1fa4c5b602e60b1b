----------------------------- MODULE ServeTurn -----------------------------
(***************************************************************************)
(* Serve mode's turn machinery (internal/serve/turn.go and server.go): the *)
(* Backend shared by all ACP connections, its one-turn gate, the goroutine *)
(* that runs a prompt, the pump goroutine that reads the wackypub stream   *)
(* for it, and every path that cancels a turn: session/cancel from any     *)
(* connection, session/close, and the teardown of a lost connection.       *)
(*                                                                         *)
(* A *turnState exists per admitted prompt, so it is named by its prompt.  *)
(* wackypub, behind the AddAndGenerateTurnStream and CancelTurn RPCs, is   *)
(* external: "agent" is the state of its side of each turn.                *)
(***************************************************************************)
EXTENDS Naturals, FiniteSets

CONSTANTS Conns,      \* ACP connections (one Server each)
          Prompts,    \* session/prompt requests they may send
          Cancels,    \* session/cancel and session/close messages they may send
          NoTurn,     \* Go's nil *turnState
          NoConn,     \* the sender of a message nobody sent yet
          Stallers,   \* the connections whose peer may stop reading
          MayShutDown, \* whether the process may be told to shut down
          MaxEvents   \* bound on the events the agent streams per turn

ASSUME ServeAssumption ==
    /\ NoTurn \notin Prompts
    /\ NoConn \notin Conns
    /\ Cancels \intersect Conns = {}
    /\ Stallers \subseteq Conns
    /\ MayShutDown \in BOOLEAN
    /\ MaxEvents \in Nat

VARIABLES
  conn,          \* peer and read loop of each connection
  shutdown,      \* the process context is done
  turnsInFlight, \* Backend.turnsInFlight
  active,        \* Backend.active
  cancelled,     \* the turns whose cancelCh is closed
  owner,         \* turnState.owner, for a prompt: the connection it came on
  pc,            \* where the prompt's goroutine is
  canceled,      \* Prompt's local: the cancelCh case has fired
  grace,         \* the turns whose force-cancel timer is set
  outcome,       \* what Prompt returned, then what the frontend is told
  pump,          \* the pump goroutine: "recv", "done", or the message it holds
  chan,          \* the slot of the capacity-1 channel msgs
  agent,         \* wackypub's side of the turn
  events,        \* how many events it has streamed
  at,            \* where each canceller is
  sender,        \* the connection it acts for
  tgt            \* CancelInFlight's local ts

connVars    == <<conn, shutdown>>
gateVars    == <<turnsInFlight, active>>
handlerVars == <<pc, canceled, grace, outcome>>
streamVars  == <<pump, chan, agent, events>>
cancelVars  == <<at, sender, tgt>>

vars == <<conn, shutdown, turnsInFlight, active, cancelled, owner, pc, canceled,
          grace, outcome, pump, chan, agent, events, at, sender, tgt>>

\* A teardown is named by its connection, a message that cancels by itself.
Callers == Cancels \union Conns

Ends == {"eof", "canceled", "failed"}     \* how Recv may end a stream
Msgs == {"event"} \union Ends

Errors == {"no_stream", "turn_failed", "emit_failed"}

TypeOK ==
    /\ conn \in [Conns -> {"open", "stalled", "gone", "closed"}]
    /\ shutdown \in BOOLEAN
    /\ turnsInFlight \in Nat
    /\ active \in Prompts \union {NoTurn}
    /\ cancelled \in SUBSET Prompts
    /\ owner \in [Prompts -> Conns \union {NoConn}]
    /\ pc \in [Prompts -> {"idle", "dispatched", "opening", "loop", "emit",
                           "returned", "replying", "answered"}]
    /\ canceled \in [Prompts -> BOOLEAN]
    /\ grace \in SUBSET Prompts
    /\ outcome \in [Prompts -> {"none", "invalid", "busy", "end_turn", "cancelled"}
                               \union Errors]
    /\ pump \in [Prompts -> {"off", "recv", "done"} \union Msgs]
    /\ chan \in [Prompts -> {"empty"} \union Msgs]
    /\ agent \in [Prompts -> {"none", "running", "cancelling", "finished", "failed",
                              "stopped", "abandoned"}]
    /\ events \in [Prompts -> Nat]
    /\ at \in [Callers -> {"idle", "guard", "capture", "signal", "rpc", "done"}]
    /\ sender \in [Callers -> Conns \union {NoConn}]
    /\ tgt \in [Callers -> Prompts \union {NoTurn}]

Init ==
    /\ conn = [c \in Conns |-> "open"]
    /\ shutdown = FALSE
    /\ turnsInFlight = 0
    /\ active = NoTurn
    /\ cancelled = {}
    /\ owner = [p \in Prompts |-> NoConn]
    /\ pc = [p \in Prompts |-> "idle"]
    /\ canceled = [p \in Prompts |-> FALSE]
    /\ grace = {}
    /\ outcome = [p \in Prompts |-> "none"]
    /\ pump = [p \in Prompts |-> "off"]
    /\ chan = [p \in Prompts |-> "empty"]
    /\ agent = [p \in Prompts |-> "none"]
    /\ events = [p \in Prompts |-> 0]
    /\ at = [k \in Callers |-> "idle"]
    /\ sender = [k \in Callers |-> NoConn]
    /\ tgt = [k \in Callers |-> NoTurn]

-----------------------------------------------------------------------------
(* Connections and the process.                                            *)

\* The peer stops reading: writes to the connection block.
Stall(c) ==
    /\ c \in Stallers
    /\ conn[c] = "open"
    /\ conn' = [conn EXCEPT ![c] = "stalled"]
    /\ UNCHANGED <<shutdown, gateVars, cancelled, owner, handlerVars, streamVars, cancelVars>>

\* The peer hangs up: writes fail, and the read loop will see EOF.
HangUp(c) ==
    /\ conn[c] \in {"open", "stalled"}
    /\ conn' = [conn EXCEPT ![c] = "gone"]
    /\ UNCHANGED <<shutdown, gateVars, cancelled, owner, handlerVars, streamVars, cancelVars>>

ShutDown ==
    /\ MayShutDown
    /\ ~shutdown
    /\ shutdown' = TRUE
    /\ UNCHANGED <<conn, gateVars, cancelled, owner, handlerVars, streamVars, cancelVars>>

\* Serve's loop ends, at EOF or at shutdown, and its deferred teardown starts.
ServeReturns(c) ==
    /\ conn[c] # "closed"
    /\ conn[c] = "gone" \/ shutdown
    /\ conn' = [conn EXCEPT ![c] = "closed"]
    /\ at' = [at EXCEPT ![c] = "guard"]
    /\ sender' = [sender EXCEPT ![c] = c]
    /\ UNCHANGED <<shutdown, gateVars, cancelled, owner, handlerVars, streamVars, tgt>>

\* Serve's loop reads a session/prompt line and starts a goroutine for it.
Dispatch(p, c) ==
    /\ pc[p] = "idle"
    /\ conn[c] # "closed"
    /\ pc' = [pc EXCEPT ![p] = "dispatched"]
    /\ owner' = [owner EXCEPT ![p] = c]
    /\ UNCHANGED <<connVars, gateVars, cancelled, canceled, grace, outcome,
                   streamVars, cancelVars>>

-----------------------------------------------------------------------------
(* handlePrompt around Prompt: the gate.                                   *)

\* Malformed params, another session's id, or no supported content.
RejectPrompt(p) ==
    /\ pc[p] = "dispatched"
    /\ pc' = [pc EXCEPT ![p] = "replying"]
    /\ outcome' = [outcome EXCEPT ![p] = "invalid"]
    /\ UNCHANGED <<connVars, gateVars, cancelled, owner, canceled, grace,
                   streamVars, cancelVars>>

\* Fault: admission looks at the active turn's cancelCh instead of the counter.
GateIsFree_ignoresCancelled == turnsInFlight = 0 \/ active \in cancelled

GateIsFree == turnsInFlight = 0

\* BeginTurn admits the prompt.
BeginTurn(p) ==
    /\ pc[p] = "dispatched"
    /\ GateIsFree
    /\ turnsInFlight' = turnsInFlight + 1
    /\ active' = p
    /\ pc' = [pc EXCEPT ![p] = "opening"]
    /\ UNCHANGED <<connVars, cancelled, owner, canceled, grace, outcome,
                   streamVars, cancelVars>>

\* Fault: EndTurn is deferred before BeginTurn's answer is tested.
RefuseTurn_releases(p) ==
    /\ pc[p] = "dispatched"
    /\ ~GateIsFree
    /\ turnsInFlight' = turnsInFlight - 1
    /\ pc' = [pc EXCEPT ![p] = "replying"]
    /\ outcome' = [outcome EXCEPT ![p] = "busy"]
    /\ UNCHANGED <<connVars, active, cancelled, owner, canceled, grace,
                   streamVars, cancelVars>>

\* BeginTurn refuses it: the structured busy error.
RefuseTurn(p) ==
    /\ pc[p] = "dispatched"
    /\ ~GateIsFree
    /\ pc' = [pc EXCEPT ![p] = "replying"]
    /\ outcome' = [outcome EXCEPT ![p] = "busy"]
    /\ UNCHANGED <<connVars, gateVars, cancelled, owner, canceled, grace,
                   streamVars, cancelVars>>

\* Fault: a turn that errors returns without giving its slot back.
EndTurn_onlyOnSuccess(p) ==
    /\ pc[p] = "returned"
    /\ IF outcome[p] \in Errors
       THEN UNCHANGED gateVars
       ELSE /\ active' = IF active = p THEN NoTurn ELSE active
            /\ turnsInFlight' = turnsInFlight - 1
    /\ pc' = [pc EXCEPT ![p] = "replying"]
    /\ UNCHANGED <<connVars, cancelled, owner, canceled, grace, outcome,
                   streamVars, cancelVars>>

\* Fault: the response is written before the gate is released.
EndTurn_afterReply(p) ==
    /\ pc[p] \in {"returned", "answered"}
    /\ active = p
    /\ active' = IF pc[p] = "answered" THEN NoTurn ELSE active
    /\ turnsInFlight' = IF pc[p] = "answered" THEN turnsInFlight - 1 ELSE turnsInFlight
    /\ pc' = [pc EXCEPT ![p] = IF @ = "answered" THEN @ ELSE "replying"]
    /\ UNCHANGED <<connVars, cancelled, owner, canceled, grace, outcome,
                   streamVars, cancelVars>>

\* EndTurn, which handlePrompt calls before it writes the response.
EndTurn(p) ==
    /\ pc[p] = "returned"
    /\ active' = IF active = p THEN NoTurn ELSE active
    /\ turnsInFlight' = turnsInFlight - 1
    /\ pc' = [pc EXCEPT ![p] = "replying"]
    /\ UNCHANGED <<connVars, cancelled, owner, canceled, grace, outcome,
                   streamVars, cancelVars>>

\* The response or error goes out (a write to a lost peer fails unnoticed); an
\* error the shutdown provoked is told as "cancelled".
Respond(p) ==
    /\ pc[p] = "replying"
    /\ conn[owner[p]] # "stalled"
    /\ pc' = [pc EXCEPT ![p] = "answered"]
    /\ outcome' = IF outcome[p] \in Errors /\ shutdown
                  THEN [outcome EXCEPT ![p] = "cancelled"]
                  ELSE outcome
    /\ UNCHANGED <<connVars, gateVars, cancelled, owner, canceled, grace,
                   streamVars, cancelVars>>

-----------------------------------------------------------------------------
(* Prompt: the loop of the turn's goroutine.                               *)

\* Prompt returns o: its locals go, and its deferred cancelTurn makes turnCtx done
\* (TurnCtxDone), which a turn wackypub still runs does not survive.
Return(p, o) ==
    /\ pc' = [pc EXCEPT ![p] = "returned"]
    /\ outcome' = [outcome EXCEPT ![p] = o]
    /\ canceled' = [canceled EXCEPT ![p] = FALSE]
    /\ grace' = grace \ {p}
    /\ agent' = [agent EXCEPT ![p] = IF @ \in {"running", "cancelling"}
                                    THEN "abandoned" ELSE @]
    /\ events' = [events EXCEPT ![p] = 0]
    /\ UNCHANGED <<connVars, gateVars, cancelled, owner, cancelVars>>

\* Fault: the stream is bound to the process context, not to the turn's.
TurnCtxDone_processOnly(p) == shutdown

TurnCtxDone(p) == shutdown \/ pc[p] \in {"returned", "replying", "answered"}

finishStop(p) == IF canceled[p] THEN "cancelled" ELSE "end_turn"

\* AddAndGenerateTurnStream fails, or opens the stream and the pump starts.
OpenStream(p) ==
    /\ pc[p] = "opening"
    /\ \/ Return(p, "no_stream") /\ UNCHANGED <<pump, chan>>
       \/ /\ pc' = [pc EXCEPT ![p] = "loop"]
          /\ pump' = [pump EXCEPT ![p] = "recv"]
          /\ agent' = [agent EXCEPT ![p] = "running"]
          /\ UNCHANGED <<connVars, gateVars, cancelled, owner, canceled, grace,
                         outcome, chan, events, cancelVars>>

\* case <-ctx.Done()
LoopCtxDone(p) ==
    /\ pc[p] = "loop"
    /\ shutdown
    /\ Return(p, "cancelled")
    /\ UNCHANGED <<pump, chan>>

\* case m, ok := <-msgs, with msgs closed and drained: !ok
LoopClosed(p) ==
    /\ pc[p] = "loop"
    /\ chan[p] = "empty"
    /\ pump[p] = "done"
    /\ Return(p, finishStop(p))
    /\ UNCHANGED <<pump, chan>>

\* case m, ok := <-msgs, with io.EOF
LoopEof(p) ==
    /\ pc[p] = "loop"
    /\ chan[p] = "eof"
    /\ Return(p, finishStop(p))
    /\ chan' = [chan EXCEPT ![p] = "empty"]
    /\ UNCHANGED pump

\* Fault: only the flag is consulted, not the channel it is set from.
cancelInFlight_flagOnly(p) == canceled[p]

\* The flag, or the non-blocking probe of a cancelCh not yet received from.
cancelInFlight(p) == canceled[p] \/ p \in cancelled

\* case m, ok := <-msgs, with any other error
LoopError(p) ==
    /\ pc[p] = "loop"
    /\ chan[p] \in {"canceled", "failed"}
    /\ Return(p, IF chan[p] = "canceled" /\ cancelInFlight(p)
                 THEN "cancelled" ELSE "turn_failed")
    /\ chan' = [chan EXCEPT ![p] = "empty"]
    /\ UNCHANGED pump

\* case m, ok := <-msgs, with an event: mapStreamEvent writes an update for it
\* (text, tool call, tool outcome) or writes nothing (warning, usage).
LoopEvent(p) ==
    /\ pc[p] = "loop"
    /\ chan[p] = "event"
    /\ chan' = [chan EXCEPT ![p] = "empty"]
    /\ \E next \in {"emit", "loop"} : pc' = [pc EXCEPT ![p] = next]
    /\ UNCHANGED <<connVars, gateVars, cancelled, owner, canceled, grace, outcome,
                   pump, agent, events, cancelVars>>

\* Fault: the cancel is noted but no force-cancel timer is set.
LoopCancel_noTimer(p) ==
    /\ pc[p] = "loop"
    /\ p \in cancelled
    /\ ~canceled[p]
    /\ canceled' = [canceled EXCEPT ![p] = TRUE]
    /\ UNCHANGED <<connVars, gateVars, cancelled, owner, pc, grace, outcome,
                   streamVars, cancelVars>>

\* case <-cancelCh, once: the local copy is then niled
LoopCancel(p) ==
    /\ pc[p] = "loop"
    /\ p \in cancelled
    /\ ~canceled[p]
    /\ canceled' = [canceled EXCEPT ![p] = TRUE]
    /\ grace' = grace \union {p}
    /\ UNCHANGED <<connVars, gateVars, cancelled, owner, pc, outcome,
                   streamVars, cancelVars>>

\* case <-graceCh
LoopGrace(p) ==
    /\ pc[p] = "loop"
    /\ p \in grace
    /\ Return(p, "cancelled")
    /\ UNCHANGED <<pump, chan>>

\* The update is written to the owner's connection, or the write fails.
EmitUpdate(p) ==
    /\ pc[p] = "emit"
    /\ conn[owner[p]] # "stalled"
    /\ \/ /\ pc' = [pc EXCEPT ![p] = "loop"]
          /\ UNCHANGED <<connVars, gateVars, cancelled, owner, canceled, grace,
                         outcome, agent, events, cancelVars>>
       \/ /\ conn[owner[p]] \in {"gone", "closed"}
          /\ Return(p, "emit_failed")
    /\ UNCHANGED <<pump, chan>>

-----------------------------------------------------------------------------
(* The pump goroutine, and wackypub behind the stream.                     *)

\* Recv returns an event of the turn.
RecvEvent(p) ==
    /\ pump[p] = "recv"
    /\ agent[p] \in {"running", "cancelling"}
    /\ events[p] < MaxEvents
    /\ events' = [events EXCEPT ![p] = @ + 1]
    /\ pump' = [pump EXCEPT ![p] = "event"]
    /\ UNCHANGED <<connVars, gateVars, cancelled, owner, handlerVars, chan, agent,
                   cancelVars>>

\* Recv returns the end of the stream. A cancelled turn ends with the canceled
\* context's error or cleanly, or it ended by itself before it saw the cancel.
RecvEnd(p) ==
    /\ pump[p] = "recv"
    /\ \/ /\ agent[p] \in {"running", "cancelling"}
          /\ \/ /\ agent' = [agent EXCEPT ![p] = "finished"]
                /\ pump' = [pump EXCEPT ![p] = "eof"]
             \/ /\ agent' = [agent EXCEPT ![p] = "failed"]
                /\ pump' = [pump EXCEPT ![p] = "failed"]
       \/ /\ agent[p] = "cancelling"
          /\ agent' = [agent EXCEPT ![p] = "stopped"]
          /\ \E e \in {"eof", "canceled"} : pump' = [pump EXCEPT ![p] = e]
    /\ UNCHANGED <<connVars, gateVars, cancelled, owner, handlerVars, chan, events,
                   cancelVars>>

\* Recv returns because turnCtx is done.
RecvCtxDone(p) ==
    /\ pump[p] = "recv"
    /\ TurnCtxDone(p)
    /\ pump' = [pump EXCEPT ![p] = "canceled"]
    /\ UNCHANGED <<connVars, gateVars, cancelled, owner, handlerVars, chan, agent,
                   events, cancelVars>>

\* Fault: the pump delivers one message and exits.
PumpSend_once(p) ==
    /\ pump[p] \in Msgs
    /\ chan[p] = "empty"
    /\ chan' = [chan EXCEPT ![p] = pump[p]]
    /\ pump' = [pump EXCEPT ![p] = "done"]
    /\ UNCHANGED <<connVars, gateVars, cancelled, owner, handlerVars, agent, events,
                   cancelVars>>

\* case msgs <- streamMsg{...}; after an error the pump exits and closes msgs
PumpSend(p) ==
    /\ pump[p] \in Msgs
    /\ chan[p] = "empty"
    /\ chan' = [chan EXCEPT ![p] = pump[p]]
    /\ pump' = [pump EXCEPT ![p] = IF @ \in Ends THEN "done" ELSE "recv"]
    /\ UNCHANGED <<connVars, gateVars, cancelled, owner, handlerVars, agent, events,
                   cancelVars>>

\* case <-turnCtx.Done(): the message is dropped and msgs closed
PumpQuit(p) ==
    /\ pump[p] \in Msgs
    /\ TurnCtxDone(p)
    /\ pump' = [pump EXCEPT ![p] = "done"]
    /\ UNCHANGED <<connVars, gateVars, cancelled, owner, handlerVars, chan, agent,
                   events, cancelVars>>

-----------------------------------------------------------------------------
(* The ways to cancel.                                                     *)

\* session/cancel, as a notification or a request, from any connection.
SessionCancel(k, c) ==
    /\ k \in Cancels
    /\ at[k] = "idle"
    /\ conn[c] # "closed"
    /\ at' = [at EXCEPT ![k] = "capture"]
    /\ sender' = [sender EXCEPT ![k] = c]
    /\ UNCHANGED <<connVars, gateVars, cancelled, owner, handlerVars, streamVars, tgt>>

\* session/close.
SessionClose(k, c) ==
    /\ k \in Cancels
    /\ at[k] = "idle"
    /\ conn[c] # "closed"
    /\ at' = [at EXCEPT ![k] = "guard"]
    /\ sender' = [sender EXCEPT ![k] = c]
    /\ UNCHANGED <<connVars, gateVars, cancelled, owner, handlerVars, streamVars, tgt>>

\* Fault: the owner test is inverted.
OwnsActive_inverted(c) == active # NoTurn /\ owner[active] # c

\* ts := ActiveTurn(); ts != nil && ts.owner == s
OwnsActive(c) == active # NoTurn /\ owner[active] = c

\* session/close and the teardown go on to CancelInFlight only for their own turn.
OwnerCheck(k) ==
    /\ at[k] = "guard"
    /\ at' = [at EXCEPT ![k] = IF OwnsActive(sender[k]) THEN "capture" ELSE "done"]
    /\ UNCHANGED <<connVars, gateVars, cancelled, owner, handlerVars, streamVars,
                   sender, tgt>>

\* CancelInFlight reads Backend.active, under the lock.
Capture(k) ==
    /\ at[k] = "capture"
    /\ tgt' = [tgt EXCEPT ![k] = active]
    /\ at' = [at EXCEPT ![k] = IF active = NoTurn THEN "done" ELSE "signal"]
    /\ UNCHANGED <<connVars, gateVars, cancelled, owner, handlerVars, streamVars, sender>>

\* It closes the turn's cancelCh, once.
Signal(k) ==
    /\ at[k] = "signal"
    /\ cancelled' = cancelled \union {tgt[k]}
    /\ at' = [at EXCEPT ![k] = "rpc"]
    /\ UNCHANGED <<connVars, gateVars, owner, handlerVars, streamVars, sender, tgt>>

\* CancelTurn names the agent, not the turn: it reaches the turns the agent is
\* running by then, or it is lost.
CancelRPC(k) ==
    /\ at[k] = "rpc"
    /\ at' = [at EXCEPT ![k] = "done"]
    /\ \/ agent' = [p \in Prompts |-> IF agent[p] = "running" THEN "cancelling"
                                      ELSE agent[p]]
       \/ UNCHANGED agent
    /\ UNCHANGED <<connVars, gateVars, cancelled, owner, handlerVars, pump, chan,
                   events, sender, tgt>>

-----------------------------------------------------------------------------
\* Nothing is left to do: every message was handled, no goroutine runs.
Quiescent ==
    /\ \A p \in Prompts : pc[p] \in {"idle", "answered"} /\ pump[p] \in {"off", "done"}
    /\ \A k \in Callers : at[k] \in {"idle", "done"}
    /\ \A c \in Conns : conn[c] = "closed"
    /\ UNCHANGED vars

ConnStep(c) == Stall(c) \/ HangUp(c) \/ ServeReturns(c)

LoopStep(p) ==
    \/ LoopCtxDone(p) \/ LoopClosed(p) \/ LoopEof(p) \/ LoopError(p)
    \/ LoopEvent(p) \/ LoopCancel(p) \/ LoopGrace(p)

HandlerStep(p) ==
    \/ RejectPrompt(p) \/ BeginTurn(p) \/ RefuseTurn(p) \/ OpenStream(p)
    \/ LoopStep(p) \/ EmitUpdate(p) \/ EndTurn(p) \/ Respond(p)

StreamStep(p) ==
    \/ RecvEvent(p) \/ RecvEnd(p) \/ RecvCtxDone(p)
    \/ PumpSend(p) \/ PumpQuit(p)

CancelStep(k) == OwnerCheck(k) \/ Capture(k) \/ Signal(k) \/ CancelRPC(k)

Next ==
    \/ ShutDown
    \/ \E c \in Conns : ConnStep(c)
    \/ \E c \in Conns : \E p \in Prompts : Dispatch(p, c)
    \/ \E c \in Conns : \E k \in Cancels : SessionCancel(k, c) \/ SessionClose(k, c)
    \/ \E p \in Prompts : HandlerStep(p) \/ StreamStep(p)
    \/ \E k \in Callers : CancelStep(k)
    \/ Quiescent

Spec == Init /\ [][Next]_vars

(* Goroutines are scheduled, a select with ready cases picks one, timers    *)
(* fire, and a read loop sees EOF. Nothing is assumed of the agent, of the  *)
(* peers, of CancelTurn returning, or of which ready case select picks.     *)
Fairness ==
    /\ \A p \in Prompts :
          /\ WF_vars(RejectPrompt(p) \/ BeginTurn(p) \/ RefuseTurn(p))
          /\ WF_vars(OpenStream(p))
          /\ WF_vars(LoopStep(p))
          /\ WF_vars(EmitUpdate(p))
          /\ WF_vars(EndTurn(p))
          /\ WF_vars(Respond(p))
          /\ WF_vars(RecvCtxDone(p))
          /\ WF_vars(PumpSend(p) \/ PumpQuit(p))
    /\ \A c \in Conns : WF_vars(ServeReturns(c))
    /\ \A k \in Callers : WF_vars(OwnerCheck(k) \/ Capture(k) \/ Signal(k))

FairSpec == Spec /\ Fairness

-----------------------------------------------------------------------------
(* Safety.                                                                 *)

\* The prompts that hold the gate: admitted by BeginTurn, not yet ended.
InTurn == {p \in Prompts : pc[p] \in {"opening", "loop", "emit", "returned"}}

\* The counter BeginTurn tests and the turn the cancel paths look up never
\* disagree, and no two prompts are ever in a turn (turn.go: turnsInFlight,
\* active, and EndTurn's "if b.active == ts").
GateConsistent ==
    /\ turnsInFlight = Cardinality(InTurn)
    /\ InTurn = {active} \ {NoTurn}

\* A frontend hears "cancelled" only of a turn whose cancelCh was closed, or at
\* shutdown: neither a failing agent nor a failing connection passes for a
\* cancel (turn.go:216-224, server.go:377-384).
CancelledOnlyIfAsked ==
    \A p \in Prompts : outcome[p] = "cancelled" => p \in cancelled \/ shutdown

\* A turn whose stream ended because of a cancel aimed at it is never reported
\* as failed, although the stream ends with an error and the select may see it
\* before cancelCh (turn.go:216-222, cancelInFlight's probe). Only a cancel
\* aimed at another turn can have that effect.
OwnCancelIsNotAFailure ==
    \A p \in Prompts :
        agent[p] = "stopped" /\ outcome[p] = "turn_failed"
            => \E k \in Callers : at[k] = "done" /\ tgt[k] \notin {p, NoTurn}

\* Unless the process is shutting down, "end_turn" means the agent ended the
\* stream, so no event of the turn was dropped (turn.go:208-215).
EndTurnIsReal ==
    \A p \in Prompts :
        outcome[p] = "end_turn" => agent[p] \in {"finished", "stopped"} \/ shutdown

\* A prompt is refused as busy only while some admitted prompt is unanswered,
\* so a frontend that waits for its answer before it sends the next prompt
\* races nobody but other frontends (server.go:374-376).
NoSpuriousBusy ==
    [][\A p \in Prompts :
         outcome'[p] = "busy" /\ outcome[p] # "busy"
            => \E q \in Prompts : pc[q] \in {"opening", "loop", "emit", "returned"}]_vars

-----------------------------------------------------------------------------
(* Liveness, under Fairness.                                               *)

PeerStalled(p) == \E c \in Conns : owner[p] = c /\ conn[c] = "stalled"

\* A turn whose cancelCh is closed is answered, however the agent and the other
\* connections behave, unless its own peer stops reading (turn.go:19-25,
\* forceCancelGrace).
CancelSettles ==
    \A p \in Prompts :
        p \in cancelled ~> (pc[p] = "answered" \/ PeerStalled(p))

\* The teardown of a connection stops the turn the connection has in flight
\* when Serve returns (server.go:107-115).
TeardownStopsOwnTurn ==
    \A c \in Conns, p \in Prompts :
        (at[c] = "guard" /\ active = p /\ owner[p] = c)
            ~> (p \in cancelled \/ active # p)

\* A wedged stream does not hold the pump goroutine in Recv once the turn is
\* over (turn.go:154-157).
PumpReleased ==
    \A p \in Prompts : pc[p] = "answered" ~> pump[p] \in {"off", "done"}

-----------------------------------------------------------------------------
(* What the comments say and the code does not keep.                       *)

\* README.md:138: "cancelling an in-flight turn cancels exactly that turn".
CancelsExactlyThatTurn ==
    \A p \in Prompts : agent[p] \in {"cancelling", "stopped"} => p \in cancelled

\* server.go:107: a lost connection "must not leave an orphaned turn behind".
NoOrphanedTurn ==
    \A c \in Conns :
        at[c] = "done" /\ active # NoTurn /\ owner[active] = c => active \in cancelled

-----------------------------------------------------------------------------
(* Serve mode implements the gate it promises.                             *)

phaseOf(p) ==
    CASE pc[p] \in {"idle", "dispatched"} -> "new"
      [] pc[p] \in {"opening", "loop", "emit", "returned"} -> "running"
      [] pc[p] = "replying" -> "settled"
      [] pc[p] = "answered" -> "answered"

verdictOf(p) ==
    IF pc[p] \notin {"replying", "answered"} THEN "none"
    ELSE IF outcome[p] \in Errors THEN "failed" ELSE outcome[p]

Gate == INSTANCE TurnGate WITH
            holder  <- active,
            phase   <- [p \in Prompts |-> phaseOf(p)],
            verdict <- [p \in Prompts |-> verdictOf(p)],
            asked   <- cancelled,
            down    <- shutdown

\* Every behaviour of serve mode is one of the gate: one turn at a time, each
\* prompt settled once, honest refusals and cancellations.
ImplementsGate == Gate!GateSpec
=============================================================================
