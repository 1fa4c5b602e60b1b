------------------------------ MODULE AcpTurn ------------------------------
(***************************************************************************)
(* A turn in bridge mode: the D112 server's turn RPCs and their one-turn   *)
(* gate (internal/d112/server.go) on top of the ACP client's Prompt,       *)
(* sendRequest and read loop (internal/acp/client.go).                     *)
(*                                                                         *)
(* A turn RPC, its *activeTurn and its pending request are all named by    *)
(* the turn. Two goroutines meet here: the RPC's handler, which sends the  *)
(* request and waits, and the client's only reader, which streams text and *)
(* tool events into whatever turn is active, answers permission requests,  *)
(* and wakes the handler. The harness behind the two pipes is external.    *)
(***************************************************************************)
EXTENDS Naturals, Sequences, FiniteSets

CONSTANTS Turns,     \* turn RPCs wackypub may make
          NoTurn,    \* Go's nil *activeTurn
          Kinds,     \* what they ask for: "prompt", "model" (the /model command)
          MayCancel, \* the turns whose caller may go away
          MayDie,    \* whether the harness may exit
          MayTrail,  \* whether it may send updates after its answer
          Notes,     \* the kinds of message a harness turn sends
          MaxNotes   \* bound on how many of them it sends per turn

ASSUME AcpAssumption ==
    /\ NoTurn \notin Turns
    /\ Kinds \subseteq {"prompt", "model"}
    /\ MayCancel \subseteq Turns
    /\ MayDie \in BOOLEAN
    /\ MayTrail \in BOOLEAN
    /\ Notes \subseteq {"text", "tool", "ask"}
    /\ MaxNotes \in Nat

VARIABLES
  ctxDone,       \* the turns whose RPC context is done
  turnsInFlight, \* Server.turnsInFlight
  kind,          \* what each turn asks for
  pc,            \* where its handler is
  ret,           \* what Prompt, or the gate, returned
  activeTurn,    \* Client.activeTurn
  closed,        \* activeTurn.closed, the turns that accept no more text
  buf,           \* activeTurn.textBuf: the text items waiting in it
  held,          \* text the handler took from the buffer and has yet to send
  out,           \* what the turn's callbacks sent on its stream
  pending,       \* Client.pending: the turns whose request awaits an answer
  respCh,        \* the request's capacity-1 channel
  doneCh,        \* Client.doneCh is closed
  rd,            \* the read loop: where it is, the line, the turn it captured
  rdText,        \* text the read loop took from the buffer and has yet to send
  stdin,         \* lines on their way to the harness
  stdout,        \* lines on their way to the client
  cur,           \* the turn the harness runs
  stopping,      \* the turns a cancel reached in the harness
  asking,        \* the harness waits for a permission reply
  sent,          \* how many messages it sent for each turn
  answered,      \* the prompts it answered
  dead           \* it has exited

handlerVars == <<turnsInFlight, kind, pc, ret>>
bufVars     == <<activeTurn, closed, buf, held, out>>
waitVars    == <<pending, respCh, doneCh>>
readerVars  == <<rd, rdText>>
harnessVars == <<cur, stopping, asking, sent, answered, dead>>

vars == <<ctxDone, turnsInFlight, kind, pc, ret, activeTurn, closed, buf, held, out,
          pending, respCh, doneCh, rd, rdText, stdin, stdout,
          cur, stopping, asking, sent, answered, dead>>

\* A message: its kind, the turn it comes from and its number in that turn.
Msg(k, t, n) == [k |-> k, t |-> t, n |-> n]
Messages == [k : Notes \union {"report", "result", "error", "eof"},
             t : Turns \union {NoTurn}, n : Nat]
Lines == [k : {"prompt", "model", "cancel"}, t : Turns] \union [k : {"reply"}, t : {NoTurn}]

Eof  == Msg("eof", NoTurn, 0)
Idle == [at |-> "read", item |-> Eof, ref |-> NoTurn]

HandlerTypes ==
    /\ turnsInFlight \in Nat
    /\ kind \in [Turns -> {"prompt", "model"}]
    /\ pc \in [Turns -> {"idle", "activate", "register", "write", "wait", "unwind",
                         "deliver", "clear", "report", "check", "end", "returned"}]
    /\ ret \in [Turns -> {"none", "ok", "busy", "canceled", "died", "failed"}]

BufTypes ==
    /\ activeTurn \in Turns \union {NoTurn}
    /\ closed \in SUBSET Turns
    /\ buf \in [Turns -> Seq(Messages)]
    /\ held \in [Turns -> Seq(Messages)]
    /\ out \in [Turns -> Seq(Messages)]

WaitTypes ==
    /\ pending \in SUBSET Turns
    /\ respCh \in [Turns -> {"empty", "result", "error", "closed"}]
    /\ doneCh \in BOOLEAN

ReaderTypes ==
    /\ rd \in [at : {"read", "text", "flush", "deliver", "reply", "refetch",
                     "callback", "eof", "done"},
               item : Messages, ref : Turns \union {NoTurn}]
    /\ rdText \in Seq(Messages)

PipeTypes ==
    /\ stdin \in Seq(Lines)
    /\ stdout \in Seq(Messages)

HarnessTypes ==
    /\ cur \in Turns \union {NoTurn}
    /\ stopping \in SUBSET Turns
    /\ asking \in BOOLEAN
    /\ sent \in [Turns -> Nat]
    /\ answered \in SUBSET Turns
    /\ dead \in BOOLEAN

TypeOK ==
    /\ ctxDone \in SUBSET Turns
    /\ HandlerTypes
    /\ BufTypes
    /\ WaitTypes
    /\ ReaderTypes
    /\ PipeTypes
    /\ HarnessTypes

Init ==
    /\ ctxDone = {}
    /\ turnsInFlight = 0
    /\ kind \in [Turns -> Kinds]
    /\ pc = [t \in Turns |-> "idle"]
    /\ ret = [t \in Turns |-> "none"]
    /\ activeTurn = NoTurn
    /\ closed = {}
    /\ buf = [t \in Turns |-> <<>>]
    /\ held = [t \in Turns |-> <<>>]
    /\ out = [t \in Turns |-> <<>>]
    /\ pending = {}
    /\ respCh = [t \in Turns |-> "empty"]
    /\ doneCh = FALSE
    /\ rd = Idle
    /\ rdText = <<>>
    /\ stdin = <<>>
    /\ stdout = <<>>
    /\ cur = NoTurn
    /\ stopping = {}
    /\ asking = FALSE
    /\ sent = [t \in Turns |-> 0]
    /\ answered = {}
    /\ dead = FALSE

-----------------------------------------------------------------------------
(* The RPC handler, in d112/server.go: gate, Prompt, deferred cleanup.      *)

\* The caller goes away: the RPC's context is done while its handler runs.
CallerGone(t) ==
    /\ t \in MayCancel \ ctxDone
    /\ pc[t] \notin {"idle", "returned"}
    /\ ctxDone' = ctxDone \union {t}
    /\ UNCHANGED <<handlerVars, bufVars, waitVars, readerVars, stdin, stdout, harnessVars>>

Goto(t, l) == pc' = [pc EXCEPT ![t] = l]
Result(t, r) == ret' = [ret EXCEPT ![t] = r]

\* Fault: the slot is released before the deferred cancel is sent.
SlotFree_beforeCancel ==
    \A t \in Turns : pc[t] \in {"idle", "check", "end", "returned"}

\* Fault: off by one.
SlotFree_two == turnsInFlight <= 1

SlotFree == turnsInFlight = 0

\* beginTurn reserves the slot. "/model name" skips Prompt and makes a request of
\* its own, and "/model" only reports.
BeginTurn(t) ==
    /\ pc[t] = "idle"
    /\ SlotFree
    /\ turnsInFlight' = turnsInFlight + 1
    /\ IF kind[t] = "prompt" THEN Goto(t, "activate") /\ UNCHANGED ret
       ELSE \/ Goto(t, "register") /\ UNCHANGED ret
            \/ Goto(t, "report") /\ Result(t, "ok")
    /\ UNCHANGED <<ctxDone, kind, bufVars, waitVars, readerVars, stdin, stdout,
                   harnessVars>>

\* Fault: endTurn is deferred before beginTurn's answer is tested.
RefuseTurn_releases(t) ==
    /\ pc[t] = "idle"
    /\ ~SlotFree
    /\ turnsInFlight' = turnsInFlight - 1
    /\ Result(t, "busy")
    /\ Goto(t, "returned")
    /\ UNCHANGED <<ctxDone, kind, bufVars, waitVars, readerVars, stdin, stdout, harnessVars>>

\* beginTurn refuses: RESOURCE_EXHAUSTED, before any defer is set.
RefuseTurn(t) ==
    /\ pc[t] = "idle"
    /\ ~SlotFree
    /\ Result(t, "busy")
    /\ Goto(t, "returned")
    /\ UNCHANGED <<ctxDone, turnsInFlight, kind, bufVars, waitVars, readerVars, stdin,
                   stdout, harnessVars>>

\* Prompt publishes its turn, whichever was there.
ActivateTurn(t) ==
    /\ pc[t] = "activate"
    /\ activeTurn' = t
    /\ Goto(t, "register")
    /\ UNCHANGED <<ctxDone, turnsInFlight, kind, ret, closed, buf, held, out, waitVars,
                   readerVars, stdin, stdout, harnessVars>>

\* sendRequest enters its channel in the pending map ...
Register(t) ==
    /\ pc[t] = "register"
    /\ pending' = pending \union {t}
    /\ Goto(t, "write")
    /\ UNCHANGED <<ctxDone, turnsInFlight, kind, ret, bufVars, respCh, doneCh, readerVars,
                   stdin, stdout, harnessVars>>

\* The request is over: Prompt closes its turn, while /model reports whatever
\* came of it, an error too, as the text of a successful turn.
RequestOver(t, r) ==
    /\ Result(t, IF kind[t] = "prompt" THEN r ELSE "ok")
    /\ Goto(t, IF kind[t] = "prompt" THEN "unwind" ELSE "report")

\* ... and writes the line; writing to a harness that exited may fail.
WriteRequest(t) ==
    /\ pc[t] = "write"
    /\ \/ /\ stdin' = Append(stdin, [k |-> kind[t], t |-> t])
          /\ Goto(t, "wait")
          /\ UNCHANGED <<ret, pending>>
       \/ /\ dead
          /\ pending' = pending \ {t}
          /\ RequestOver(t, "failed")
          /\ UNCHANGED stdin
    /\ UNCHANGED <<ctxDone, turnsInFlight, kind, bufVars, respCh, doneCh, readerVars,
                   stdout, harnessVars>>

\* Fault: sendRequest gives up by itself, its caller still waiting.
WaitCtxDone_timeout(t) ==
    /\ pc[t] = "wait"
    /\ pending' = pending \ {t}
    /\ RequestOver(t, "canceled")
    /\ UNCHANGED <<ctxDone, turnsInFlight, kind, bufVars, respCh, doneCh, readerVars,
                   stdin, stdout, harnessVars>>

\* Fault: sendRequest does not watch its context.
WaitCtxDone_ignored(t) ==
    /\ pc[t] = "wait"
    /\ FALSE
    /\ UNCHANGED vars

\* select: case <-ctx.Done()
WaitCtxDone(t) ==
    /\ pc[t] = "wait"
    /\ t \in ctxDone
    /\ pending' = pending \ {t}
    /\ RequestOver(t, "canceled")
    /\ UNCHANGED <<ctxDone, turnsInFlight, kind, bufVars, respCh, doneCh, readerVars,
                   stdin, stdout, harnessVars>>

\* select: case <-c.doneCh, or respCh closed
WaitHarnessDied(t) ==
    /\ pc[t] = "wait"
    /\ doneCh \/ respCh[t] = "closed"
    /\ RequestOver(t, "died")
    /\ UNCHANGED <<ctxDone, turnsInFlight, kind, bufVars, waitVars, readerVars, stdin,
                   stdout, harnessVars>>

\* select: case resp := <-respCh. An RPC error and an undecodable result fail.
WaitAnswered(t) ==
    /\ pc[t] = "wait"
    /\ respCh[t] \in {"result", "error"}
    /\ respCh' = [respCh EXCEPT ![t] = "empty"]
    /\ \E r \in IF respCh[t] = "result" THEN {"ok", "failed"} ELSE {"failed"} :
          RequestOver(t, r)
    /\ UNCHANGED <<ctxDone, turnsInFlight, kind, bufVars, pending, doneCh, readerVars,
                   stdin, stdout, harnessVars>>

\* Prompt's closeAndFlush, explicit after an answer and deferred otherwise, up to
\* t.mu.Unlock. (After the explicit one the deferred one finds the turn closed.)
CloseTurn(t) ==
    /\ pc[t] = "unwind"
    /\ closed' = closed \union {t}
    /\ held' = [held EXCEPT ![t] = buf[t]]
    /\ buf' = [buf EXCEPT ![t] = <<>>]
    /\ Goto(t, IF buf[t] = <<>> THEN "clear" ELSE "deliver")
    /\ UNCHANGED <<ctxDone, turnsInFlight, kind, ret, activeTurn, out, waitVars,
                   readerVars, stdin, stdout, harnessVars>>

\* stream.Send fails only once the caller is gone.
SendOutcomes(t) == IF t \in ctxDone THEN BOOLEAN ELSE {TRUE}

\* OnChunk with that text, under chunkMu; an error fails a turn that was answered.
DeliverFinal(t) ==
    /\ pc[t] = "deliver"
    /\ held' = [held EXCEPT ![t] = <<>>]
    /\ \E ok \in SendOutcomes(t) :
          /\ out' = IF ok THEN [out EXCEPT ![t] = @ \o held[t]] ELSE out
          /\ ret' = IF ~ok /\ ret[t] = "ok" THEN [ret EXCEPT ![t] = "failed"] ELSE ret
    /\ Goto(t, "clear")
    /\ UNCHANGED <<ctxDone, turnsInFlight, kind, activeTurn, closed, buf, waitVars,
                   readerVars, stdin, stdout, harnessVars>>

\* Fault: a turn that was answered leaves activeTurn for the next to replace.
ClearActive_onlyOnError(t) ==
    /\ pc[t] = "clear"
    /\ activeTurn' = IF ret[t] = "ok" THEN activeTurn ELSE NoTurn
    /\ Goto(t, IF ret[t] = "ok" THEN "report" ELSE "check")
    /\ UNCHANGED <<ctxDone, turnsInFlight, kind, ret, closed, buf, held, out, waitVars,
                   readerVars, stdin, stdout, harnessVars>>

\* Prompt returns. It clears activeTurn whoever is there.
ClearActive(t) ==
    /\ pc[t] = "clear"
    /\ activeTurn' = NoTurn
    /\ Goto(t, IF ret[t] = "ok" THEN "report" ELSE "check")
    /\ UNCHANGED <<ctxDone, turnsInFlight, kind, ret, closed, buf, held, out, waitVars,
                   readerVars, stdin, stdout, harnessVars>>

\* The RPC sends its last message, the usage chunk (if any token was counted) or
\* the /model text, and returns.
SendReport(t) ==
    /\ pc[t] = "report"
    /\ \/ kind[t] = "prompt" /\ UNCHANGED <<out, ret>>
       \/ \E ok \in SendOutcomes(t) :
             /\ out' = IF ok THEN [out EXCEPT ![t] = Append(@, Msg("report", t, 0))] ELSE out
             /\ ret' = IF ok THEN ret ELSE [ret EXCEPT ![t] = "failed"]
    /\ Goto(t, "check")
    /\ UNCHANGED <<ctxDone, turnsInFlight, kind, activeTurn, closed, buf, held, waitVars,
                   readerVars, stdin, stdout, harnessVars>>

\* Fault: nothing tells the harness that the caller is gone.
MustCancel_never(t) == FALSE

MustCancel(t) == t \in ctxDone

\* The deferred check of ctx.Err(): session/cancel, its write error ignored.
CancelIfDone(t) ==
    /\ pc[t] = "check"
    /\ stdin' = IF MustCancel(t) THEN Append(stdin, [k |-> "cancel", t |-> t]) ELSE stdin
    /\ Goto(t, "end")
    /\ UNCHANGED <<ctxDone, turnsInFlight, kind, ret, bufVars, waitVars, readerVars,
                   stdout, harnessVars>>

\* endTurn, deferred first and so run last; gRPC sends the status.
EndTurn(t) ==
    /\ pc[t] = "end"
    /\ turnsInFlight' = turnsInFlight - 1
    /\ Goto(t, "returned")
    /\ UNCHANGED <<ctxDone, kind, ret, bufVars, waitVars, readerVars, stdin, stdout,
                   harnessVars>>

HandlerStep(t) ==
    \/ BeginTurn(t) \/ RefuseTurn(t) \/ ActivateTurn(t) \/ Register(t) \/ WriteRequest(t)
    \/ WaitCtxDone(t) \/ WaitHarnessDied(t) \/ WaitAnswered(t)
    \/ CloseTurn(t) \/ DeliverFinal(t) \/ ClearActive(t) \/ SendReport(t)
    \/ CancelIfDone(t) \/ EndTurn(t)

-----------------------------------------------------------------------------
(* The read loop, in acp/client.go.                                        *)

Read(at, item, ref) == rd' = [at |-> at, item |-> item, ref |-> ref]
ReadOn == rd' = Idle

\* handleResponse: the request leaves the pending map and its channel gets the
\* answer; an answer nobody waits for is dropped.
HandleResponse ==
    /\ rd.at = "read"
    /\ stdout # <<>>
    /\ Head(stdout).k \in {"result", "error"}
    /\ stdout' = Tail(stdout)
    /\ LET t == Head(stdout).t IN
          /\ pending' = pending \ {t}
          /\ respCh' = IF t \in pending THEN [respCh EXCEPT ![t] = Head(stdout).k]
                                        ELSE respCh
    /\ UNCHANGED <<ctxDone, handlerVars, bufVars, doneCh, readerVars, stdin, harnessVars>>

\* Fault: an update that is not text is passed on before the text it follows.
Boundary_skipped(k) == IF k = "text" THEN "text" ELSE "callback"

\* Where an update goes first: all but text flush the buffer.
Boundary(k) == IF k = "text" THEN "text" ELSE "flush"

\* A notification or a request is read and the active turn captured. With none,
\* updates are dropped, while a permission request must still be answered.
ReadUpdate ==
    /\ rd.at = "read"
    /\ stdout # <<>>
    /\ Head(stdout).k \in Notes
    /\ stdout' = Tail(stdout)
    /\ LET m == Head(stdout) IN
          IF activeTurn # NoTurn THEN Read(Boundary(m.k), m, activeTurn)
          ELSE IF m.k = "ask" THEN Read("reply", m, NoTurn)
          ELSE ReadOn
    /\ UNCHANGED <<ctxDone, handlerVars, bufVars, waitVars, rdText, stdin, harnessVars>>

\* appendText
AppendText ==
    /\ rd.at = "text"
    /\ buf' = IF rd.ref \in closed THEN buf ELSE [buf EXCEPT ![rd.ref] = Append(@, rd.item)]
    /\ ReadOn
    /\ UNCHANGED <<ctxDone, handlerVars, activeTurn, closed, held, out, waitVars, rdText,
                   stdin, stdout, harnessVars>>

\* After the boundary's flush.
AfterFlush == IF rd.item.k = "ask" THEN "reply" ELSE "callback"

\* flushInternal(closeTurn = FALSE) up to t.mu.Unlock
FlushTake ==
    /\ rd.at = "flush"
    /\ LET text == IF rd.ref \in closed THEN <<>> ELSE buf[rd.ref] IN
          /\ rdText' = text
          /\ buf' = IF rd.ref \in closed THEN buf ELSE [buf EXCEPT ![rd.ref] = <<>>]
          /\ Read(IF text = <<>> THEN AfterFlush ELSE "deliver", rd.item, rd.ref)
    /\ UNCHANGED <<ctxDone, handlerVars, activeTurn, closed, held, out, waitVars,
                   stdin, stdout, harnessVars>>

\* OnChunk, under chunkMu; its error is ignored.
FlushDeliver ==
    /\ rd.at = "deliver"
    /\ \E ok \in SendOutcomes(rd.ref) :
          out' = IF ok THEN [out EXCEPT ![rd.ref] = @ \o rdText] ELSE out
    /\ rdText' = <<>>
    /\ Read(AfterFlush, rd.item, rd.ref)
    /\ UNCHANGED <<ctxDone, handlerVars, activeTurn, closed, buf, held, waitVars,
                   stdin, stdout, harnessVars>>

\* Fault: no answer is sent when no option of the request is recognised.
PermissionReply_ifOption ==
    /\ rd.at = "reply"
    /\ stdin' \in {stdin, Append(stdin, [k |-> "reply", t |-> NoTurn])}
    /\ Read("refetch", rd.item, rd.ref)
    /\ UNCHANGED <<ctxDone, handlerVars, bufVars, waitVars, rdText, stdout, harnessVars>>

\* The answer to a permission request: an allow or deny option, or "cancelled".
PermissionReply ==
    /\ rd.at = "reply"
    /\ stdin' = Append(stdin, [k |-> "reply", t |-> NoTurn])
    /\ Read("refetch", rd.item, rd.ref)
    /\ UNCHANGED <<ctxDone, handlerVars, bufVars, waitVars, rdText, stdout, harnessVars>>

\* activeTurnRef again, for the warning and the denied tool call.
PermissionRefetch ==
    /\ rd.at = "refetch"
    /\ IF activeTurn = NoTurn THEN ReadOn ELSE Read("callback", rd.item, activeTurn)
    /\ UNCHANGED <<ctxDone, handlerVars, bufVars, waitVars, rdText, stdin, stdout,
                   harnessVars>>

\* OnToolCall, OnToolCallUpdate or OnWarning
Callback ==
    /\ rd.at = "callback"
    /\ \E ok \in SendOutcomes(rd.ref) :
          out' = IF ok THEN [out EXCEPT ![rd.ref] = Append(@, rd.item)] ELSE out
    /\ ReadOn
    /\ UNCHANGED <<ctxDone, handlerVars, activeTurn, closed, buf, held, waitVars, rdText,
                   stdin, stdout, harnessVars>>

\* EOF: the callers in the pending map are woken ...
ReadEof ==
    /\ rd.at = "read"
    /\ stdout # <<>>
    /\ Head(stdout).k = "eof"
    /\ stdout' = Tail(stdout)
    /\ respCh' = [t \in Turns |-> IF t \in pending THEN "closed" ELSE respCh[t]]
    /\ pending' = {}
    /\ Read("eof", Eof, NoTurn)
    /\ UNCHANGED <<ctxDone, handlerVars, bufVars, doneCh, rdText, stdin, harnessVars>>

\* ... then everybody is.
CloseDone ==
    /\ rd.at = "eof"
    /\ doneCh' = TRUE
    /\ Read("done", Eof, NoTurn)
    /\ UNCHANGED <<ctxDone, handlerVars, bufVars, pending, respCh, rdText, stdin, stdout,
                   harnessVars>>

ReaderStep ==
    \/ HandleResponse \/ ReadUpdate \/ AppendText \/ FlushTake \/ FlushDeliver
    \/ PermissionReply \/ PermissionRefetch \/ Callback \/ ReadEof \/ CloseDone

-----------------------------------------------------------------------------
(* The harness: external. It runs one turn at a time; it may refuse a prompt *)
(* that comes meanwhile or leave it unread until the turn is over.           *)

Reads(k) == stdin # <<>> /\ Head(stdin).k = k /\ ~dead /\ stdin' = Tail(stdin)
Writes(m) == stdout' = Append(stdout, m)

clientVars == <<ctxDone, handlerVars, bufVars, waitVars, readerVars>>

HarnessPrompt ==
    /\ Reads("prompt")
    /\ LET t == Head(stdin).t IN
          \/ /\ cur = NoTurn
             /\ cur' = t
             /\ UNCHANGED <<stdout, answered>>
          \/ /\ cur # NoTurn
             /\ answered' = answered \union {t}
             /\ Writes(Msg("error", t, 0))
             /\ UNCHANGED cur
    /\ UNCHANGED <<clientVars, stopping, asking, sent, dead>>

HarnessModel ==
    /\ Reads("model")
    /\ \E k \in {"result", "error"} : Writes(Msg(k, Head(stdin).t, 0))
    /\ UNCHANGED <<clientVars, harnessVars>>

\* session/cancel names the session, so it stops whatever turn runs.
HarnessCancel ==
    /\ Reads("cancel")
    /\ stopping' = stopping \union ({cur} \ {NoTurn})
    /\ UNCHANGED <<clientVars, stdout, cur, asking, sent, answered, dead>>

HarnessReply ==
    /\ Reads("reply")
    /\ asking' = FALSE
    /\ UNCHANGED <<clientVars, stdout, cur, stopping, sent, answered, dead>>

\* Text, a tool event or a permission request of turn t.
HarnessNotify(t) ==
    /\ ~dead /\ ~asking
    /\ cur = t \/ (MayTrail /\ cur = NoTurn /\ t \in answered)
    /\ sent[t] < MaxNotes
    /\ sent' = [sent EXCEPT ![t] = @ + 1]
    /\ \E k \in Notes :
          /\ k = "ask" => cur = t
          /\ Writes(Msg(k, t, sent'[t]))
          /\ asking' = (k = "ask")
    /\ UNCHANGED <<clientVars, stdin, cur, stopping, answered, dead>>

\* The turn ends; a cancelled one does not wait for a permission.
HarnessAnswer ==
    /\ ~dead
    /\ cur # NoTurn
    /\ asking => cur \in stopping
    /\ \E k \in {"result", "error"} : Writes(Msg(k, cur, 0))
    /\ answered' = answered \union {cur}
    /\ cur' = NoTurn
    /\ asking' = FALSE
    /\ UNCHANGED <<clientVars, stdin, stopping, sent, dead>>

HarnessExit ==
    /\ MayDie /\ ~dead
    /\ dead' = TRUE
    /\ Writes(Eof)
    /\ UNCHANGED <<clientVars, stdin, cur, stopping, asking, sent, answered>>

HarnessReads == HarnessPrompt \/ HarnessModel \/ HarnessCancel \/ HarnessReply

HarnessStep ==
    HarnessReads \/ (\E t \in Turns : HarnessNotify(t)) \/ HarnessAnswer \/ HarnessExit

-----------------------------------------------------------------------------
\* wackypub has had an answer to every RPC it may make.
Quiescent == (\A t \in Turns : pc[t] = "returned") /\ UNCHANGED vars

Next ==
    \/ \E t \in Turns : CallerGone(t) \/ HandlerStep(t)
    \/ ReaderStep
    \/ HarnessStep
    \/ Quiescent

Spec == Init /\ [][Next]_vars

\* The two goroutines run. Callers and the harness get no fairness.
ClientFairness ==
    /\ \A t \in Turns : WF_vars(pc[t] # "idle" /\ HandlerStep(t))
    /\ WF_vars(ReaderStep)

FairSpec == Spec /\ ClientFairness

-----------------------------------------------------------------------------
(* Safety.                                                                 *)

\* The turns that hold the slot: admitted by beginTurn, not yet ended.
InTurn == {t \in Turns : pc[t] \notin {"idle", "returned"}}

\* One turn at a time, and the active turn is the one that holds the slot. The
\* client sets and clears activeTurn without a look at whose it is; that this is
\* never another's rests on the server's gate and on Prompt's defer
\* (d112/server.go:38-43, acp/client.go:871-880).
SlotConsistent ==
    /\ turnsInFlight = Cardinality(InTurn)
    /\ Cardinality(InTurn) <= 1
    /\ activeTurn # NoTurn => activeTurn \in InTurn

\* Where a turn's stream has what the harness sent for it.
Own(t) == {i \in DOMAIN out[t] : out[t][i].k \in Notes /\ out[t][i].t = t}

\* A turn that ends well, with its caller still there, has passed on every
\* message the harness sent for it, once and in order, although text is buffered
\* by one goroutine and flushed by two; and it has passed on nothing else, but
\* for the messages of turns whose caller had gone (client.go:42-86, 537-539,
\* 924). It holds of harnesses that send nothing after their answer.
CompleteTurn ==
    \A t \in Turns :
        ret[t] = "ok" /\ kind[t] = "prompt" /\ t \notin ctxDone
                      /\ pc[t] \in {"check", "end", "returned"}
            => /\ {out[t][i].n : i \in Own(t)} = 1..sent[t]
               /\ \A i, j \in Own(t) : i < j => out[t][i].n < out[t][j].n
               /\ \A i \in DOMAIN out[t] : out[t][i].t \in {t} \union ctxDone

\* A session/cancel stops the turn it was sent for or none, although it names
\* only the session: only turns whose own caller has gone are ever stopped, since
\* the cancel is written before the slot is released (server.go:116-122).
StopsOnlyAbandoned == stopping \subseteq ctxDone

\* A gRPC stream takes one Send at a time and none after its handler returned. Text
\* is sent under chunkMu, tool events and the last chunk are not: that the read loop
\* is off the stream by then rests on its having read the answer after all updates,
\* unless the caller has gone, or what it sends belongs to an earlier turn (and the
\* harness exited before it read this one's prompt) (client.go:72-82, 229-256, 924,
\* server.go:125-158).
OneSender ==
    /\ rd.at \in {"deliver", "callback"}
    /\ \/ pc[rd.ref] \in {"report", "check", "end", "returned"}
       \/ rd.at = "callback" /\ pc[rd.ref] = "deliver"
    => \/ rd.ref \in ctxDone
       \/ rd.item.t # rd.ref /\ \A i \in 1..Len(rdText) : rdText[i].t # rd.ref

-----------------------------------------------------------------------------
(* Liveness.                                                               *)

\* Whatever the harness does, a turn whose caller has gone, or whose harness has
\* exited, returns: no window between the pending map and doneCh loses the wakeup
\* (client.go:195-203, 603-641).
CallerReleased ==
    \A t \in Turns : (t \in ctxDone \/ dead) /\ pc[t] # "idle" ~> pc[t] = "returned"

\* A harness that reads its input and ends a turn it was told to cancel.
HeedfulHarness == WF_vars(HarnessReads) /\ WF_vars(cur \in stopping /\ HarnessAnswer)

\* A turn that is running in the harness when its caller goes is stopped, by a
\* harness that heeds cancels (server.go:118-122).
AbandonedTurnStops ==
    HeedfulHarness => \A t \in Turns : t \in ctxDone /\ cur = t ~> cur # t \/ dead

\* A harness that waits for a permission and reads its input is answered, also
\* when the turn it asks for is over (client.go:334: "to unblock harness").
PermissionAnswered == HeedfulHarness => (asking ~> ~asking \/ dead)

-----------------------------------------------------------------------------
(* What the comments and tests say and the code does not keep.             *)

\* client_test.go:743: "(buffer bled from Turn 1)", and server.go:40-41.
NoBleed == \A t \in Turns : \A i \in 1..Len(out[t]) : out[t][i].t = t

-----------------------------------------------------------------------------
(* The D112 server keeps the same gate as serve mode.                      *)

slotHolder == IF InTurn = {} THEN NoTurn ELSE CHOOSE t \in InTurn : TRUE

phaseOf(t) ==
    CASE pc[t] = "idle" -> "new"
      [] pc[t] = "returned" -> "settled"
      [] pc[t] \notin {"idle", "returned"} -> "running"

verdictOf(t) ==
    IF pc[t] # "returned" THEN "none"
    ELSE CASE ret[t] = "ok" -> "end_turn"
           [] ret[t] = "canceled" -> "cancelled"
           [] ret[t] \in {"died", "failed"} -> "failed"
           [] ret[t] \in {"none", "busy"} -> ret[t]

Gate == INSTANCE TurnGate WITH
            Prompts <- Turns,
            holder  <- slotHolder,
            phase   <- [t \in Turns |-> phaseOf(t)],
            verdict <- [t \in Turns |-> verdictOf(t)],
            asked   <- ctxDone,
            down    <- FALSE

\* Every behaviour of the bridge is one of the gate: one turn at a time, a refusal
\* only while the slot is held, "canceled" only when the caller has gone.
ImplementsGate == Gate!GateSpec
=============================================================================
