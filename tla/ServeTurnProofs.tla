-------------------------- MODULE ServeTurnProofs --------------------------
(***************************************************************************)
(* Proofs about ServeTurn, for any number of connections, prompts and      *)
(* cancels.                                                                *)
(***************************************************************************)
EXTENDS ServeTurn, TLAPS, FiniteSetTheorems

\* The counter is 1 exactly while there is an active turn, and the active turn
\* is the only prompt past BeginTurn and before EndTurn.
GateInv ==
    /\ turnsInFlight = IF active = NoTurn THEN 0 ELSE 1
    /\ \A p \in Prompts :
          active = p <=> pc[p] \in {"opening", "loop", "emit", "returned"}

\* A canceller that is about to close a cancelCh holds a turn that was admitted.
TargetInv ==
    \A k \in Callers :
        at[k] = "signal" => /\ tgt[k] \in Prompts
                            /\ pc[tgt[k]] \notin {"idle", "dispatched"}

\* What a turn's goroutine knows of its cancel is true, and so is what it tells.
CancelInv ==
    \A p \in Prompts :
        /\ canceled[p] => p \in cancelled
        /\ p \in grace => p \in cancelled
        /\ outcome[p] = "cancelled" => p \in cancelled \/ shutdown
        /\ pc[p] = "returned" => outcome[p] \in {"end_turn", "cancelled"} \union Errors

IInv == TypeOK /\ GateInv /\ TargetInv /\ CancelInv

USE ServeAssumption DEF ServeAssumption
USE DEF connVars, gateVars, handlerVars, streamVars, cancelVars, Callers, Ends, Msgs, Errors

LEMMA InitIInv == Init => IInv
<1> SUFFICES ASSUME Init PROVE IInv
  OBVIOUS
<1>1. TypeOK
  BY DEF Init, TypeOK
<1>2. GateInv
  BY DEF Init, GateInv
<1>3. TargetInv
  BY DEF Init, TargetInv
<1>4. CancelInv
  BY DEF Init, CancelInv
<1>5. QED BY <1>1, <1>2, <1>3, <1>4 DEF IInv

LEMMA ConnIInv ==
    ASSUME IInv, NEW c \in Conns, ConnStep(c)
    PROVE  IInv'
<1>1. CASE Stall(c)
  BY <1>1 DEF Stall, IInv, TypeOK, GateInv, TargetInv, CancelInv
<1>2. CASE HangUp(c)
  BY <1>2 DEF HangUp, IInv, TypeOK, GateInv, TargetInv, CancelInv
<1>3. CASE ServeReturns(c)
  BY <1>3 DEF ServeReturns, IInv, TypeOK, GateInv, TargetInv, CancelInv
<1>4. QED BY <1>1, <1>2, <1>3 DEF ConnStep

LEMMA HandlerIInv ==
    ASSUME IInv, NEW p \in Prompts, HandlerStep(p)
    PROVE  IInv'
<1>1. CASE RejectPrompt(p)
  BY <1>1 DEF RejectPrompt, IInv, TypeOK, GateInv, TargetInv, CancelInv
<1>2. CASE BeginTurn(p)
  BY <1>2 DEF BeginTurn, GateIsFree, IInv, TypeOK, GateInv, TargetInv, CancelInv
<1>3. CASE RefuseTurn(p)
  BY <1>3 DEF RefuseTurn, GateIsFree, IInv, TypeOK, GateInv, TargetInv, CancelInv
<1>4. CASE OpenStream(p)
  <2>1. CASE Return(p, "no_stream") /\ UNCHANGED <<pump, chan>>
    BY <1>4, <2>1 DEF OpenStream, Return, IInv, TypeOK, GateInv, TargetInv, CancelInv
  <2>2. CASE pc' = [pc EXCEPT ![p] = "loop"]
    BY <1>4, <2>2 DEF OpenStream, Return, IInv, TypeOK, GateInv, TargetInv, CancelInv
  <2>3. QED BY <1>4, <2>1, <2>2 DEF OpenStream
<1>5. CASE LoopCtxDone(p)
  BY <1>5 DEF LoopCtxDone, Return, IInv, TypeOK, GateInv, TargetInv, CancelInv
<1>6. CASE LoopClosed(p)
  BY <1>6 DEF LoopClosed, Return, finishStop, IInv, TypeOK, GateInv, TargetInv, CancelInv
<1>7. CASE LoopEof(p)
  BY <1>7 DEF LoopEof, Return, finishStop, IInv, TypeOK, GateInv, TargetInv, CancelInv
<1>8. CASE LoopError(p)
  BY <1>8 DEF LoopError, Return, cancelInFlight, IInv, TypeOK, GateInv, TargetInv, CancelInv
<1>9. CASE LoopEvent(p)
  BY <1>9 DEF LoopEvent, IInv, TypeOK, GateInv, TargetInv, CancelInv
<1>10. CASE LoopCancel(p)
  BY <1>10 DEF LoopCancel, IInv, TypeOK, GateInv, TargetInv, CancelInv
<1>11. CASE LoopGrace(p)
  BY <1>11 DEF LoopGrace, Return, IInv, TypeOK, GateInv, TargetInv, CancelInv
<1>12. CASE EmitUpdate(p)
  <2>1. CASE pc' = [pc EXCEPT ![p] = "loop"] /\ UNCHANGED <<canceled, grace, outcome, agent, events>>
    BY <1>12, <2>1 DEF EmitUpdate, Return, IInv, TypeOK, GateInv, TargetInv, CancelInv
  <2>2. CASE Return(p, "emit_failed")
    BY <1>12, <2>2 DEF EmitUpdate, Return, IInv, TypeOK, GateInv, TargetInv, CancelInv
  <2>3. QED BY <1>12, <2>1, <2>2 DEF EmitUpdate
<1>13. CASE EndTurn(p)
  BY <1>13 DEF EndTurn, IInv, TypeOK, GateInv, TargetInv, CancelInv
<1>14. CASE Respond(p)
  BY <1>14 DEF Respond, IInv, TypeOK, GateInv, TargetInv, CancelInv
<1>15. QED BY <1>1, <1>2, <1>3, <1>4, <1>5, <1>6, <1>7, <1>8, <1>9, <1>10, <1>11, <1>12, <1>13, <1>14 DEF HandlerStep, LoopStep

LEMMA StreamIInv ==
    ASSUME IInv, NEW p \in Prompts, StreamStep(p)
    PROVE  IInv'
<1>1. CASE RecvEvent(p)
  BY <1>1 DEF RecvEvent, IInv, TypeOK, GateInv, TargetInv, CancelInv
<1>2. CASE RecvEnd(p)
  BY <1>2 DEF RecvEnd, IInv, TypeOK, GateInv, TargetInv, CancelInv
<1>3. CASE RecvCtxDone(p)
  BY <1>3 DEF RecvCtxDone, IInv, TypeOK, GateInv, TargetInv, CancelInv
<1>4. CASE PumpSend(p)
  BY <1>4 DEF PumpSend, IInv, TypeOK, GateInv, TargetInv, CancelInv
<1>5. CASE PumpQuit(p)
  BY <1>5 DEF PumpQuit, IInv, TypeOK, GateInv, TargetInv, CancelInv
<1>6. QED BY <1>1, <1>2, <1>3, <1>4, <1>5 DEF StreamStep

LEMMA CancelIInv ==
    ASSUME IInv, NEW k \in Callers, CancelStep(k)
    PROVE  IInv'
<1>1. CASE OwnerCheck(k)
  BY <1>1 DEF OwnerCheck, IInv, TypeOK, GateInv, TargetInv, CancelInv
<1>2. CASE Capture(k)
  BY <1>2 DEF Capture, IInv, TypeOK, GateInv, TargetInv, CancelInv
<1>3. CASE Signal(k)
  BY <1>3 DEF Signal, IInv, TypeOK, GateInv, TargetInv, CancelInv
<1>4. CASE CancelRPC(k)
  BY <1>4 DEF CancelRPC, IInv, TypeOK, GateInv, TargetInv, CancelInv
<1>5. QED BY <1>1, <1>2, <1>3, <1>4 DEF CancelStep

\* The inductive step: one lemma above per process.
LEMMA NextIInv == IInv /\ [Next]_vars => IInv'
<1> SUFFICES ASSUME IInv, [Next]_vars PROVE IInv'
  OBVIOUS
<1> USE DEF IInv, TypeOK, GateInv, TargetInv, CancelInv
<1>1. CASE ShutDown
  BY <1>1 DEF ShutDown
<1>2. ASSUME NEW c \in Conns, ConnStep(c) PROVE IInv'
  BY <1>2, ConnIInv
<1>3. ASSUME NEW c \in Conns, NEW p \in Prompts, Dispatch(p, c) PROVE IInv'
  BY <1>3 DEF Dispatch
<1>4. ASSUME NEW c \in Conns, NEW k \in Cancels, SessionCancel(k, c) \/ SessionClose(k, c)
      PROVE IInv'
  BY <1>4 DEF SessionCancel, SessionClose
<1>5. ASSUME NEW p \in Prompts, HandlerStep(p) \/ StreamStep(p) PROVE IInv'
  BY <1>5, HandlerIInv, StreamIInv
<1>6. ASSUME NEW k \in Callers, CancelStep(k) PROVE IInv'
  BY <1>6, CancelIInv
<1>7. CASE UNCHANGED vars
  BY <1>7 DEF vars
<1>8. QED
  BY <1>1, <1>2, <1>3, <1>4, <1>5, <1>6, <1>7 DEF Next, Quiescent

\* IInv is inductive (internal/serve/turn.go).
THEOREM Invariance == Spec => []IInv
BY InitIInv, NextIInv, PTL DEF Spec

\* TypeOK of every reachable state.
THEOREM TypeCorrect == Spec => []TypeOK
BY Invariance, PTL DEF IInv

\* BeginTurn and EndTurn keep the counter and the active turn in agreement and
\* admit one prompt at a time (turn.go:89-108).
THEOREM OneTurnAtATime == Spec => []GateConsistent
<1>1. IInv => GateConsistent
  <2> SUFFICES ASSUME IInv PROVE GateConsistent
    OBVIOUS
  <2>1. InTurn = {active} \ {NoTurn}
    BY DEF InTurn, IInv, TypeOK, GateInv
  <2>2. CASE active = NoTurn
    <3>1. InTurn = {}
      BY <2>1, <2>2
    <3>2. Cardinality({}) = 0
      BY FS_EmptySet
    <3>3. QED BY <2>1, <2>2, <3>1, <3>2 DEF GateConsistent, IInv, GateInv
  <2>3. CASE active # NoTurn
    <3>1. InTurn = {active}
      BY <2>1, <2>3
    <3>2. Cardinality({active}) = 1
      BY FS_Singleton
    <3>3. QED BY <2>1, <2>3, <3>1, <3>2 DEF GateConsistent, IInv, GateInv
  <2>4. QED BY <2>2, <2>3
<1>2. QED BY <1>1, Invariance, PTL

\* "cancelled" is told only of a turn somebody cancelled, or at shutdown.
THEOREM HonestCancellation == Spec => []CancelledOnlyIfAsked
<1>1. IInv => CancelledOnlyIfAsked
  BY DEF IInv, CancelInv, CancelledOnlyIfAsked
<1>2. QED BY <1>1, Invariance, PTL

\* The busy error is given only while an admitted prompt is unanswered: EndTurn
\* comes before the response (server.go:374-376).
THEOREM BusyIsHonest == Spec => NoSpuriousBusy
<1> DEFINE Step == \A p \in Prompts :
                      outcome'[p] = "busy" /\ outcome[p] # "busy"
                         => \E q \in Prompts : pc[q] \in {"opening", "loop", "emit", "returned"}
<1>1. IInv /\ [Next]_vars => [Step]_vars
  <2> SUFFICES ASSUME IInv, [Next]_vars, NEW p \in Prompts,
                      outcome'[p] = "busy", outcome[p] # "busy"
               PROVE  \E q \in Prompts : pc[q] \in {"opening", "loop", "emit", "returned"}
    OBVIOUS
  <2>1. PICK q \in Prompts : RefuseTurn(q)
    BY DEF IInv, TypeOK, Next, vars, ConnStep, HandlerStep, LoopStep, StreamStep, CancelStep,
           ShutDown, Stall, HangUp, ServeReturns, Dispatch, SessionCancel, SessionClose,
           RejectPrompt, BeginTurn, OpenStream, LoopCtxDone, LoopClosed, LoopEof, LoopError,
           LoopEvent, LoopCancel, LoopGrace, EmitUpdate, EndTurn, Respond, Return, finishStop,
           RecvEvent, RecvEnd, RecvCtxDone, PumpSend, PumpQuit, OwnerCheck, Capture, Signal,
           CancelRPC, Quiescent
  <2>2. active # NoTurn
    BY <2>1 DEF RefuseTurn, GateIsFree, IInv, GateInv
  <2>3. QED BY <2>2 DEF IInv, TypeOK, GateInv
<1>2. QED BY <1>1, Invariance, PTL DEF NoSpuriousBusy, Spec

-----------------------------------------------------------------------------
(* How a turn ends and what its agent did.                                 *)

\* A cancel aimed at another turn has been through CancelTurn.
Stray(p) == \E k \in Callers : at[k] = "done" /\ tgt[k] \notin {p, NoTurn}

\* The pump and the channel tell the truth about the agent, and msgs is closed
\* with the end of the stream still in it, or at shutdown.
StreamInv ==
    \A p \in Prompts :
        /\ pc[p] \in {"idle", "dispatched", "opening"} =>
              pump[p] = "off" /\ chan[p] = "empty" /\ agent[p] = "none"
        /\ pc[p] \notin {"returned", "replying", "answered"} => outcome[p] = "none"
        /\ pc[p] \in {"returned", "replying", "answered"} =>
              agent[p] \notin {"running", "cancelling"}
        /\ "eof" \in {pump[p], chan[p]} => agent[p] \in {"finished", "stopped"}
        /\ "failed" \in {pump[p], chan[p]} => agent[p] = "failed"
        /\ pc[p] \in {"loop", "emit"} /\ pump[p] = "done" =>
              chan[p] \in Ends \/ shutdown
        /\ outcome[p] = "end_turn" => agent[p] \in {"finished", "stopped"} \/ shutdown

\* Whatever reached the agent's turn was aimed at it, and then its cancelCh was
\* closed first, or was aimed at another turn.
StrayInv ==
    /\ \A c \in Conns : at[c] # "idle" => conn[c] = "closed"
    /\ \A k \in Callers : at[k] = "rpc" => tgt[k] \in cancelled
    /\ \A p \in Prompts :
          /\ agent[p] \in {"cancelling", "stopped"} => p \in cancelled \/ Stray(p)
          /\ agent[p] = "stopped" /\ outcome[p] = "turn_failed" => Stray(p)

LEMMA InitEndInv == Init => StreamInv /\ StrayInv
<1> SUFFICES ASSUME Init PROVE StreamInv /\ StrayInv
  OBVIOUS
<1>1. StreamInv
  BY DEF Init, StreamInv
<1>2. StrayInv
  BY DEF Init, StrayInv
<1>3. QED BY <1>1, <1>2

LEMMA ConnEndInv ==
    ASSUME IInv, StreamInv, StrayInv, NEW c \in Conns, ConnStep(c)
    PROVE  (StreamInv /\ StrayInv)'
<1>1. CASE Stall(c)
  BY <1>1 DEF Stall, IInv, TypeOK, StreamInv, StrayInv, Stray
<1>2. CASE HangUp(c)
  BY <1>2 DEF HangUp, IInv, TypeOK, StreamInv, StrayInv, Stray
<1>3. CASE ServeReturns(c)
  BY <1>3 DEF ServeReturns, IInv, TypeOK, StreamInv, StrayInv, Stray
<1>4. QED BY <1>1, <1>2, <1>3 DEF ConnStep

LEMMA HandlerEndInv ==
    ASSUME IInv, StreamInv, StrayInv, NEW p \in Prompts, HandlerStep(p)
    PROVE  (StreamInv /\ StrayInv)'
<1>1. CASE RejectPrompt(p)
  BY <1>1 DEF RejectPrompt, IInv, TypeOK, StreamInv, StrayInv, Stray
<1>2. CASE BeginTurn(p)
  BY <1>2 DEF BeginTurn, GateIsFree, IInv, TypeOK, StreamInv, StrayInv, Stray
<1>3. CASE RefuseTurn(p)
  BY <1>3 DEF RefuseTurn, GateIsFree, IInv, TypeOK, StreamInv, StrayInv, Stray
<1>4. CASE OpenStream(p)
  BY <1>4 DEF OpenStream, Return, IInv, TypeOK, StreamInv, StrayInv, Stray
<1>5. CASE LoopCtxDone(p)
  BY <1>5 DEF LoopCtxDone, Return, IInv, TypeOK, StreamInv, StrayInv, Stray
<1>6. CASE LoopClosed(p)
  BY <1>6 DEF LoopClosed, Return, finishStop, IInv, TypeOK, StreamInv, StrayInv, Stray
<1>7. CASE LoopEof(p)
  BY <1>7 DEF LoopEof, Return, finishStop, IInv, TypeOK, StreamInv, StrayInv, Stray
<1>8. CASE LoopError(p)
  BY <1>8 DEF LoopError, Return, cancelInFlight, IInv, TypeOK, StreamInv, StrayInv, Stray
<1>9. CASE LoopEvent(p)
  BY <1>9 DEF LoopEvent, IInv, TypeOK, StreamInv, StrayInv, Stray
<1>10. CASE LoopCancel(p)
  BY <1>10 DEF LoopCancel, IInv, TypeOK, StreamInv, StrayInv, Stray
<1>11. CASE LoopGrace(p)
  BY <1>11 DEF LoopGrace, Return, IInv, TypeOK, StreamInv, StrayInv, Stray
<1>12. CASE EmitUpdate(p)
  BY <1>12 DEF EmitUpdate, Return, IInv, TypeOK, StreamInv, StrayInv, Stray
<1>13. CASE EndTurn(p)
  BY <1>13 DEF EndTurn, IInv, TypeOK, StreamInv, StrayInv, Stray
<1>14. CASE Respond(p)
  BY <1>14 DEF Respond, IInv, TypeOK, StreamInv, StrayInv, Stray
<1>15. QED BY <1>1, <1>2, <1>3, <1>4, <1>5, <1>6, <1>7, <1>8, <1>9, <1>10, <1>11, <1>12, <1>13, <1>14 DEF HandlerStep, LoopStep

LEMMA StreamEndInv ==
    ASSUME IInv, StreamInv, StrayInv, NEW p \in Prompts, StreamStep(p)
    PROVE  (StreamInv /\ StrayInv)'
<1>1. CASE RecvEvent(p)
  BY <1>1 DEF RecvEvent, IInv, TypeOK, StreamInv, StrayInv, Stray
<1>2. CASE RecvEnd(p)
  <2>1. StreamInv'
    BY <1>2 DEF RecvEnd, IInv, TypeOK, StreamInv
  <2>2. /\ UNCHANGED <<at, tgt, cancelled, conn, outcome, pc>>
        /\ \A q \in Prompts : agent'[q] # agent[q] =>
              q = p /\ pump[p] = "recv" /\ agent[p] \in {"running", "cancelling"}
        /\ agent'[p] \in {"finished", "failed", "stopped"}
        /\ agent'[p] = "stopped" => agent[p] = "cancelling"
    BY <1>2 DEF RecvEnd, IInv, TypeOK
  <2>3. outcome[p] # "turn_failed"
    BY <1>2 DEF RecvEnd, IInv, TypeOK, StreamInv
  <2>4. \A q \in Prompts : Stray(q)' = Stray(q)
    BY <2>2 DEF Stray
  <2>5. StrayInv'
    BY <2>2, <2>3, <2>4 DEF IInv, TypeOK, StrayInv
  <2>6. QED BY <2>1, <2>5
<1>3. CASE RecvCtxDone(p)
  BY <1>3 DEF RecvCtxDone, IInv, TypeOK, StreamInv, StrayInv, Stray
<1>4. CASE PumpSend(p)
  BY <1>4 DEF PumpSend, IInv, TypeOK, StreamInv, StrayInv, Stray
<1>5. CASE PumpQuit(p)
  BY <1>5 DEF PumpQuit, TurnCtxDone, IInv, TypeOK, StreamInv, StrayInv, Stray
<1>6. QED BY <1>1, <1>2, <1>3, <1>4, <1>5 DEF StreamStep

LEMMA CancelEndInv ==
    ASSUME IInv, StreamInv, StrayInv, NEW k \in Callers, CancelStep(k)
    PROVE  (StreamInv /\ StrayInv)'
<1>1. CASE OwnerCheck(k)
  BY <1>1 DEF OwnerCheck, IInv, TypeOK, StreamInv, StrayInv, Stray, TargetInv
<1>2. CASE Capture(k)
  BY <1>2 DEF Capture, IInv, TypeOK, StreamInv, StrayInv, Stray, TargetInv
<1>3. CASE Signal(k)
  BY <1>3 DEF Signal, IInv, TypeOK, StreamInv, StrayInv, Stray, TargetInv
<1>4. CASE CancelRPC(k)
  BY <1>4 DEF CancelRPC, IInv, TypeOK, StreamInv, StrayInv, Stray, TargetInv
<1>5. QED BY <1>1, <1>2, <1>3, <1>4 DEF CancelStep

LEMMA NextEndInv ==
    IInv /\ StreamInv /\ StrayInv /\ [Next]_vars => (StreamInv /\ StrayInv)'
<1> SUFFICES ASSUME IInv, StreamInv, StrayInv, [Next]_vars
             PROVE  (StreamInv /\ StrayInv)'
  OBVIOUS
<1>1. CASE ShutDown
  BY <1>1 DEF ShutDown, StreamInv, StrayInv, Stray
<1>2. ASSUME NEW c \in Conns, ConnStep(c) PROVE (StreamInv /\ StrayInv)'
  BY <1>2, ConnEndInv
<1>3. ASSUME NEW c \in Conns, NEW p \in Prompts, Dispatch(p, c)
      PROVE  (StreamInv /\ StrayInv)'
  BY <1>3 DEF Dispatch, IInv, TypeOK, StreamInv, StrayInv, Stray
<1>4. ASSUME NEW c \in Conns, NEW k \in Cancels, SessionCancel(k, c) \/ SessionClose(k, c)
      PROVE  (StreamInv /\ StrayInv)'
  BY <1>4 DEF SessionCancel, SessionClose, IInv, TypeOK, StreamInv, StrayInv, Stray
<1>5. ASSUME NEW p \in Prompts, HandlerStep(p) \/ StreamStep(p)
      PROVE  (StreamInv /\ StrayInv)'
  BY <1>5, HandlerEndInv, StreamEndInv
<1>6. ASSUME NEW k \in Callers, CancelStep(k) PROVE (StreamInv /\ StrayInv)'
  BY <1>6, CancelEndInv
<1>7. CASE UNCHANGED vars
  BY <1>7 DEF vars, StreamInv, StrayInv, Stray
<1>8. QED
  BY <1>1, <1>2, <1>3, <1>4, <1>5, <1>6, <1>7 DEF Next, Quiescent

LEMMA EndInvariance == Spec => [](StreamInv /\ StrayInv)
BY InitEndInv, NextEndInv, Invariance, PTL DEF Spec

\* "end_turn" is told only of a stream the agent ended, except at shutdown.
THEOREM EndTurnTheorem == Spec => []EndTurnIsReal
<1>1. StreamInv => EndTurnIsReal
  BY DEF StreamInv, EndTurnIsReal
<1>2. QED BY <1>1, EndInvariance, PTL

\* A cancel that reached its own turn never makes the turn a failure
\* (turn.go:129-130 close cancelCh before CancelTurn, turn.go:216-222 probe it).
THEOREM OwnCancelTheorem == Spec => []OwnCancelIsNotAFailure
<1>1. StrayInv => OwnCancelIsNotAFailure
  BY DEF StrayInv, Stray, OwnCancelIsNotAFailure
<1>2. QED BY <1>1, EndInvariance, PTL

-----------------------------------------------------------------------------
(* Refinement.                                                             *)

LEMMA GateUnchanged ==
    ASSUME UNCHANGED <<active, cancelled, shutdown>>,
           \A q \in Prompts : phaseOf(q)' = phaseOf(q) /\ verdictOf(q)' = verdictOf(q)
    PROVE  UNCHANGED Gate!gateVars
BY DEF Gate!gateVars

LEMMA GateInitMaps == Init => Gate!GateInit
BY DEF Init, Gate!GateInit, phaseOf, verdictOf

\* A step that moves one prompt changes the gate's view at that prompt only.
LEMMA PhaseChange ==
    ASSUME NEW p \in Prompts, NEW x,
           \A q \in Prompts : q # p => phaseOf(q)' = phaseOf(q),
           phaseOf(p)' = x
    PROVE  [q \in Prompts |-> phaseOf(q)]' = [[q \in Prompts |-> phaseOf(q)] EXCEPT ![p] = x]
OBVIOUS

LEMMA VerdictChange ==
    ASSUME NEW p \in Prompts, NEW x,
           \A q \in Prompts : q # p => verdictOf(q)' = verdictOf(q),
           verdictOf(p)' = x
    PROVE  [q \in Prompts |-> verdictOf(q)]'
              = [[q \in Prompts |-> verdictOf(q)] EXCEPT ![p] = x]
OBVIOUS

\* Admission, refusal, release and reply are the gate's own steps.
LEMMA GateActionsMap ==
    ASSUME IInv, NEW p \in Prompts,
           RejectPrompt(p) \/ BeginTurn(p) \/ RefuseTurn(p) \/ EndTurn(p) \/ Respond(p)
    PROVE  Gate!GateNext
<1>1. \A q \in Prompts : q # p => phaseOf(q)' = phaseOf(q) /\ verdictOf(q)' = verdictOf(q)
  BY DEF RejectPrompt, BeginTurn, RefuseTurn, EndTurn, Respond, IInv, TypeOK, phaseOf, verdictOf
<1>2. CASE RejectPrompt(p) \/ RefuseTurn(p)
  <2>1. phaseOf(p) = "new" /\ phaseOf(p)' = "settled"
    BY <1>2 DEF RejectPrompt, RefuseTurn, IInv, TypeOK, phaseOf
  <2>2. \/ verdictOf(p)' = "invalid"
        \/ active # NoTurn /\ verdictOf(p)' = "busy"
    BY <1>2 DEF RejectPrompt, RefuseTurn, GateIsFree, IInv, TypeOK, GateInv, verdictOf
  <2>3. UNCHANGED <<active, cancelled, shutdown>>
    BY <1>2 DEF RejectPrompt, RefuseTurn
  <2>4. Gate!Refuse(p)
    BY <1>1, <2>1, <2>2, <2>3, PhaseChange, VerdictChange DEF Gate!Refuse
  <2>5. QED BY <2>4 DEF Gate!GateNext
<1>3. CASE BeginTurn(p)
  <2>1. phaseOf(p) = "new" /\ phaseOf(p)' = "running" /\ verdictOf(p)' = verdictOf(p)
    BY <1>3 DEF BeginTurn, IInv, TypeOK, phaseOf, verdictOf
  <2>2. active = NoTurn /\ active' = p /\ UNCHANGED <<cancelled, shutdown>>
    BY <1>3 DEF BeginTurn, GateIsFree, IInv, GateInv
  <2>3. Gate!Take(p)
    BY <1>1, <2>1, <2>2, PhaseChange DEF Gate!Take
  <2>4. QED BY <2>3 DEF Gate!GateNext
<1>4. CASE EndTurn(p)
  <2>1. phaseOf(p) = "running" /\ phaseOf(p)' = "settled"
    BY <1>4 DEF EndTurn, IInv, TypeOK, phaseOf
  <2>2. PICK v \in {"end_turn", "cancelled", "failed"} :
           verdictOf(p)' = v /\ (v = "cancelled" => p \in cancelled \/ shutdown)
    BY <1>4 DEF EndTurn, IInv, TypeOK, CancelInv, verdictOf
  <2>3. active = p /\ active' = NoTurn /\ UNCHANGED <<cancelled, shutdown>>
    BY <1>4 DEF EndTurn, IInv, GateInv
  <2>4. Gate!Settle(p)
    BY <1>1, <2>1, <2>2, <2>3, PhaseChange, VerdictChange DEF Gate!Settle
  <2>5. QED BY <2>4 DEF Gate!GateNext
<1>5. CASE Respond(p)
  <2>1. phaseOf(p) = "settled" /\ phaseOf(p)' = "answered"
    BY <1>5 DEF Respond, IInv, TypeOK, phaseOf
  <2>2. \/ verdictOf(p)' = verdictOf(p)
        \/ shutdown /\ verdictOf(p) = "failed" /\ verdictOf(p)' = "cancelled"
    BY <1>5 DEF Respond, IInv, TypeOK, verdictOf
  <2>3. UNCHANGED <<active, cancelled, shutdown>>
    BY <1>5 DEF Respond
  <2>4. Gate!Answer(p)
    BY <1>1, <2>1, <2>2, <2>3, PhaseChange, VerdictChange DEF Gate!Answer
  <2>5. QED BY <2>4 DEF Gate!GateNext
<1>6. QED BY <1>2, <1>3, <1>4, <1>5

\* Inside a turn a handler changes nothing the gate shows.
LEMMA TurnIsSilent ==
    ASSUME IInv, NEW p \in Prompts,
           OpenStream(p) \/ LoopStep(p) \/ EmitUpdate(p)
    PROVE  UNCHANGED Gate!gateVars
<1>1. UNCHANGED <<active, cancelled, shutdown>>
  BY DEF LoopStep, OpenStream, LoopCtxDone, LoopClosed, LoopEof, LoopError, LoopEvent,
         LoopCancel, LoopGrace, EmitUpdate, Return
<1>2. /\ pc[p] \in {"opening", "loop", "emit"}
      /\ \E l \in {"loop", "emit", "returned"} : pc' = [pc EXCEPT ![p] = l]
  BY DEF IInv, TypeOK, LoopStep, OpenStream, LoopCtxDone, LoopClosed, LoopEof, LoopError,
         LoopEvent, LoopCancel, LoopGrace, EmitUpdate, Return
<1>3. \A q \in Prompts : q # p => outcome'[q] = outcome[q]
  BY DEF IInv, TypeOK, LoopStep, OpenStream, LoopCtxDone, LoopClosed, LoopEof, LoopError,
         LoopEvent, LoopCancel, LoopGrace, EmitUpdate, Return
<1>4. \A q \in Prompts : phaseOf(q)' = phaseOf(q) /\ verdictOf(q)' = verdictOf(q)
  BY <1>2, <1>3 DEF IInv, TypeOK, phaseOf, verdictOf
<1>5. QED BY <1>1, <1>4, GateUnchanged

LEMMA StepMaps == IInv /\ [Next]_vars => [Gate!GateNext]_(Gate!gateVars)
<1> SUFFICES ASSUME IInv, [Next]_vars
             PROVE  Gate!GateNext \/ UNCHANGED Gate!gateVars
  OBVIOUS
<1> USE DEF phaseOf, verdictOf
<1>1. CASE ShutDown
  <2>1. Gate!GoDown
    BY <1>1 DEF ShutDown, Gate!GoDown
  <2>2. QED BY <2>1 DEF Gate!GateNext
<1>2. ASSUME NEW c \in Conns, ConnStep(c) PROVE UNCHANGED Gate!gateVars
  BY <1>2, GateUnchanged DEF ConnStep, Stall, HangUp, ServeReturns
<1>3. ASSUME NEW c \in Conns, NEW p \in Prompts, Dispatch(p, c)
      PROVE  UNCHANGED Gate!gateVars
  BY <1>3, GateUnchanged DEF Dispatch, IInv, TypeOK
<1>4. ASSUME NEW c \in Conns, NEW k \in Cancels, SessionCancel(k, c) \/ SessionClose(k, c)
      PROVE  UNCHANGED Gate!gateVars
  BY <1>4, GateUnchanged DEF SessionCancel, SessionClose
<1>5. ASSUME NEW p \in Prompts, HandlerStep(p)
      PROVE  Gate!GateNext \/ UNCHANGED Gate!gateVars
  BY <1>5, GateActionsMap, TurnIsSilent DEF HandlerStep
<1>6. ASSUME NEW p \in Prompts, StreamStep(p) PROVE UNCHANGED Gate!gateVars
  BY <1>6, GateUnchanged DEF StreamStep, RecvEvent, RecvEnd, RecvCtxDone, PumpSend, PumpQuit
<1>7. ASSUME NEW k \in Callers, Signal(k) PROVE Gate!GateNext
  <2>1. Gate!Ask(tgt[k])
    BY <1>7 DEF Signal, IInv, TypeOK, TargetInv, Gate!Ask
  <2>2. tgt[k] \in Prompts
    BY <1>7 DEF Signal, IInv, TargetInv
  <2>3. QED BY <2>1, <2>2 DEF Gate!GateNext
<1>8. ASSUME NEW k \in Callers, OwnerCheck(k) \/ Capture(k) \/ CancelRPC(k)
      PROVE  UNCHANGED Gate!gateVars
  BY <1>8, GateUnchanged DEF OwnerCheck, Capture, CancelRPC
<1>9. CASE UNCHANGED vars
  BY <1>9, GateUnchanged DEF vars
<1>10. QED
  BY <1>1, <1>2, <1>3, <1>4, <1>5, <1>6, <1>7, <1>8, <1>9 DEF Next, CancelStep, Quiescent

\* Serve mode implements the gate (TurnGate.tla).
THEOREM Refinement == Spec => ImplementsGate
BY Invariance, InitIInv, GateInitMaps, StepMaps, PTL DEF Spec, ImplementsGate, Gate!GateSpec
=============================================================================
