--------------------------- MODULE AcpTurnProofs ---------------------------
(***************************************************************************)
(* Proofs about AcpTurn, for any number of turns and messages and whatever *)
(* the harness does.                                                       *)
(***************************************************************************)
EXTENDS AcpTurn, TLAPS, FiniteSetTheorems

\* The counter is 1 exactly while one turn is between beginTurn and endTurn, and
\* an active turn is one whose Prompt has not returned.
SlotInv ==
    /\ \A t, u \in InTurn : t = u
    /\ turnsInFlight = IF InTurn = {} THEN 0 ELSE 1
    /\ activeTurn # NoTurn =>
          /\ pc[activeTurn] \in {"register", "write", "wait", "unwind", "deliver", "clear"}
          /\ kind[activeTurn] = "prompt"
    /\ \A t \in Turns : pc[t] \in {"activate", "unwind", "deliver", "clear"} => kind[t] = "prompt"

\* A handler that has left the select has a result, and a canceled one a caller
\* that has gone.
ResultInv ==
    \A t \in Turns :
        /\ pc[t] \in {"unwind", "deliver", "clear", "report", "check", "end"}
              => ret[t] \in {"ok", "canceled", "died", "failed"}
        /\ pc[t] \in {"idle", "activate", "register", "write", "wait"} => ret[t] = "none"
        /\ ret[t] = "canceled" => t \in ctxDone

IInv == TypeOK /\ SlotInv /\ ResultInv

USE AcpAssumption DEF AcpAssumption
USE DEF handlerVars, bufVars, waitVars, readerVars, harnessVars, Goto, Result

-----------------------------------------------------------------------------
(* Types.                                                                  *)

LEMMA MsgType ==
    ASSUME NEW k \in Notes \union {"report", "result", "error", "eof"},
           NEW t \in Turns \union {NoTurn}, NEW n \in Nat
    PROVE  Msg(k, t, n) \in Messages
BY DEF Msg, Messages

LEMMA InitIInv == Init => IInv
<1> SUFFICES ASSUME Init PROVE IInv
  OBVIOUS
<1>1. Eof \in Messages
  BY MsgType DEF Eof
<1>2. TypeOK
  <2>1. ctxDone \in SUBSET Turns /\ HandlerTypes /\ WaitTypes
    BY DEF Init, HandlerTypes, WaitTypes
  <2>2. BufTypes /\ PipeTypes
    BY DEF Init, BufTypes, PipeTypes
  <2>3. ReaderTypes
    BY <1>1 DEF Init, ReaderTypes, Idle
  <2>4. HarnessTypes
    BY DEF Init, HarnessTypes
  <2>5. QED BY <2>1, <2>2, <2>3, <2>4 DEF TypeOK
<1>3. InTurn = {}
  BY DEF Init, InTurn
<1>4. SlotInv
  BY <1>3 DEF Init, SlotInv
<1>5. ResultInv
  BY DEF Init, ResultInv
<1>6. QED BY <1>2, <1>4, <1>5 DEF IInv

\* Variables that do not change keep their types.
LEMMA KeepTypes ==
    ASSUME TypeOK
    PROVE  /\ UNCHANGED ctxDone => (ctxDone \in SUBSET Turns)'
           /\ UNCHANGED <<turnsInFlight, kind, pc, ret>> => HandlerTypes'
           /\ UNCHANGED <<activeTurn, closed, buf, held, out>> => BufTypes'
           /\ UNCHANGED <<pending, respCh, doneCh>> => WaitTypes'
           /\ UNCHANGED <<rd, rdText>> => ReaderTypes'
           /\ UNCHANGED <<stdin, stdout>> => PipeTypes'
           /\ UNCHANGED <<cur, stopping, asking, sent, answered, dead>> => HarnessTypes'
BY DEF TypeOK, HandlerTypes, BufTypes, WaitTypes, ReaderTypes, PipeTypes, HarnessTypes

LEMMA HandlerType ==
    ASSUME TypeOK, SlotInv, NEW t \in Turns, HandlerStep(t)
    PROVE  TypeOK'
<1> USE KeepTypes DEF TypeOK
<1>1. CASE BeginTurn(t)
  BY <1>1 DEF BeginTurn, HandlerTypes
<1>2. CASE RefuseTurn(t)
  BY <1>2 DEF RefuseTurn, HandlerTypes
<1>3. CASE ActivateTurn(t)
  BY <1>3 DEF ActivateTurn, HandlerTypes, BufTypes
<1>4. CASE Register(t)
  BY <1>4 DEF Register, HandlerTypes, WaitTypes
<1>5. CASE WriteRequest(t)
  <2>1. [k |-> kind[t], t |-> t] \in Lines
    BY DEF Lines, HandlerTypes
  <2>2. PipeTypes'
    BY <1>5, <2>1 DEF WriteRequest, PipeTypes
  <2>3. HandlerTypes' /\ WaitTypes'
    BY <1>5 DEF WriteRequest, RequestOver, HandlerTypes, WaitTypes
  <2>4. QED BY <1>5, <2>2, <2>3 DEF WriteRequest
<1>6. CASE WaitCtxDone(t)
  BY <1>6 DEF WaitCtxDone, RequestOver, HandlerTypes, WaitTypes
<1>7. CASE WaitHarnessDied(t)
  BY <1>7 DEF WaitHarnessDied, RequestOver, HandlerTypes
<1>8. CASE WaitAnswered(t)
  BY <1>8 DEF WaitAnswered, RequestOver, HandlerTypes, WaitTypes
<1>9. CASE CloseTurn(t)
  BY <1>9 DEF CloseTurn, HandlerTypes, BufTypes
<1>10. CASE DeliverFinal(t)
  <2>1. out[t] \o held[t] \in Seq(Messages)
    BY DEF BufTypes
  <2>2. BufTypes'
    BY <1>10, <2>1 DEF DeliverFinal, BufTypes
  <2>3. HandlerTypes'
    BY <1>10 DEF DeliverFinal, HandlerTypes
  <2>4. QED BY <1>10, <2>2, <2>3 DEF DeliverFinal
<1>11. CASE ClearActive(t)
  BY <1>11 DEF ClearActive, HandlerTypes, BufTypes
<1>12. CASE SendReport(t)
  <2>1. Append(out[t], Msg("report", t, 0)) \in Seq(Messages)
    BY MsgType DEF BufTypes
  <2>2. BufTypes'
    BY <1>12, <2>1 DEF SendReport, BufTypes
  <2>3. HandlerTypes'
    BY <1>12 DEF SendReport, HandlerTypes
  <2>4. QED BY <1>12, <2>2, <2>3 DEF SendReport
<1>13. CASE CancelIfDone(t)
  <2>1. [k |-> "cancel", t |-> t] \in Lines
    BY DEF Lines
  <2>2. PipeTypes'
    BY <1>13, <2>1 DEF CancelIfDone, PipeTypes
  <2>3. QED BY <1>13, <2>2 DEF CancelIfDone, HandlerTypes
<1>14. CASE EndTurn(t)
  <2>1. turnsInFlight = 1
    BY <1>14 DEF EndTurn, SlotInv, InTurn
  <2>2. QED BY <1>14, <2>1 DEF EndTurn, HandlerTypes
<1>15. QED
  BY <1>1, <1>2, <1>3, <1>4, <1>5, <1>6, <1>7, <1>8, <1>9, <1>10, <1>11, <1>12, <1>13,
     <1>14 DEF HandlerStep

LEMMA ReaderType ==
    ASSUME TypeOK, ReaderStep
    PROVE  TypeOK'
<1> USE KeepTypes DEF TypeOK, ReadOn, Read
<1>1. Idle \in [at : {"read"}, item : Messages, ref : Turns \union {NoTurn}]
  BY MsgType DEF Idle, Eof
<1>2. stdout # <<>> => Head(stdout) \in Messages /\ Tail(stdout) \in Seq(Messages)
  BY DEF PipeTypes
<1>3. rd.item \in Messages /\ rd.ref \in Turns \union {NoTurn}
  BY DEF ReaderTypes
<1>4. CASE HandleResponse
  <2>1. WaitTypes'
    BY <1>2, <1>4 DEF HandleResponse, WaitTypes, Messages
  <2>2. QED BY <1>2, <1>4, <2>1 DEF HandleResponse, PipeTypes
<1>5. CASE ReadUpdate
  <2>1. ReaderTypes'
    BY <1>1, <1>2, <1>5 DEF ReadUpdate, Boundary, ReaderTypes, BufTypes
  <2>2. QED BY <1>2, <1>5, <2>1 DEF ReadUpdate, PipeTypes
<1>6. CASE AppendText
  <2>1. ReaderTypes'
    BY <1>1, <1>6 DEF AppendText, ReaderTypes
  <2>2. BufTypes'
    BY <1>3, <1>6 DEF AppendText, BufTypes
  <2>3. QED BY <1>6, <2>1, <2>2 DEF AppendText
<1>7. CASE FlushTake
  <2>1. ReaderTypes'
    BY <1>3, <1>7 DEF FlushTake, AfterFlush, ReaderTypes, BufTypes
  <2>2. BufTypes'
    BY <1>3, <1>7 DEF FlushTake, BufTypes
  <2>3. QED BY <1>7, <2>1, <2>2 DEF FlushTake
<1>8. CASE FlushDeliver
  <2>1. ReaderTypes'
    BY <1>3, <1>8 DEF FlushDeliver, AfterFlush, ReaderTypes
  <2>2. BufTypes'
    BY <1>8 DEF FlushDeliver, ReaderTypes, BufTypes
  <2>3. QED BY <1>8, <2>1, <2>2 DEF FlushDeliver
<1>9. CASE PermissionReply
  <2>1. [k |-> "reply", t |-> NoTurn] \in Lines
    BY DEF Lines
  <2>2. ReaderTypes' /\ PipeTypes'
    BY <1>3, <1>9, <2>1 DEF PermissionReply, ReaderTypes, PipeTypes
  <2>3. QED BY <1>9, <2>2 DEF PermissionReply
<1>10. CASE PermissionRefetch
  <2>1. ReaderTypes'
    BY <1>1, <1>3, <1>10 DEF PermissionRefetch, ReaderTypes, BufTypes
  <2>2. QED BY <1>10, <2>1 DEF PermissionRefetch
<1>11. CASE Callback
  <2>1. ReaderTypes'
    BY <1>1, <1>11 DEF Callback, ReaderTypes
  <2>2. BufTypes'
    BY <1>3, <1>11 DEF Callback, BufTypes
  <2>3. QED BY <1>11, <2>1, <2>2 DEF Callback
<1>12. CASE ReadEof
  <2>1. ReaderTypes'
    BY <1>12, MsgType DEF ReadEof, ReaderTypes, Eof
  <2>2. WaitTypes'
    BY <1>12 DEF ReadEof, WaitTypes
  <2>3. QED BY <1>2, <1>12, <2>1, <2>2 DEF ReadEof, PipeTypes
<1>13. CASE CloseDone
  <2>1. ReaderTypes'
    BY <1>13, MsgType DEF CloseDone, ReaderTypes, Eof
  <2>2. QED BY <1>13, <2>1 DEF CloseDone, WaitTypes
<1>14. QED
  BY <1>4, <1>5, <1>6, <1>7, <1>8, <1>9, <1>10, <1>11, <1>12, <1>13 DEF ReaderStep

LEMMA HarnessType ==
    ASSUME TypeOK, HarnessStep
    PROVE  TypeOK'
<1> USE KeepTypes DEF TypeOK, clientVars
<1>1. stdin # <<>> => Head(stdin) \in Lines /\ Tail(stdin) \in Seq(Lines)
  BY DEF PipeTypes
<1>2. ASSUME NEW m \in Messages, Writes(m) PROVE stdout' \in Seq(Messages)
  BY <1>2 DEF Writes, PipeTypes
<1>3. CASE HarnessPrompt
  <2>1. Head(stdin).t \in Turns /\ Tail(stdin) \in Seq(Lines)
    BY <1>1, <1>3 DEF HarnessPrompt, Reads, Lines
  <2>2. Msg("error", Head(stdin).t, 0) \in Messages
    BY <2>1, MsgType
  <2>3. PipeTypes'
    BY <1>2, <1>3, <2>1, <2>2 DEF HarnessPrompt, Reads, PipeTypes
  <2>4. HarnessTypes'
    BY <1>3, <2>1 DEF HarnessPrompt, HarnessTypes
  <2>5. QED BY <1>3, <2>3, <2>4 DEF HarnessPrompt
<1>4. CASE HarnessModel
  <2>1. Head(stdin).t \in Turns /\ Tail(stdin) \in Seq(Lines)
    BY <1>1, <1>4 DEF HarnessModel, Reads, Lines
  <2>2. \A k \in {"result", "error"} : Msg(k, Head(stdin).t, 0) \in Messages
    BY <2>1, MsgType
  <2>3. PipeTypes'
    BY <1>2, <1>4, <2>1, <2>2 DEF HarnessModel, Reads, PipeTypes
  <2>4. QED BY <1>4, <2>3 DEF HarnessModel
<1>5. CASE HarnessCancel
  <2>1. PipeTypes'
    BY <1>1, <1>5 DEF HarnessCancel, Reads, PipeTypes
  <2>2. HarnessTypes'
    BY <1>5 DEF HarnessCancel, HarnessTypes
  <2>3. QED BY <1>5, <2>1, <2>2 DEF HarnessCancel
<1>6. CASE HarnessReply
  <2>1. PipeTypes'
    BY <1>1, <1>6 DEF HarnessReply, Reads, PipeTypes
  <2>2. HarnessTypes'
    BY <1>6 DEF HarnessReply, HarnessTypes
  <2>3. QED BY <1>6, <2>1, <2>2 DEF HarnessReply
<1>7. ASSUME NEW t \in Turns, HarnessNotify(t) PROVE TypeOK'
  <2>1. sent' \in [Turns -> Nat]
    BY <1>7 DEF HarnessNotify, HarnessTypes
  <2>2. \A k \in Notes : Msg(k, t, sent'[t]) \in Messages
    BY <2>1, MsgType
  <2>3. PipeTypes'
    BY <1>2, <1>7, <2>2 DEF HarnessNotify, PipeTypes
  <2>4. HarnessTypes'
    BY <1>7, <2>1 DEF HarnessNotify, HarnessTypes
  <2>5. QED BY <1>7, <2>3, <2>4 DEF HarnessNotify
<1>8. CASE HarnessAnswer
  <2>1. cur \in Turns
    BY <1>8 DEF HarnessAnswer, HarnessTypes
  <2>2. \A k \in {"result", "error"} : Msg(k, cur, 0) \in Messages
    BY <2>1, MsgType
  <2>3. PipeTypes'
    BY <1>2, <1>8, <2>2 DEF HarnessAnswer, PipeTypes
  <2>4. HarnessTypes'
    BY <1>8, <2>1 DEF HarnessAnswer, HarnessTypes
  <2>5. QED BY <1>8, <2>3, <2>4 DEF HarnessAnswer
<1>9. CASE HarnessExit
  <2>1. Eof \in Messages
    BY MsgType DEF Eof
  <2>2. PipeTypes'
    BY <1>2, <1>9, <2>1 DEF HarnessExit, PipeTypes
  <2>3. HarnessTypes'
    BY <1>9 DEF HarnessExit, HarnessTypes
  <2>4. QED BY <1>9, <2>2, <2>3 DEF HarnessExit
<1>10. QED
  BY <1>3, <1>4, <1>5, <1>6, <1>7, <1>8, <1>9 DEF HarnessStep, HarnessReads

-----------------------------------------------------------------------------
(* The slot, and what handlers know.                                       *)

LEMMA HandlerInv ==
    ASSUME IInv, NEW t \in Turns, HandlerStep(t)
    PROVE  (SlotInv /\ ResultInv)'
<1> USE DEF IInv, TypeOK, HandlerTypes, BufTypes
<1>1. CASE BeginTurn(t)
  <2>1. InTurn = {} /\ InTurn' = {t}
    BY <1>1 DEF BeginTurn, SlotFree, SlotInv, InTurn
  <2>2. activeTurn = NoTurn
    BY <2>1 DEF SlotInv, InTurn
  <2>3. SlotInv'
    BY <1>1, <2>1, <2>2 DEF BeginTurn, SlotInv
  <2>4. ResultInv'
    BY <1>1 DEF BeginTurn, ResultInv
  <2>5. QED BY <2>3, <2>4
<1>2. CASE RefuseTurn(t)
  <2>1. InTurn' = InTurn
    BY <1>2 DEF RefuseTurn, InTurn
  <2>2. SlotInv'
    BY <1>2, <2>1 DEF RefuseTurn, SlotInv
  <2>3. ResultInv'
    BY <1>2 DEF RefuseTurn, ResultInv
  <2>4. QED BY <2>2, <2>3
<1>3. ASSUME pc[t] \notin {"idle", "returned"}
      PROVE  InTurn = {t}
  BY <1>3 DEF SlotInv, InTurn
<1>4. CASE ActivateTurn(t)
  <2>1. InTurn' = InTurn
    BY <1>4 DEF ActivateTurn, InTurn
  <2>2. ResultInv'
    BY <1>4 DEF ActivateTurn, ResultInv
  <2>3. kind[t] = "prompt"
    BY <1>4 DEF ActivateTurn, SlotInv
  <2>4. SlotInv'
    BY <1>4, <2>1, <2>3 DEF ActivateTurn, SlotInv
  <2>5. QED BY <2>2, <2>4
<1>5. CASE Register(t)
  <2>1. InTurn' = InTurn
    BY <1>5 DEF Register, InTurn
  <2>2. QED BY <1>5, <2>1 DEF Register, SlotInv, ResultInv
<1>6. CASE WriteRequest(t)
  <2>1. InTurn' = InTurn
    BY <1>6 DEF WriteRequest, RequestOver, InTurn
  <2>2. QED BY <1>6, <2>1 DEF WriteRequest, RequestOver, SlotInv, ResultInv
<1>7. CASE WaitCtxDone(t)
  <2>1. InTurn' = InTurn
    BY <1>7 DEF WaitCtxDone, RequestOver, InTurn
  <2>2. QED BY <1>7, <2>1 DEF WaitCtxDone, RequestOver, SlotInv, ResultInv
<1>8. CASE WaitHarnessDied(t)
  <2>1. InTurn' = InTurn
    BY <1>8 DEF WaitHarnessDied, RequestOver, InTurn
  <2>2. QED BY <1>8, <2>1 DEF WaitHarnessDied, RequestOver, SlotInv, ResultInv
<1>9. CASE WaitAnswered(t)
  <2>1. InTurn' = InTurn
    BY <1>9 DEF WaitAnswered, RequestOver, InTurn
  <2>2. QED BY <1>9, <2>1 DEF WaitAnswered, RequestOver, SlotInv, ResultInv
<1>10. CASE CloseTurn(t)
  <2>1. InTurn' = InTurn
    BY <1>10 DEF CloseTurn, InTurn
  <2>2. QED BY <1>10, <2>1 DEF CloseTurn, SlotInv, ResultInv
<1>11. CASE DeliverFinal(t)
  <2>1. InTurn' = InTurn
    BY <1>11 DEF DeliverFinal, InTurn
  <2>2. SlotInv'
    BY <1>11, <2>1 DEF DeliverFinal, SlotInv
  <2>3. ResultInv'
    BY <1>11 DEF DeliverFinal, ResultInv
  <2>4. QED BY <2>2, <2>3
<1>12. CASE ClearActive(t)
  <2>1. InTurn' = InTurn
    BY <1>12 DEF ClearActive, InTurn
  <2>2. QED BY <1>12, <2>1 DEF ClearActive, SlotInv, ResultInv
<1>13. CASE SendReport(t)
  <2>1. InTurn' = InTurn
    BY <1>13 DEF SendReport, InTurn
  <2>2. SlotInv'
    BY <1>13, <2>1 DEF SendReport, SlotInv
  <2>3. ResultInv'
    BY <1>13 DEF SendReport, ResultInv
  <2>4. QED BY <2>2, <2>3
<1>14. CASE CancelIfDone(t)
  <2>1. InTurn' = InTurn
    BY <1>14 DEF CancelIfDone, InTurn
  <2>2. QED BY <1>14, <2>1 DEF CancelIfDone, SlotInv, ResultInv
<1>15. CASE EndTurn(t)
  <2>1. InTurn = {t} /\ InTurn' = {}
    BY <1>3, <1>15 DEF EndTurn, InTurn
  <2>2. activeTurn = NoTurn
    BY <1>15, <2>1 DEF EndTurn, SlotInv, InTurn
  <2>3. SlotInv'
    BY <1>15, <2>1, <2>2 DEF EndTurn, SlotInv
  <2>4. ResultInv'
    BY <1>15 DEF EndTurn, ResultInv
  <2>5. QED BY <2>3, <2>4
<1>16. QED
  BY <1>1, <1>2, <1>4, <1>5, <1>6, <1>7, <1>8, <1>9, <1>10, <1>11, <1>12, <1>13, <1>14,
     <1>15 DEF HandlerStep

LEMMA OtherInv ==
    ASSUME IInv, ReaderStep \/ HarnessStep \/ (\E t \in Turns : CallerGone(t)) \/ UNCHANGED vars
    PROVE  (SlotInv /\ ResultInv)'
<1>1. UNCHANGED <<turnsInFlight, kind, pc, ret, activeTurn>> /\ ctxDone \subseteq ctxDone'
  BY DEF ReaderStep, HandleResponse, ReadUpdate, AppendText, FlushTake, FlushDeliver,
         PermissionReply, PermissionRefetch, Callback, ReadEof, CloseDone,
         HarnessStep, HarnessReads, HarnessPrompt, HarnessModel, HarnessCancel, HarnessReply,
         HarnessNotify, HarnessAnswer, HarnessExit, clientVars, CallerGone, vars
<1>2. InTurn' = InTurn
  BY <1>1 DEF InTurn
<1>3. QED BY <1>1, <1>2 DEF IInv, SlotInv, ResultInv

LEMMA NextIInv == IInv /\ [Next]_vars => IInv'
<1> SUFFICES ASSUME IInv, [Next]_vars PROVE IInv'
  OBVIOUS
<1> USE DEF IInv
<1>1. ASSUME NEW t \in Turns, HandlerStep(t) PROVE IInv'
  BY <1>1, HandlerType, HandlerInv
<1>2. ASSUME NEW t \in Turns, CallerGone(t) PROVE IInv'
  BY <1>2, OtherInv, KeepTypes DEF CallerGone, TypeOK
<1>3. CASE ReaderStep
  BY <1>3, ReaderType, OtherInv
<1>4. CASE HarnessStep
  BY <1>4, HarnessType, OtherInv
<1>5. CASE UNCHANGED vars
  BY <1>5, OtherInv, KeepTypes DEF vars, TypeOK
<1>6. QED BY <1>1, <1>2, <1>3, <1>4, <1>5 DEF Next, Quiescent

LEMMA Invariance == Spec => []IInv
BY InitIInv, NextIInv, PTL DEF Spec

\* Every variable keeps its type.
THEOREM TypeCorrect == Spec => []TypeOK
<1>1. IInv => TypeOK
  BY DEF IInv
<1>2. QED BY <1>1, Invariance, PTL

\* One turn at a time, and the client's active turn is the server's: the client's
\* unconditional assignments to activeTurn never hit another turn
\* (d112/server.go:38-43, acp/client.go:871-880).
THEOREM OneTurnAtATime == Spec => []SlotConsistent
<1>1. ASSUME IInv PROVE SlotConsistent
  <2>1. InTurn = {} \/ \E t \in Turns : InTurn = {t}
    BY <1>1 DEF IInv, SlotInv, InTurn
  <2>2. Cardinality(InTurn) = turnsInFlight /\ turnsInFlight \in {0, 1}
    BY <1>1, <2>1, FS_EmptySet, FS_Singleton DEF IInv, SlotInv
  <2>3. activeTurn # NoTurn => activeTurn \in InTurn
    BY <1>1 DEF IInv, TypeOK, BufTypes, SlotInv, InTurn
  <2>4. QED BY <2>2, <2>3 DEF SlotConsistent
<1>2. QED BY <1>1, Invariance, PTL

-----------------------------------------------------------------------------
(* Refinement of the gate.                                                 *)

LEMMA GateInitMaps == Init => Gate!GateInit
BY DEF Init, Gate!GateInit, phaseOf, verdictOf, slotHolder, InTurn

LEMMA GateUnchanged ==
    ASSUME UNCHANGED <<ctxDone, InTurn>>,
           \A u \in Turns : phaseOf(u)' = phaseOf(u) /\ verdictOf(u)' = verdictOf(u)
    PROVE  UNCHANGED Gate!gateVars
BY DEF Gate!gateVars, slotHolder

\* A step that moves one turn changes the gate's view at that turn only.
LEMMA PhaseChange ==
    ASSUME NEW t \in Turns, NEW x,
           \A u \in Turns : u # t => phaseOf(u)' = phaseOf(u),
           phaseOf(t)' = x
    PROVE  [u \in Turns |-> phaseOf(u)]' = [[u \in Turns |-> phaseOf(u)] EXCEPT ![t] = x]
OBVIOUS

LEMMA VerdictChange ==
    ASSUME NEW t \in Turns, NEW x,
           \A u \in Turns : u # t => verdictOf(u)' = verdictOf(u),
           verdictOf(t)' = x
    PROVE  [u \in Turns |-> verdictOf(u)]' = [[u \in Turns |-> verdictOf(u)] EXCEPT ![t] = x]
OBVIOUS

\* Admission, refusal and release are the gate's own steps.
LEMMA GateActionsMap ==
    ASSUME IInv, NEW t \in Turns, BeginTurn(t) \/ RefuseTurn(t) \/ EndTurn(t)
    PROVE  Gate!GateNext
<1> USE DEF IInv, TypeOK, HandlerTypes
<1>1. \A u \in Turns : u # t => phaseOf(u)' = phaseOf(u) /\ verdictOf(u)' = verdictOf(u)
  BY DEF BeginTurn, RefuseTurn, EndTurn, phaseOf, verdictOf
<1>2. CASE BeginTurn(t)
  <2>1. phaseOf(t) = "new" /\ phaseOf(t)' = "running" /\ verdictOf(t)' = verdictOf(t)
    BY <1>2 DEF BeginTurn, phaseOf, verdictOf
  <2>2. InTurn = {} /\ InTurn' = {t}
    BY <1>2 DEF BeginTurn, SlotFree, SlotInv, InTurn
  <2>3. slotHolder = NoTurn /\ slotHolder' = t
    BY <2>2 DEF slotHolder
  <2>4. Gate!Take(t)
    BY <1>1, <1>2, <2>1, <2>3, PhaseChange DEF BeginTurn, Gate!Take
  <2>5. QED BY <2>4 DEF Gate!GateNext
<1>3. CASE RefuseTurn(t)
  <2>1. phaseOf(t) = "new" /\ phaseOf(t)' = "settled" /\ verdictOf(t)' = "busy"
    BY <1>3 DEF RefuseTurn, phaseOf, verdictOf
  <2>2. InTurn # {} /\ InTurn' = InTurn
    BY <1>3 DEF RefuseTurn, SlotFree, SlotInv, InTurn
  <2>3. slotHolder # NoTurn /\ slotHolder' = slotHolder
    <3>1. (CHOOSE u \in InTurn : TRUE) \in InTurn
      BY <2>2
    <3>2. InTurn \subseteq Turns
      BY DEF InTurn
    <3>3. slotHolder' = slotHolder
      BY <2>2 DEF slotHolder
    <3>4. QED BY <2>2, <3>1, <3>2, <3>3 DEF slotHolder
  <2>4. Gate!Refuse(t)
    BY <1>1, <1>3, <2>1, <2>3, PhaseChange, VerdictChange DEF RefuseTurn, Gate!Refuse
  <2>5. QED BY <2>4 DEF Gate!GateNext
<1>4. CASE EndTurn(t)
  <2>1. phaseOf(t) = "running" /\ phaseOf(t)' = "settled"
    BY <1>4 DEF EndTurn, phaseOf
  <2>2. PICK v \in {"end_turn", "cancelled", "failed"} :
           verdictOf(t)' = v /\ (v = "cancelled" => t \in ctxDone)
    BY <1>4 DEF EndTurn, ResultInv, verdictOf
  <2>3. InTurn = {t} /\ InTurn' = {}
    BY <1>4 DEF EndTurn, SlotInv, InTurn
  <2>4. slotHolder = t /\ slotHolder' = NoTurn
    BY <2>3 DEF slotHolder
  <2>5. Gate!Settle(t)
    BY <1>1, <1>4, <2>1, <2>2, <2>4, PhaseChange, VerdictChange DEF EndTurn, Gate!Settle
  <2>6. QED BY <2>5 DEF Gate!GateNext
<1>5. QED BY <1>2, <1>3, <1>4

\* Inside a turn a handler changes nothing the gate shows.
LEMMA TurnIsSilent ==
    ASSUME IInv, NEW t \in Turns, HandlerStep(t),
           ~(BeginTurn(t) \/ RefuseTurn(t) \/ EndTurn(t))
    PROVE  UNCHANGED Gate!gateVars
<1> USE DEF IInv, TypeOK, HandlerTypes
<1>1. UNCHANGED ctxDone
  BY DEF HandlerStep, ActivateTurn, Register, WriteRequest, WaitCtxDone, WaitHarnessDied,
         WaitAnswered, CloseTurn, DeliverFinal, ClearActive, SendReport, CancelIfDone
<1>2. /\ pc[t] \notin {"idle", "returned"}
      /\ \E l \in {"register", "write", "wait", "unwind", "deliver", "clear", "report",
                   "check", "end"} : pc' = [pc EXCEPT ![t] = l]
  BY DEF HandlerStep, ActivateTurn, Register, WriteRequest, WaitCtxDone, WaitHarnessDied,
         WaitAnswered, RequestOver, CloseTurn, DeliverFinal, ClearActive, SendReport,
         CancelIfDone
<1>3. \A u \in Turns : u # t => ret'[u] = ret[u]
  BY DEF HandlerStep, ActivateTurn, Register, WriteRequest, WaitCtxDone, WaitHarnessDied,
         WaitAnswered, RequestOver, CloseTurn, DeliverFinal, ClearActive, SendReport,
         CancelIfDone
<1>4. \A u \in Turns : phaseOf(u)' = phaseOf(u) /\ verdictOf(u)' = verdictOf(u)
  BY <1>2, <1>3 DEF phaseOf, verdictOf
<1>5. InTurn' = InTurn
  BY <1>2 DEF InTurn
<1>6. QED BY <1>1, <1>4, <1>5, GateUnchanged

LEMMA StepMaps == IInv /\ [Next]_vars => [Gate!GateNext]_(Gate!gateVars)
<1> SUFFICES ASSUME IInv, [Next]_vars
             PROVE  Gate!GateNext \/ UNCHANGED Gate!gateVars
  OBVIOUS
<1>1. ASSUME NEW t \in Turns, HandlerStep(t)
      PROVE  Gate!GateNext \/ UNCHANGED Gate!gateVars
  BY <1>1, GateActionsMap, TurnIsSilent
<1>2. ASSUME NEW t \in Turns, CallerGone(t) PROVE Gate!GateNext
  <2>1. UNCHANGED <<pc, ret>> /\ phaseOf(t) # "new" /\ ctxDone' = ctxDone \union {t}
    BY <1>2 DEF CallerGone, IInv, TypeOK, HandlerTypes, phaseOf
  <2>2. UNCHANGED InTurn
    BY <2>1 DEF InTurn
  <2>3. Gate!Ask(t)
    BY <2>1, <2>2 DEF Gate!Ask, slotHolder, phaseOf, verdictOf
  <2>4. QED BY <2>3 DEF Gate!GateNext
<1>3. CASE ReaderStep \/ HarnessStep \/ UNCHANGED vars
  <2>1. UNCHANGED <<ctxDone, pc, ret>>
    BY <1>3 DEF ReaderStep, HandleResponse, ReadUpdate, AppendText, FlushTake, FlushDeliver,
         PermissionReply, PermissionRefetch, Callback, ReadEof, CloseDone,
         HarnessStep, HarnessReads, HarnessPrompt, HarnessModel, HarnessCancel, HarnessReply,
         HarnessNotify, HarnessAnswer, HarnessExit, clientVars, vars
  <2>2. QED BY <2>1, GateUnchanged DEF InTurn, phaseOf, verdictOf
<1>4. QED BY <1>1, <1>2, <1>3 DEF Next, Quiescent

\* The D112 server implements the gate (TurnGate.tla).
THEOREM Refinement == Spec => ImplementsGate
BY Invariance, GateInitMaps, StepMaps, PTL DEF Spec, ImplementsGate, Gate!GateSpec
-----------------------------------------------------------------------------
(* Requests and cancels on their way. A request is in stdin, with the      *)
(* harness, or answered, one of these at a time; what is left of a turn    *)
(* that no longer waits is the caller's who has gone, and is ahead of the  *)
(* cancel.                                                                 *)

Requests == {"prompt", "model"}
Answers == {"result", "error"}
Unsent == {"idle", "activate", "register", "write"}
Asked(t) == \E i \in DOMAIN stdin : stdin[i].k \in Requests /\ stdin[i].t = t
Open(t) == Asked(t) \/ cur = t
Answering(t) == \E i \in DOMAIN stdout : stdout[i].k \in Answers /\ stdout[i].t = t
Unanswered(t) == respCh[t] \notin Answers /\ ~Answering(t)

RequestInv ==
    /\ \A t \in Turns : pc[t] \in Unsent => ~Open(t) /\ Unanswered(t)
    /\ \A t \in Turns : Open(t) => Unanswered(t)
    /\ \A t \in Turns : Asked(t) => cur # t
    /\ \A i, j \in DOMAIN stdin :
          stdin[i].k \in Requests /\ stdin[j].k \in Requests /\ stdin[i].t = stdin[j].t => i = j

Closing == rd.at \in {"eof", "done"}
EofInv ==
    /\ Closing => dead /\ stdout = <<>>
    /\ ~Closing => ~doneCh /\ \A t \in Turns : respCh[t] # "closed"
    /\ \A i \in DOMAIN stdout : stdout[i].k = "eof" => dead /\ i = Len(stdout)

Abandoned(t) == t \in ctxDone \/ pc[t] = "wait"
AbandonInv ==
    ~dead =>
        /\ \A t \in Turns : Open(t) => Abandoned(t)
        /\ \A i \in DOMAIN stdin : stdin[i].k = "cancel" =>
              /\ cur \in ctxDone \union {NoTurn}
              /\ \A j \in DOMAIN stdin : j < i /\ stdin[j].k \in Requests => stdin[j].t \in ctxDone

PipeInv == RequestInv /\ EofInv /\ AbandonInv /\ StopsOnlyAbandoned

LEMMA Appended ==
    ASSUME NEW S, NEW s \in Seq(S), NEW e \in S
    PROVE  /\ Append(s, e) \in Seq(S)
           /\ DOMAIN s = 1 .. Len(s) /\ Len(s) \in Nat /\ Len(Append(s, e)) = Len(s) + 1
           /\ \A i \in DOMAIN s : i \in DOMAIN Append(s, e) /\ Append(s, e)[i] = s[i]
           /\ Len(s) + 1 \in DOMAIN Append(s, e) /\ Append(s, e)[Len(s) + 1] = e
           /\ \A i \in DOMAIN Append(s, e) : i \in DOMAIN s \/ i = Len(s) + 1
           /\ \A i \in DOMAIN s : i \in Nat /\ i < Len(s) + 1
OBVIOUS

LEMMA Tailed ==
    ASSUME NEW S, NEW s \in Seq(S), s # <<>>
    PROVE  /\ Tail(s) \in Seq(S)
           /\ Len(s) \in Nat /\ Len(Tail(s)) = Len(s) - 1
           /\ 1 \in DOMAIN s /\ Head(s) = s[1]
           /\ \A i \in DOMAIN s : i \in Nat /\ i >= 1
           /\ \A i \in DOMAIN Tail(s) : i \in Nat /\ i >= 1 /\ i + 1 \in DOMAIN s /\ Tail(s)[i] = s[i + 1]
OBVIOUS

LEMMA Pipes ==
    ASSUME TypeOK
    PROVE  /\ stdin \in Seq(Lines) /\ stdout \in Seq(Messages)
           /\ \A i \in DOMAIN stdin : stdin[i] \in Lines
           /\ \A i \in DOMAIN stdout : stdout[i] \in Messages
BY DEF TypeOK, PipeTypes

\* Steps that leave both pipes alone.
LEMMA PipesStay ==
    ASSUME TypeOK, PipeInv, UNCHANGED <<stdin, stdout, cur, dead, stopping>>,
           ctxDone \subseteq ctxDone',
           \A t \in Turns : pc'[t] \in Unsent => pc[t] \in Unsent,
           \A t \in Turns : pc[t] = "wait" => \/ pc'[t] = "wait" \/ t \in ctxDone'
                                              \/ dead \/ ~Open(t),
           \A t \in Turns : respCh'[t] \in {respCh[t], "empty"},
           Closing' = Closing, doneCh' => doneCh \/ Closing
    PROVE  PipeInv'
<1>0. RequestInv /\ EofInv /\ AbandonInv /\ StopsOnlyAbandoned BY DEF PipeInv
<1>1. \A t \in Turns : Asked(t)' = Asked(t) /\ Open(t)' = Open(t) BY DEF Asked, Open
<1>2. \A t \in Turns : Unanswered(t) => Unanswered(t)' BY DEF Unanswered, Answers, Answering
<1>3. RequestInv' BY <1>0, <1>1, <1>2 DEF RequestInv
<1>4. EofInv'
  <2>1. \A t \in Turns : respCh[t] # "closed" => respCh'[t] # "closed" OBVIOUS
  <2> QED BY <1>0, <2>1 DEF EofInv
<1>5. AbandonInv'
  <2>1. ~dead => \A t \in Turns : Open(t)' => Abandoned(t)'
    BY <1>0, <1>1 DEF AbandonInv, Abandoned
  <2> QED BY <1>0, <2>1 DEF AbandonInv
<1>6. StopsOnlyAbandoned' BY <1>0 DEF StopsOnlyAbandoned
<1>7. QED BY <1>3, <1>4, <1>5, <1>6 DEF PipeInv

\* A line is written that is no request.
LEMMA LineWritten ==
    ASSUME TypeOK, PipeInv, NEW l \in Lines, l.k \notin Requests,
           stdin' = Append(stdin, l), UNCHANGED <<stdout, cur, dead, stopping, ctxDone, respCh, doneCh>>,
           Closing' = Closing,
           \A t \in Turns : pc'[t] \in Unsent => pc[t] \in Unsent,
           \A t \in Turns : pc[t] = "wait" => pc'[t] = "wait",
           l.k = "cancel" => \A t \in Turns : pc[t] # "wait"
    PROVE  PipeInv'
<1>0. RequestInv /\ EofInv /\ AbandonInv /\ StopsOnlyAbandoned BY DEF PipeInv
<1>1. /\ DOMAIN stdin = 1 .. Len(stdin) /\ Len(stdin) \in Nat
      /\ \A i \in DOMAIN stdin : i \in DOMAIN stdin' /\ stdin'[i] = stdin[i]
      /\ \A i \in DOMAIN stdin' : i \in DOMAIN stdin \/ (i = Len(stdin) + 1 /\ stdin'[i] = l)
  BY Pipes, Appended
<1>2. \A t \in Turns : (Asked(t)' <=> Asked(t)) /\ (Open(t)' <=> Open(t)) BY <1>1 DEF Asked, Open
<1>3. \A t \in Turns : Unanswered(t)' <=> Unanswered(t) BY DEF Unanswered, Answering
<1>4. RequestInv' BY <1>0, <1>1, <1>2, <1>3 DEF RequestInv
<1>5. EofInv' BY <1>0 DEF EofInv
<1>6. AbandonInv'
  <2> SUFFICES ASSUME ~dead PROVE AbandonInv' BY DEF AbandonInv
  <2>1. \A t \in Turns : Open(t)' => Abandoned(t)' BY <1>0, <1>2 DEF AbandonInv, Abandoned
  <2>2. ASSUME NEW i \in DOMAIN stdin', stdin'[i].k = "cancel"
        PROVE  /\ cur \in ctxDone \union {NoTurn}
               /\ \A j \in DOMAIN stdin' : j < i /\ stdin'[j].k \in Requests
                                              => stdin'[j].t \in ctxDone
    <3>1. CASE i \in DOMAIN stdin
      <4>1. \A j \in DOMAIN stdin' : j < i => j \in DOMAIN stdin BY <1>1, <3>1
      <4> QED BY <1>0, <1>1, <2>2, <3>1, <4>1 DEF AbandonInv
    <3>2. CASE i = Len(stdin) + 1 /\ l.k = "cancel"
      <4>1. \A t \in Turns : Open(t) => t \in ctxDone BY <1>0, <3>2 DEF AbandonInv, Abandoned
      <4>2. \A j \in DOMAIN stdin : stdin[j].k \in Requests => stdin[j].t \in Turns
        BY Pipes DEF Lines, Requests
      <4>3. cur \in Turns \union {NoTurn} BY DEF TypeOK, HarnessTypes
      <4> QED BY <1>1, <3>2, <4>1, <4>2, <4>3 DEF Open, Asked, Requests
    <3> QED BY <1>1, <2>2, <3>1, <3>2
  <2> QED BY <2>1, <2>2 DEF AbandonInv
<1>7. StopsOnlyAbandoned' BY <1>0 DEF StopsOnlyAbandoned
<1>8. QED BY <1>4, <1>5, <1>6, <1>7 DEF PipeInv

\* A turn writes its request.
LEMMA RequestWritten ==
    ASSUME TypeOK, PipeInv, NEW t \in Turns, pc[t] = "write",
           stdin' = Append(stdin, [k |-> kind[t], t |-> t]), pc' = [pc EXCEPT ![t] = "wait"],
           UNCHANGED <<stdout, cur, dead, stopping, ctxDone, respCh, doneCh, rd>>
    PROVE  PipeInv'
<1>0. /\ RequestInv /\ EofInv /\ AbandonInv /\ StopsOnlyAbandoned
      /\ kind[t] \in Requests /\ pc \in [Turns -> {"idle", "activate", "register", "write", "wait",
                         "unwind", "deliver", "clear", "report", "check", "end", "returned"}]
  BY DEF PipeInv, TypeOK, HandlerTypes, Requests
<1> DEFINE l == [k |-> kind[t], t |-> t]
<1>l. l \in Lines /\ l.k \in Requests /\ l.k # "cancel" /\ l.t = t BY <1>0 DEF Lines, Requests
<1> HIDE DEF l
<1>1. /\ DOMAIN stdin = 1 .. Len(stdin) /\ Len(stdin) \in Nat
      /\ \A i \in DOMAIN stdin : i \in DOMAIN stdin' /\ stdin'[i] = stdin[i] /\ i < Len(stdin) + 1
      /\ \A i \in DOMAIN stdin' : i \in DOMAIN stdin \/ (i = Len(stdin) + 1 /\ stdin'[i] = l)
  BY <1>l, Pipes, Appended DEF l
<1>2. \A u \in Turns : Asked(u)' => Asked(u) \/ u = t BY <1>1, <1>l DEF Asked
<1>3. ~Open(t) /\ Unanswered(t) BY <1>0 DEF RequestInv, Unsent
<1>4. \A u \in Turns : Unanswered(u)' <=> Unanswered(u) BY DEF Unanswered, Answering
<1>5. \A u \in Turns : pc'[u] = IF u = t THEN "wait" ELSE pc[u] BY <1>0
<1>6. RequestInv'
  <2>1. \A u \in Turns : pc'[u] \in Unsent => ~Open(u)' /\ Unanswered(u)'
    BY <1>0, <1>2, <1>4, <1>5 DEF RequestInv, Open, Unsent
  <2>2. \A u \in Turns : Open(u)' => Unanswered(u)' BY <1>0, <1>2, <1>3, <1>4 DEF RequestInv, Open
  <2>3. \A u \in Turns : Asked(u)' => cur' # u BY <1>0, <1>2, <1>3 DEF RequestInv, Open
  <2>4. \A i \in DOMAIN stdin : stdin[i].k \in Requests => stdin[i].t # t
    BY <1>3 DEF Open, Asked
  <2> QED BY <1>0, <1>1, <1>l, <2>1, <2>2, <2>3, <2>4 DEF RequestInv
<1>7. EofInv' BY <1>0 DEF EofInv, Closing
<1>8. AbandonInv'
  <2> SUFFICES ASSUME ~dead PROVE AbandonInv' BY DEF AbandonInv
  <2>1. \A u \in Turns : Open(u)' => Abandoned(u)'
    BY <1>0, <1>2, <1>5 DEF AbandonInv, Abandoned, Open
  <2>2. ASSUME NEW i \in DOMAIN stdin', stdin'[i].k = "cancel"
        PROVE  /\ cur \in ctxDone \union {NoTurn}
               /\ \A j \in DOMAIN stdin' : j < i /\ stdin'[j].k \in Requests
                                              => stdin'[j].t \in ctxDone
    <3>1. i \in DOMAIN stdin BY <1>1, <1>l, <2>2
    <3>2. \A j \in DOMAIN stdin' : j < i => j \in DOMAIN stdin BY <1>1, <3>1
    <3> QED BY <1>0, <1>1, <2>2, <3>1, <3>2 DEF AbandonInv
  <2> QED BY <2>1, <2>2 DEF AbandonInv
<1>9. StopsOnlyAbandoned' BY <1>0 DEF StopsOnlyAbandoned
<1>10. QED BY <1>6, <1>7, <1>8, <1>9 DEF PipeInv

\* The read loop takes the first message.
LEMMA MessageRead ==
    ASSUME TypeOK, PipeInv, stdout # <<>>, stdout' = Tail(stdout), ~Closing,
           UNCHANGED <<stdin, cur, dead, stopping, ctxDone, pc, doneCh>>,
           \A t \in Turns : \/ respCh'[t] = respCh[t]
                            \/ respCh'[t] \in Answers /\ Head(stdout).k \in Answers
                                  /\ Head(stdout).t = t
                            \/ respCh'[t] = "closed" /\ Closing',
           Closing' <=> Head(stdout).k = "eof"
    PROVE  PipeInv'
<1>0. RequestInv /\ EofInv /\ AbandonInv /\ StopsOnlyAbandoned BY DEF PipeInv
<1>1. /\ 1 \in DOMAIN stdout /\ Head(stdout) = stdout[1]
      /\ Len(stdout) \in Nat /\ Len(stdout') = Len(stdout) - 1 /\ stdout' \in Seq(Messages)
      /\ \A i \in DOMAIN stdout' : i \in Nat /\ i + 1 \in DOMAIN stdout /\ stdout'[i] = stdout[i + 1]
  BY Pipes, Tailed
<1>2. \A t \in Turns : (Asked(t)' <=> Asked(t)) /\ (Open(t)' <=> Open(t)) BY DEF Asked, Open
<1>3. \A t \in Turns : Unanswered(t) => Unanswered(t)'
  BY <1>1 DEF Unanswered, Answering, Answers
<1>4. RequestInv' BY <1>0, <1>2, <1>3 DEF RequestInv
<1>5. EofInv'
  <2>1. CASE Closing'
    <3>1. dead /\ Len(stdout) = 1 BY <1>0, <1>1, <2>1 DEF EofInv
    <3>2. stdout' = <<>> BY <1>1, <3>1
    <3> QED BY <1>0, <2>1, <3>1, <3>2 DEF EofInv
  <2>2. CASE ~Closing'
    <3>1. ~doneCh' /\ \A t \in Turns : respCh'[t] # "closed"
      BY <1>0, <2>2 DEF EofInv, Answers
    <3>2. \A i \in DOMAIN stdout' : stdout'[i].k = "eof" => dead /\ i = Len(stdout')
      BY <1>0, <1>1 DEF EofInv
    <3> QED BY <2>2, <3>1, <3>2 DEF EofInv
  <2> QED BY <2>1, <2>2
<1>6. AbandonInv' BY <1>0, <1>2 DEF AbandonInv, Abandoned
<1>7. StopsOnlyAbandoned' BY <1>0 DEF StopsOnlyAbandoned
<1>8. QED BY <1>4, <1>5, <1>6, <1>7 DEF PipeInv

\* The harness takes the first line, and writes nothing or answers a request.
LEMMA LineRead ==
    ASSUME TypeOK, PipeInv, stdin # <<>>, stdin' = Tail(stdin), ~dead,
           UNCHANGED <<dead, ctxDone, pc, respCh, doneCh, rd>>,
           cur' = cur \/ (cur = NoTurn /\ Head(stdin).k \in Requests /\ cur' = Head(stdin).t),
           \/ UNCHANGED stdout
           \/ /\ Head(stdin).k \in Requests /\ cur' = cur
              /\ \E k \in Answers : stdout' = Append(stdout, Msg(k, Head(stdin).t, 0)),
           stopping' = stopping
              \/ (Head(stdin).k = "cancel" /\ stopping' \subseteq stopping \union ({cur} \ {NoTurn}))
    PROVE  PipeInv'
<1>0. RequestInv /\ EofInv /\ AbandonInv /\ StopsOnlyAbandoned BY DEF PipeInv
<1> PICK l : l = Head(stdin) OBVIOUS
<1>1. /\ 1 \in DOMAIN stdin /\ l = stdin[1] /\ l \in Lines
      /\ \A i \in DOMAIN stdin : i \in Nat /\ i >= 1
      /\ \A i \in DOMAIN stdin' : i \in Nat /\ i >= 1 /\ i + 1 \in DOMAIN stdin
                                  /\ stdin'[i] = stdin[i + 1]
  BY Pipes, Tailed
<1>t. l.k \in Requests => l.t \in Turns BY <1>1 DEF Lines, Requests
<1>2. \A t \in Turns : Asked(t)' => Asked(t) /\ ~(l.k \in Requests /\ l.t = t)
  <2> SUFFICES ASSUME NEW t \in Turns, NEW i \in DOMAIN stdin',
                      stdin'[i].k \in Requests, stdin'[i].t = t
               PROVE  Asked(t) /\ ~(l.k \in Requests /\ l.t = t)
    BY DEF Asked
  <2>1. i + 1 \in DOMAIN stdin /\ stdin[i + 1].k \in Requests /\ stdin[i + 1].t = t /\ i + 1 # 1
    BY <1>1
  <2> QED BY <1>0, <1>1, <2>1 DEF Asked, RequestInv
<1>3. \A t \in Turns : Open(t)' => Open(t) BY <1>1, <1>2 DEF Open, Asked
<1>4. \A t \in Turns : Unanswered(t) => Unanswered(t)' \/ (l.k \in Requests /\ l.t = t /\ cur' = cur)
  <2>1. CASE UNCHANGED stdout BY <2>1 DEF Unanswered, Answering
  <2>2. ASSUME NEW k \in Answers, stdout' = Append(stdout, Msg(k, l.t, 0)), l.k \in Requests, cur' = cur
        PROVE  \A t \in Turns : Unanswered(t) => Unanswered(t)'
                                   \/ (l.k \in Requests /\ l.t = t /\ cur' = cur)
    <3>1. Msg(k, l.t, 0) \in Messages /\ Msg(k, l.t, 0).t = l.t
      BY <1>t, <2>2, MsgType DEF Answers, Msg
    <3>2. \A i \in DOMAIN stdout' : (i \in DOMAIN stdout /\ stdout'[i] = stdout[i])
                                    \/ stdout'[i].t = l.t
      BY <2>2, <3>1, Pipes, Appended
    <3> QED BY <2>2, <3>2 DEF Unanswered, Answering
  <2> QED BY <2>1, <2>2
<1>5. l.k \in Requests => Asked(l.t) /\ Open(l.t) BY <1>1 DEF Asked, Open
<1>6. RequestInv'
  <2>1. \A t \in Turns : pc'[t] \in Unsent => ~Open(t)' /\ Unanswered(t)'
    BY <1>0, <1>3, <1>4, <1>5 DEF RequestInv
  <2>2. \A t \in Turns : Open(t)' => Unanswered(t)'
    BY <1>0, <1>2, <1>3, <1>4, <1>5 DEF RequestInv, Open
  <2>3. \A t \in Turns : Asked(t)' => cur' # t BY <1>0, <1>2 DEF RequestInv
  <2>4. ASSUME NEW i \in DOMAIN stdin', NEW j \in DOMAIN stdin', stdin'[i].k \in Requests,
               stdin'[j].k \in Requests, stdin'[i].t = stdin'[j].t
        PROVE  i = j
    <3>1. i + 1 = j + 1 BY <1>0, <1>1, <2>4 DEF RequestInv
    <3> QED BY <1>1, <3>1
  <2> QED BY <2>1, <2>2, <2>3, <2>4 DEF RequestInv
<1>7. EofInv'
  <2>1. \A i \in DOMAIN stdout : stdout[i].k # "eof" BY <1>0 DEF EofInv
  <2>2. ASSUME NEW k \in Answers, stdout' = Append(stdout, Msg(k, l.t, 0)), l.k \in Requests
        PROVE  \A i \in DOMAIN stdout' : stdout'[i].k # "eof"
    <3>1. Msg(k, l.t, 0) \in Messages /\ Msg(k, l.t, 0).k # "eof"
      BY <1>t, <2>2, MsgType DEF Answers, Msg
    <3> QED BY <2>1, <2>2, <3>1, Pipes, Appended
  <2>3. \A i \in DOMAIN stdout' : stdout'[i].k # "eof" BY <2>1, <2>2
  <2> QED BY <1>0, <2>3 DEF EofInv, Closing
<1>8. AbandonInv'
  <2>1. \A t \in Turns : Open(t)' => Abandoned(t)' BY <1>0, <1>3 DEF AbandonInv, Abandoned
  <2>2. ASSUME NEW i \in DOMAIN stdin', stdin'[i].k = "cancel"
        PROVE  /\ cur' \in ctxDone \union {NoTurn}
               /\ \A j \in DOMAIN stdin' : j < i /\ stdin'[j].k \in Requests
                                              => stdin'[j].t \in ctxDone
    <3>1. i + 1 \in DOMAIN stdin /\ stdin[i + 1].k = "cancel" /\ 1 < i + 1 BY <1>1, <2>2
    <3>2. /\ cur \in ctxDone \union {NoTurn}
          /\ \A j \in DOMAIN stdin : j < i + 1 /\ stdin[j].k \in Requests => stdin[j].t \in ctxDone
      BY <1>0, <3>1 DEF AbandonInv
    <3>3. cur' \in ctxDone \union {NoTurn} BY <1>1, <3>1, <3>2
    <3>4. \A j \in DOMAIN stdin' : j < i => j + 1 \in DOMAIN stdin /\ j + 1 < i + 1 BY <1>1
    <3> QED BY <1>1, <3>2, <3>3, <3>4
  <2> QED BY <2>1, <2>2 DEF AbandonInv
<1>9. StopsOnlyAbandoned'
  <2>1. l.k = "cancel" => cur \in ctxDone \union {NoTurn} BY <1>0, <1>1 DEF AbandonInv
  <2> QED BY <1>0, <2>1 DEF StopsOnlyAbandoned
<1>10. QED BY <1>6, <1>7, <1>8, <1>9 DEF PipeInv

\* The harness writes by itself: an update, the answer of its turn or its end.
LEMMA MessageWritten ==
    ASSUME TypeOK, PipeInv, ~dead, NEW m \in Messages, stdout' = Append(stdout, m),
           UNCHANGED <<stdin, stopping, ctxDone, pc, respCh, doneCh, rd>>,
           cur' = cur \/ cur' = NoTurn,
           m.k \in Answers => m.t = cur /\ cur' = NoTurn /\ cur # NoTurn,
           m.k = "eof" <=> dead'
    PROVE  PipeInv'
<1>0. RequestInv /\ EofInv /\ AbandonInv /\ StopsOnlyAbandoned BY DEF PipeInv
<1>1. /\ DOMAIN stdout = 1 .. Len(stdout) /\ Len(stdout) \in Nat /\ Len(stdout') = Len(stdout) + 1
      /\ \A i \in DOMAIN stdout' : \/ i \in DOMAIN stdout /\ stdout'[i] = stdout[i]
                                   \/ i = Len(stdout) + 1 /\ stdout'[i] = m
  BY Pipes, Appended
<1>2. \A t \in Turns : (Asked(t)' <=> Asked(t)) /\ (Open(t)' => Open(t)) BY DEF Asked, Open
<1>3. \A t \in Turns : Unanswered(t) => Unanswered(t)' \/ (m.k \in Answers /\ m.t = t)
  BY <1>1 DEF Unanswered, Answering
<1>4. m.k \in Answers => Open(cur) /\ \A t \in Turns : Open(t)' => t # cur
  BY <1>0, <1>2 DEF Open, RequestInv
<1>5. RequestInv'
  <2>1. \A t \in Turns : pc'[t] \in Unsent => ~Open(t)' /\ Unanswered(t)'
    BY <1>0, <1>2, <1>3, <1>4 DEF RequestInv
  <2>2. \A t \in Turns : Open(t)' => Unanswered(t)'
    BY <1>0, <1>2, <1>3, <1>4 DEF RequestInv
  <2>3. \A t \in Turns : Asked(t)' => cur' # t BY <1>0, <1>2 DEF RequestInv
  <2> QED BY <1>0, <2>1, <2>2, <2>3 DEF RequestInv
<1>6. EofInv'
  <2>1. ~Closing /\ ~Closing' BY <1>0 DEF EofInv, Closing
  <2>2. \A i \in DOMAIN stdout : stdout[i].k # "eof" BY <1>0 DEF EofInv
  <2>3. \A i \in DOMAIN stdout' : stdout'[i].k = "eof" => dead' /\ i = Len(stdout')
    BY <1>1, <2>2
  <2> QED BY <1>0, <2>1, <2>3 DEF EofInv
<1>7. AbandonInv'
  <2> SUFFICES ASSUME ~dead' PROVE AbandonInv' BY DEF AbandonInv
  <2>1. \A t \in Turns : Open(t)' => Abandoned(t)' BY <1>0, <1>2 DEF AbandonInv, Abandoned
  <2> QED BY <1>0, <2>1 DEF AbandonInv
<1>8. StopsOnlyAbandoned' BY <1>0 DEF StopsOnlyAbandoned
<1>9. QED BY <1>5, <1>6, <1>7, <1>8 DEF PipeInv

LEMMA PipeHandler ==
    ASSUME IInv, PipeInv, NEW t \in Turns, HandlerStep(t)
    PROVE  PipeInv'
<1>0. /\ TypeOK /\ SlotInv /\ RequestInv /\ EofInv
      /\ pc \in [Turns -> {"idle", "activate", "register", "write", "wait", "unwind", "deliver",
                           "clear", "report", "check", "end", "returned"}]
      /\ respCh \in [Turns -> {"empty", "result", "error", "closed"}]
  BY DEF IInv, PipeInv, TypeOK, HandlerTypes, WaitTypes
\* A move of the handler that touches no pipe.
<1>m. ASSUME NEW l \in {"activate", "register", "write", "unwind", "deliver", "clear", "report",
                        "check", "end", "returned"},
             pc' = [pc EXCEPT ![t] = l],
             l \in Unsent => pc[t] \in Unsent,
             pc[t] = "wait" => t \in ctxDone \/ dead \/ ~Open(t),
             \A u \in Turns : respCh'[u] \in {respCh[u], "empty"},
             UNCHANGED <<stdin, stdout, cur, dead, stopping, ctxDone, rd, doneCh>>
      PROVE  PipeInv'
  <2>1. \A u \in Turns : pc'[u] = IF u = t THEN l ELSE pc[u] BY <1>0, <1>m
  <2>2. \A u \in Turns : pc'[u] \in Unsent => pc[u] \in Unsent BY <1>m, <2>1
  <2>3. \A u \in Turns : pc[u] = "wait" => pc'[u] = "wait" \/ u \in ctxDone' \/ dead \/ ~Open(u)
    BY <1>m, <2>1
  <2> QED BY <1>0, <1>m, <2>2, <2>3, PipesStay DEF Closing
<1>1. CASE BeginTurn(t) BY <1>0, <1>1, <1>m DEF BeginTurn, Unsent
<1>2. CASE RefuseTurn(t) BY <1>0, <1>2, <1>m DEF RefuseTurn, Unsent
<1>3. CASE ActivateTurn(t) BY <1>0, <1>3, <1>m DEF ActivateTurn, Unsent
<1>4. CASE Register(t) BY <1>0, <1>4, <1>m DEF Register, Unsent
<1>5. CASE WriteRequest(t)
  <2>1. CASE stdin' = Append(stdin, [k |-> kind[t], t |-> t]) /\ pc' = [pc EXCEPT ![t] = "wait"]
    BY <1>0, <1>5, <2>1, RequestWritten DEF WriteRequest
  <2>2. CASE dead /\ RequestOver(t, "failed") /\ UNCHANGED stdin
    BY <1>0, <1>5, <1>m, <2>2 DEF WriteRequest, RequestOver, Unsent
  <2> QED BY <1>5, <2>1, <2>2 DEF WriteRequest
<1>6. CASE WaitCtxDone(t) BY <1>0, <1>6, <1>m DEF WaitCtxDone, RequestOver, Unsent
<1>7. CASE WaitHarnessDied(t)
  <2>1. dead BY <1>0, <1>7 DEF WaitHarnessDied, EofInv
  <2> QED BY <1>0, <1>7, <1>m, <2>1 DEF WaitHarnessDied, RequestOver, Unsent
<1>8. CASE WaitAnswered(t)
  <2>1. ~Open(t) BY <1>0, <1>8 DEF WaitAnswered, RequestInv, Unanswered, Answers
  <2> QED BY <1>0, <1>8, <1>m, <2>1 DEF WaitAnswered, RequestOver, Unsent
<1>9. CASE CloseTurn(t) BY <1>0, <1>9, <1>m DEF CloseTurn, Unsent
<1>10. CASE DeliverFinal(t) BY <1>0, <1>10, <1>m DEF DeliverFinal, Unsent
<1>11. CASE ClearActive(t) BY <1>0, <1>11, <1>m DEF ClearActive, Unsent
<1>12. CASE SendReport(t) BY <1>0, <1>12, <1>m DEF SendReport, Unsent
<1>13. CASE CancelIfDone(t)
  <2>1. CASE MustCancel(t)
    <3> PICK l : l = [k |-> "cancel", t |-> t] OBVIOUS
    <3>1. l \in Lines /\ l.k \notin Requests /\ stdin' = Append(stdin, l)
      BY <1>13, <2>1 DEF CancelIfDone, Lines, Requests
    <3>2. \A u \in Turns : pc[u] # "wait" BY <1>0, <1>13 DEF CancelIfDone, SlotInv, InTurn
    <3>3. \A u \in Turns : /\ pc'[u] \in Unsent => pc[u] \in Unsent
                           /\ pc[u] = "wait" => pc'[u] = "wait"
      BY <1>0, <1>13 DEF CancelIfDone, Unsent
    <3> QED BY <1>0, <1>13, <3>1, <3>2, <3>3, LineWritten DEF CancelIfDone, Closing
  <2>2. CASE ~MustCancel(t) BY <1>0, <1>13, <1>m, <2>2 DEF CancelIfDone, Unsent
  <2> QED BY <2>1, <2>2
<1>14. CASE EndTurn(t) BY <1>0, <1>14, <1>m DEF EndTurn, Unsent
<1>15. QED
  BY <1>1, <1>2, <1>3, <1>4, <1>5, <1>6, <1>7, <1>8, <1>9, <1>10, <1>11, <1>12, <1>13, <1>14
  DEF HandlerStep

LEMMA PipeReader ==
    ASSUME TypeOK, PipeInv, ReaderStep
    PROVE  PipeInv'
<1> USE DEF ReadOn, Read, Idle, Closing
<1>0. rd \in [at : {"read", "text", "flush", "deliver", "reply", "refetch", "callback", "eof",
                    "done"}, item : Messages, ref : Turns \union {NoTurn}]
      /\ respCh \in [Turns -> {"empty", "result", "error", "closed"}]
  BY DEF TypeOK, ReaderTypes, WaitTypes
<1>s. ASSUME UNCHANGED <<stdin, stdout, cur, dead, stopping, ctxDone, pc, respCh>>,
             Closing' = Closing, doneCh' => doneCh \/ Closing
      PROVE  PipeInv'
  BY <1>s, PipesStay
<1>1. CASE HandleResponse
  <2>1. \A t \in Turns : respCh'[t] = respCh[t]
             \/ (respCh'[t] \in Answers /\ Head(stdout).k \in Answers /\ Head(stdout).t = t)
    BY <1>0, <1>1 DEF HandleResponse, Answers
  <2> QED BY <1>1, <2>1, MessageRead DEF HandleResponse, Answers
<1>2. CASE ReadUpdate
  <2>1. ~Closing' /\ Head(stdout).k # "eof"
    BY <1>2 DEF ReadUpdate, Boundary
  <2> QED BY <1>2, <2>1, MessageRead DEF ReadUpdate
<1>3. CASE AppendText BY <1>3, <1>s DEF AppendText
<1>4. CASE FlushTake BY <1>4, <1>s DEF FlushTake, AfterFlush
<1>5. CASE FlushDeliver BY <1>5, <1>s DEF FlushDeliver, AfterFlush
<1>6. CASE PermissionReply
  <2> PICK l : l = [k |-> "reply", t |-> NoTurn] OBVIOUS
  <2>1. /\ l \in Lines /\ l.k \notin Requests /\ l.k # "cancel" /\ stdin' = Append(stdin, l)
    BY <1>6 DEF PermissionReply, Lines, Requests
  <2> QED BY <1>6, <2>1, LineWritten DEF PermissionReply
<1>7. CASE PermissionRefetch BY <1>7, <1>s DEF PermissionRefetch
<1>8. CASE Callback BY <1>8, <1>s DEF Callback
<1>9. CASE ReadEof
  <2>1. \A t \in Turns : respCh'[t] = respCh[t] \/ (respCh'[t] = "closed" /\ Closing')
    BY <1>0, <1>9 DEF ReadEof
  <2> QED BY <1>9, <2>1, MessageRead DEF ReadEof
<1>10. CASE CloseDone BY <1>10, <1>s DEF CloseDone
<1>11. QED
  BY <1>1, <1>2, <1>3, <1>4, <1>5, <1>6, <1>7, <1>8, <1>9, <1>10 DEF ReaderStep

LEMMA PipeHarness ==
    ASSUME TypeOK, PipeInv, HarnessStep
    PROVE  PipeInv'
<1> USE DEF clientVars
<1>1. CASE HarnessPrompt BY <1>1, LineRead DEF HarnessPrompt, Reads, Writes, Requests, Answers
<1>2. CASE HarnessModel BY <1>2, LineRead DEF HarnessModel, Reads, Writes, Requests, Answers
<1>3. CASE HarnessCancel BY <1>3, LineRead DEF HarnessCancel, Reads, Requests
<1>4. CASE HarnessReply BY <1>4, LineRead DEF HarnessReply, Reads
<1>5. ASSUME NEW t \in Turns, HarnessNotify(t) PROVE PipeInv'
  <2>1. sent' \in [Turns -> Nat] BY <1>5 DEF TypeOK, HarnessTypes, HarnessNotify
  <2>2. PICK k \in Notes : Writes(Msg(k, t, sent'[t])) BY <1>5 DEF HarnessNotify
  <2>3. k \notin Answers /\ k # "eof" BY DEF Answers
  <2> PICK m : m = Msg(k, t, sent'[t]) OBVIOUS
  <2>4. m \in Messages /\ m.k = k BY <2>1, MsgType DEF Msg
  <2> QED BY <1>5, <2>2, <2>3, <2>4, MessageWritten DEF HarnessNotify, Writes
<1>6. CASE HarnessAnswer
  <2>1. cur \in Turns BY <1>6 DEF HarnessAnswer, TypeOK, HarnessTypes
  <2>2. PICK k \in Answers : Writes(Msg(k, cur, 0)) BY <1>6 DEF HarnessAnswer, Answers
  <2> PICK m : m = Msg(k, cur, 0) OBVIOUS
  <2>3. m \in Messages /\ m.k # "eof" /\ m.t = cur BY <2>1, MsgType DEF Msg, Answers
  <2> QED BY <1>6, <2>2, <2>3, MessageWritten DEF HarnessAnswer, Writes
<1>7. CASE HarnessExit
  <2>1. Eof \in Messages /\ Eof.k = "eof" /\ Eof.k \notin Answers
    BY MsgType DEF Eof, Msg, Answers
  <2> QED BY <1>7, <2>1, MessageWritten DEF HarnessExit, Writes
<1>8. QED BY <1>1, <1>2, <1>3, <1>4, <1>5, <1>6, <1>7 DEF HarnessStep, HarnessReads

LEMMA PipeInit == Init => PipeInv
<1> SUFFICES ASSUME Init PROVE PipeInv OBVIOUS
<1>1. /\ DOMAIN stdin = {} /\ DOMAIN stdout = {} /\ cur = NoTurn /\ stopping = {} /\ ~doneCh
      /\ \A t \in Turns : respCh[t] = "empty"
      /\ rd.at = "read"
  BY DEF Init, Idle
<1>2. RequestInv BY <1>1 DEF RequestInv, Open, Asked, Unanswered, Answering, Answers
<1>3. QED BY <1>1, <1>2 DEF PipeInv, EofInv, Closing, AbandonInv, Open, Asked, StopsOnlyAbandoned

LEMMA PipeNext == IInv /\ PipeInv /\ [Next]_vars => PipeInv'
<1> SUFFICES ASSUME IInv, PipeInv, [Next]_vars PROVE PipeInv' OBVIOUS
<1>0. TypeOK BY DEF IInv
<1>1. ASSUME NEW t \in Turns, HandlerStep(t) PROVE PipeInv' BY <1>1, PipeHandler
<1>2. ASSUME NEW t \in Turns, CallerGone(t) PROVE PipeInv'
  BY <1>0, <1>2, PipesStay DEF CallerGone, Closing
<1>3. CASE ReaderStep BY <1>0, <1>3, PipeReader
<1>4. CASE HarnessStep BY <1>0, <1>4, PipeHarness
<1>5. CASE UNCHANGED vars BY <1>0, <1>5, PipesStay DEF vars, Closing
<1>6. QED BY <1>1, <1>2, <1>3, <1>4, <1>5 DEF Next, Quiescent

LEMMA PipeInvariance == Spec => [](IInv /\ PipeInv)
<1>1. IInv /\ PipeInv /\ [Next]_vars => (IInv /\ PipeInv)' BY NextIInv, PipeNext
<1>2. QED BY <1>1, InitIInv, PipeInit, PTL DEF Spec

\* A session/cancel names only the session, and yet the harness stops only turns
\* whose own caller has gone, since the cancel is written before the slot is
\* released and the harness reads its lines in order (d112/server.go:116-122).
THEOREM StopsOnlyAbandonedHolds == Spec => []StopsOnlyAbandoned
<1>1. IInv /\ PipeInv => StopsOnlyAbandoned BY DEF PipeInv
<1>2. QED BY <1>1, PipeInvariance, PTL

-----------------------------------------------------------------------------
(* Updates on their way: through stdout, the read loop and the text buffer *)
(* of the turn that was active when they were read.                        *)

Active == {"text", "flush", "deliver", "reply", "refetch", "callback"}
Prompted == {"register", "write", "wait", "unwind"}

\* A turn that is not closed and holds text, or that the read loop has captured, is
\* still in its Prompt.
RefInv ==
    /\ rd.at \in {"text", "flush", "deliver", "callback"} => rd.ref # NoTurn
    /\ rd.at \in Active => rd.item.t # NoTurn
    /\ rd.at # "deliver" => rdText = <<>>
    /\ \A i \in DOMAIN stdout : stdout[i].k \in Notes => stdout[i].t # NoTurn
    /\ \A t \in Turns : t \notin closed /\ (buf[t] # <<>> \/ (rd.at \in Active /\ rd.ref = t)) =>
          kind[t] = "prompt" /\ pc[t] \in Prompted
    /\ \A t \in Turns : pc[t] \in {"deliver", "clear"} => t \in closed
    /\ \A t \in closed : buf[t] = <<>>

Waiting(t) == t \in ctxDone \/ (pc[t] = "wait" /\ respCh[t] = "empty" /\ ~doneCh)
Coming(t) == \E i \in DOMAIN stdout : stdout[i].k \in Notes /\ stdout[i].t = t
Handling(t) == rd.at \in Active /\ rd.item.t = t
Buffered(t) == \E i \in DOMAIN buf[t] : buf[t][i].t = t
Delivering(t) == rd.at = "deliver" /\ rd.ref = t /\ \E i \in DOMAIN rdText : rdText[i].t = t

\* The requests are answered in the order they were written: once the harness has
\* taken up the turn that holds the slot, it is done with the others.
OrderInv ==
    /\ \A t \in InTurn : \A i, j \in DOMAIN stdin :
          stdin[i].k \in Requests /\ stdin[i].t = t /\ j > i => stdin[j].k \notin Requests
    /\ \A t \in InTurn : cur = t => \A u \in Turns : ~Asked(u)
    /\ \A t \in InTurn : sent[t] > 0 => \A u \in Turns : u # t => ~Open(u)
    /\ \A t \in Turns : pc[t] \in Unsent => sent[t] = 0
    /\ \A t \in Turns : Coming(t) \/ Handling(t) \/ Buffered(t) => sent[t] > 0

\* An update is ahead of its turn's answer, and behind those of earlier turns.
NoteInv ==
    /\ \A t \in Turns : Coming(t) \/ Handling(t) \/ Delivering(t) => Waiting(t)
    /\ \A i, j \in DOMAIN stdout :
          stdout[i].k \in Answers /\ stdout[j].k \in Notes /\ stdout[j].t = stdout[i].t => j < i
    /\ \A t \in InTurn : \A i, j \in DOMAIN stdout :
          stdout[i].k \in Notes /\ stdout[i].t = t /\ j > i /\ stdout[j].k \in Notes
              => stdout[j].t = t
    /\ \A t \in InTurn : Handling(t) => \A u \in Turns : u # t => ~Coming(u)
    /\ \A t \in InTurn : Buffered(t) => \A u \in Turns : u # t => ~Coming(u) /\ ~Handling(u)

LEMMA RefNext ==
    ASSUME IInv, RefInv, [Next]_vars
    PROVE  RefInv'
<1> USE DEF ReadOn, Read, Idle, Active, Prompted
<1>0. /\ TypeOK /\ SlotInv
      /\ pc \in [Turns -> {"idle", "activate", "register", "write", "wait", "unwind", "deliver",
                           "clear", "report", "check", "end", "returned"}]
      /\ rd \in [at : {"read", "text", "flush", "deliver", "reply", "refetch", "callback", "eof",
                       "done"}, item : Messages, ref : Turns \union {NoTurn}]
      /\ buf \in [Turns -> Seq(Messages)] /\ stdout \in Seq(Messages)
      /\ activeTurn \in Turns \union {NoTurn} /\ closed \in SUBSET Turns
  BY DEF IInv, TypeOK, HandlerTypes, BufTypes, ReaderTypes, PipeTypes
\* A move of the handler outside closeAndFlush.
<1>m. ASSUME NEW t \in Turns,
             NEW l \in {"activate", "register", "write", "wait", "unwind", "clear", "report", "check",
                        "end", "returned"},
             pc' = [pc EXCEPT ![t] = l],
             UNCHANGED <<rd, rdText, stdout, closed, buf, kind>>,
             pc[t] \in Prompted /\ kind[t] = "prompt" => l \in Prompted,
             l = "clear" => pc[t] = "deliver"
      PROVE  RefInv'
  <2>1. \A u \in Turns : pc'[u] = IF u = t THEN l ELSE pc[u] BY <1>0, <1>m
  <2> QED BY <1>m, <2>1 DEF RefInv
<1>1. ASSUME NEW t \in Turns, HandlerStep(t) PROVE RefInv'
  <2>1. CASE BeginTurn(t) BY <1>0, <1>m, <2>1 DEF BeginTurn
  <2>2. CASE RefuseTurn(t) BY <1>0, <1>m, <2>2 DEF RefuseTurn
  <2>3. CASE ActivateTurn(t) BY <1>0, <1>m, <2>3 DEF ActivateTurn
  <2>4. CASE Register(t) BY <1>0, <1>m, <2>4 DEF Register
  <2>5. CASE WriteRequest(t) BY <1>0, <1>m, <2>5 DEF WriteRequest, RequestOver
  <2>6. CASE WaitCtxDone(t) BY <1>0, <1>m, <2>6 DEF WaitCtxDone, RequestOver
  <2>7. CASE WaitHarnessDied(t) BY <1>0, <1>m, <2>7 DEF WaitHarnessDied, RequestOver
  <2>8. CASE WaitAnswered(t) BY <1>0, <1>m, <2>8 DEF WaitAnswered, RequestOver
  <2>9. CASE CloseTurn(t)
    <3>1. /\ \A u \in Turns : buf'[u] = IF u = t THEN <<>> ELSE buf[u]
          /\ \A u \in Turns : u # t => pc'[u] = pc[u]
          /\ closed' = closed \union {t}
          /\ UNCHANGED <<rd, rdText, stdout, kind>>
      BY <1>0, <2>9 DEF CloseTurn
    <3> QED BY <1>0, <3>1 DEF RefInv
  <2>10. CASE DeliverFinal(t) BY <1>0, <1>m, <2>10 DEF DeliverFinal
  <2>11. CASE ClearActive(t) BY <1>0, <1>m, <2>11 DEF ClearActive
  <2>12. CASE SendReport(t) BY <1>0, <1>m, <2>12 DEF SendReport
  <2>13. CASE CancelIfDone(t) BY <1>0, <1>m, <2>13 DEF CancelIfDone
  <2>14. CASE EndTurn(t) BY <1>0, <1>m, <2>14 DEF EndTurn
  <2> QED BY <1>1, <2>1, <2>2, <2>3, <2>4, <2>5, <2>6, <2>7, <2>8, <2>9, <2>10, <2>11, <2>12,
             <2>13, <2>14 DEF HandlerStep
\* The turn the read loop captures.
<1>a. activeTurn # NoTurn /\ activeTurn \notin closed =>
          kind[activeTurn] = "prompt" /\ pc[activeTurn] \in Prompted
  BY <1>0 DEF SlotInv, RefInv
<1>r. stdout # <<>> => /\ Head(stdout) = stdout[1] /\ 1 \in DOMAIN stdout
                       /\ \A i \in DOMAIN Tail(stdout) : i + 1 \in DOMAIN stdout
                                                         /\ Tail(stdout)[i] = stdout[i + 1]
  BY <1>0, Tailed
<1>2. CASE HandleResponse BY <1>0, <1>2, <1>r DEF HandleResponse, RefInv
<1>3. CASE ReadUpdate BY <1>0, <1>3, <1>a, <1>r DEF ReadUpdate, Boundary, RefInv
<1>4. CASE AppendText
  <2>1. /\ \A u \in Turns : u # rd.ref \/ rd.ref \in closed => buf'[u] = buf[u]
        /\ UNCHANGED <<pc, kind, rdText, stdout, closed>> /\ rd'.at = "read" /\ rd.at = "text"
    BY <1>0, <1>4 DEF AppendText
  <2> QED BY <1>0, <2>1 DEF RefInv
<1>5. CASE FlushTake
  <2>1. /\ \A u \in Turns : buf'[u] = buf[u] \/ buf'[u] = <<>>
        /\ UNCHANGED <<pc, kind, stdout, closed>> /\ rd.at = "flush"
        /\ rd'.at \in {"deliver", "reply", "callback"} /\ rd'.item = rd.item /\ rd'.ref = rd.ref
        /\ rd'.at # "deliver" => rdText' = <<>>
    BY <1>0, <1>5 DEF FlushTake, AfterFlush
  <2> QED BY <1>0, <2>1 DEF RefInv
<1>6. CASE FlushDeliver
  <2>1. /\ UNCHANGED <<pc, kind, stdout, closed, buf>> /\ rd.at = "deliver" /\ rdText' = <<>>
        /\ rd'.at \in {"reply", "callback"} /\ rd'.item = rd.item /\ rd'.ref = rd.ref
    BY <1>6 DEF FlushDeliver, AfterFlush
  <2> QED BY <1>0, <2>1 DEF RefInv
<1>7. CASE PermissionReply BY <1>0, <1>7 DEF PermissionReply, RefInv
<1>8. CASE PermissionRefetch BY <1>0, <1>8, <1>a DEF PermissionRefetch, RefInv
<1>9. CASE Callback BY <1>0, <1>9 DEF Callback, RefInv
<1>10. CASE ReadEof BY <1>0, <1>10, <1>r DEF ReadEof, RefInv
<1>11. CASE CloseDone BY <1>0, <1>11 DEF CloseDone, RefInv
\* The harness only writes.
<1>h. ASSUME UNCHANGED <<pc, kind, closed, buf, rd, rdText>>,
             stdout' = stdout \/ \E m \in Messages : /\ stdout' = Append(stdout, m)
                                                     /\ m.k \in Notes => m.t # NoTurn
      PROVE  RefInv'
  <2>1. \A i \in DOMAIN stdout' : stdout'[i].k \in Notes => stdout'[i].t # NoTurn
    <3>1. CASE stdout' = stdout BY <3>1 DEF RefInv
    <3>2. ASSUME NEW m \in Messages, stdout' = Append(stdout, m), m.k \in Notes => m.t # NoTurn
          PROVE  \A i \in DOMAIN stdout' : stdout'[i].k \in Notes => stdout'[i].t # NoTurn
      BY <1>0, <3>2, Appended DEF RefInv
    <3> QED BY <1>h, <3>1, <3>2
  <2> QED BY <1>h, <2>1 DEF RefInv
<1>12. CASE HarnessStep
  <2> USE DEF clientVars, Writes
  <2>1. CASE HarnessPrompt
    <3>1. Head(stdin).t \in Turns BY <1>0, <2>1, Pipes, Tailed DEF HarnessPrompt, Reads, Lines
    <3> PICK m : m = Msg("error", Head(stdin).t, 0) OBVIOUS
    <3>2. m \in Messages /\ m.k \notin Notes BY <3>1, MsgType DEF Msg
    <3> QED BY <1>h, <2>1, <3>2 DEF HarnessPrompt
  <2>2. CASE HarnessModel
    <3>1. Head(stdin).t \in Turns BY <1>0, <2>2, Pipes, Tailed DEF HarnessModel, Reads, Lines
    <3>2. PICK k \in Answers : Writes(Msg(k, Head(stdin).t, 0)) BY <2>2 DEF HarnessModel, Answers
    <3> PICK m : m = Msg(k, Head(stdin).t, 0) OBVIOUS
    <3>3. m \in Messages /\ m.k \notin Notes BY <3>1, MsgType DEF Msg, Answers
    <3> QED BY <1>h, <2>2, <3>2, <3>3 DEF HarnessModel
  <2>3. CASE HarnessCancel \/ HarnessReply BY <1>h, <2>3 DEF HarnessCancel, HarnessReply
  <2>4. ASSUME NEW t \in Turns, HarnessNotify(t) PROVE RefInv'
    <3>1. sent' \in [Turns -> Nat] BY <1>0, <2>4 DEF TypeOK, HarnessTypes, HarnessNotify
    <3>2. PICK k \in Notes : Writes(Msg(k, t, sent'[t])) BY <2>4 DEF HarnessNotify
    <3> PICK m : m = Msg(k, t, sent'[t]) OBVIOUS
    <3>3. m \in Messages /\ m.t # NoTurn BY <3>1, MsgType DEF Msg
    <3> QED BY <1>h, <2>4, <3>2, <3>3 DEF HarnessNotify
  <2>5. CASE HarnessAnswer
    <3>1. cur \in Turns BY <1>0, <2>5 DEF HarnessAnswer, TypeOK, HarnessTypes
    <3>2. PICK k \in Answers : Writes(Msg(k, cur, 0)) BY <2>5 DEF HarnessAnswer, Answers
    <3> PICK m : m = Msg(k, cur, 0) OBVIOUS
    <3>3. m \in Messages /\ m.k \notin Notes BY <3>1, MsgType DEF Msg, Answers
    <3> QED BY <1>h, <2>5, <3>2, <3>3 DEF HarnessAnswer
  <2>6. CASE HarnessExit
    <3>1. Eof \in Messages /\ Eof.k \notin Notes BY MsgType DEF Eof, Msg
    <3> QED BY <1>h, <2>6, <3>1 DEF HarnessExit
  <2> QED BY <1>12, <2>1, <2>2, <2>3, <2>4, <2>5, <2>6 DEF HarnessStep, HarnessReads
<1>13. CASE (\E t \in Turns : CallerGone(t)) \/ UNCHANGED vars
  BY <1>13, <1>h DEF CallerGone, vars
<1>14. QED
  BY <1>1, <1>2, <1>3, <1>4, <1>5, <1>6, <1>7, <1>8, <1>9, <1>10, <1>11, <1>12, <1>13
  DEF Next, ReaderStep, Quiescent

LEMMA RefInit == Init => RefInv
<1> SUFFICES ASSUME Init PROVE RefInv OBVIOUS
<1>1. /\ DOMAIN stdout = {} /\ rdText = <<>> /\ rd.at = "read" /\ closed = {}
      /\ \A t \in Turns : buf[t] = <<>> /\ pc[t] = "idle"
  BY DEF Init, Idle
<1>2. QED BY <1>1 DEF RefInv, Active

TalkInv == OrderInv /\ NoteInv

\* Nothing is on its way from a turn that has not begun.
LEMMA Fresh ==
    ASSUME RequestInv, OrderInv, NEW t \in Turns, pc[t] = "idle"
    PROVE  ~Open(t) /\ sent[t] = 0 /\ ~Coming(t) /\ ~Handling(t) /\ ~Buffered(t)
BY DEF RequestInv, OrderInv, Unsent

\* Steps that send no request, read no message and leave the harness alone.
LEMMA TalkSame ==
    ASSUME TypeOK, RequestInv, TalkInv,
           stdin' = stdin \/ \E l \in Lines : l.k \notin Requests /\ stdin' = Append(stdin, l),
           UNCHANGED <<stdout, cur, sent>>,
           \A t \in Turns : pc'[t] \in Unsent => pc[t] \in Unsent,
           \A t \in InTurn' : t \in InTurn \/ pc[t] = "idle",
           \A t \in Turns : Coming(t) \/ Handling(t)' \/ Delivering(t)' => Waiting(t)',
           \A t \in Turns : Handling(t)' => Handling(t),
           \A t \in Turns : Buffered(t)' => \/ Buffered(t)
                                            \/ Handling(t) /\ \A u \in Turns : ~(Handling(u)')
    PROVE  TalkInv'
<1>0. OrderInv /\ NoteInv BY DEF TalkInv
<1>i. InTurn \subseteq Turns /\ InTurn' \subseteq Turns BY DEF InTurn
<1>1. \A t \in Turns : Coming(t)' <=> Coming(t) BY DEF Coming
<1>2. \A i, j \in DOMAIN stdin' : stdin'[i].k \in Requests /\ stdin'[j].k \in Requests =>
          i \in DOMAIN stdin /\ j \in DOMAIN stdin /\ stdin'[i] = stdin[i] /\ stdin'[j] = stdin[j]
  <2>1. CASE stdin' = stdin BY <2>1
  <2>2. ASSUME NEW l \in Lines, l.k \notin Requests, stdin' = Append(stdin, l)
        PROVE  \A i \in DOMAIN stdin' : stdin'[i].k \in Requests =>
                   i \in DOMAIN stdin /\ stdin'[i] = stdin[i]
    BY <2>2, Pipes, Appended
  <2> QED BY <2>1, <2>2
<1>3. \A t \in Turns : (Asked(t)' => Asked(t)) /\ (Open(t)' => Open(t)) BY <1>2 DEF Asked, Open
<1>4. \A t \in Turns : pc[t] = "idle" =>
          ~Open(t) /\ sent[t] = 0 /\ ~Coming(t) /\ ~Handling(t) /\ ~Buffered(t)
  BY <1>0, Fresh
<1>5. OrderInv'
  <2>1. \A t \in InTurn' : \A i, j \in DOMAIN stdin' :
            stdin'[i].k \in Requests /\ stdin'[i].t = t /\ j > i => stdin'[j].k \notin Requests
    <3> SUFFICES ASSUME NEW t \in InTurn', NEW i \in DOMAIN stdin', NEW j \in DOMAIN stdin',
                        stdin'[i].k \in Requests, stdin'[i].t = t, j > i, stdin'[j].k \in Requests
                 PROVE  FALSE
      OBVIOUS
    <3>1. i \in DOMAIN stdin /\ j \in DOMAIN stdin /\ stdin'[i] = stdin[i] /\ stdin'[j] = stdin[j]
      BY <1>2
    <3>2. Open(t) BY <3>1 DEF Open, Asked
    <3>3. t \in InTurn BY <1>4, <1>i, <3>2
    <3> QED BY <1>0, <3>1, <3>3 DEF OrderInv
  <2>2. \A t \in InTurn' : cur' = t => \A u \in Turns : ~(Asked(u)')
    <3>1. \A t \in Turns : cur = t => Open(t) BY DEF Open
    <3> QED BY <1>0, <1>i, <1>3, <1>4, <3>1 DEF OrderInv
  <2>3. \A t \in InTurn' : sent'[t] > 0 => \A u \in Turns : u # t => ~(Open(u)')
    BY <1>0, <1>i, <1>3, <1>4 DEF OrderInv
  <2>4. \A t \in Turns : pc'[t] \in Unsent => sent'[t] = 0 BY <1>0 DEF OrderInv
  <2>5. \A t \in Turns : Coming(t)' \/ Handling(t)' \/ Buffered(t)' => sent'[t] > 0
    BY <1>0, <1>1 DEF OrderInv
  <2> QED BY <2>1, <2>2, <2>3, <2>4, <2>5 DEF OrderInv
<1>6. NoteInv'
  <2>1. \A t \in Turns : Coming(t)' \/ Handling(t)' \/ Delivering(t)' => Waiting(t)' BY <1>1
  <2>2. \A i, j \in DOMAIN stdout' :
            stdout'[i].k \in Answers /\ stdout'[j].k \in Notes /\ stdout'[j].t = stdout'[i].t => j < i
    BY <1>0 DEF NoteInv
  <2>3. \A t \in InTurn' : \A i, j \in DOMAIN stdout' :
            stdout'[i].k \in Notes /\ stdout'[i].t = t /\ j > i /\ stdout'[j].k \in Notes
                => stdout'[j].t = t
    <3> SUFFICES ASSUME NEW t \in InTurn', NEW i \in DOMAIN stdout,
                        stdout[i].k \in Notes, stdout[i].t = t
                 PROVE  t \in InTurn
      BY <1>0 DEF NoteInv
    <3>1. Coming(t) BY DEF Coming
    <3> QED BY <1>4, <1>i, <3>1
  <2>4. \A t \in InTurn' : Handling(t)' => \A u \in Turns : u # t => ~(Coming(u)')
    BY <1>0, <1>1, <1>i, <1>4 DEF NoteInv
  <2>5. \A t \in InTurn' : Buffered(t)' => \A u \in Turns : u # t => ~(Coming(u)') /\ ~(Handling(u)')
    BY <1>0, <1>1, <1>i, <1>4 DEF NoteInv
  <2> QED BY <2>1, <2>2, <2>3, <2>4, <2>5 DEF NoteInv
<1>7. QED BY <1>5, <1>6 DEF TalkInv

LEMMA TalkRequest ==
    ASSUME IInv, RequestInv, TalkInv, NEW t \in Turns, pc[t] = "write",
           stdin' = Append(stdin, [k |-> kind[t], t |-> t]), pc' = [pc EXCEPT ![t] = "wait"],
           UNCHANGED <<ctxDone, buf, respCh, doneCh, rd, rdText, stdout, cur, sent>>
    PROVE  TalkInv'
<1>0. /\ TypeOK /\ OrderInv /\ NoteInv /\ SlotInv /\ kind[t] \in Requests
      /\ pc \in [Turns -> {"idle", "activate", "register", "write", "wait",
                         "unwind", "deliver", "clear", "report", "check", "end", "returned"}]
  BY DEF TalkInv, IInv, TypeOK, HandlerTypes, Requests
<1> DEFINE l == [k |-> kind[t], t |-> t]
<1>l. l \in Lines /\ l.k \in Requests /\ l.t = t BY <1>0 DEF Lines, Requests
<1> HIDE DEF l
<1>1. \A u \in Turns : pc'[u] = IF u = t THEN "wait" ELSE pc[u] BY <1>0
<1>2. InTurn = {t} /\ InTurn' = {t} BY <1>0, <1>1 DEF SlotInv, InTurn
<1>3. ~Open(t) /\ sent[t] = 0 BY <1>0 DEF RequestInv, OrderInv, Unsent
<1>4. /\ DOMAIN stdin = 1 .. Len(stdin) /\ Len(stdin) \in Nat
      /\ \A i \in DOMAIN stdin' : \/ i \in DOMAIN stdin /\ stdin'[i] = stdin[i] /\ i < Len(stdin) + 1
                                  \/ i = Len(stdin) + 1 /\ stdin'[i] = l
  BY <1>0, <1>l, Pipes, Appended DEF l
<1>5. \A u \in Turns : /\ Coming(u)' <=> Coming(u)
                       /\ Handling(u)' <=> Handling(u)
                       /\ Buffered(u)' <=> Buffered(u)
                       /\ Delivering(u)' <=> Delivering(u)
  BY DEF Coming, Handling, Buffered, Delivering
<1>6. OrderInv'
  <2>1. \A i \in DOMAIN stdin : stdin[i].k \in Requests => stdin[i].t # t BY <1>3 DEF Open, Asked
  <2>2. \A i, j \in DOMAIN stdin' :
            stdin'[i].k \in Requests /\ stdin'[i].t = t /\ j > i => stdin'[j].k \notin Requests
    BY <1>4, <2>1
  <2>3. cur # t BY <1>3 DEF Open
  <2>4. \A u \in Turns : pc'[u] \in Unsent => pc[u] \in Unsent BY <1>1 DEF Unsent
  <2>5. \A u \in Turns : pc'[u] \in Unsent => sent'[u] = 0 BY <1>0, <2>4 DEF OrderInv
  <2>6. \A u \in Turns : Coming(u)' \/ Handling(u)' \/ Buffered(u)' => sent'[u] > 0
    BY <1>0, <1>5 DEF OrderInv
  <2> QED BY <1>2, <1>3, <2>2, <2>3, <2>5, <2>6 DEF OrderInv
<1>7. NoteInv'
  <2>1. \A u \in Turns : Waiting(u) => Waiting(u)' BY <1>1 DEF Waiting
  <2>2. \A u \in Turns : Coming(u)' \/ Handling(u)' \/ Delivering(u)' => Waiting(u)'
    BY <1>0, <1>5, <2>1 DEF NoteInv
  <2> QED BY <1>0, <1>2, <1>5, <2>2 DEF NoteInv
<1>8. QED BY <1>6, <1>7 DEF TalkInv

\* The read loop takes the first message.
LEMMA TalkRead ==
    ASSUME TypeOK, TalkInv, rd.at = "read", stdout # <<>>, stdout' = Tail(stdout),
           UNCHANGED <<pc, stdin, cur, sent, buf>>,
           \A t \in Turns : Handling(t)' => Head(stdout).k \in Notes /\ Head(stdout).t = t,
           \A t \in Turns : Coming(t)' \/ Handling(t)' \/ Delivering(t)' => Waiting(t)'
    PROVE  TalkInv'
<1>0. OrderInv /\ NoteInv BY DEF TalkInv
<1>i. InTurn \subseteq Turns /\ InTurn' = InTurn BY DEF InTurn
<1>1. /\ 1 \in DOMAIN stdout /\ Head(stdout) = stdout[1]
      /\ \A i \in DOMAIN stdout' : i \in Nat /\ i >= 1 /\ i + 1 \in DOMAIN stdout
                                   /\ stdout'[i] = stdout[i + 1]
  BY Pipes, Tailed
<1>2. \A t \in Turns : /\ Coming(t)' => Coming(t)
                       /\ Handling(t)' => Coming(t)
                       /\ Buffered(t)' <=> Buffered(t)
                       /\ Asked(t)' <=> Asked(t)
                       /\ Open(t)' <=> Open(t)
  BY <1>1 DEF Coming, Buffered, Asked, Open
<1>3. OrderInv'
  <2>1. \A t \in Turns : Coming(t)' \/ Handling(t)' \/ Buffered(t)' => sent'[t] > 0
    BY <1>0, <1>2 DEF OrderInv
  <2> QED BY <1>0, <1>i, <1>2, <2>1 DEF OrderInv
<1>4. NoteInv'
  <2>1. \A i, j \in DOMAIN stdout' :
            stdout'[i].k \in Answers /\ stdout'[j].k \in Notes /\ stdout'[j].t = stdout'[i].t => j < i
    <3> SUFFICES ASSUME NEW i \in DOMAIN stdout', NEW j \in DOMAIN stdout', stdout'[i].k \in Answers,
                        stdout'[j].k \in Notes, stdout'[j].t = stdout'[i].t
                 PROVE  j < i
      OBVIOUS
    <3>1. j + 1 < i + 1 BY <1>0, <1>1 DEF NoteInv
    <3> QED BY <1>1, <3>1
  <2>2. \A t \in InTurn' : \A i, j \in DOMAIN stdout' :
            stdout'[i].k \in Notes /\ stdout'[i].t = t /\ j > i /\ stdout'[j].k \in Notes
                => stdout'[j].t = t
    <3> SUFFICES ASSUME NEW t \in InTurn, NEW i \in DOMAIN stdout', NEW j \in DOMAIN stdout',
                        stdout'[i].k \in Notes, stdout'[i].t = t, j > i, stdout'[j].k \in Notes
                 PROVE  stdout'[j].t = t
      BY <1>i
    <3>1. j + 1 > i + 1 BY <1>1
    <3> QED BY <1>0, <1>1, <3>1 DEF NoteInv
  <2>3. \A t \in InTurn' : Handling(t)' => \A u \in Turns : u # t => ~(Coming(u)')
    <3> SUFFICES ASSUME NEW t \in InTurn, Handling(t)', NEW u \in Turns, NEW i \in DOMAIN stdout',
                        stdout'[i].k \in Notes, stdout'[i].t = u
                 PROVE  u = t
      BY <1>i DEF Coming
    <3>1. stdout[1].k \in Notes /\ stdout[1].t = t BY <1>1, <1>i
    <3>2. i + 1 > 1 BY <1>1
    <3> QED BY <1>0, <1>1, <3>1, <3>2 DEF NoteInv
  <2>4. \A t \in InTurn' : Buffered(t)' => \A u \in Turns : u # t => ~(Coming(u)') /\ ~(Handling(u)')
    BY <1>0, <1>2, <1>i DEF NoteInv
  <2> QED BY <2>1, <2>2, <2>3, <2>4 DEF NoteInv
<1>5. QED BY <1>3, <1>4 DEF TalkInv

\* The harness takes a line, answers or exits.
LEMMA TalkHarness ==
    ASSUME TypeOK, TalkInv, UNCHANGED <<clientVars, sent>>,
           stdin' = stdin \/ (stdin # <<>> /\ stdin' = Tail(stdin)),
           \/ cur' \in {cur, NoTurn}
           \/ stdin # <<>> /\ stdin' = Tail(stdin) /\ Head(stdin).k \in Requests
                           /\ cur' = Head(stdin).t,
           stdout' = stdout \/ \E m \in Messages : m.k \notin Notes /\ stdout' = Append(stdout, m)
    PROVE  TalkInv'
<1> USE DEF clientVars
<1>0. OrderInv /\ NoteInv BY DEF TalkInv
<1>i. InTurn \subseteq Turns /\ InTurn' = InTurn /\ NoTurn \notin InTurn BY DEF InTurn
<1>1. /\ DOMAIN stdout = 1 .. Len(stdout) /\ Len(stdout) \in Nat
      /\ \A i \in DOMAIN stdout' :
            \/ i \in DOMAIN stdout /\ stdout'[i] = stdout[i]
            \/ i = Len(stdout) + 1 /\ stdout'[i].k \notin Notes
  <2>1. CASE stdout' = stdout BY <2>1, Pipes
  <2>2. ASSUME NEW m \in Messages, m.k \notin Notes, stdout' = Append(stdout, m)
        PROVE  \A i \in DOMAIN stdout' :
                  \/ i \in DOMAIN stdout /\ stdout'[i] = stdout[i]
                  \/ i = Len(stdout) + 1 /\ stdout'[i].k \notin Notes
    BY <2>2, Pipes, Appended
  <2>3. DOMAIN stdout = 1 .. Len(stdout) /\ Len(stdout) \in Nat BY Pipes
  <2> QED BY <2>1, <2>2, <2>3
<1>2. \A t \in Turns : Coming(t)' => Coming(t) BY <1>1 DEF Coming
<1>3. \A t \in Turns : /\ Handling(t)' <=> Handling(t)
                       /\ Buffered(t)' <=> Buffered(t)
                       /\ Delivering(t)' <=> Delivering(t)
                       /\ Waiting(t)' <=> Waiting(t)
  BY DEF Handling, Buffered, Delivering, Waiting
<1>4. \A t \in Turns : Asked(t)' => Asked(t)
  <2>1. stdin # <<>> /\ stdin' = Tail(stdin) =>
            \A i \in DOMAIN stdin' : i + 1 \in DOMAIN stdin /\ stdin'[i] = stdin[i + 1]
    BY Pipes, Tailed
  <2> QED BY <2>1 DEF Asked
<1>5. OrderInv'
  <2>1. \A t \in InTurn' : \A i, j \in DOMAIN stdin' :
            stdin'[i].k \in Requests /\ stdin'[i].t = t /\ j > i => stdin'[j].k \notin Requests
    <3>1. CASE stdin' = stdin BY <1>0, <1>i, <3>1 DEF OrderInv
    <3>2. CASE stdin # <<>> /\ stdin' = Tail(stdin)
      <4>1. \A i \in DOMAIN stdin' : i \in Nat /\ i + 1 \in DOMAIN stdin /\ stdin'[i] = stdin[i + 1]
        BY <3>2, Pipes, Tailed
      <4>2. \A i, j \in DOMAIN stdin' : j > i => j + 1 > i + 1 BY <4>1
      <4> QED BY <1>0, <1>i, <4>1, <4>2 DEF OrderInv
    <3> QED BY <3>1, <3>2
  <2>2. \A t \in InTurn' : cur' = t => \A u \in Turns : ~(Asked(u)')
    <3>1. CASE cur' \in {cur, NoTurn} BY <1>0, <1>i, <1>4, <3>1 DEF OrderInv
    <3>2. CASE stdin # <<>> /\ stdin' = Tail(stdin) /\ Head(stdin).k \in Requests
                            /\ cur' = Head(stdin).t
      <4>1. /\ 1 \in DOMAIN stdin /\ Head(stdin) = stdin[1]
            /\ \A i \in DOMAIN stdin' : i \in Nat /\ i >= 1 /\ i + 1 \in DOMAIN stdin
                                        /\ stdin'[i] = stdin[i + 1]
        BY <3>2, Pipes, Tailed
      <4>2. \A i \in DOMAIN stdin' : i + 1 > 1 BY <4>1
      <4> QED BY <1>0, <1>i, <3>2, <4>1, <4>2 DEF OrderInv, Asked
    <3> QED BY <3>1, <3>2
  <2>3. \A t \in Turns : Open(t)' => Open(t)
    <3>1. CASE cur' \in {cur, NoTurn} BY <1>4, <3>1 DEF Open
    <3>2. CASE stdin # <<>> /\ Head(stdin).k \in Requests /\ cur' = Head(stdin).t
      BY <1>4, <3>2, Pipes, Tailed DEF Open, Asked
    <3> QED BY <3>1, <3>2
  <2>4. \A t \in Turns : Coming(t)' \/ Handling(t)' \/ Buffered(t)' => sent'[t] > 0
    BY <1>0, <1>2, <1>3 DEF OrderInv
  <2> QED BY <1>0, <1>i, <2>1, <2>2, <2>3, <2>4 DEF OrderInv
<1>6. NoteInv'
  <2>1. \A i, j \in DOMAIN stdout' :
            stdout'[i].k \in Answers /\ stdout'[j].k \in Notes /\ stdout'[j].t = stdout'[i].t => j < i
    BY <1>0, <1>1 DEF NoteInv
  <2>2. \A t \in InTurn' : \A i, j \in DOMAIN stdout' :
            stdout'[i].k \in Notes /\ stdout'[i].t = t /\ j > i /\ stdout'[j].k \in Notes
                => stdout'[j].t = t
    BY <1>0, <1>1, <1>i DEF NoteInv
  <2> QED BY <1>0, <1>2, <1>3, <1>i, <2>1, <2>2 DEF NoteInv
<1>7. QED BY <1>5, <1>6 DEF TalkInv

\* The harness sends an update of its turn, which still waits for its answer.
LEMMA TalkNotify ==
    ASSUME TypeOK, RequestInv, EofInv, AbandonInv, TalkInv, ~MayTrail, NEW t \in Turns,
           HarnessNotify(t)
    PROVE  TalkInv'
<1> USE DEF clientVars
<1>0. /\ OrderInv /\ NoteInv /\ sent \in [Turns -> Nat]
      /\ respCh \in [Turns -> {"empty", "result", "error", "closed"}]
  BY DEF TalkInv, TypeOK, HarnessTypes, WaitTypes
<1>i. InTurn \subseteq Turns /\ InTurn' = InTurn BY DEF InTurn, HarnessNotify
<1>1. /\ cur = t /\ ~dead /\ UNCHANGED <<clientVars, stdin, cur>>
      /\ sent' = [sent EXCEPT ![t] = sent[t] + 1]
  BY DEF HarnessNotify
<1>2. sent'[t] > 0 /\ sent'[t] \in Nat /\ \A u \in Turns : u # t => sent'[u] = sent[u] BY <1>0, <1>1
<1>3. PICK k \in Notes : stdout' = Append(stdout, Msg(k, t, sent'[t])) BY DEF HarnessNotify, Writes
<1> PICK m : m = Msg(k, t, sent'[t]) OBVIOUS
<1>4. m \in Messages /\ m.k \in Notes /\ m.t = t /\ m.k \notin Answers
  BY <1>2, MsgType DEF Msg, Answers
<1>5. /\ DOMAIN stdout = 1 .. Len(stdout) /\ Len(stdout) \in Nat
      /\ \A i \in DOMAIN stdout' : \/ i \in DOMAIN stdout /\ stdout'[i] = stdout[i]
                                   \/ i = Len(stdout) + 1 /\ stdout'[i] = m
  BY <1>3, <1>4, Pipes, Appended
<1>6. Open(t) /\ Unanswered(t) BY <1>1 DEF Open, RequestInv
<1>7. Waiting(t)
  <2>1. Abandoned(t) BY <1>1, <1>6 DEF AbandonInv
  <2>2. ~doneCh /\ respCh[t] # "closed" BY <1>1 DEF EofInv
  <2>3. respCh[t] = "empty" BY <1>0, <1>6, <2>2 DEF Unanswered, Answers
  <2> QED BY <2>1, <2>2, <2>3 DEF Abandoned, Waiting
<1>8. \A u \in InTurn : Coming(u) \/ Handling(u) \/ Buffered(u) => u = t
  BY <1>0, <1>6, <1>i DEF OrderInv
<1>9. \A u \in Turns : /\ Coming(u)' => Coming(u) \/ u = t
                       /\ Handling(u)' <=> Handling(u)
                       /\ Buffered(u)' <=> Buffered(u)
                       /\ Delivering(u)' <=> Delivering(u)
                       /\ Waiting(u)' <=> Waiting(u)
                       /\ Asked(u)' <=> Asked(u)
                       /\ Open(u)' <=> Open(u)
  BY <1>1, <1>4, <1>5 DEF Coming, Handling, Buffered, Delivering, Waiting, Asked, Open
<1>10. OrderInv'
  <2>1. \A u \in InTurn' : sent'[u] > 0 => \A v \in Turns : v # u => ~(Open(v)')
    <3>1. t \in InTurn => \A v \in Turns : v # t => ~Open(v) BY <1>0, <1>1 DEF OrderInv, Open
    <3> QED BY <1>0, <1>2, <1>9, <1>i, <3>1 DEF OrderInv
  <2>2. \A u \in Turns : pc'[u] \in Unsent => sent'[u] = 0
    BY <1>0, <1>1, <1>2, <1>6 DEF OrderInv, RequestInv
  <2>3. \A u \in Turns : Coming(u)' \/ Handling(u)' \/ Buffered(u)' => sent'[u] > 0
    BY <1>0, <1>2, <1>9 DEF OrderInv
  <2> QED BY <1>0, <1>1, <1>9, <1>i, <2>1, <2>2, <2>3 DEF OrderInv
<1>11. NoteInv'
  <2>1. \A u \in Turns : Coming(u)' \/ Handling(u)' \/ Delivering(u)' => Waiting(u)'
    BY <1>0, <1>7, <1>9 DEF NoteInv
  <2>2. \A i, j \in DOMAIN stdout' :
            stdout'[i].k \in Answers /\ stdout'[j].k \in Notes /\ stdout'[j].t = stdout'[i].t => j < i
    <3>1. \A i \in DOMAIN stdout : stdout[i].k \in Answers => stdout[i].t # t
      BY <1>6 DEF Unanswered, Answering
    <3> QED BY <1>0, <1>4, <1>5, <3>1 DEF NoteInv
  <2>3. \A u \in InTurn' : \A i, j \in DOMAIN stdout' :
            stdout'[i].k \in Notes /\ stdout'[i].t = u /\ j > i /\ stdout'[j].k \in Notes
                => stdout'[j].t = u
    <3> SUFFICES ASSUME NEW u \in InTurn, NEW i \in DOMAIN stdout', NEW j \in DOMAIN stdout',
                        stdout'[i].k \in Notes, stdout'[i].t = u, j > i, stdout'[j].k \in Notes
                 PROVE  stdout'[j].t = u
      BY <1>i
    <3>1. i \in DOMAIN stdout /\ stdout'[i] = stdout[i] BY <1>5
    <3>2. Coming(u) BY <3>1 DEF Coming
    <3> QED BY <1>0, <1>4, <1>5, <1>8, <3>1, <3>2 DEF NoteInv
  <2>4. \A u \in InTurn' : Handling(u)' => \A v \in Turns : v # u => ~(Coming(v)')
    BY <1>0, <1>8, <1>9, <1>i DEF NoteInv
  <2>5. \A u \in InTurn' : Buffered(u)' => \A v \in Turns : v # u => ~(Coming(v)') /\ ~(Handling(v)')
    BY <1>0, <1>8, <1>9, <1>i DEF NoteInv
  <2> QED BY <2>1, <2>2, <2>3, <2>4, <2>5 DEF NoteInv
<1>12. QED BY <1>10, <1>11 DEF TalkInv

LEMMA TalkHandler ==
    ASSUME IInv, RequestInv, TalkInv, NEW t \in Turns, HandlerStep(t)
    PROVE  TalkInv'
<1>0. /\ TypeOK /\ SlotInv /\ NoteInv
      /\ pc \in [Turns -> {"idle", "activate", "register", "write", "wait", "unwind", "deliver",
                           "clear", "report", "check", "end", "returned"}]
      /\ buf \in [Turns -> Seq(Messages)]
      /\ respCh \in [Turns -> {"empty", "result", "error", "closed"}]
  BY DEF TalkInv, IInv, TypeOK, HandlerTypes, BufTypes, WaitTypes
\* A handler leaves the select only with its caller gone or with what woke it.
<1>m. ASSUME NEW l \in {"activate", "register", "write", "unwind", "deliver", "clear", "report",
                        "check", "end", "returned"},
             pc' = [pc EXCEPT ![t] = l],
             l \in Unsent => pc[t] \in Unsent, pc[t] # "returned",
             pc[t] = "wait" => t \in ctxDone \/ doneCh \/ respCh[t] # "empty",
             \A u \in Turns : u # t => respCh'[u] = respCh[u],
             \A u \in Turns : buf'[u] \in {buf[u], <<>>},
             stdin' = stdin \/ \E e \in Lines : e.k \notin Requests /\ stdin' = Append(stdin, e),
             UNCHANGED <<ctxDone, doneCh, rd, rdText, stdout, cur, sent>>
      PROVE  TalkInv'
  <2>1. \A u \in Turns : pc'[u] = IF u = t THEN l ELSE pc[u] BY <1>0, <1>m
  <2>2. \A u \in Turns : pc'[u] \in Unsent => pc[u] \in Unsent BY <1>m, <2>1
  <2>3. \A u \in InTurn' : u \in InTurn \/ pc[u] = "idle" BY <1>m, <2>1 DEF InTurn
  <2>4. \A u \in Turns : Waiting(u) => Waiting(u)' BY <1>m, <2>1 DEF Waiting
  <2>5. \A u \in Turns : /\ Handling(u)' <=> Handling(u)
                         /\ Delivering(u)' <=> Delivering(u)
                         /\ Buffered(u)' => Buffered(u)
    BY <1>m DEF Handling, Delivering, Buffered
  <2>6. \A u \in Turns : Coming(u) \/ Handling(u)' \/ Delivering(u)' => Waiting(u)'
    BY <1>0, <2>4, <2>5 DEF NoteInv
  <2> QED BY <1>0, <1>m, <2>2, <2>3, <2>5, <2>6, TalkSame
<1>1. CASE BeginTurn(t) BY <1>0, <1>1, <1>m DEF BeginTurn, Unsent
<1>2. CASE RefuseTurn(t) BY <1>0, <1>2, <1>m DEF RefuseTurn, Unsent
<1>3. CASE ActivateTurn(t) BY <1>0, <1>3, <1>m DEF ActivateTurn, Unsent
<1>4. CASE Register(t) BY <1>0, <1>4, <1>m DEF Register, Unsent
<1>5. CASE WriteRequest(t)
  <2>1. CASE stdin' = Append(stdin, [k |-> kind[t], t |-> t]) /\ pc' = [pc EXCEPT ![t] = "wait"]
    BY <1>0, <1>5, <2>1, TalkRequest DEF WriteRequest
  <2>2. CASE dead /\ RequestOver(t, "failed") /\ UNCHANGED stdin
    BY <1>0, <1>5, <1>m, <2>2 DEF WriteRequest, RequestOver, Unsent
  <2> QED BY <1>5, <2>1, <2>2 DEF WriteRequest
<1>6. CASE WaitCtxDone(t) BY <1>0, <1>6, <1>m DEF WaitCtxDone, RequestOver, Unsent
<1>7. CASE WaitHarnessDied(t) BY <1>0, <1>7, <1>m DEF WaitHarnessDied, RequestOver, Unsent
<1>8. CASE WaitAnswered(t) BY <1>0, <1>8, <1>m DEF WaitAnswered, RequestOver, Unsent
<1>9. CASE CloseTurn(t) BY <1>0, <1>9, <1>m DEF CloseTurn, Unsent
<1>10. CASE DeliverFinal(t) BY <1>0, <1>10, <1>m DEF DeliverFinal, Unsent
<1>11. CASE ClearActive(t) BY <1>0, <1>11, <1>m DEF ClearActive, Unsent
<1>12. CASE SendReport(t) BY <1>0, <1>12, <1>m DEF SendReport, Unsent
<1>13. CASE CancelIfDone(t)
  <2> PICK e : e = [k |-> "cancel", t |-> t] OBVIOUS
  <2>1. e \in Lines /\ e.k \notin Requests BY DEF Lines, Requests
  <2>2. stdin' = stdin \/ stdin' = Append(stdin, e) BY <1>13 DEF CancelIfDone
  <2> QED BY <1>0, <1>13, <1>m, <2>1, <2>2 DEF CancelIfDone, Unsent
<1>14. CASE EndTurn(t) BY <1>0, <1>14, <1>m DEF EndTurn, Unsent
<1>15. QED
  BY <1>1, <1>2, <1>3, <1>4, <1>5, <1>6, <1>7, <1>8, <1>9, <1>10, <1>11, <1>12, <1>13, <1>14
  DEF HandlerStep

LEMMA TalkReader ==
    ASSUME TypeOK, RequestInv, EofInv, RefInv, TalkInv, ReaderStep
    PROVE  TalkInv'
<1> USE DEF ReadOn, Read, Idle, Active
<1>0. /\ OrderInv /\ NoteInv
      /\ rd \in [at : {"read", "text", "flush", "deliver", "reply", "refetch", "callback", "eof",
                       "done"}, item : Messages, ref : Turns \union {NoTurn}]
      /\ buf \in [Turns -> Seq(Messages)] /\ closed \in SUBSET Turns
      /\ respCh \in [Turns -> {"empty", "result", "error", "closed"}]
  BY DEF TalkInv, TypeOK, BufTypes, ReaderTypes, WaitTypes
\* A step between two messages.
<1>s. ASSUME stdin' = stdin \/ \E e \in Lines : e.k \notin Requests /\ stdin' = Append(stdin, e),
             UNCHANGED <<stdout, cur, sent, pc, ctxDone, respCh>>,
             \A t \in Turns : Coming(t) => ~doneCh',
             \A t \in Turns : Handling(t)' => Handling(t) /\ doneCh' = doneCh,
             \A t \in Turns : Delivering(t)' => Handling(t) /\ doneCh' = doneCh,
             \A t \in Turns : Buffered(t)' => \/ Buffered(t)
                                              \/ Handling(t) /\ \A u \in Turns : ~(Handling(u)')
      PROVE  TalkInv'
  <2>1. \A t \in Turns : Waiting(t) => Waiting(t)' \/ doneCh' # doneCh BY <1>s DEF Waiting
  <2>2. \A t \in Turns : Coming(t) => Waiting(t)' BY <1>0, <1>s DEF NoteInv, Waiting
  <2>3. \A t \in Turns : Coming(t) \/ Handling(t)' \/ Delivering(t)' => Waiting(t)'
    BY <1>0, <1>s, <2>1, <2>2 DEF NoteInv
  <2>4. InTurn' = InTurn BY <1>s DEF InTurn
  <2> QED BY <1>s, <2>3, <2>4, TalkSame
<1>d. \A t \in Turns : Coming(t) => ~doneCh BY DEF EofInv, Coming
<1>r. stdout # <<>> =>
          /\ 1 \in DOMAIN stdout /\ Head(stdout) = stdout[1]
          /\ \A i \in DOMAIN Tail(stdout) : i \in Nat /\ i >= 1 /\ i + 1 \in DOMAIN stdout
                                            /\ Tail(stdout)[i] = stdout[i + 1]
  BY Pipes, Tailed
<1>1. CASE HandleResponse
  <2> PICK h : h = Head(stdout) OBVIOUS
  <2>1. /\ rd.at = "read" /\ rd' = rd /\ stdout # <<>> /\ h.k \in Answers /\ stdout' = Tail(stdout)
        /\ UNCHANGED <<pc, stdin, cur, sent, buf, ctxDone, doneCh>>
        /\ \A t \in Turns : t # h.t => respCh'[t] = respCh[t]
    BY <1>0, <1>1 DEF HandleResponse, Answers
  <2>2. \A t \in Turns : ~(Handling(t)') /\ ~(Delivering(t)') BY <2>1 DEF Handling, Delivering
  <2>3. ASSUME NEW t \in Turns, Coming(t)' PROVE Waiting(t)'
    <3>1. PICK i \in DOMAIN stdout' : stdout'[i].k \in Notes /\ stdout'[i].t = t BY <2>3 DEF Coming
    <3>2. i + 1 \in DOMAIN stdout /\ stdout[i + 1].k \in Notes /\ stdout[i + 1].t = t /\ ~(i + 1 < 1)
      BY <1>r, <2>1, <3>1
    <3>3. h.t # t BY <1>0, <1>r, <2>1, <3>2 DEF NoteInv
    <3>4. Waiting(t) BY <1>0, <3>2 DEF NoteInv, Coming
    <3> QED BY <2>1, <3>3, <3>4 DEF Waiting
  <2> QED BY <2>1, <2>2, <2>3, TalkRead
<1>2. CASE ReadUpdate
  <2> PICK h : h = Head(stdout) OBVIOUS
  <2>1. /\ rd.at = "read" /\ stdout # <<>> /\ h.k \in Notes /\ stdout' = Tail(stdout)
        /\ UNCHANGED <<pc, stdin, cur, sent, buf, ctxDone, doneCh, respCh>>
        /\ rd'.at # "deliver" /\ (rd'.at \in Active => rd'.item = h)
    BY <1>2 DEF ReadUpdate, Boundary
  <2>2. \A t \in Turns : (Handling(t)' => h.t = t) /\ ~(Delivering(t)')
    BY <2>1 DEF Handling, Delivering
  <2>3. \A t \in Turns : Coming(t)' \/ Handling(t)' => Coming(t)
    BY <1>r, <2>1, <2>2 DEF Coming
  <2>4. \A t \in Turns : Coming(t) => Waiting(t)' BY <1>0, <2>1 DEF NoteInv, Waiting
  <2> QED BY <2>1, <2>2, <2>3, <2>4, TalkRead
<1>3. CASE AppendText
  <2> PICK m : m = rd.item OBVIOUS
  <2>1. /\ rd.at = "text" /\ rd'.at = "read" /\ m \in Messages /\ m.t \in Turns
        /\ UNCHANGED <<stdin, stdout, cur, sent, pc, ctxDone, respCh, doneCh>>
        /\ \A t \in Turns : buf'[t] \in {buf[t], Append(buf[t], m)}
    BY <1>0, <1>3 DEF AppendText, RefInv, Messages
  <2>2. Handling(m.t) BY <2>1 DEF Handling
  <2>3. \A u \in Turns : ~(Handling(u)') /\ ~(Delivering(u)') BY <2>1 DEF Handling, Delivering
  <2>4. ASSUME NEW t \in Turns, Buffered(t)' PROVE Buffered(t) \/ t = m.t
    <3>1. CASE buf'[t] = buf[t] BY <2>4, <3>1 DEF Buffered
    <3>2. CASE buf'[t] = Append(buf[t], m)
      <4>1. \A i \in DOMAIN buf'[t] : \/ i \in DOMAIN buf[t] /\ buf'[t][i] = buf[t][i]
                                      \/ buf'[t][i] = m
        <5>1. buf[t] \in Seq(Messages) BY <1>0
        <5> QED BY <2>1, <3>2, <5>1, Appended
      <4> QED BY <2>4, <4>1 DEF Buffered
    <3> QED BY <2>1, <3>1, <3>2
  <2> QED BY <1>d, <1>s, <2>1, <2>2, <2>3, <2>4
<1>4. CASE FlushTake
  <2>1. /\ rd.at = "flush" /\ rd.ref \in Turns /\ rd.item.t \in Turns
        /\ rd'.at \in {"deliver", "reply", "callback"} /\ rd'.item = rd.item /\ rd'.ref = rd.ref
        /\ UNCHANGED <<stdin, stdout, cur, sent, pc, ctxDone, respCh, doneCh>>
        /\ \A t \in Turns : buf'[t] \in {buf[t], <<>>}
        /\ rd'.at = "deliver" => rdText' = buf[rd.ref] /\ rd.ref \notin closed
    BY <1>0, <1>4 DEF FlushTake, AfterFlush, RefInv, Messages
  <2>2. \A t \in Turns : Handling(t)' <=> Handling(t) BY <2>1 DEF Handling
  <2>3. \A t \in Turns : Buffered(t)' => Buffered(t) BY <2>1 DEF Buffered
  <2>4. ASSUME NEW t \in Turns, Delivering(t)' PROVE Handling(t)
    <3>1. t = rd.ref /\ Buffered(t) /\ t \notin closed BY <2>1, <2>4 DEF Delivering, Buffered
    <3>2. t \in InTurn BY <1>0, <2>1, <3>1 DEF RefInv, InTurn, Prompted
    <3>3. Handling(rd.item.t) BY <2>1 DEF Handling
    <3> QED BY <1>0, <2>1, <3>1, <3>2, <3>3 DEF NoteInv
  <2> QED BY <1>d, <1>s, <2>1, <2>2, <2>3, <2>4
<1>5. CASE FlushDeliver \/ PermissionReply \/ PermissionRefetch \/ Callback
  <2>1. /\ rd.at \in Active /\ rd'.at \in {"reply", "refetch", "callback", "read"}
        /\ rd'.at # "read" => rd'.item = rd.item
        /\ UNCHANGED <<stdout, cur, sent, pc, ctxDone, respCh, doneCh, buf>>
    BY <1>5 DEF FlushDeliver, AfterFlush, PermissionReply, PermissionRefetch, Callback
  <2>2. stdin' = stdin \/ \E e \in Lines : e.k \notin Requests /\ stdin' = Append(stdin, e)
    BY <1>5 DEF FlushDeliver, PermissionReply, PermissionRefetch, Callback, Lines, Requests
  <2>3. \A t \in Turns : /\ Handling(t)' => Handling(t)
                         /\ ~(Delivering(t)')
                         /\ Buffered(t)' <=> Buffered(t)
    BY <2>1 DEF Handling, Delivering, Buffered
  <2> QED BY <1>d, <1>s, <2>1, <2>2, <2>3
<1>6. CASE ReadEof
  <2> PICK h : h = Head(stdout) OBVIOUS
  <2>1. /\ rd.at = "read" /\ rd'.at = "eof" /\ stdout # <<>> /\ h.k = "eof" /\ stdout' = Tail(stdout)
        /\ UNCHANGED <<pc, stdin, cur, sent, buf>>
    BY <1>6 DEF ReadEof
  <2>2. Len(stdout) = 1 BY <1>r, <2>1 DEF EofInv
  <2>3. DOMAIN stdout' = {} BY <2>1, <2>2, Pipes
  <2>4. \A t \in Turns : ~(Handling(t)') /\ ~(Delivering(t)') /\ ~(Coming(t)')
    BY <2>1, <2>3 DEF Handling, Delivering, Coming
  <2> QED BY <2>1, <2>4, TalkRead
<1>7. CASE CloseDone
  <2>1. /\ rd.at = "eof" /\ rd'.at = "done"
        /\ UNCHANGED <<stdin, stdout, cur, sent, pc, ctxDone, respCh, buf>>
    BY <1>7 DEF CloseDone
  <2>2. stdout = <<>> BY <2>1 DEF EofInv, Closing
  <2>3. \A t \in Turns : /\ ~(Handling(t)') /\ ~(Delivering(t)') /\ ~Coming(t)
                         /\ Buffered(t)' <=> Buffered(t)
    BY <2>1, <2>2 DEF Handling, Delivering, Coming, Buffered
  <2> QED BY <1>s, <2>1, <2>3
<1>8. QED BY <1>1, <1>2, <1>3, <1>4, <1>5, <1>6, <1>7 DEF ReaderStep

LEMMA TalkHarnessStep ==
    ASSUME TypeOK, PipeInv, TalkInv, ~MayTrail, HarnessStep
    PROVE  TalkInv'
<1>1. CASE HarnessPrompt
  <2> PICK m : m = Msg("error", Head(stdin).t, 0) OBVIOUS
  <2>1. Head(stdin).t \in Turns BY <1>1, Pipes, Tailed DEF HarnessPrompt, Reads, Lines
  <2>2. m \in Messages /\ m.k \notin Notes BY <2>1, MsgType DEF Msg
  <2> QED BY <1>1, <2>2, TalkHarness DEF HarnessPrompt, Reads, Writes, Requests
<1>2. CASE HarnessModel
  <2>1. Head(stdin).t \in Turns BY <1>2, Pipes, Tailed DEF HarnessModel, Reads, Lines
  <2>2. PICK k \in Answers : Writes(Msg(k, Head(stdin).t, 0)) BY <1>2 DEF HarnessModel, Answers
  <2> PICK m : m = Msg(k, Head(stdin).t, 0) OBVIOUS
  <2>3. m \in Messages /\ m.k \notin Notes BY <2>1, MsgType DEF Msg, Answers
  <2> QED BY <1>2, <2>2, <2>3, TalkHarness DEF HarnessModel, Reads, Writes
<1>3. CASE HarnessCancel \/ HarnessReply
  BY <1>3, TalkHarness DEF HarnessCancel, HarnessReply, Reads
<1>4. ASSUME NEW t \in Turns, HarnessNotify(t) PROVE TalkInv'
  BY <1>4, TalkNotify DEF PipeInv
<1>5. CASE HarnessAnswer
  <2>1. cur \in Turns BY <1>5 DEF HarnessAnswer, TypeOK, HarnessTypes
  <2>2. PICK k \in Answers : Writes(Msg(k, cur, 0)) BY <1>5 DEF HarnessAnswer, Answers
  <2> PICK m : m = Msg(k, cur, 0) OBVIOUS
  <2>3. m \in Messages /\ m.k \notin Notes BY <2>1, MsgType DEF Msg, Answers
  <2> QED BY <1>5, <2>2, <2>3, TalkHarness DEF HarnessAnswer, Writes
<1>6. CASE HarnessExit
  <2>1. Eof \in Messages /\ Eof.k \notin Notes BY MsgType DEF Eof, Msg
  <2> QED BY <1>6, <2>1, TalkHarness DEF HarnessExit, Writes
<1>7. QED BY <1>1, <1>2, <1>3, <1>4, <1>5, <1>6 DEF HarnessStep, HarnessReads

LEMMA TalkInit == Init => TalkInv
<1> SUFFICES ASSUME Init PROVE TalkInv OBVIOUS
<1>1. /\ DOMAIN stdin = {} /\ DOMAIN stdout = {} /\ rd.at = "read" /\ InTurn = {}
      /\ \A t \in Turns : sent[t] = 0 /\ DOMAIN buf[t] = {}
  BY DEF Init, Idle, InTurn
<1>2. \A t \in Turns : ~Coming(t) /\ ~Handling(t) /\ ~Buffered(t) /\ ~Delivering(t)
  BY <1>1 DEF Coming, Handling, Buffered, Delivering, Active
<1>3. QED BY <1>1, <1>2 DEF TalkInv, OrderInv, NoteInv

LEMMA TalkNext ==
    ASSUME IInv, PipeInv, RefInv, TalkInv, ~MayTrail, [Next]_vars
    PROVE  TalkInv'
<1>0. TypeOK /\ RequestInv /\ EofInv /\ OrderInv /\ NoteInv BY DEF IInv, PipeInv, TalkInv
<1>1. ASSUME NEW t \in Turns, HandlerStep(t) PROVE TalkInv' BY <1>0, <1>1, TalkHandler
<1>2. CASE ReaderStep BY <1>0, <1>2, TalkReader
<1>3. CASE HarnessStep BY <1>0, <1>3, TalkHarnessStep
<1>4. CASE (\E t \in Turns : CallerGone(t)) \/ UNCHANGED vars
  <2>1. /\ ctxDone \subseteq ctxDone'
        /\ UNCHANGED <<stdin, stdout, cur, sent, pc, respCh, doneCh, rd, rdText, buf>>
    BY <1>4 DEF CallerGone, vars
  <2>2. \A t \in Turns : /\ Handling(t)' <=> Handling(t)
                         /\ Delivering(t)' <=> Delivering(t)
                         /\ Buffered(t)' <=> Buffered(t)
                         /\ Waiting(t) => Waiting(t)'
    BY <2>1 DEF Handling, Delivering, Buffered, Waiting
  <2>3. InTurn' = InTurn BY <2>1 DEF InTurn
  <2> QED BY <1>0, <2>1, <2>2, <2>3, TalkSame DEF NoteInv
<1>5. QED BY <1>1, <1>2, <1>3, <1>4 DEF Next, Quiescent

\* The stream of a turn RPC has one sender at a time and none after its handler
\* has returned, unless its caller is gone, whenever the harness sends nothing for
\* a turn after its answer: neither the read loop nor the text buffer still holds
\* an update of a turn whose handler has left the select (acp/client.go:72-82,
\* 229-256, 924, d112/server.go:125-158). MayTrail is what it rests on.
THEOREM OneSenderHolds ==
    ASSUME ~MayTrail
    PROVE  Spec => []OneSender
<1> DEFINE TInv == IInv /\ PipeInv /\ RefInv /\ TalkInv
<1>1. Init => TInv BY InitIInv, PipeInit, RefInit, TalkInit
<1>2. TInv /\ [Next]_vars => TInv' BY NextIInv, PipeNext, RefNext, TalkNext
<1>3. TInv => OneSender
  <2> SUFFICES ASSUME TInv,
                      rd.at \in {"deliver", "callback"},
                      \/ pc[rd.ref] \in {"report", "check", "end", "returned"}
                      \/ rd.at = "callback" /\ pc[rd.ref] = "deliver",
                      rd.ref \notin ctxDone
               PROVE  rd.item.t # rd.ref /\ \A i \in 1..Len(rdText) : rdText[i].t # rd.ref
    BY DEF OneSender
  <2>1. rd.ref \in Turns /\ rdText \in Seq(Messages) /\ (rd.at = "callback" => rdText = <<>>)
    BY DEF IInv, TypeOK, ReaderTypes, RefInv
  <2>2. ~Handling(rd.ref) /\ ~Delivering(rd.ref)
    BY <2>1 DEF TalkInv, NoteInv, Waiting
  <2> QED BY <2>1, <2>2 DEF Handling, Delivering, Active
<1>4. QED BY <1>1, <1>2, <1>3, PTL DEF Spec

--------------------------------------------------------------------------------
(***************************************************************************)
(* What a turn's stream gets, while its caller is there: the messages of   *)
(* the harness, numbered in the order it sent them, go through stdout, the *)
(* read loop, the text buffer, and the text that one of the two goroutines *)
(* took from it.  They never overtake one another.                         *)
(***************************************************************************)
InPrompt == {"register", "write", "wait", "unwind", "deliver", "clear"}
Kept(t) == kind[t] = "prompt" /\ t \notin ctxDone

\* A turn in its Prompt is the active one, and is closed only by its handler; the text
\* the handler took is delivered next. What the read loop handles of a turn whose
\* caller is there was captured for that turn, and leaves its buffer empty behind it.
LiveInv ==
    /\ \A t \in Turns : kind[t] = "prompt" /\ pc[t] \in InPrompt => activeTurn = t
    /\ \A t \in closed : pc[t] \in {"deliver", "clear", "report", "check", "end", "returned"}
    /\ \A t \in Turns : held[t] # <<>> => pc[t] = "deliver"
    /\ \A t \in Turns : Kept(t) /\ Handling(t) =>
          rd.ref = t /\ (rd.at \in {"deliver", "reply", "refetch", "callback"} => buf[t] = <<>>)

LEMMA OnTheWay ==
    ASSUME TypeOK, TalkInv, LiveInv, NEW t \in Turns, Kept(t),
           Handling(t) \/ Coming(t) \/ Delivering(t)
    PROVE  pc[t] = "wait" /\ activeTurn = t /\ t \notin closed /\ held[t] = <<>>
<1>1. pc[t] = "wait" BY DEF TalkInv, NoteInv, Waiting, Kept
<1>2. QED BY <1>1 DEF LiveInv, Kept, InPrompt

LEMMA LiveInit == Init => LiveInv
<1> SUFFICES ASSUME Init PROVE LiveInv OBVIOUS
<1>1. /\ closed = {} /\ rd.at = "read" /\ \A t \in Turns : pc[t] = "idle" /\ held[t] = <<>>
  BY DEF Init, Idle
<1>2. QED BY <1>1 DEF LiveInv, Handling, Active, InPrompt

LEMMA LiveHandler ==
    ASSUME IInv, LiveInv, NEW t \in Turns, HandlerStep(t)
    PROVE  LiveInv'
<1> USE DEF InPrompt
<1>0. /\ SlotInv
      /\ pc \in [Turns -> {"idle", "activate", "register", "write", "wait", "unwind", "deliver",
                           "clear", "report", "check", "end", "returned"}]
      /\ buf \in [Turns -> Seq(Messages)] /\ held \in [Turns -> Seq(Messages)]
      /\ kind \in [Turns -> {"prompt", "model"}] /\ closed \in SUBSET Turns
  BY DEF IInv, TypeOK, HandlerTypes, BufTypes
<1>u. \A u \in Turns : pc[u] \notin {"idle", "returned"} /\ pc[t] \notin {"idle", "returned"} => u = t
  BY <1>0 DEF SlotInv, InTurn
\* A move that touches neither the active turn nor the buffers.
<1>m. ASSUME NEW l \in {"activate", "register", "write", "wait", "unwind", "report", "check",
                        "end", "returned"},
             pc' = [pc EXCEPT ![t] = l], pc[t] \notin {"deliver", "clear", "returned"},
             UNCHANGED <<rd, closed, buf, held, kind, activeTurn, ctxDone>>,
             kind[t] = "prompt" /\ l \in InPrompt => pc[t] \in InPrompt,
             pc[t] \in {"report", "check", "end"} => l \in {"check", "end", "returned"}
      PROVE  LiveInv'
  <2>1. \A u \in Turns : pc'[u] = IF u = t THEN l ELSE pc[u] BY <1>0, <1>m
  <2>2. \A u \in Turns : kind[u] = "prompt" /\ pc'[u] \in InPrompt => activeTurn = u
    BY <1>m, <2>1 DEF LiveInv
  <2>3. t \in closed => l \in {"check", "end", "returned", "report"}
    BY <1>0, <1>m DEF LiveInv
  <2>4. \A u \in closed : pc'[u] \in {"deliver", "clear", "report", "check", "end", "returned"}
    BY <2>1, <2>3, <1>0, <1>m DEF LiveInv
  <2>5. \A u \in Turns : held[u] # <<>> => pc'[u] = "deliver" BY <1>m, <2>1 DEF LiveInv
  <2> QED BY <1>m, <2>2, <2>4, <2>5 DEF LiveInv, Kept, Handling
<1>1. CASE BeginTurn(t) BY <1>m, <1>1 DEF BeginTurn
<1>2. CASE RefuseTurn(t) BY <1>m, <1>2 DEF RefuseTurn
<1>3. CASE ActivateTurn(t)
  <2>1. /\ \A u \in Turns : pc'[u] = IF u = t THEN "register" ELSE pc[u]
        /\ pc[t] = "activate" /\ activeTurn' = t
        /\ UNCHANGED <<rd, closed, buf, held, kind, ctxDone>>
    BY <1>0, <1>3 DEF ActivateTurn
  <2>2. t \notin closed BY <2>1 DEF LiveInv
  <2>3. \A u \in Turns : kind[u] = "prompt" /\ pc'[u] \in InPrompt => u = t BY <1>u, <2>1
  <2> QED BY <1>0, <2>1, <2>2, <2>3 DEF LiveInv, Kept, Handling
<1>4. CASE Register(t) BY <1>m, <1>4 DEF Register
<1>5. CASE WriteRequest(t) BY <1>m, <1>5 DEF WriteRequest, RequestOver
<1>6. CASE WaitCtxDone(t) BY <1>m, <1>6 DEF WaitCtxDone, RequestOver
<1>7. CASE WaitHarnessDied(t) BY <1>m, <1>7 DEF WaitHarnessDied, RequestOver
<1>8. CASE WaitAnswered(t) BY <1>m, <1>8 DEF WaitAnswered, RequestOver
<1>9. CASE CloseTurn(t)
  <2>1. /\ pc[t] = "unwind" /\ closed' = closed \union {t}
        /\ \A u \in Turns : u # t => pc'[u] = pc[u] /\ buf'[u] = buf[u] /\ held'[u] = held[u]
        /\ buf'[t] = <<>> /\ held'[t] = buf[t]
        /\ pc'[t] = IF buf[t] = <<>> THEN "clear" ELSE "deliver"
        /\ UNCHANGED <<rd, kind, ctxDone, activeTurn>>
    BY <1>0, <1>9 DEF CloseTurn
  <2>2. \A u \in Turns : buf'[u] = buf[u] \/ buf'[u] = <<>> BY <2>1
  <2>3. \A u \in Turns : kind[u] = "prompt" /\ pc'[u] \in InPrompt => activeTurn = u
    BY <1>0, <2>1 DEF LiveInv
  <2>4. \A u \in closed' : pc'[u] \in {"deliver", "clear", "report", "check", "end", "returned"}
    BY <1>0, <2>1 DEF LiveInv
  <2>5. \A u \in Turns : held'[u] # <<>> => pc'[u] = "deliver" BY <2>1 DEF LiveInv
  <2> QED BY <2>1, <2>2, <2>3, <2>4, <2>5 DEF LiveInv, Kept, Handling
<1>10. CASE DeliverFinal(t)
  <2>1. /\ pc[t] = "deliver"
        /\ \A u \in Turns : u # t => pc'[u] = pc[u] /\ held'[u] = held[u]
        /\ held'[t] = <<>> /\ pc'[t] = "clear"
        /\ UNCHANGED <<rd, kind, ctxDone, activeTurn, closed, buf>>
    BY <1>0, <1>10 DEF DeliverFinal
  <2> QED BY <1>0, <2>1 DEF LiveInv, Kept, Handling
<1>11. CASE ClearActive(t)
  <2>1. /\ pc[t] = "clear"
        /\ \A u \in Turns : u # t => pc'[u] = pc[u]
        /\ pc'[t] \in {"report", "check"}
        /\ UNCHANGED <<rd, kind, ctxDone, closed, buf, held>>
    BY <1>0, <1>11 DEF ClearActive
  <2>2. \A u \in Turns : ~(pc'[u] \in InPrompt) BY <1>u, <2>1
  <2> QED BY <1>0, <2>1, <2>2 DEF LiveInv, Kept, Handling
<1>12. CASE SendReport(t) BY <1>m, <1>12 DEF SendReport
<1>13. CASE CancelIfDone(t) BY <1>m, <1>13 DEF CancelIfDone
<1>14. CASE EndTurn(t) BY <1>m, <1>14 DEF EndTurn
<1>15. QED BY <1>1, <1>2, <1>3, <1>4, <1>5, <1>6, <1>7, <1>8, <1>9, <1>10, <1>11, <1>12, <1>13,
             <1>14 DEF HandlerStep

LEMMA LiveNext ==
    ASSUME IInv, RefInv, TalkInv, LiveInv, [Next]_vars
    PROVE  LiveInv'
<1> USE DEF ReadOn, Read, Idle, Active
<1>0. /\ TypeOK
      /\ rd \in [at : {"read", "text", "flush", "deliver", "reply", "refetch", "callback", "eof",
                       "done"}, item : Messages, ref : Turns \union {NoTurn}]
      /\ buf \in [Turns -> Seq(Messages)] /\ stdout \in Seq(Messages)
  BY DEF IInv, TypeOK, BufTypes, ReaderTypes, PipeTypes
<1>1. ASSUME NEW t \in Turns, HandlerStep(t) PROVE LiveInv' BY <1>1, LiveHandler
\* Steps of the others, which leave the handlers and activeTurn alone.
<1>r. ASSUME UNCHANGED <<kind, pc, activeTurn, closed, held>>, ctxDone \subseteq ctxDone',
             \A t \in Turns : Kept(t) /\ Handling(t)' =>
                rd'.ref = t /\ (rd'.at \in {"deliver", "reply", "refetch", "callback"}
                                => buf'[t] = <<>>)
      PROVE  LiveInv'
  BY <1>r DEF LiveInv, Kept
<1>s. ASSUME UNCHANGED <<kind, pc, activeTurn, closed, held, rd, buf>>, ctxDone \subseteq ctxDone'
      PROVE  LiveInv'
  BY <1>s DEF LiveInv, Kept, Handling
<1>w. \A t \in Turns : Kept(t) /\ Handling(t) =>
          /\ pc[t] = "wait" /\ activeTurn = t /\ t \notin closed /\ rd.ref = t
          /\ rd.at \in {"deliver", "reply", "refetch", "callback"} => buf[t] = <<>>
  BY <1>0, OnTheWay DEF LiveInv
<1>2. CASE HandleResponse BY <1>2, <1>s DEF HandleResponse
<1>3. CASE ReadUpdate
  <2>1. /\ UNCHANGED <<kind, pc, activeTurn, closed, held, ctxDone, buf>>
        /\ stdout # <<>> /\ Head(stdout).k \in Notes
        /\ rd' = IF activeTurn # NoTurn
                 THEN [at |-> Boundary(Head(stdout).k), item |-> Head(stdout), ref |-> activeTurn]
                 ELSE IF Head(stdout).k = "ask"
                 THEN [at |-> "reply", item |-> Head(stdout), ref |-> NoTurn] ELSE Idle
    BY <1>3 DEF ReadUpdate
  <2>2. Head(stdout) = stdout[1] /\ 1 \in DOMAIN stdout BY <1>0, <2>1, Tailed
  <2>3. ASSUME NEW t \in Turns, Kept(t), Handling(t)'
        PROVE  rd'.ref = t /\ rd'.at \notin {"deliver", "reply", "refetch", "callback"}
    <3>1. rd'.item.t = t /\ rd'.at \in Active BY <2>3 DEF Handling
    <3>2. Head(stdout).t = t BY <2>1, <3>1
    <3>3. Coming(t) BY <2>1, <2>2, <3>2 DEF Coming
    <3>4. activeTurn = t BY <1>0, <2>3, <3>3, OnTheWay
    <3> QED BY <2>1, <3>4 DEF Boundary
  <2> QED BY <1>r, <2>1, <2>3
<1>4. CASE AppendText BY <1>4, <1>r DEF AppendText, Handling
<1>5. CASE FlushTake
  <2>1. /\ UNCHANGED <<kind, pc, activeTurn, closed, held, ctxDone>>
        /\ rd.at = "flush" /\ rd'.item = rd.item /\ rd'.ref = rd.ref
        /\ rd.ref \in Turns /\ rd.ref \notin closed => buf'[rd.ref] = <<>>
    BY <1>0, <1>5 DEF FlushTake
  <2>2. ASSUME NEW t \in Turns, Kept(t), Handling(t)' PROVE rd'.ref = t /\ buf'[t] = <<>>
    <3>1. Handling(t) BY <2>1, <2>2 DEF Handling
    <3> QED BY <1>w, <2>1, <2>2, <3>1
  <2> QED BY <1>r, <2>1, <2>2
<1>6. CASE FlushDeliver \/ PermissionReply
  <2>1. /\ UNCHANGED <<kind, pc, activeTurn, closed, held, ctxDone, buf>>
        /\ rd.at \in {"deliver", "reply"} /\ rd'.item = rd.item /\ rd'.ref = rd.ref
    BY <1>6 DEF FlushDeliver, PermissionReply
  <2>2. \A t \in Turns : Handling(t)' => Handling(t) BY <2>1 DEF Handling
  <2> QED BY <1>r, <1>w, <2>1, <2>2
<1>7. CASE PermissionRefetch
  <2>1. /\ UNCHANGED <<kind, pc, activeTurn, closed, held, ctxDone, buf>>
        /\ rd.at = "refetch"
        /\ rd' = IF activeTurn = NoTurn THEN Idle
                 ELSE [at |-> "callback", item |-> rd.item, ref |-> activeTurn]
    BY <1>7 DEF PermissionRefetch
  <2>2. \A t \in Turns : Handling(t)' => Handling(t) /\ rd'.ref = activeTurn BY <2>1 DEF Handling
  <2> QED BY <1>r, <1>w, <2>1, <2>2
<1>8. CASE Callback BY <1>8, <1>r DEF Callback, Handling
<1>9. CASE ReadEof BY <1>9, <1>r DEF ReadEof, Handling
<1>10. CASE CloseDone BY <1>10, <1>r DEF CloseDone, Handling
<1>11. CASE HarnessStep
  BY <1>11, <1>s DEF HarnessStep, HarnessReads, HarnessPrompt, HarnessModel, HarnessCancel,
     HarnessReply, HarnessNotify, HarnessAnswer, HarnessExit, clientVars
<1>12. CASE (\E t \in Turns : CallerGone(t)) \/ UNCHANGED vars
  BY <1>12, <1>s DEF CallerGone, vars
<1>13. QED
  BY <1>1, <1>2, <1>3, <1>4, <1>5, <1>6, <1>7, <1>8, <1>9, <1>10, <1>11, <1>12
  DEF Next, ReaderStep, Quiescent

LEMMA Joined ==
    ASSUME NEW S, NEW s \in Seq(S), NEW r \in Seq(S)
    PROVE  /\ s \o r \in Seq(S) /\ Len(s) \in Nat /\ Len(r) \in Nat
           /\ DOMAIN s = 1 .. Len(s) /\ DOMAIN r = 1 .. Len(r)
           /\ DOMAIN (s \o r) = 1 .. Len(s) + Len(r)
           /\ \A i \in DOMAIN s : (s \o r)[i] = s[i]
           /\ \A j \in DOMAIN r : Len(s) + j \in DOMAIN (s \o r) /\ (s \o r)[Len(s) + j] = r[j]
           /\ \A i \in DOMAIN (s \o r) : i \in DOMAIN s \/ (i - Len(s) \in DOMAIN r
                                                           /\ (s \o r)[i] = r[i - Len(s)])
OBVIOUS

\* Messages of the given turns only.
Only(s, T) == \A i \in DOMAIN s : s[i].t \in T

LEMMA OnlyMore ==
    ASSUME NEW T, NEW s \in Seq(Messages), Only(s, T)
    PROVE  /\ Only(<<>>, T)
           /\ \A m \in Messages : m.t \in T => Only(Append(s, m), T)
           /\ \A r \in Seq(Messages) : Only(r, T) => Only(s \o r, T)
           /\ \A U : T \subseteq U => Only(s, U)
<1>1. ASSUME NEW m \in Messages, m.t \in T PROVE Only(Append(s, m), T)
  BY <1>1, Appended DEF Only
<1>2. ASSUME NEW r \in Seq(Messages), Only(r, T) PROVE Only(s \o r, T)
  <2> DEFINE all == s \o r
  <2>1. \A i \in DOMAIN all : \/ i \in DOMAIN s /\ all[i] = s[i]
                              \/ i - Len(s) \in DOMAIN r /\ all[i] = r[i - Len(s)]
    BY Joined
  <2> HIDE DEF all
  <2>2. \A i \in DOMAIN all : all[i].t \in T BY <1>2, <2>1 DEF Only
  <2> QED BY <2>2 DEF Only, all
<1>3. QED BY <1>1, <1>2 DEF Only

\* What goes or will go to a turn's stream is the turn's own, or of turns whose caller
\* has gone.
Meant(t) == {t} \union ctxDone
ForeignInv ==
    /\ \A t \in Turns : Only(out[t], Meant(t)) /\ Only(held[t], Meant(t)) /\ Only(buf[t], Meant(t))
    /\ Only(rdText, Meant(rd.ref))
    /\ rd.at \in Active /\ rd.ref # NoTurn => rd.item.t \in Meant(rd.ref)

LEMMA ForeignInit == Init => ForeignInv
<1> SUFFICES ASSUME Init PROVE ForeignInv OBVIOUS
<1>1. /\ rdText = <<>> /\ rd.at = "read"
      /\ \A t \in Turns : out[t] = <<>> /\ held[t] = <<>> /\ buf[t] = <<>>
  BY DEF Init, Idle
<1>2. QED BY <1>1 DEF ForeignInv, Only, Active

LEMMA ForeignNext ==
    ASSUME IInv, RefInv, TalkInv, ForeignInv, [Next]_vars
    PROVE  ForeignInv'
<1> USE DEF ReadOn, Read, Idle, Active
<1>0. /\ TypeOK /\ SlotInv
      /\ rd \in [at : {"read", "text", "flush", "deliver", "reply", "refetch", "callback", "eof",
                       "done"}, item : Messages, ref : Turns \union {NoTurn}]
      /\ rdText \in Seq(Messages) /\ stdout \in Seq(Messages)
      /\ buf \in [Turns -> Seq(Messages)] /\ held \in [Turns -> Seq(Messages)]
      /\ out \in [Turns -> Seq(Messages)] /\ activeTurn \in Turns \union {NoTurn}
      /\ \A i \in DOMAIN stdout : stdout[i] \in Messages
  BY DEF IInv, TypeOK, BufTypes, ReaderTypes, PipeTypes
<1>c. ctxDone \subseteq ctxDone'
  BY DEF Next, CallerGone, HandlerStep, BeginTurn, RefuseTurn, ActivateTurn, Register, WriteRequest,
     WaitCtxDone, WaitHarnessDied, WaitAnswered, CloseTurn, DeliverFinal, ClearActive, SendReport,
     CancelIfDone, EndTurn, ReaderStep, HandleResponse, ReadUpdate, AppendText, FlushTake,
     FlushDeliver, PermissionReply, PermissionRefetch, Callback, ReadEof, CloseDone, HarnessStep,
     HarnessReads, HarnessPrompt, HarnessModel, HarnessCancel, HarnessReply, HarnessNotify,
     HarnessAnswer, HarnessExit, clientVars, Quiescent, vars
<1>e. \A T : Only(<<>>, T) BY DEF Only
\* Each sequence is one there was, or grows by what is meant for it.
<1>q. ASSUME \A t \in Turns : Only(out'[t], Meant(t)) /\ Only(held'[t], Meant(t))
                              /\ Only(buf'[t], Meant(t)),
             rdText' = <<>> \/ Only(rdText', Meant(rd'.ref)),
             rd'.at \in Active /\ rd'.ref # NoTurn => rd'.item.t \in Meant(rd'.ref)
      PROVE  ForeignInv'
  BY <1>c, <1>q DEF ForeignInv, Only, Meant
<1>s. ASSUME UNCHANGED <<out, held, buf, rd, rdText>> PROVE ForeignInv'
  BY <1>q, <1>s DEF ForeignInv
<1>1. ASSUME NEW t \in Turns, HandlerStep(t) PROVE ForeignInv'
  <2>1. CASE CloseTurn(t)
    <3>1. /\ UNCHANGED <<out, rd, rdText>>
          /\ \A u \in Turns : u # t => held'[u] = held[u] /\ buf'[u] = buf[u]
          /\ held'[t] = buf[t] /\ buf'[t] = <<>>
      BY <1>0, <2>1 DEF CloseTurn
    <3> QED BY <1>e, <1>q, <3>1 DEF ForeignInv
  <2>2. CASE DeliverFinal(t)
    <3>1. /\ UNCHANGED <<buf, rd, rdText>>
          /\ \A u \in Turns : u # t => held'[u] = held[u] /\ out'[u] = out[u]
          /\ held'[t] = <<>> /\ out'[t] \in {out[t], out[t] \o held[t]}
      BY <1>0, <2>2 DEF DeliverFinal
    <3>2. Only(out[t] \o held[t], Meant(t)) BY <1>0, OnlyMore DEF ForeignInv
    <3> QED BY <1>e, <1>q, <3>1, <3>2 DEF ForeignInv
  <2>3. CASE SendReport(t)
    <3> PICK m : m = Msg("report", t, 0) OBVIOUS
    <3>1. m \in Messages /\ m.t = t BY MsgType DEF Msg
    <3>2. /\ UNCHANGED <<held, buf, rd, rdText>>
          /\ \A u \in Turns : u # t => out'[u] = out[u]
          /\ out'[t] \in {out[t], Append(out[t], m)}
      BY <1>0, <2>3 DEF SendReport
    <3>3. Only(Append(out[t], m), Meant(t)) BY <1>0, <3>1, OnlyMore DEF ForeignInv, Meant
    <3> QED BY <1>q, <3>2, <3>3 DEF ForeignInv
  <2>4. CASE ~(CloseTurn(t) \/ DeliverFinal(t) \/ SendReport(t))
    BY <1>1, <1>s, <2>4 DEF HandlerStep, BeginTurn, RefuseTurn, ActivateTurn, Register, WriteRequest,
       WaitCtxDone, WaitHarnessDied, WaitAnswered, ClearActive, CancelIfDone, EndTurn
  <2> QED BY <2>1, <2>2, <2>3, <2>4
\* What the read loop handles is the active turn's, or of turns whose caller has gone.
<1>a. ASSUME NEW u \in Turns, Coming(u) \/ Handling(u), activeTurn # NoTurn
      PROVE  u \in Meant(activeTurn)
  <2>1. u \in ctxDone \/ pc[u] = "wait" BY <1>a DEF TalkInv, NoteInv, Waiting
  <2>2. pc[u] = "wait" => u = activeTurn BY <1>0, <1>a DEF SlotInv, InTurn
  <2> QED BY <2>1, <2>2 DEF Meant
<1>2. CASE HandleResponse BY <1>2, <1>s DEF HandleResponse
<1>3. CASE ReadUpdate
  <2>1. /\ UNCHANGED <<out, held, buf, rdText>>
        /\ stdout # <<>> /\ Head(stdout).k \in Notes /\ rd.at = "read"
        /\ rd'.ref # NoTurn => activeTurn # NoTurn /\ rd'.ref = activeTurn /\ rd'.item = Head(stdout)
    BY <1>3 DEF ReadUpdate
  <2>2. Head(stdout) = stdout[1] /\ 1 \in DOMAIN stdout BY <1>0, <2>1, Tailed
  <2> DEFINE u == Head(stdout).t
  <2>3. u \in Turns BY <1>0, <2>1, <2>2 DEF RefInv, Messages
  <2>4. Coming(u) BY <2>1, <2>2 DEF Coming
  <2>5. rd'.ref # NoTurn => rd'.item.t \in Meant(rd'.ref) BY <1>a, <2>1, <2>3, <2>4
  <2>6. rdText' = <<>> BY <2>1 DEF RefInv
  <2> QED BY <1>q, <2>1, <2>5, <2>6 DEF ForeignInv
<1>4. CASE AppendText
  <2>1. /\ UNCHANGED <<out, held, rdText>> /\ rd.at = "text" /\ rd'.at = "read"
        /\ rd.ref \in Turns
        /\ \A u \in Turns : u # rd.ref => buf'[u] = buf[u]
        /\ buf'[rd.ref] \in {buf[rd.ref], Append(buf[rd.ref], rd.item)}
    BY <1>0, <1>4 DEF AppendText, RefInv
  <2>2. rd.item \in Messages /\ rd.item.t \in Meant(rd.ref) BY <1>0, <2>1 DEF ForeignInv
  <2>3. Only(Append(buf[rd.ref], rd.item), Meant(rd.ref)) BY <1>0, <2>1, <2>2, OnlyMore DEF ForeignInv
  <2>4. rdText' = <<>> BY <2>1 DEF RefInv
  <2> QED BY <1>q, <2>1, <2>3, <2>4 DEF ForeignInv
<1>5. CASE FlushTake
  <2>1. /\ UNCHANGED <<out, held>> /\ rd.at = "flush" /\ rd'.item = rd.item /\ rd'.ref = rd.ref
        /\ rd.ref \in Turns
        /\ \A u \in Turns : buf'[u] = buf[u] \/ buf'[u] = <<>>
        /\ rdText' \in {<<>>, buf[rd.ref]}
    BY <1>0, <1>5 DEF FlushTake, RefInv
  <2> QED BY <1>e, <1>q, <2>1 DEF ForeignInv
<1>6. CASE FlushDeliver
  <2>1. /\ UNCHANGED <<held, buf>> /\ rd.at = "deliver" /\ rd'.item = rd.item /\ rd'.ref = rd.ref
        /\ rd.ref \in Turns /\ rdText' = <<>>
        /\ \A u \in Turns : u # rd.ref => out'[u] = out[u]
        /\ out'[rd.ref] \in {out[rd.ref], out[rd.ref] \o rdText}
    BY <1>0, <1>6 DEF FlushDeliver, RefInv
  <2>2. Only(out[rd.ref] \o rdText, Meant(rd.ref)) BY <1>0, <2>1, OnlyMore DEF ForeignInv
  <2> QED BY <1>q, <2>1, <2>2 DEF ForeignInv
<1>7. CASE PermissionReply
  <2>1. /\ UNCHANGED <<out, held, buf, rdText>> /\ rd.at = "reply"
        /\ rd'.item = rd.item /\ rd'.ref = rd.ref
    BY <1>7 DEF PermissionReply
  <2> QED BY <1>q, <2>1 DEF ForeignInv
<1>8. CASE PermissionRefetch
  <2>1. /\ UNCHANGED <<out, held, buf, rdText>> /\ rd.at = "refetch"
        /\ rd'.at \in Active => activeTurn # NoTurn /\ rd'.item = rd.item /\ rd'.ref = activeTurn
    BY <1>8 DEF PermissionRefetch
  <2>2. rd.item.t \in Turns /\ Handling(rd.item.t) BY <1>0, <2>1 DEF RefInv, Messages, Handling
  <2>3. rdText' = <<>> BY <2>1 DEF RefInv
  <2> QED BY <1>a, <1>q, <2>1, <2>2, <2>3 DEF ForeignInv
<1>9. CASE Callback
  <2>1. /\ UNCHANGED <<held, buf, rdText>> /\ rd.at = "callback" /\ rd'.at = "read"
        /\ rd.ref \in Turns
        /\ \A u \in Turns : u # rd.ref => out'[u] = out[u]
        /\ out'[rd.ref] \in {out[rd.ref], Append(out[rd.ref], rd.item)}
    BY <1>0, <1>9 DEF Callback, RefInv
  <2>2. rd.item \in Messages /\ rd.item.t \in Meant(rd.ref) BY <1>0, <2>1 DEF ForeignInv
  <2>3. Only(Append(out[rd.ref], rd.item), Meant(rd.ref)) BY <1>0, <2>1, <2>2, OnlyMore DEF ForeignInv
  <2>4. rdText' = <<>> BY <2>1 DEF RefInv
  <2> QED BY <1>q, <2>1, <2>3, <2>4 DEF ForeignInv
<1>10. CASE ReadEof \/ CloseDone
  <2>1. /\ UNCHANGED <<out, held, buf, rdText>> /\ rd.at \in {"read", "eof"}
        /\ rd'.at \notin Active
    BY <1>10 DEF ReadEof, CloseDone
  <2>2. rdText' = <<>> BY <2>1 DEF RefInv
  <2> QED BY <1>q, <2>1, <2>2 DEF ForeignInv
<1>11. CASE HarnessStep
  BY <1>11, <1>s DEF HarnessStep, HarnessReads, HarnessPrompt, HarnessModel, HarnessCancel,
     HarnessReply, HarnessNotify, HarnessAnswer, HarnessExit, clientVars
<1>12. CASE (\E t \in Turns : CallerGone(t)) \/ UNCHANGED vars
  BY <1>12, <1>s DEF CallerGone, vars
<1>13. QED
  BY <1>1, <1>2, <1>3, <1>4, <1>5, <1>6, <1>7, <1>8, <1>9, <1>10, <1>11, <1>12
  DEF Next, ReaderStep, Quiescent

\* The numbers of the harness's messages for turn t in a sequence, and their order.
Of(m, t) == m.k \in Notes /\ m.t = t
Nums(s, t) == {s[i].n : i \in {j \in DOMAIN s : Of(s[j], t)}}
Rising(s, t) == \A i, j \in DOMAIN s : Of(s[i], t) /\ Of(s[j], t) /\ i < j => s[i].n < s[j].n
Below(A, B) == \A a \in A, b \in B : a < b

LEMMA NoNums == ASSUME NEW t PROVE Nums(<<>>, t) = {} /\ Rising(<<>>, t)
BY DEF Nums, Rising

LEMMA InNums ==
    ASSUME NEW t, NEW s
    PROVE  /\ \A i \in DOMAIN s : Of(s[i], t) => s[i].n \in Nums(s, t)
           /\ \A n \in Nums(s, t) : \E i \in DOMAIN s : Of(s[i], t) /\ s[i].n = n
BY DEF Nums

LEMMA NumsAppend ==
    ASSUME NEW t, NEW s \in Seq(Messages), NEW m \in Messages, Rising(s, t)
    PROVE  /\ Nums(Append(s, m), t) = Nums(s, t) \union (IF Of(m, t) THEN {m.n} ELSE {})
           /\ ~Of(m, t) \/ Below(Nums(s, t), {m.n}) => Rising(Append(s, m), t)
<1> DEFINE all == Append(s, m)
<1>1. /\ \A i \in DOMAIN s : i \in DOMAIN all /\ all[i] = s[i] /\ i < Len(s) + 1 /\ i \in Nat
      /\ Len(s) + 1 \in DOMAIN all /\ all[Len(s) + 1] = m
      /\ \A i \in DOMAIN all : i \in DOMAIN s \/ i = Len(s) + 1
      /\ Len(s) \in Nat
  BY Appended
<1> HIDE DEF all
<1>2. Nums(all, t) \subseteq Nums(s, t) \union (IF Of(m, t) THEN {m.n} ELSE {})
  <2> SUFFICES ASSUME NEW n \in Nums(all, t)
               PROVE  n \in Nums(s, t) \union (IF Of(m, t) THEN {m.n} ELSE {})
    OBVIOUS
  <2>1. PICK i \in DOMAIN all : Of(all[i], t) /\ all[i].n = n BY InNums
  <2>2. CASE i \in DOMAIN s BY <1>1, <2>1, <2>2, InNums
  <2>3. CASE i = Len(s) + 1 BY <1>1, <2>1, <2>3
  <2> QED BY <1>1, <2>2, <2>3
<1>3. Nums(s, t) \union (IF Of(m, t) THEN {m.n} ELSE {}) \subseteq Nums(all, t)
  <2>1. ASSUME NEW n \in Nums(s, t) PROVE n \in Nums(all, t)
    <3>1. PICK i \in DOMAIN s : Of(s[i], t) /\ s[i].n = n BY InNums
    <3>2. i \in DOMAIN all /\ all[i] = s[i] BY <1>1
    <3> QED BY <3>1, <3>2, InNums
  <2>2. Of(m, t) => m.n \in Nums(all, t) BY <1>1, InNums
  <2> QED BY <2>1, <2>2
<1>4. ASSUME ~Of(m, t) \/ Below(Nums(s, t), {m.n}) PROVE Rising(all, t)
  <2> SUFFICES ASSUME NEW i \in DOMAIN all, NEW j \in DOMAIN all,
                      Of(all[i], t), Of(all[j], t), i < j
               PROVE  all[i].n < all[j].n
    BY DEF Rising
  <2>1. i \in DOMAIN s BY <1>1
  <2>2. CASE j \in DOMAIN s BY <1>1, <2>1, <2>2 DEF Rising
  <2>3. CASE j = Len(s) + 1
    <3>1. all[i].n \in Nums(s, t) BY <1>1, <2>1, InNums
    <3>2. all[j] = m BY <1>1, <2>3
    <3> QED BY <1>4, <3>1, <3>2 DEF Below
  <2> QED BY <1>1, <2>2, <2>3
<1>5. QED BY <1>2, <1>3, <1>4 DEF all

LEMMA NumsJoined ==
    ASSUME NEW t, NEW s \in Seq(Messages), NEW r \in Seq(Messages), Rising(s, t), Rising(r, t)
    PROVE  /\ Nums(s \o r, t) = Nums(s, t) \union Nums(r, t)
           /\ Below(Nums(s, t), Nums(r, t)) => Rising(s \o r, t)
<1> DEFINE all == s \o r
           n == Len(s)
<1>1. /\ n \in Nat /\ Len(r) \in Nat /\ DOMAIN s = 1 .. n /\ DOMAIN r = 1 .. Len(r)
      /\ DOMAIN all = 1 .. n + Len(r)
      /\ \A i \in DOMAIN s : all[i] = s[i]
      /\ \A j \in DOMAIN r : n + j \in DOMAIN all /\ all[n + j] = r[j]
      /\ \A i \in DOMAIN all : i \in DOMAIN s \/ (i - n \in DOMAIN r /\ all[i] = r[i - n])
  BY Joined
<1> HIDE DEF all, n
<1>2. ASSUME NEW x \in Nums(all, t) PROVE x \in Nums(s, t) \union Nums(r, t)
  <2>1. PICK i \in DOMAIN all : Of(all[i], t) /\ all[i].n = x BY InNums
  <2>2. CASE i \in DOMAIN s BY <1>1, <2>1, <2>2, InNums
  <2>3. CASE i - n \in DOMAIN r /\ all[i] = r[i - n] BY <2>1, <2>3, InNums
  <2> QED BY <1>1, <2>2, <2>3
<1>3. ASSUME NEW x \in Nums(s, t) PROVE x \in Nums(all, t)
  <2>1. PICK i \in DOMAIN s : Of(s[i], t) /\ s[i].n = x BY InNums
  <2>2. i \in DOMAIN all /\ all[i] = s[i] BY <1>1
  <2> QED BY <2>1, <2>2, InNums
<1>4. ASSUME NEW x \in Nums(r, t) PROVE x \in Nums(all, t)
  <2>1. PICK i \in DOMAIN r : Of(r[i], t) /\ r[i].n = x BY InNums
  <2>2. n + i \in DOMAIN all /\ all[n + i] = r[i] BY <1>1
  <2> QED BY <2>1, <2>2, InNums
<1>5. ASSUME Below(Nums(s, t), Nums(r, t)) PROVE Rising(all, t)
  <2> SUFFICES ASSUME NEW i \in DOMAIN all, NEW j \in DOMAIN all,
                      Of(all[i], t), Of(all[j], t), i < j
               PROVE  all[i].n < all[j].n
    BY DEF Rising
  <2>0. i \in Nat /\ j \in Nat BY <1>1
  <2>1. CASE i \in DOMAIN s /\ j \in DOMAIN s
    <3>1. all[i] = s[i] /\ all[j] = s[j] BY <1>1, <2>1
    <3> QED BY <2>1, <3>1 DEF Rising
  <2>2. CASE i \in DOMAIN s /\ j - n \in DOMAIN r /\ all[j] = r[j - n]
    <3>1. all[i].n \in Nums(s, t) /\ all[j].n \in Nums(r, t) BY <1>1, <2>2, InNums
    <3> QED BY <1>5, <3>1 DEF Below
  <2>3. CASE i - n \in DOMAIN r /\ all[i] = r[i - n] /\ j - n \in DOMAIN r /\ all[j] = r[j - n]
    <3>1. i - n < j - n BY <1>1, <2>0
    <3> QED BY <2>3, <3>1 DEF Rising
  <2>4. i - n \in DOMAIN r => j \notin DOMAIN s BY <1>1, <2>0
  <2> QED BY <1>1, <2>1, <2>2, <2>3, <2>4
<1>6. QED BY <1>2, <1>3, <1>4, <1>5 DEF all

LEMMA NumsTail ==
    ASSUME NEW t, NEW s \in Seq(Messages), s # <<>>, Rising(s, t)
    PROVE  /\ Nums(s, t) = (IF Of(Head(s), t) THEN {Head(s).n} ELSE {}) \union Nums(Tail(s), t)
           /\ Of(Head(s), t) => Below({Head(s).n}, Nums(Tail(s), t))
           /\ Rising(Tail(s), t)
<1> DEFINE rest == Tail(s)
           m == Head(s)
<1>1. /\ 1 \in DOMAIN s /\ m = s[1] /\ Len(s) \in Nat /\ Len(rest) = Len(s) - 1
      /\ DOMAIN s = 1 .. Len(s) /\ DOMAIN rest = 1 .. Len(rest)
      /\ \A i \in DOMAIN rest : i \in Nat /\ i >= 1 /\ i + 1 \in DOMAIN s /\ rest[i] = s[i + 1]
  BY Tailed
<1> HIDE DEF rest, m
<1>2. ASSUME NEW x \in Nums(s, t) PROVE x \in (IF Of(m, t) THEN {m.n} ELSE {}) \union Nums(rest, t)
  <2>1. PICK i \in DOMAIN s : Of(s[i], t) /\ s[i].n = x BY InNums
  <2>2. CASE i = 1 BY <1>1, <2>1, <2>2
  <2>3. CASE i # 1
    <3>1. i - 1 \in DOMAIN rest /\ i - 1 + 1 = i BY <1>1, <2>3
    <3>2. rest[i - 1] = s[i] BY <1>1, <3>1
    <3> QED BY <2>1, <3>1, <3>2, InNums
  <2> QED BY <2>2, <2>3
<1>3. Of(m, t) => m.n \in Nums(s, t) BY <1>1, InNums
<1>4. ASSUME NEW x \in Nums(rest, t) PROVE x \in Nums(s, t) /\ (Of(m, t) => m.n < x)
  <2>1. PICK i \in DOMAIN rest : Of(rest[i], t) /\ rest[i].n = x BY InNums
  <2>2. i + 1 \in DOMAIN s /\ s[i + 1] = rest[i] /\ 1 < i + 1 BY <1>1
  <2>3. x \in Nums(s, t) BY <2>1, <2>2, InNums
  <2>4. Of(m, t) => m.n < x BY <1>1, <2>1, <2>2 DEF Rising
  <2> QED BY <2>3, <2>4
<1>5. Rising(rest, t)
  <2> SUFFICES ASSUME NEW i \in DOMAIN rest, NEW j \in DOMAIN rest,
                      Of(rest[i], t), Of(rest[j], t), i < j
               PROVE  rest[i].n < rest[j].n
    BY DEF Rising
  <2>1. /\ i + 1 \in DOMAIN s /\ j + 1 \in DOMAIN s /\ i + 1 < j + 1
        /\ rest[i] = s[i + 1] /\ rest[j] = s[j + 1]
    BY <1>1
  <2> QED BY <2>1 DEF Rising
<1>6. QED BY <1>2, <1>3, <1>4, <1>5 DEF Below, rest, m

\* The line of a turn's messages: on the stream, in the read loop's hands and the
\* handler's, in the buffer, being handled, and in stdout. Each number from 1 up to the
\* last one sent is in one place, the smaller ones ahead.
Text(t) == IF rd.ref = t THEN Nums(rdText, t) ELSE {}
Item(t) == IF Handling(t) /\ Of(rd.item, t) THEN {rd.item.n} ELSE {}
InLine(o, x, h, b, i, p, n) ==
    /\ o \union x \union h \union b \union i \union p = 1 .. n
    /\ Below(o, x \union h \union b \union i \union p)
    /\ Below(x, h \union b \union i \union p)
    /\ Below(h, b \union i \union p)
    /\ Below(b, i \union p)
    /\ Below(i, p)
Chained(t) ==
    /\ InLine(Nums(out[t], t), Text(t), Nums(held[t], t), Nums(buf[t], t), Item(t),
              Nums(stdout, t), sent[t])
    /\ Rising(out[t], t) /\ Rising(held[t], t) /\ Rising(buf[t], t) /\ Rising(stdout, t)
    /\ rd.ref = t => Rising(rdText, t)
ChainInv == \A t \in Turns : Kept(t) => Chained(t)

\* The moves along the line.
LEMMA Moves ==
    ASSUME NEW o, NEW x, NEW h, NEW b, NEW i, NEW p, NEW n \in Nat, InLine(o, x, h, b, i, p, n)
    PROVE  /\ i = {} => \A m, q : p = m \union q /\ Below(m, q) => InLine(o, x, h, b, m, q, n)
           /\ InLine(o, x, h, b \union i, {}, p, n)
           /\ x = {} /\ h = {} => InLine(o, b, {}, {}, i, p, n)
           /\ InLine(o \union x, {}, h, b, i, p, n)
           /\ x = {} /\ h = {} /\ b = {} => InLine(o \union i, {}, {}, {}, {}, p, n)
           /\ h = {} => InLine(o, x, b, {}, i, p, n)
           /\ x = {} => InLine(o \union h, {}, {}, b, i, p, n)
           /\ InLine(o, x, h, b, i, p \union {n + 1}, n + 1)
<1> USE DEF InLine, Below
<1>1. i = {} => \A m, q : p = m \union q /\ Below(m, q) => InLine(o, x, h, b, m, q, n) OBVIOUS
<1>2. InLine(o, x, h, b \union i, {}, p, n) OBVIOUS
<1>3. x = {} /\ h = {} => InLine(o, b, {}, {}, i, p, n) OBVIOUS
<1>4. InLine(o \union x, {}, h, b, i, p, n) OBVIOUS
<1>5. x = {} /\ h = {} /\ b = {} => InLine(o \union i, {}, {}, {}, {}, p, n) OBVIOUS
<1>6. h = {} => InLine(o, x, b, {}, i, p, n) OBVIOUS
<1>7. x = {} => InLine(o \union h, {}, {}, b, i, p, n) OBVIOUS
<1>8. InLine(o, x, h, b, i, p \union {n + 1}, n + 1)
  <2>1. \A k \in o \union x \union h \union b \union i \union p : k \in Nat /\ k < n + 1 OBVIOUS
  <2>2. 1 .. n + 1 = (1 .. n) \union {n + 1} OBVIOUS
  <2>3. o \union x \union h \union b \union i \union (p \union {n + 1}) = 1 .. n + 1
    BY <2>2 DEF InLine
  <2> QED BY <2>1, <2>3
<1> HIDE DEF InLine, Below
<1>9. QED BY <1>1, <1>2, <1>3, <1>4, <1>5, <1>6, <1>7, <1>8

LEMMA ChainInit == Init => ChainInv
<1> SUFFICES ASSUME Init, NEW t \in Turns PROVE Chained(t) BY DEF ChainInv
<1>1. /\ out[t] = <<>> /\ held[t] = <<>> /\ buf[t] = <<>> /\ stdout = <<>> /\ rdText = <<>>
      /\ rd.at = "read" /\ sent[t] = 0
  BY DEF Init, Idle
<1>2. Text(t) = {} /\ Item(t) = {} BY <1>1, NoNums DEF Text, Item, Handling, Active
<1>3. InLine({}, {}, {}, {}, {}, {}, 0) BY DEF InLine, Below
<1>4. QED BY <1>1, <1>2, <1>3, NoNums DEF Chained

LEMMA ChainStep ==
    ASSUME IInv, RefInv, TalkInv, LiveInv, Next, NEW t \in Turns, Kept(t), t \notin ctxDone', Chained(t)
    PROVE  Chained(t)'
<1> USE DEF ReadOn, Read, Idle, Active
<1>0. /\ TypeOK
      /\ rd \in [at : {"read", "text", "flush", "deliver", "reply", "refetch", "callback", "eof",
                       "done"}, item : Messages, ref : Turns \union {NoTurn}]
      /\ rdText \in Seq(Messages) /\ stdout \in Seq(Messages) /\ sent \in [Turns -> Nat]
      /\ buf \in [Turns -> Seq(Messages)] /\ held \in [Turns -> Seq(Messages)]
      /\ out \in [Turns -> Seq(Messages)] /\ activeTurn \in Turns \union {NoTurn}
  BY DEF IInv, TypeOK, BufTypes, ReaderTypes, PipeTypes, HarnessTypes
<1> DEFINE o == Nums(out[t], t)
           h == Nums(held[t], t)
           b == Nums(buf[t], t)
           p == Nums(stdout, t)
<1>1. /\ InLine(o, Text(t), h, b, Item(t), p, sent[t]) /\ sent[t] \in Nat
      /\ Rising(out[t], t) /\ Rising(held[t], t) /\ Rising(buf[t], t) /\ Rising(stdout, t)
      /\ rd.ref = t => Rising(rdText, t)
  BY <1>0 DEF Chained
<1>n. Nums(<<>>, t) = {} /\ Rising(<<>>, t) BY NoNums
<1>k. t \notin ctxDone BY DEF Kept
\* What the read loop does not hold, and what holds of what it does.
<1>x. /\ rd.at # "deliver" => rdText = <<>> /\ Text(t) = {}
      /\ pc[t] # "wait" => Text(t) = {}
  <2>1. rdText = <<>> => Text(t) = {} BY <1>n DEF Text
  <2>2. ASSUME pc[t] # "wait" PROVE Text(t) = {}
    <3>1. ~Delivering(t) BY <1>0, <2>2, OnTheWay
    <3>2. rdText = <<>> \/ rd.at = "deliver" BY DEF RefInv
    <3>3. ASSUME rd.ref = t, rd.at = "deliver" PROVE Nums(rdText, t) = {}
      <4>1. \A j \in DOMAIN rdText : ~Of(rdText[j], t) BY <3>1, <3>3 DEF Delivering, Of
      <4> QED BY <4>1, InNums
    <3> QED BY <2>1, <3>2, <3>3 DEF Text
  <2> QED BY <2>1, <2>2 DEF RefInv
<1>i. /\ rd.at \in {"read", "eof", "done"} => Item(t) = {}
      /\ Handling(t) => pc[t] = "wait" /\ activeTurn = t /\ rd.ref = t /\ t \notin closed
                        /\ held[t] = <<>>
                        /\ (rd.at \in {"deliver", "reply", "refetch", "callback"} => buf[t] = <<>>)
  <2>1. rd.at \in {"read", "eof", "done"} => Item(t) = {} BY DEF Item, Handling
  <2>2. Handling(t) => pc[t] = "wait" /\ activeTurn = t /\ t \notin closed /\ held[t] = <<>>
    BY <1>0, OnTheWay
  <2> QED BY <2>1, <2>2 DEF LiveInv
<1>f. ASSUME NEW x2, NEW i2,
             InLine(Nums(out'[t], t), x2, Nums(held'[t], t), Nums(buf'[t], t), i2,
                    Nums(stdout', t), sent'[t]),
             x2 = Text(t)', i2 = Item(t)',
             Rising(out'[t], t), Rising(held'[t], t), Rising(buf'[t], t), Rising(stdout', t),
             rd'.ref = t => Rising(rdText', t)
      PROVE  Chained(t)'
  BY <1>f DEF Chained
<1>s. ASSUME out'[t] = out[t], held'[t] = held[t], buf'[t] = buf[t], UNCHANGED <<rd, rdText>>,
             Nums(stdout', t) = p, Rising(stdout', t), sent'[t] = sent[t]
      PROVE  Chained(t)'
  <2>1. Text(t)' = Text(t) /\ Item(t)' = Item(t) BY <1>s DEF Text, Item, Handling
  <2> QED BY <1>1, <1>f, <1>s, <2>1
<1> HIDE DEF o, h, b, p
<1>2. ASSUME NEW u \in Turns, HandlerStep(u) PROVE Chained(t)'
  <2>0. UNCHANGED <<rd, rdText, stdout, sent>>
    BY <1>2 DEF HandlerStep, BeginTurn, RefuseTurn, ActivateTurn, Register, WriteRequest,
       WaitCtxDone, WaitHarnessDied, WaitAnswered, CloseTurn, DeliverFinal, ClearActive, SendReport,
       CancelIfDone, EndTurn
  <2>9. Text(t)' = Text(t) /\ Item(t)' = Item(t) BY <2>0 DEF Text, Item, Handling
  <2>s. out'[t] = out[t] /\ held'[t] = held[t] /\ buf'[t] = buf[t] => Chained(t)'
    BY <1>1, <1>s, <2>0 DEF p
  <2>1. CASE CloseTurn(u)
    <3>1. CASE u # t BY <1>0, <2>1, <2>s, <3>1 DEF CloseTurn
    <3>2. CASE u = t
      <4>1. pc[t] = "unwind" /\ out'[t] = out[t] /\ held'[t] = buf[t] /\ buf'[t] = <<>>
        BY <1>0, <2>1, <3>2 DEF CloseTurn
      <4>2. h = {} BY <1>n, <4>1 DEF LiveInv, h
      <4>3. InLine(o, Text(t), b, {}, Item(t), p, sent[t]) BY <1>1, <4>2, Moves
      <4> QED BY <1>1, <1>f, <1>n, <2>0, <2>9, <4>1, <4>3 DEF o, b, p
    <3> QED BY <3>1, <3>2
  <2>2. CASE DeliverFinal(u)
    <3>1. CASE u # t BY <1>0, <2>2, <2>s, <3>1 DEF DeliverFinal
    <3>2. CASE u = t
      <4>1. pc[t] = "deliver" /\ out'[t] = out[t] \o held[t] /\ held'[t] = <<>> /\ buf'[t] = buf[t]
        BY <1>0, <1>k, <2>2, <3>2 DEF DeliverFinal, SendOutcomes
      <4>2. Text(t) = {} BY <1>x, <4>1
      <4>3. InLine(o \union h, {}, {}, b, Item(t), p, sent[t]) BY <1>1, <4>2, Moves
      <4>4. Below(o, h) BY <1>1 DEF InLine, Below
      <4>5. Nums(out'[t], t) = o \union h /\ Rising(out'[t], t)
        BY <1>0, <1>1, <4>1, <4>4, NumsJoined DEF o, h
      <4> QED BY <1>1, <1>f, <1>n, <2>0, <2>9, <4>1, <4>2, <4>3, <4>5 DEF b, p
    <3> QED BY <3>1, <3>2
  <2>3. CASE SendReport(u)
    <3> PICK m : m = Msg("report", u, 0) OBVIOUS
    <3>1. m \in Messages /\ ~Of(m, t) BY MsgType DEF Msg, Of
    <3>2. held'[t] = held[t] /\ buf'[t] = buf[t] /\ out'[t] \in {out[t], Append(out[t], m)}
      BY <1>0, <2>3 DEF SendReport
    <3>a. out[t] \in Seq(Messages) BY <1>0
    <3>b. Nums(Append(out[t], m), t) = o /\ Rising(Append(out[t], m), t)
      BY <1>1, <3>1, <3>a, NumsAppend DEF o
    <3>3. Nums(out'[t], t) = o /\ Rising(out'[t], t)
      <4>1. CASE out'[t] = out[t] BY <1>1, <4>1 DEF o
      <4>2. CASE out'[t] = Append(out[t], m) BY <3>b, <4>2
      <4> QED BY <3>2, <4>1, <4>2
    <3> QED BY <1>1, <1>f, <2>0, <2>9, <3>2, <3>3 DEF h, b, p
  <2>4. CASE ~(CloseTurn(u) \/ DeliverFinal(u) \/ SendReport(u))
    <3>1. UNCHANGED <<out, held, buf>>
      BY <1>2, <2>4 DEF HandlerStep, BeginTurn, RefuseTurn, ActivateTurn, Register, WriteRequest,
         WaitCtxDone, WaitHarnessDied, WaitAnswered, ClearActive, CancelIfDone, EndTurn
    <3> QED BY <2>s, <3>1
  <2> QED BY <2>1, <2>2, <2>3, <2>4
<1>t. stdout # <<>> =>
        /\ p = (IF Of(Head(stdout), t) THEN {Head(stdout).n} ELSE {}) \union Nums(Tail(stdout), t)
        /\ Of(Head(stdout), t) => Below({Head(stdout).n}, Nums(Tail(stdout), t))
        /\ Rising(Tail(stdout), t)
        /\ Head(stdout) = stdout[1] /\ 1 \in DOMAIN stdout /\ Head(stdout) \in Messages
  <2> SUFFICES ASSUME stdout # <<>>
               PROVE  /\ p = (IF Of(Head(stdout), t) THEN {Head(stdout).n} ELSE {})
                                \union Nums(Tail(stdout), t)
                      /\ Of(Head(stdout), t) => Below({Head(stdout).n}, Nums(Tail(stdout), t))
                      /\ Rising(Tail(stdout), t)
                      /\ Head(stdout) = stdout[1] /\ 1 \in DOMAIN stdout /\ Head(stdout) \in Messages
    OBVIOUS
  <2>1. stdout \in Seq(Messages) BY <1>0
  <2>2. 1 \in DOMAIN stdout /\ Head(stdout) = stdout[1] BY <2>1, Tailed
  <2>3. Head(stdout) \in Messages BY <2>1
  <2>4. /\ Nums(stdout, t) = (IF Of(Head(stdout), t) THEN {Head(stdout).n} ELSE {})
                                \union Nums(Tail(stdout), t)
        /\ Of(Head(stdout), t) => Below({Head(stdout).n}, Nums(Tail(stdout), t))
        /\ Rising(Tail(stdout), t)
    BY <1>1, <2>1, NumsTail
  <2> QED BY <2>2, <2>3, <2>4 DEF p
<1>3. CASE HandleResponse
  <2>1. /\ UNCHANGED <<out, held, buf, rd, rdText, sent>> /\ stdout # <<>> /\ stdout' = Tail(stdout)
        /\ Head(stdout).k \in {"result", "error"}
    BY <1>3 DEF HandleResponse
  <2>2. ~Of(Head(stdout), t) BY <2>1 DEF Of
  <2> QED BY <1>s, <1>t, <2>1, <2>2
<1>4. CASE ReadUpdate
  <2>1. /\ UNCHANGED <<out, held, buf, rdText, sent>> /\ stdout # <<>> /\ stdout' = Tail(stdout)
        /\ rd.at = "read" /\ Head(stdout).k \in Notes
        /\ rd' = IF activeTurn # NoTurn
                 THEN [at |-> Boundary(Head(stdout).k), item |-> Head(stdout), ref |-> activeTurn]
                 ELSE IF Head(stdout).k = "ask"
                 THEN [at |-> "reply", item |-> Head(stdout), ref |-> NoTurn] ELSE Idle
    BY <1>4 DEF ReadUpdate
  <2>2. rdText' = <<>> /\ Text(t) = {} /\ Text(t)' = {} BY <1>n, <1>x, <2>1 DEF Text
  <2>3. Item(t) = {} BY <1>i, <2>1
  <2> DEFINE m == IF Of(Head(stdout), t) THEN {Head(stdout).n} ELSE {}
  <2>4. InLine(o, {}, h, b, m, Nums(stdout', t), sent[t])
    <3>1. p = m \union Nums(stdout', t) BY <1>t, <2>1
    <3>2. Below(m, Nums(stdout', t)) BY <1>t, <2>1 DEF Below
    <3> HIDE DEF m
    <3> QED BY <1>1, <2>2, <2>3, <3>1, <3>2, Moves
  <2>5. Item(t)' = m
    <3>1. CASE Of(Head(stdout), t)
      <4>1. Coming(t) BY <1>t, <2>1, <3>1 DEF Coming, Of
      <4>2. activeTurn = t BY <1>0, <4>1, OnTheWay
      <4>3. rd'.item = Head(stdout) /\ rd'.at \in Active BY <2>1, <4>2 DEF Boundary
      <4> QED BY <3>1, <4>3 DEF Item, Handling, Of
    <3>2. CASE ~Of(Head(stdout), t)
      <4>1. rd'.at \in Active => rd'.item = Head(stdout) BY <2>1
      <4> QED BY <3>2, <4>1 DEF Item, Handling
    <3> QED BY <3>1, <3>2
  <2> HIDE DEF m
  <2> QED BY <1>1, <1>f, <1>n, <1>t, <2>1, <2>2, <2>4, <2>5 DEF o, h, b
<1>5. CASE AppendText
  <2>1. /\ UNCHANGED <<out, held, rdText, stdout, sent>> /\ rd.at = "text" /\ rd'.at = "read"
        /\ buf' = IF rd.ref \in closed THEN buf ELSE [buf EXCEPT ![rd.ref] = Append(@, rd.item)]
    BY <1>5 DEF AppendText
  <2>2. Text(t) = {} /\ Text(t)' = {} /\ rdText' = <<>> /\ Item(t)' = {}
    BY <1>n, <1>x, <2>1 DEF Text, Item, Handling
  <2>3. InLine(o, {}, h, b \union Item(t), {}, p, sent[t]) BY <1>1, <2>2, Moves
  <2>4. Below(b, Item(t)) BY <1>1 DEF InLine, Below
  <2>5. Nums(buf'[t], t) = b \union Item(t) /\ Rising(buf'[t], t)
    <3>0. rd.item \in Messages BY <1>0
    <3>1. /\ Nums(Append(buf[t], rd.item), t)
               = b \union (IF Of(rd.item, t) THEN {rd.item.n} ELSE {})
          /\ ~Of(rd.item, t) \/ Below(b, {rd.item.n}) => Rising(Append(buf[t], rd.item), t)
      BY <1>0, <1>1, <3>0, NumsAppend DEF b
    <3>2. CASE Of(rd.item, t)
      <4>1. Handling(t) /\ Item(t) = {rd.item.n} BY <2>1, <3>2 DEF Item, Handling, Of
      <4>2. buf'[t] = Append(buf[t], rd.item) BY <1>0, <1>i, <2>1, <4>1
      <4> QED BY <2>4, <3>1, <3>2, <4>1, <4>2
    <3>3. CASE ~Of(rd.item, t)
      <4>1. Item(t) = {} BY <3>3 DEF Item
      <4>2. buf'[t] \in {buf[t], Append(buf[t], rd.item)} BY <1>0, <2>1
      <4> QED BY <1>1, <3>1, <3>3, <4>1, <4>2 DEF b
    <3> QED BY <3>2, <3>3
  <2>6. /\ Nums(out'[t], t) = o /\ Nums(held'[t], t) = h /\ Nums(stdout', t) = p
        /\ sent'[t] = sent[t] /\ Rising(rdText', t)
        /\ Rising(out'[t], t) /\ Rising(held'[t], t) /\ Rising(stdout', t)
    BY <1>1, <1>n, <2>1, <2>2 DEF o, h, p
  <2> QED BY <1>f, <2>2, <2>3, <2>5, <2>6
<1>6. CASE FlushTake
  <2>1. /\ UNCHANGED <<out, held, stdout, sent>> /\ rd.at = "flush"
        /\ rd'.item = rd.item /\ rd'.ref = rd.ref /\ rd'.at \in Active
        /\ rdText' = IF rd.ref \in closed THEN <<>> ELSE buf[rd.ref]
        /\ buf' = IF rd.ref \in closed THEN buf ELSE [buf EXCEPT ![rd.ref] = <<>>]
    BY <1>6 DEF FlushTake, AfterFlush
  <2>2. Text(t) = {} BY <1>x, <2>1
  <2>3. Item(t)' = Item(t) BY <2>1 DEF Item, Handling
  <2>4. CASE rd.ref = t /\ t \notin closed
    <3>1. rdText' = buf[t] /\ buf'[t] = <<>> BY <1>0, <2>1, <2>4
    <3>2. h = {}
      <4>1. pc[t] = "deliver" => t \in closed BY DEF RefInv
      <4> QED BY <1>n, <2>4, <4>1 DEF LiveInv, h
    <3>3. Text(t)' = b BY <2>1, <2>4, <3>1 DEF Text, b
    <3>4. InLine(o, b, h, {}, Item(t), p, sent[t]) BY <1>1, <2>2, <3>2, Moves
    <3> QED BY <1>1, <1>f, <1>n, <2>1, <2>3, <3>1, <3>3, <3>4 DEF o, h, p
  <2>5. CASE ~(rd.ref = t /\ t \notin closed)
    <3>1. buf'[t] = buf[t] /\ (rd.ref = t => rdText' = <<>>) BY <1>0, <2>1, <2>5
    <3>2. Text(t)' = {} BY <1>n, <2>1, <3>1 DEF Text
    <3> QED BY <1>1, <1>f, <1>n, <2>1, <2>2, <2>3, <3>1, <3>2 DEF o, h, b, p
  <2> QED BY <2>4, <2>5
<1>7. CASE FlushDeliver
  <2>1. /\ UNCHANGED <<held, buf, stdout, sent>> /\ rd.at = "deliver" /\ rdText' = <<>>
        /\ rd'.item = rd.item /\ rd'.ref = rd.ref /\ rd'.at \in Active
        /\ \E ok \in SendOutcomes(rd.ref) :
              out' = IF ok THEN [out EXCEPT ![rd.ref] = @ \o rdText] ELSE out
    BY <1>7 DEF FlushDeliver, AfterFlush
  <2>2. Item(t)' = Item(t) /\ Text(t)' = {} BY <1>n, <2>1 DEF Item, Handling, Text
  <2>3. InLine(o \union Text(t), {}, h, b, Item(t), p, sent[t]) BY <1>1, Moves
  <2>4. Nums(out'[t], t) = o \union Text(t) /\ Rising(out'[t], t)
    <3>1. CASE rd.ref = t
      <4>1. out'[t] = out[t] \o rdText BY <1>0, <1>k, <2>1, <3>1 DEF SendOutcomes
      <4>2. Text(t) = Nums(rdText, t) BY <3>1 DEF Text
      <4>3. Below(o, Text(t)) BY <1>1 DEF InLine, Below
      <4> QED BY <1>0, <1>1, <3>1, <4>1, <4>2, <4>3, NumsJoined DEF o
    <3>2. CASE rd.ref # t
      <4>1. out'[t] = out[t] BY <1>0, <2>1, <3>2
      <4>2. Text(t) = {} BY <3>2 DEF Text
      <4> QED BY <1>1, <4>1, <4>2 DEF o
    <3> QED BY <3>1, <3>2
  <2> QED BY <1>1, <1>f, <1>n, <2>1, <2>2, <2>3, <2>4 DEF h, b, p
<1>8. CASE PermissionReply
  <2>1. /\ UNCHANGED <<out, held, buf, rdText, stdout, sent>> /\ rd.at = "reply"
        /\ rd'.item = rd.item /\ rd'.ref = rd.ref /\ rd'.at \in Active
    BY <1>8 DEF PermissionReply
  <2>2. Text(t)' = Text(t) /\ Item(t)' = Item(t) BY <2>1 DEF Text, Item, Handling
  <2> QED BY <1>1, <1>f, <2>1, <2>2 DEF o, h, b, p
<1>9. CASE PermissionRefetch
  <2>1. /\ UNCHANGED <<out, held, buf, rdText, stdout, sent>> /\ rd.at = "refetch"
        /\ rd' = IF activeTurn = NoTurn THEN Idle
                 ELSE [at |-> "callback", item |-> rd.item, ref |-> activeTurn]
    BY <1>9 DEF PermissionRefetch
  <2>2. rdText' = <<>> /\ Text(t) = {} /\ Text(t)' = {} BY <1>n, <1>x, <2>1 DEF Text
  <2>3. Item(t)' = Item(t)
    <3>1. CASE Handling(t)
      <4>1. rd'.item = rd.item /\ rd'.at \in Active BY <1>i, <2>1, <3>1
      <4> QED BY <3>1, <4>1 DEF Item, Handling
    <3>2. CASE ~Handling(t)
      <4>1. ~Handling(t)' BY <2>1, <3>2 DEF Handling
      <4> QED BY <3>2, <4>1 DEF Item
    <3> QED BY <3>1, <3>2
  <2> QED BY <1>1, <1>f, <1>n, <2>1, <2>2, <2>3 DEF o, h, b, p
<1>10. CASE Callback
  <2>1. /\ UNCHANGED <<held, buf, rdText, stdout, sent>> /\ rd.at = "callback" /\ rd'.at = "read"
        /\ \E ok \in SendOutcomes(rd.ref) :
              out' = IF ok THEN [out EXCEPT ![rd.ref] = Append(@, rd.item)] ELSE out
    BY <1>10 DEF Callback
  <2>2. rdText' = <<>> /\ Text(t) = {} /\ Text(t)' = {} /\ Item(t)' = {}
    BY <1>n, <1>x, <2>1 DEF Text, Item, Handling
  <2>3. rd.item \in Messages BY <1>0
  <2>4. /\ Nums(Append(out[t], rd.item), t)
             = o \union (IF Of(rd.item, t) THEN {rd.item.n} ELSE {})
        /\ ~Of(rd.item, t) \/ Below(o, {rd.item.n}) => Rising(Append(out[t], rd.item), t)
    BY <1>0, <1>1, <2>3, NumsAppend DEF o
  <2>5. CASE Of(rd.item, t)
    <3>1. Handling(t) /\ Item(t) = {rd.item.n} BY <2>1, <2>5 DEF Item, Handling, Of
    <3>2. rd.ref = t /\ h = {} /\ b = {} BY <1>i, <1>n, <2>1, <3>1 DEF h, b
    <3>3. out'[t] = Append(out[t], rd.item) BY <1>0, <1>k, <2>1, <3>2 DEF SendOutcomes
    <3>4. InLine(o \union Item(t), {}, {}, {}, {}, p, sent[t])
      <4>1. InLine(o, {}, {}, {}, Item(t), p, sent[t]) BY <1>1, <2>2, <3>2
      <4> QED BY <1>1, <4>1, Moves
    <3>5. Below(o, Item(t)) BY <1>1 DEF InLine, Below
    <3>6. Nums(out'[t], t) = o \union Item(t) /\ Rising(out'[t], t)
      BY <2>4, <2>5, <3>1, <3>3, <3>5
    <3>7. /\ Nums(held'[t], t) = {} /\ Nums(buf'[t], t) = {} /\ Nums(stdout', t) = p
          /\ sent'[t] = sent[t] /\ Rising(rdText', t)
          /\ Rising(buf'[t], t) /\ Rising(held'[t], t) /\ Rising(stdout', t)
      BY <1>1, <1>n, <2>1, <2>2, <3>2 DEF h, b, p
    <3> QED BY <1>f, <2>2, <3>4, <3>6, <3>7
  <2>6. CASE ~Of(rd.item, t)
    <3>1. Item(t) = {} BY <2>6 DEF Item
    <3>2. out'[t] \in {out[t], Append(out[t], rd.item)} BY <1>0, <2>1
    <3>3. Nums(out'[t], t) = o /\ Rising(out'[t], t) BY <1>1, <2>4, <2>6, <3>2 DEF o
    <3> QED BY <1>1, <1>f, <1>n, <2>1, <2>2, <3>1, <3>3 DEF h, b, p
  <2> QED BY <2>5, <2>6
<1>11. CASE ReadEof
  <2>1. /\ UNCHANGED <<out, held, buf, rdText, sent>> /\ stdout # <<>> /\ stdout' = Tail(stdout)
        /\ Head(stdout).k = "eof" /\ rd.at = "read" /\ rd'.at = "eof"
    BY <1>11 DEF ReadEof
  <2>2. Nums(stdout', t) = p /\ Rising(stdout', t)
    <3>1. ~Of(Head(stdout), t) BY <2>1 DEF Of
    <3> QED BY <1>t, <2>1, <3>1
  <2>3. rdText' = <<>> /\ Text(t) = {} /\ Text(t)' = {} /\ Item(t)' = {} /\ Item(t) = {}
    BY <1>i, <1>n, <1>x, <2>1 DEF Text, Item, Handling
  <2> QED BY <1>1, <1>f, <1>n, <2>1, <2>2, <2>3 DEF o, h, b
<1>12. CASE CloseDone
  <2>1. UNCHANGED <<out, held, buf, rdText, stdout, sent>> /\ rd.at = "eof" /\ rd'.at = "done"
    BY <1>12 DEF CloseDone
  <2>2. rdText' = <<>> /\ Text(t) = {} /\ Text(t)' = {} /\ Item(t)' = {} /\ Item(t) = {}
    BY <1>i, <1>n, <1>x, <2>1 DEF Text, Item, Handling
  <2> QED BY <1>1, <1>f, <1>n, <2>1, <2>2 DEF o, h, b, p
<1>w. ASSUME UNCHANGED <<out, held, buf, rd, rdText, sent>>,
             stdout' = stdout \/ \E m \in Messages : m.k \notin Notes /\ stdout' = Append(stdout, m)
      PROVE  Chained(t)'
  <2>1. ASSUME NEW m \in Messages, m.k \notin Notes, stdout' = Append(stdout, m)
        PROVE  Nums(stdout', t) = p /\ Rising(stdout', t)
    <3>1. ~Of(m, t) BY <2>1 DEF Of
    <3> QED BY <1>0, <1>1, <2>1, <3>1, NumsAppend DEF p
  <2> QED BY <1>1, <1>s, <1>w, <2>1 DEF p
<1>13. CASE HarnessStep
  <2> USE DEF clientVars, Writes
  <2>1. CASE HarnessPrompt
    <3>1. Head(stdin).t \in Turns BY <1>0, <2>1, Pipes, Tailed DEF HarnessPrompt, Reads, Lines
    <3> PICK m : m = Msg("error", Head(stdin).t, 0) OBVIOUS
    <3>2. m \in Messages /\ m.k \notin Notes BY <3>1, MsgType DEF Msg
    <3> QED BY <1>w, <2>1, <3>2 DEF HarnessPrompt
  <2>2. CASE HarnessModel
    <3>1. Head(stdin).t \in Turns BY <1>0, <2>2, Pipes, Tailed DEF HarnessModel, Reads, Lines
    <3>2. PICK k \in Answers : Writes(Msg(k, Head(stdin).t, 0)) BY <2>2 DEF HarnessModel, Answers
    <3> PICK m : m = Msg(k, Head(stdin).t, 0) OBVIOUS
    <3>3. m \in Messages /\ m.k \notin Notes BY <3>1, MsgType DEF Msg, Answers
    <3> QED BY <1>w, <2>2, <3>2, <3>3 DEF HarnessModel
  <2>3. CASE HarnessCancel \/ HarnessReply BY <1>w, <2>3 DEF HarnessCancel, HarnessReply
  <2>4. ASSUME NEW u \in Turns, HarnessNotify(u) PROVE Chained(t)'
    <3>1. /\ UNCHANGED <<out, held, buf, rd, rdText>>
          /\ \A v \in Turns : sent'[v] = IF v = u THEN sent[u] + 1 ELSE sent[v]
      BY <1>0, <2>4 DEF HarnessNotify
    <3>2. PICK k \in Notes : Writes(Msg(k, u, sent'[u])) BY <2>4 DEF HarnessNotify
    <3>3. sent'[u] = sent[u] + 1 /\ sent'[u] \in Nat
      <4>1. sent'[u] = sent[u] + 1 BY <3>1
      <4>2. sent[u] \in Nat BY <1>0
      <4> QED BY <4>1, <4>2
    <3> PICK m : m = Msg(k, u, sent'[u]) OBVIOUS
    <3>4. m \in Messages /\ (Of(m, t) <=> u = t) /\ m.n = sent[u] + 1 BY <3>3, MsgType DEF Msg, Of
    <3>5. /\ Nums(stdout', t) = p \union (IF Of(m, t) THEN {m.n} ELSE {})
          /\ ~Of(m, t) \/ Below(p, {m.n}) => Rising(stdout', t)
      BY <1>0, <1>1, <3>2, <3>4, NumsAppend DEF p
    <3>6. CASE u # t
      <4>1. Nums(stdout', t) = p /\ Rising(stdout', t) /\ sent'[t] = sent[t] BY <3>1, <3>4, <3>5, <3>6
      <4> QED BY <1>s, <3>1, <4>1
    <3>7. CASE u = t
      <4>1. InLine(o, Text(t), h, b, Item(t), p \union {sent[t] + 1}, sent[t] + 1) BY <1>1, Moves
      <4>2. Below(p, {sent[t] + 1})
        <5>1. p \subseteq 1 .. sent[t] BY <1>1 DEF InLine
        <5> QED BY <1>1, <5>1 DEF Below
      <4>3. Nums(stdout', t) = p \union {sent[t] + 1} /\ Rising(stdout', t)
        BY <3>4, <3>5, <3>7, <4>2
      <4>4. Text(t)' = Text(t) /\ Item(t)' = Item(t) /\ sent'[t] = sent[t] + 1
        BY <3>1, <3>7 DEF Text, Item, Handling
      <4> QED BY <1>1, <1>f, <3>1, <4>1, <4>3, <4>4 DEF o, h, b
    <3> QED BY <3>6, <3>7
  <2>5. CASE HarnessAnswer
    <3>1. cur \in Turns BY <1>0, <2>5 DEF HarnessAnswer, TypeOK, HarnessTypes
    <3>2. PICK k \in Answers : Writes(Msg(k, cur, 0)) BY <2>5 DEF HarnessAnswer, Answers
    <3> PICK m : m = Msg(k, cur, 0) OBVIOUS
    <3>3. m \in Messages /\ m.k \notin Notes BY <3>1, MsgType DEF Msg, Answers
    <3> QED BY <1>w, <2>5, <3>2, <3>3 DEF HarnessAnswer
  <2>6. CASE HarnessExit
    <3>1. Eof \in Messages /\ Eof.k \notin Notes BY MsgType DEF Eof, Msg
    <3> QED BY <1>w, <2>6, <3>1 DEF HarnessExit
  <2> QED BY <1>13, <2>1, <2>2, <2>3, <2>4, <2>5, <2>6 DEF HarnessStep, HarnessReads
<1>14. CASE (\E u \in Turns : CallerGone(u)) \/ Quiescent
  BY <1>14, <1>w DEF CallerGone, Quiescent, vars
<1>15. QED
  BY <1>2, <1>3, <1>4, <1>5, <1>6, <1>7, <1>8, <1>9, <1>10, <1>11, <1>12, <1>13, <1>14
  DEF Next, ReaderStep

LEMMA ChainNext ==
    ASSUME IInv, RefInv, TalkInv, LiveInv, ChainInv, [Next]_vars
    PROVE  ChainInv'
<1> SUFFICES ASSUME NEW t \in Turns, Kept(t)' PROVE Chained(t)' BY DEF ChainInv
<1>1. kind' = kind /\ ctxDone \subseteq ctxDone'
  BY DEF Next, vars, CallerGone, Quiescent, handlerVars, clientVars,
     HandlerStep, BeginTurn, RefuseTurn, ActivateTurn, Register, WriteRequest, WaitCtxDone,
     WaitHarnessDied, WaitAnswered, CloseTurn, DeliverFinal, ClearActive, SendReport,
     CancelIfDone, EndTurn,
     ReaderStep, HandleResponse, ReadUpdate, AppendText, FlushTake, FlushDeliver,
     PermissionReply, PermissionRefetch, Callback, ReadEof, CloseDone,
     HarnessStep, HarnessReads, HarnessPrompt, HarnessModel, HarnessCancel, HarnessReply,
     HarnessNotify, HarnessAnswer, HarnessExit
<1>2. Kept(t) /\ t \notin ctxDone' BY <1>1 DEF Kept
<1>3. Chained(t) BY <1>2 DEF ChainInv
<1>4. CASE Next BY <1>2, <1>3, <1>4, ChainStep
<1>5. CASE UNCHANGED vars
  <2>1. UNCHANGED <<out, held, buf, rd, rdText, stdout, sent>> BY <1>5 DEF vars
  <2>2. Text(t)' = Text(t) /\ Item(t)' = Item(t) BY <2>1 DEF Text, Item, Handling
  <2> QED BY <1>3, <2>1, <2>2 DEF Chained
<1>6. QED BY <1>4, <1>5

\* A prompt turn that ends well, with its caller still there, has put on its stream
\* every message the harness sent for it, once and in order, and nothing else but
\* messages of turns whose caller had gone, whenever the harness sends nothing for a
\* turn after its answer: the text that the read loop buffers and either goroutine
\* flushes never overtakes the updates around it, nor is any left behind in the
\* buffer, in a goroutine's hands or on the pipe (acp/client.go:42-86, 537-539, 924).
THEOREM CompleteTurnHolds ==
    ASSUME ~MayTrail
    PROVE  Spec => []CompleteTurn
<1> DEFINE FlowInv == LiveInv /\ ForeignInv /\ ChainInv
           TInv == IInv /\ PipeInv /\ RefInv /\ TalkInv /\ FlowInv
<1>1. Init => TInv
  BY InitIInv, PipeInit, RefInit, TalkInit, LiveInit, ForeignInit, ChainInit
<1>2. TInv /\ [Next]_vars => TInv'
  BY NextIInv, PipeNext, RefNext, TalkNext, LiveNext, ForeignNext, ChainNext
<1>3. TInv => CompleteTurn
  <2> SUFFICES ASSUME TInv, NEW t \in Turns, kind[t] = "prompt", t \notin ctxDone,
                      pc[t] \in {"check", "end", "returned"}
               PROVE  /\ {out[t][i].n : i \in Own(t)} = 1..sent[t]
                      /\ \A i, j \in Own(t) : i < j => out[t][i].n < out[t][j].n
                      /\ \A i \in DOMAIN out[t] : out[t][i].t \in {t} \union ctxDone
    BY DEF CompleteTurn
  <2>0. TypeOK /\ Kept(t) /\ Chained(t) BY DEF IInv, Kept, ChainInv
  <2>1. held[t] = <<>> BY DEF LiveInv
  <2>2. buf[t] = <<>> BY DEF RefInv, Prompted
  <2>3. ~Handling(t) /\ ~Coming(t) /\ ~Delivering(t) BY <2>0, OnTheWay
  <2>4. Nums(held[t], t) = {} /\ Nums(buf[t], t) = {} BY <2>1, <2>2, NoNums
  <2>5. Nums(stdout, t) = {}
    <3>1. \A i \in DOMAIN stdout : ~Of(stdout[i], t) BY <2>3 DEF Coming, Of
    <3> QED BY <3>1 DEF Nums
  <2>6. Text(t) = {}
    <3>1. CASE rd.at = "deliver" /\ rd.ref = t
      <4>1. \A i \in DOMAIN rdText : ~Of(rdText[i], t) BY <2>3, <3>1 DEF Delivering, Of
      <4> QED BY <4>1 DEF Text, Nums
    <3>2. CASE ~(rd.at = "deliver" /\ rd.ref = t) BY <3>2, NoNums DEF Text, RefInv
    <3> QED BY <3>1, <3>2
  <2>7. Item(t) = {} BY <2>3 DEF Item
  <2>8. Nums(out[t], t) = 1 .. sent[t]
    <3>1. InLine(Nums(out[t], t), {}, {}, {}, {}, {}, sent[t])
      BY <2>0, <2>4, <2>5, <2>6, <2>7 DEF Chained
    <3> QED BY <3>1 DEF InLine
  <2>9. {out[t][i].n : i \in Own(t)} = Nums(out[t], t) BY DEF Own, Nums, Of
  <2>10. \A i, j \in Own(t) : i < j => out[t][i].n < out[t][j].n
    BY <2>0 DEF Chained, Rising, Own, Of
  <2>11. \A i \in DOMAIN out[t] : out[t][i].t \in {t} \union ctxDone
    BY DEF ForeignInv, Only, Meant
  <2> QED BY <2>8, <2>9, <2>10, <2>11
<1>4. QED BY <1>1, <1>2, <1>3, PTL DEF Spec
=============================================================================
