----------------------------- MODULE SdkTurnProofs -----------------------------
(***************************************************************************)
(* Proofs about the SDK-direct bridge, for any number of turns, bridges    *)
(* and deaths of the worker.                                               *)
(***************************************************************************)
EXTENDS SdkTurn, TLAPS

--------------------------------------------------------------------------------
(***************************************************************************)
(* Types.                                                                  *)
(***************************************************************************)
TurnPcs == {"idle", "ensure", "await", "submit", "wait", "record", "leave"}
TurnStates == [n : 0 .. MaxTurns, request : {0} \union Requests, resume : BOOLEAN,
               pc : TurnPcs, cancelled : BOOLEAN, owes : BOOLEAN,
               outcome : {"none", "ok", "error"}]
Drivers == [cmd : BOOLEAN, ready : {"no", "yes", "failed"}, gone : BOOLEAN,
            pending : SUBSET Requests, established : BOOLEAN,
            sid : {NoSession} \union Sessions]
ToFrames == [op : {"prompt", "cancel"}, request : {0} \union Requests,
             sid : {NoSession} \union Sessions, resume : BOOLEAN]
FromFrames == [type : {"ready", "text"} \union Replies, request : {0} \union Requests]
Queries == [state : {"none", "open", "running", "interrupted", "ended"},
            resume : BOOLEAN, sid : {NoSession} \union Sessions,
            context : SUBSET Turns, said : BOOLEAN, heard : BOOLEAN]
Transcripts == [held : BOOLEAN, turns : SUBSET Turns]

DriverTypeOK ==
    /\ turn \in TurnStates
    /\ driver \in Drivers
    /\ box \in [Requests -> Replies]
PipeTypeOK ==
    /\ toWorker \in Seq(ToFrames)
    /\ fromWorker \in Seq(FromFrames)
WorkerTypeOK ==
    /\ worker \in {"none", "booting", "up", "dead"}
    /\ active \in {0} \union Requests
    /\ query \in [Requests -> Queries]
RestTypeOK ==
    /\ transcripts \in [Sessions -> Transcripts]
    /\ record \in {NoSession} \union Sessions
    /\ bridge \in [n : 1 .. MaxBridges, up : BOOLEAN]
    /\ deaths \in 0 .. MaxDeaths
    /\ answered \in SUBSET Turns
    /\ lost \in SUBSET Turns
    /\ cancelRead \in SUBSET (0 .. MaxTurns)
    /\ strayed \in BOOLEAN

SdkTypeOK == DriverTypeOK /\ PipeTypeOK /\ WorkerTypeOK /\ RestTypeOK

LEMMA SdkTypes == SdkTypeOK => TypeOK
<1> SUFFICES ASSUME SdkTypeOK PROVE TypeOK OBVIOUS
<1>1. PipeTypeOK BY DEF SdkTypeOK
<1>2. /\ \A i \in DOMAIN toWorker : toWorker[i] \in ToFrames
      /\ \A i \in DOMAIN fromWorker : fromWorker[i] \in FromFrames
  BY <1>1 DEF PipeTypeOK
<1>3. DriverTypeOK /\ WorkerTypeOK /\ RestTypeOK BY DEF SdkTypeOK
<1> QED
  BY <1>2, <1>3 DEF DriverTypeOK, WorkerTypeOK, RestTypeOK, TypeOK, TurnStates,
     TurnPcs, Drivers, ToFrames, FromFrames, Queries, Transcripts

\* Turn n has the requests 2n - 1 and 2n.
LEMMA TurnOfIs ==
    ASSUME NEW r \in Nat
    PROVE  /\ TurnOf(r) \in Nat
           /\ \A n \in Nat : TurnOf(r) = n <=> r = 2 * n \/ r = 2 * n - 1
BY DEF TurnOf

LEMMA RequestFacts ==
    /\ \A r \in Requests : r \in Nat /\ r # 0 /\ TurnOf(r) \in Turns
    /\ \A r \in {0} \union Requests : r \in Nat /\ TurnOf(r) \in 0 .. MaxTurns
    /\ \A n \in Turns : 2 * n - 1 \in Requests /\ 2 * n \in Requests
    /\ TurnOf(0) = 0
BY SdkAssumption DEF Requests, Turns, TurnOf

\* A turn that goes on, or ends.
LEMMA TurnGoes ==
    ASSUME turn \in TurnStates, NEW pc \in TurnPcs, Goto(pc)
    PROVE  /\ turn' \in TurnStates /\ turn'.pc = pc
           /\ turn'.n = turn.n /\ turn'.request = turn.request
           /\ turn'.resume = turn.resume /\ turn'.cancelled = turn.cancelled
           /\ turn'.owes = turn.owes /\ turn'.outcome = turn.outcome
BY DEF TurnStates, TurnPcs, Goto

LEMMA TurnEnds ==
    ASSUME turn \in TurnStates, NEW outcome \in {"ok", "error"},
           turn' = EndsWith(turn, outcome)
    PROVE  /\ turn' \in TurnStates /\ turn'.pc = "leave"
           /\ turn'.n = turn.n /\ turn'.request = turn.request
           /\ turn'.resume = turn.resume /\ turn'.cancelled = turn.cancelled
           /\ turn'.outcome = outcome
<1> DEFINE t == [turn EXCEPT !.pc = "leave"]
           u == [t EXCEPT !.outcome = outcome]
<1>1. turn' = [u EXCEPT !.owes = TRUE] BY DEF EndsWith
<1>2. /\ t \in TurnStates /\ t.pc = "leave" /\ t.n = turn.n /\ t.request = turn.request
      /\ t.resume = turn.resume /\ t.cancelled = turn.cancelled
  BY DEF TurnStates, TurnPcs
<1> HIDE DEF t
<1>3. /\ u \in TurnStates /\ u.pc = "leave" /\ u.n = turn.n /\ u.request = turn.request
      /\ u.resume = turn.resume /\ u.cancelled = turn.cancelled /\ u.outcome = outcome
  BY <1>2 DEF TurnStates, TurnPcs
<1> HIDE DEF u
<1> QED BY <1>1, <1>3 DEF TurnStates, TurnPcs

\* All but the turn; all but the pipe to the worker and the driver's own state.
restVars == <<worker, active, query, transcripts, record, bridge, deaths, answered, lost,
              cancelRead, strayed>>

LEMMA RestTypes ==
    ASSUME SdkTypeOK, UNCHANGED restVars
    PROVE  WorkerTypeOK' /\ RestTypeOK'
BY DEF SdkTypeOK, WorkerTypeOK, RestTypeOK, restVars

LEMMA PipeTypes ==
    ASSUME SdkTypeOK
    PROVE  /\ UNCHANGED <<toWorker, fromWorker>> => PipeTypeOK'
           /\ toWorker' = <<>> /\ fromWorker' = <<>> => PipeTypeOK'
           /\ \A f \in ToFrames : Write(f) /\ UNCHANGED fromWorker => PipeTypeOK'
           /\ \A f \in FromFrames : Emit(f) /\ UNCHANGED toWorker => PipeTypeOK'
           /\ toWorker # <<>> => /\ Head(toWorker) \in ToFrames
                                 /\ Tail(toWorker) \in Seq(ToFrames)
           /\ fromWorker # <<>> => /\ Head(fromWorker) \in FromFrames
                                   /\ Tail(fromWorker) \in Seq(FromFrames)
<1>1. toWorker \in Seq(ToFrames) /\ fromWorker \in Seq(FromFrames)
  BY DEF SdkTypeOK, PipeTypeOK
<1>2. UNCHANGED <<toWorker, fromWorker>> => PipeTypeOK' BY <1>1 DEF PipeTypeOK
<1>3. toWorker' = <<>> /\ fromWorker' = <<>> => PipeTypeOK' BY DEF PipeTypeOK
<1>4. \A f \in ToFrames : Write(f) /\ UNCHANGED fromWorker => PipeTypeOK'
  BY <1>1 DEF PipeTypeOK, Write
<1>5. \A f \in FromFrames : Emit(f) /\ UNCHANGED toWorker => PipeTypeOK'
  BY <1>1 DEF PipeTypeOK, Emit
<1>6. toWorker # <<>> => Head(toWorker) \in ToFrames /\ Tail(toWorker) \in Seq(ToFrames)
  BY <1>1
<1>7. fromWorker # <<>> => Head(fromWorker) \in FromFrames /\ Tail(fromWorker) \in Seq(FromFrames)
  BY <1>1
<1> QED BY <1>2, <1>3, <1>4, <1>5, <1>6, <1>7

\* The steps that move only the turn on.
LEMMA BeginTurnDoes ==
    ASSUME SdkTypeOK, BeginTurn
    PROVE  /\ SdkTypeOK'
           /\ bridge.up /\ turn.pc = "idle" /\ turn'.n = turn.n + 1 /\ turn'.pc = "ensure"
           /\ turn'.request = 0 /\ turn'.cancelled = FALSE /\ turn'.outcome = "none"
           /\ UNCHANGED <<driver, box, toWorker, fromWorker>> /\ UNCHANGED restVars
<1>1. UNCHANGED <<driver, box, toWorker, fromWorker>> /\ UNCHANGED restVars
  BY DEF BeginTurn, restVars, workerVars, diskVars, history
<1>2. turn.n \in 0 .. MaxTurns /\ turn.n < MaxTurns /\ bridge.up /\ turn.pc = "idle"
  BY DEF BeginTurn, At, SdkTypeOK, DriverTypeOK, TurnStates
<1>3. turn' = [Idle(turn.n + 1) EXCEPT !.pc = "ensure"] BY DEF BeginTurn
<1>4. /\ turn' \in TurnStates /\ turn'.n = turn.n + 1 /\ turn'.pc = "ensure"
      /\ turn'.request = 0 /\ turn'.cancelled = FALSE /\ turn'.outcome = "none"
  <2> DEFINE idle == Idle(turn.n + 1)
  <2>1. /\ idle \in TurnStates /\ idle.n = turn.n + 1 /\ idle.request = 0
        /\ idle.cancelled = FALSE /\ idle.outcome = "none"
    BY SdkAssumption, <1>2 DEF Idle, TurnStates, TurnPcs
  <2>2. turn' = [idle EXCEPT !.pc = "ensure"] BY <1>3
  <2> HIDE DEF idle
  <2> QED BY <2>1, <2>2 DEF TurnStates, TurnPcs
<1>5. DriverTypeOK' BY <1>1, <1>4 DEF SdkTypeOK, DriverTypeOK
<1> QED BY <1>1, <1>2, <1>4, <1>5, RestTypes, PipeTypes DEF SdkTypeOK

LEMMA CallerLeavesDoes ==
    ASSUME SdkTypeOK, CallerLeaves
    PROVE  /\ SdkTypeOK'
           /\ bridge.up /\ turn'.n = turn.n /\ turn'.pc = turn.pc /\ turn'.request = turn.request
           /\ turn'.cancelled = TRUE /\ turn'.outcome = turn.outcome /\ turn'.owes = turn.owes
           /\ UNCHANGED <<driver, box, toWorker, fromWorker>> /\ UNCHANGED restVars
<1>1. UNCHANGED <<driver, box, toWorker, fromWorker>> /\ UNCHANGED restVars /\ bridge.up
  BY DEF CallerLeaves, restVars, workerVars, diskVars, history
<1>2. turn \in TurnStates BY DEF SdkTypeOK, DriverTypeOK
<1>3. turn' = [turn EXCEPT !.cancelled = TRUE] BY DEF CallerLeaves
<1>4. /\ turn' \in TurnStates /\ turn'.n = turn.n /\ turn'.pc = turn.pc
      /\ turn'.request = turn.request /\ turn'.owes = turn.owes
      /\ turn'.cancelled = TRUE /\ turn'.outcome = turn.outcome
  BY <1>2, <1>3 DEF TurnStates, TurnPcs
<1>5. DriverTypeOK' BY <1>1, <1>4 DEF SdkTypeOK, DriverTypeOK
<1> QED BY <1>1, <1>4, <1>5, RestTypes, PipeTypes DEF SdkTypeOK

LEMMA EnsureWorkerDoes ==
    ASSUME SdkTypeOK, EnsureWorker
    PROVE  /\ SdkTypeOK'
           /\ bridge.up /\ turn.pc = "ensure" /\ turn'.n = turn.n /\ turn'.request = turn.request
           /\ turn'.cancelled = turn.cancelled
           /\ UNCHANGED <<box, query, transcripts, record, bridge, deaths, answered, lost,
                          cancelRead, strayed>>
           /\ driver'.pending = driver.pending /\ driver'.sid = driver.sid
           /\ driver'.established = driver.established
           /\ \/ /\ driver.cmd /\ turn'.pc = "await" /\ turn'.outcome = turn.outcome
                 /\ UNCHANGED <<driver, toWorker, fromWorker, worker, active>>
              \/ /\ ~driver.cmd /\ turn'.pc = "await" /\ turn'.outcome = turn.outcome
                 /\ driver'.cmd /\ ~driver'.gone
                 /\ worker' = "booting" /\ active' = 0 /\ toWorker' = <<>> /\ fromWorker' = <<>>
              \/ /\ ~driver.cmd /\ turn'.pc = "leave" /\ turn'.outcome = "error"
                 /\ ~driver'.cmd /\ ~driver'.gone
                 /\ UNCHANGED <<toWorker, fromWorker, worker, active>>
<1>1. /\ UNCHANGED <<box, query, transcripts, record, bridge, deaths, answered, lost,
                     cancelRead, strayed>>
      /\ bridge.up /\ turn.pc = "ensure"
  BY DEF EnsureWorker, At, diskVars, history
<1>2. turn \in TurnStates /\ driver \in Drivers /\ WorkerTypeOK
  BY DEF SdkTypeOK, DriverTypeOK
<1>3. box' \in [Requests -> Replies] /\ RestTypeOK' /\ query' \in [Requests -> Queries]
  BY <1>1 DEF SdkTypeOK, RestTypeOK, DriverTypeOK, WorkerTypeOK
<1>4. CASE /\ driver.cmd /\ Goto("await")
           /\ UNCHANGED <<driver, toWorker, fromWorker, worker, active>>
  <2>1. /\ turn' \in TurnStates /\ turn'.pc = "await" /\ turn'.n = turn.n
        /\ turn'.request = turn.request /\ turn'.cancelled = turn.cancelled
        /\ turn'.outcome = turn.outcome
    BY <1>2, <1>4, TurnGoes DEF TurnPcs
  <2> QED
    BY <1>1, <1>2, <1>3, <1>4, <2>1, PipeTypes DEF SdkTypeOK, DriverTypeOK, WorkerTypeOK
<1>5. CASE /\ ~driver.cmd /\ Goto("await")
           /\ driver' = [driver EXCEPT !.cmd = TRUE, !.ready = "no", !.gone = FALSE]
           /\ worker' = "booting" /\ active' = 0 /\ toWorker' = <<>> /\ fromWorker' = <<>>
  <2>1. /\ turn' \in TurnStates /\ turn'.pc = "await" /\ turn'.n = turn.n
        /\ turn'.request = turn.request /\ turn'.cancelled = turn.cancelled
        /\ turn'.outcome = turn.outcome
    BY <1>2, <1>5, TurnGoes DEF TurnPcs
  <2>2. /\ driver' \in Drivers /\ driver'.cmd /\ ~driver'.gone
        /\ driver'.pending = driver.pending /\ driver'.sid = driver.sid
        /\ driver'.established = driver.established
    BY <1>2, <1>5 DEF Drivers
  <2> QED
    BY <1>1, <1>2, <1>3, <1>5, <2>1, <2>2, PipeTypes DEF SdkTypeOK, DriverTypeOK, WorkerTypeOK
<1>6. CASE /\ ~driver.cmd /\ turn' = EndsWith(turn, "error")
           /\ driver' = [driver EXCEPT !.ready = "failed", !.gone = FALSE]
           /\ UNCHANGED <<toWorker, fromWorker, worker, active>>
  <2>1. /\ turn' \in TurnStates /\ turn'.pc = "leave" /\ turn'.n = turn.n
        /\ turn'.request = turn.request /\ turn'.cancelled = turn.cancelled
        /\ turn'.outcome = "error"
    BY <1>2, <1>6, TurnEnds
  <2>2. /\ driver' \in Drivers /\ ~driver'.cmd /\ ~driver'.gone
        /\ driver'.pending = driver.pending /\ driver'.sid = driver.sid
        /\ driver'.established = driver.established
    BY <1>2, <1>6 DEF Drivers
  <2> QED
    BY <1>1, <1>2, <1>3, <1>6, <2>1, <2>2, PipeTypes DEF SdkTypeOK, DriverTypeOK, WorkerTypeOK
<1> QED BY <1>4, <1>5, <1>6 DEF EnsureWorker

LEMMA AwaitDoes ==
    ASSUME SdkTypeOK, WorkerReady \/ WorkerNotReady \/ PromptFails
    PROVE  /\ SdkTypeOK'
           /\ bridge.up /\ turn'.n = turn.n /\ turn'.request = turn.request
           /\ turn.pc = "await" \/ (turn.pc = "submit" /\ turn.request = 0 /\ turn'.pc = "leave")
           /\ turn'.cancelled = turn.cancelled
           /\ \/ turn'.pc = "submit" /\ turn'.outcome = turn.outcome
              \/ turn'.pc = "leave" /\ turn'.outcome = "error"
           /\ UNCHANGED <<driver, box, toWorker, fromWorker>> /\ UNCHANGED restVars
<1>1. /\ UNCHANGED <<driver, box, toWorker, fromWorker>> /\ UNCHANGED restVars
      /\ bridge.up
      /\ turn.pc = "await" \/ (turn.pc = "submit" /\ turn.request = 0 /\ turn' = EndsWith(turn, "error"))
  BY DEF WorkerReady, WorkerNotReady, PromptFails, At, restVars, workerVars, diskVars, history
<1>2. turn \in TurnStates BY DEF SdkTypeOK, DriverTypeOK
<1>3. Goto("submit") \/ turn' = EndsWith(turn, "error")
  BY DEF WorkerReady, WorkerNotReady, PromptFails
<1>4. /\ turn' \in TurnStates /\ turn'.n = turn.n /\ turn'.request = turn.request
      /\ turn'.cancelled = turn.cancelled
      /\ \/ turn'.pc = "submit" /\ turn'.outcome = turn.outcome
         \/ turn'.pc = "leave" /\ turn'.outcome = "error"
  BY <1>2, <1>3, TurnGoes, TurnEnds DEF TurnPcs
<1>5. DriverTypeOK' BY <1>1, <1>4 DEF SdkTypeOK, DriverTypeOK
<1>6. turn.pc = "await" \/ (turn.pc = "submit" /\ turn.request = 0 /\ turn'.pc = "leave")
  BY <1>1, <1>2, TurnEnds
<1> QED BY <1>1, <1>4, <1>5, <1>6, RestTypes, PipeTypes DEF SdkTypeOK

\* The request that a turn submits next.
NextRequest == IF turn.request = 0 THEN 2 * turn.n - 1 ELSE 2 * turn.n
NextSid == IF driver.sid = NoSession THEN bridge.n ELSE driver.sid
NextPrompt == [op |-> "prompt", request |-> NextRequest, sid |-> NextSid,
               resume |-> driver.established /\ turn.request = 0]

LEMMA SubmitDoes ==
    ASSUME SdkTypeOK, turn.n # 0, Submit
    PROVE  /\ SdkTypeOK'
           /\ bridge.up /\ turn.pc = "submit" /\ turn'.n = turn.n
           /\ turn'.cancelled = turn.cancelled
           /\ UNCHANGED <<box, fromWorker>> /\ UNCHANGED restVars
           /\ driver'.sid = NextSid /\ driver'.established = driver.established
           /\ driver'.cmd = driver.cmd /\ driver'.gone = driver.gone
           /\ \/ /\ driver.cmd /\ worker # "dead"
                 /\ NextRequest \in Requests
                 /\ driver'.pending = driver.pending \union {NextRequest}
                 /\ turn'.pc = "wait" /\ turn'.request = NextRequest
                 /\ turn'.outcome = turn.outcome
                 /\ NextPrompt \in ToFrames /\ toWorker' = Append(toWorker, NextPrompt)
              \/ /\ driver'.pending = driver.pending
                 /\ turn'.pc = "leave" /\ turn'.request = turn.request
                 /\ turn'.outcome = "error"
                 /\ UNCHANGED toWorker
<1>1. /\ UNCHANGED <<box, fromWorker>> /\ UNCHANGED restVars
      /\ bridge.up /\ turn.pc = "submit"
  BY DEF Submit, At, restVars, workerVars, diskVars, history
<1>2. /\ turn \in TurnStates /\ driver \in Drivers /\ box \in [Requests -> Replies]
      /\ bridge \in [n : 1 .. MaxBridges, up : BOOLEAN]
  BY DEF SdkTypeOK, DriverTypeOK, RestTypeOK
<1>3. NextSid \in {NoSession} \union Sessions
  BY <1>2 DEF NextSid, Drivers, Sessions
<1>4. turn.n \in Turns BY <1>2 DEF TurnStates, Turns
<1>5. NextRequest \in Requests BY <1>4, RequestFacts DEF NextRequest
<1>6. NextPrompt \in ToFrames
  BY <1>2, <1>3, <1>5 DEF NextPrompt, ToFrames, Drivers
<1>7. CASE driver.cmd /\ worker # "dead"
  <2>1. /\ driver' = [driver EXCEPT !.sid = NextSid, !.pending = driver.pending \union {NextRequest}]
        /\ turn' = [turn EXCEPT !.pc = "wait", !.request = NextRequest,
                                !.resume = driver.established /\ turn.request = 0]
        /\ Write(NextPrompt)
    BY <1>7 DEF Submit, NextSid, NextRequest, NextPrompt
  <2>2. /\ driver' \in Drivers /\ driver'.sid = NextSid
        /\ driver'.pending = driver.pending \union {NextRequest}
        /\ driver'.established = driver.established
        /\ driver'.cmd = driver.cmd /\ driver'.gone = driver.gone
    <3> DEFINE d == [driver EXCEPT !.sid = NextSid]
    <3>1. /\ d \in Drivers /\ d.sid = NextSid /\ d.pending = driver.pending
          /\ d.established = driver.established /\ d.cmd = driver.cmd /\ d.gone = driver.gone
      BY <1>2, <1>3 DEF Drivers
    <3>2. driver' = [d EXCEPT !.pending = driver.pending \union {NextRequest}] BY <2>1
    <3>3. driver.pending \union {NextRequest} \in SUBSET Requests BY <1>2, <1>5 DEF Drivers
    <3> HIDE DEF d
    <3> QED BY <3>1, <3>2, <3>3 DEF Drivers
  <2>3. /\ turn' \in TurnStates /\ turn'.pc = "wait" /\ turn'.request = NextRequest
        /\ turn'.n = turn.n /\ turn'.cancelled = turn.cancelled /\ turn'.outcome = turn.outcome
    <3> DEFINE t == [turn EXCEPT !.pc = "wait"]
               u == [t EXCEPT !.request = NextRequest]
               resume == driver.established /\ turn.request = 0
    <3>1. /\ t \in TurnStates /\ t.pc = "wait"
          /\ t.n = turn.n /\ t.cancelled = turn.cancelled /\ t.outcome = turn.outcome
      BY <1>2 DEF TurnStates, TurnPcs
    <3>2. turn' = [u EXCEPT !.resume = resume] BY <2>1
    <3> HIDE DEF t
    <3>3. /\ u \in TurnStates /\ u.pc = "wait" /\ u.request = NextRequest
          /\ u.n = turn.n /\ u.cancelled = turn.cancelled /\ u.outcome = turn.outcome
      BY <1>5, <3>1 DEF TurnStates
    <3>4. resume \in BOOLEAN BY <1>2 DEF Drivers
    <3> HIDE DEF u, resume
    <3> QED BY <3>2, <3>3, <3>4 DEF TurnStates
  <2>4. DriverTypeOK' BY <1>1, <1>2, <2>2, <2>3 DEF DriverTypeOK
  <2> QED
    BY <1>1, <1>5, <1>6, <1>7, <2>1, <2>2, <2>3, <2>4, RestTypes, PipeTypes DEF SdkTypeOK, Write
<1>8. CASE ~(driver.cmd /\ worker # "dead")
  <2>1. /\ driver' = [driver EXCEPT !.sid = NextSid]
        /\ turn' = EndsWith(turn, "error") /\ UNCHANGED toWorker
    BY <1>8 DEF Submit, NextSid
  <2>2. /\ driver' \in Drivers /\ driver'.sid = NextSid /\ driver'.pending = driver.pending
        /\ driver'.established = driver.established
        /\ driver'.cmd = driver.cmd /\ driver'.gone = driver.gone
    BY <1>2, <1>3, <2>1 DEF Drivers
  <2>3. /\ turn' \in TurnStates /\ turn'.pc = "leave" /\ turn'.request = turn.request
        /\ turn'.n = turn.n /\ turn'.cancelled = turn.cancelled /\ turn'.outcome = "error"
    BY <1>2, <2>1, TurnEnds
  <2>4. DriverTypeOK' BY <1>1, <1>2, <2>2, <2>3 DEF DriverTypeOK
  <2> QED BY <1>1, <2>1, <2>2, <2>3, <2>4, RestTypes, PipeTypes DEF SdkTypeOK
<1> QED BY <1>7, <1>8

LEMMA TakeReplyDoes ==
    ASSUME SdkTypeOK, turn.request # 0, TakeReply
    PROVE  /\ SdkTypeOK'
           /\ bridge.up /\ turn.pc = "wait" /\ turn'.n = turn.n /\ turn'.request = turn.request
           /\ turn'.cancelled = turn.cancelled
           /\ UNCHANGED <<driver, toWorker, fromWorker, worker, active, query, transcripts,
                          record, bridge, deaths, answered, cancelRead, strayed>>
           /\ box[turn.request] # "none" /\ box'[turn.request] = "none"
           /\ \A r \in Requests : r # turn.request => box'[r] = box[r]
           /\ \/ /\ box[turn.request] = "result" /\ turn'.pc = "record"
                 /\ turn'.outcome = turn.outcome /\ UNCHANGED lost
              \/ /\ box[turn.request] = "resume_failed" /\ turn.request = 2 * turn.n - 1
                 /\ turn'.pc = "submit" /\ turn'.outcome = turn.outcome
                 /\ lost' = lost \union answered
              \/ turn'.pc = "leave" /\ turn'.outcome = "error" /\ UNCHANGED lost
<1>1. /\ UNCHANGED <<driver, toWorker, fromWorker, worker, active, query, transcripts,
                     record, bridge, deaths, answered, cancelRead, strayed>>
      /\ bridge.up /\ turn.pc = "wait"
      /\ box[turn.request] # "none" /\ box' = [box EXCEPT ![turn.request] = "none"]
  BY DEF TakeReply, At, workerVars, diskVars
<1>2. /\ turn \in TurnStates /\ driver \in Drivers /\ box \in [Requests -> Replies]
      /\ turn.request \in Requests
  BY DEF SdkTypeOK, DriverTypeOK, TurnStates
<1>3. /\ box' \in [Requests -> Replies] /\ box'[turn.request] = "none"
      /\ \A r \in Requests : r # turn.request => box'[r] = box[r]
  BY <1>1, <1>2 DEF Replies
<1>4. \/ box[turn.request] = "result" /\ Goto("record") /\ UNCHANGED lost
      \/ /\ box[turn.request] = "resume_failed" /\ turn.request = 2 * turn.n - 1
         /\ Goto("submit") /\ lost' = lost \union answered
      \/ turn' = EndsWith(turn, "error") /\ UNCHANGED lost
  BY DEF TakeReply, WarnLost
<1>5. /\ turn' \in TurnStates /\ turn'.n = turn.n /\ turn'.request = turn.request
      /\ turn'.cancelled = turn.cancelled
      /\ \/ /\ box[turn.request] = "result" /\ turn'.pc = "record"
            /\ turn'.outcome = turn.outcome /\ UNCHANGED lost
         \/ /\ box[turn.request] = "resume_failed" /\ turn.request = 2 * turn.n - 1
            /\ turn'.pc = "submit" /\ turn'.outcome = turn.outcome
            /\ lost' = lost \union answered
         \/ turn'.pc = "leave" /\ turn'.outcome = "error" /\ UNCHANGED lost
  BY <1>2, <1>4, TurnGoes, TurnEnds DEF TurnPcs
<1>6. DriverTypeOK' BY <1>1, <1>2, <1>3, <1>5 DEF DriverTypeOK
<1>7. WorkerTypeOK' BY <1>1 DEF SdkTypeOK, WorkerTypeOK
<1>8. RestTypeOK' BY <1>1, <1>5 DEF SdkTypeOK, RestTypeOK
<1> QED BY <1>1, <1>3, <1>5, <1>6, <1>7, <1>8, PipeTypes DEF SdkTypeOK

\* The frame that a cancel writes, when there is a worker to read it.
CancelFrame == [op |-> "cancel", request |-> turn.request, sid |-> driver.sid, resume |-> FALSE]

LEMMA InterruptDoes ==
    ASSUME SdkTypeOK, Interrupt
    PROVE  /\ CancelFrame \in ToFrames
           /\ \/ driver.cmd /\ worker # "dead" /\ toWorker' = Append(toWorker, CancelFrame)
              \/ ~(driver.cmd /\ worker # "dead") /\ UNCHANGED toWorker
<1>1. CancelFrame \in ToFrames
  BY DEF SdkTypeOK, DriverTypeOK, TurnStates, Drivers, CancelFrame, ToFrames
<1> QED BY <1>1 DEF Interrupt, Write, CancelFrame

LEMMA ForgetDoes ==
    ASSUME SdkTypeOK, Forget(turn.request)
    PROVE  /\ driver' \in Drivers
           /\ driver'.pending = driver.pending \ {turn.request}
           /\ driver'.sid = driver.sid /\ driver'.established = driver.established
           /\ driver'.cmd = driver.cmd /\ driver'.gone = driver.gone
BY DEF SdkTypeOK, DriverTypeOK, Drivers, Forget

LEMMA TurnCancelledDoes ==
    ASSUME SdkTypeOK, TurnCancelled
    PROVE  /\ SdkTypeOK'
           /\ bridge.up /\ turn.pc = "wait" /\ turn.cancelled
           /\ turn'.n = turn.n /\ turn'.request = turn.request
           /\ turn'.pc = "leave" /\ turn'.cancelled = turn.cancelled /\ turn'.outcome = "error"
           /\ driver'.pending = driver.pending \ {turn.request}
           /\ driver'.sid = driver.sid /\ driver'.established = driver.established
           /\ driver'.cmd = driver.cmd /\ driver'.gone = driver.gone
           /\ UNCHANGED <<box, fromWorker>> /\ UNCHANGED restVars
           /\ CancelFrame \in ToFrames
           /\ \/ driver.cmd /\ worker # "dead" /\ toWorker' = Append(toWorker, CancelFrame)
              \/ ~(driver.cmd /\ worker # "dead") /\ UNCHANGED toWorker
<1>1. /\ UNCHANGED <<box, fromWorker>> /\ UNCHANGED restVars
      /\ bridge.up /\ turn.pc = "wait" /\ turn.cancelled
      /\ Interrupt /\ Forget(turn.request) /\ turn' = EndsWith(turn, "error")
  BY DEF TurnCancelled, At, restVars, workerVars, diskVars, history
<1>2. /\ turn' \in TurnStates /\ turn'.n = turn.n /\ turn'.request = turn.request
      /\ turn'.pc = "leave" /\ turn'.cancelled = turn.cancelled /\ turn'.outcome = "error"
  BY <1>1, TurnEnds DEF SdkTypeOK, DriverTypeOK
<1>3. DriverTypeOK' BY <1>1, <1>2, ForgetDoes DEF SdkTypeOK, DriverTypeOK
<1>4. PipeTypeOK' BY <1>1, InterruptDoes, PipeTypes DEF Write
<1> QED BY <1>1, <1>2, <1>3, <1>4, RestTypes, InterruptDoes, ForgetDoes DEF SdkTypeOK

LEMMA TurnOrphanedDoes ==
    ASSUME SdkTypeOK, TurnOrphaned
    PROVE  /\ SdkTypeOK'
           /\ bridge.up /\ turn.pc = "wait" /\ driver.gone
           /\ turn'.n = turn.n /\ turn'.request = turn.request
           /\ turn'.pc = "leave" /\ turn'.cancelled = turn.cancelled /\ turn'.outcome = "error"
           /\ driver'.pending = driver.pending \ {turn.request}
           /\ driver'.sid = driver.sid /\ driver'.established = driver.established
           /\ driver'.cmd = driver.cmd /\ driver'.gone = driver.gone
           /\ UNCHANGED <<box, toWorker, fromWorker>> /\ UNCHANGED restVars
<1>1. /\ UNCHANGED <<box, toWorker, fromWorker>> /\ UNCHANGED restVars
      /\ bridge.up /\ turn.pc = "wait" /\ driver.gone
      /\ Forget(turn.request) /\ turn' = EndsWith(turn, "error")
  BY DEF TurnOrphaned, At, restVars, workerVars, diskVars, history
<1>2. /\ turn' \in TurnStates /\ turn'.n = turn.n /\ turn'.request = turn.request
      /\ turn'.pc = "leave" /\ turn'.cancelled = turn.cancelled /\ turn'.outcome = "error"
  BY <1>1, TurnEnds DEF SdkTypeOK, DriverTypeOK
<1>3. DriverTypeOK' BY <1>1, <1>2, ForgetDoes DEF SdkTypeOK, DriverTypeOK
<1> QED BY <1>1, <1>2, <1>3, RestTypes, PipeTypes, ForgetDoes DEF SdkTypeOK

LEMMA RecordDoes ==
    ASSUME SdkTypeOK, Record
    PROVE  /\ SdkTypeOK'
           /\ bridge.up /\ turn.pc = "record" /\ turn'.n = turn.n /\ turn'.request = turn.request
           /\ turn'.pc = "leave" /\ turn'.cancelled = turn.cancelled /\ turn'.outcome = "ok"
           /\ driver'.pending = driver.pending /\ driver'.sid = driver.sid
           /\ driver'.established = TRUE /\ record' = driver.sid
           /\ driver'.cmd = driver.cmd /\ driver'.gone = driver.gone
           /\ UNCHANGED <<box, toWorker, fromWorker, worker, active, query, transcripts,
                          bridge, deaths, answered, lost, cancelRead, strayed>>
<1>1. /\ UNCHANGED <<box, toWorker, fromWorker, worker, active, query, transcripts,
                     bridge, deaths, answered, lost, cancelRead, strayed>>
      /\ bridge.up /\ turn.pc = "record" /\ record' = driver.sid
      /\ driver' = [driver EXCEPT !.established = TRUE] /\ turn' = EndsWith(turn, "ok")
  BY DEF Record, At, workerVars, history
<1>2. /\ turn' \in TurnStates /\ turn'.n = turn.n /\ turn'.request = turn.request
      /\ turn'.pc = "leave" /\ turn'.cancelled = turn.cancelled /\ turn'.outcome = "ok"
  BY <1>1, TurnEnds DEF SdkTypeOK, DriverTypeOK
<1>3. /\ driver' \in Drivers /\ driver'.pending = driver.pending /\ driver'.sid = driver.sid
      /\ driver'.established = TRUE /\ driver'.cmd = driver.cmd /\ driver'.gone = driver.gone
      /\ driver.sid \in {NoSession} \union Sessions
  BY <1>1 DEF SdkTypeOK, DriverTypeOK, Drivers
<1>4. DriverTypeOK' BY <1>1, <1>2, <1>3 DEF SdkTypeOK, DriverTypeOK
<1>5. WorkerTypeOK' /\ RestTypeOK' BY <1>1, <1>3 DEF SdkTypeOK, WorkerTypeOK, RestTypeOK
<1> QED BY <1>1, <1>2, <1>3, <1>4, <1>5, PipeTypes DEF SdkTypeOK

LEMMA CancelDriverDoes ==
    ASSUME SdkTypeOK, CancelDriver
    PROVE  /\ SdkTypeOK'
           /\ bridge.up /\ turn.pc = "leave" /\ turn'.n = turn.n /\ turn'.request = turn.request
           /\ turn'.pc = "leave" /\ turn'.cancelled = turn.cancelled
           /\ turn'.outcome = turn.outcome
           /\ UNCHANGED <<driver, box, fromWorker>> /\ UNCHANGED restVars
           /\ CancelFrame \in ToFrames
           /\ \/ turn.cancelled /\ toWorker' = Append(toWorker, CancelFrame)
              \/ UNCHANGED toWorker
<1>1. /\ UNCHANGED <<driver, box, fromWorker>> /\ UNCHANGED restVars
      /\ bridge.up /\ turn.pc = "leave" /\ turn' = [turn EXCEPT !.owes = FALSE]
      /\ IF turn.cancelled THEN Interrupt ELSE UNCHANGED toWorker
  BY DEF CancelDriver, At, restVars, workerVars, diskVars, history
<1>2. turn \in TurnStates BY DEF SdkTypeOK, DriverTypeOK
<1>3. /\ turn' \in TurnStates /\ turn'.n = turn.n /\ turn'.request = turn.request
      /\ turn'.pc = "leave" /\ turn'.cancelled = turn.cancelled
      /\ turn'.outcome = turn.outcome
  BY <1>1, <1>2 DEF TurnStates, TurnPcs
<1>4. DriverTypeOK' BY <1>1, <1>3 DEF SdkTypeOK, DriverTypeOK
<1>5. CancelFrame \in ToFrames
  BY DEF SdkTypeOK, DriverTypeOK, TurnStates, Drivers, CancelFrame, ToFrames
<1>6. \/ turn.cancelled /\ toWorker' = Append(toWorker, CancelFrame)
      \/ UNCHANGED toWorker
  BY <1>1, InterruptDoes
<1>7. PipeTypeOK' BY <1>1, <1>5, <1>6, PipeTypes DEF Write
<1> QED BY <1>1, <1>3, <1>4, <1>5, <1>6, <1>7, RestTypes DEF SdkTypeOK

LEMMA LeaveTurnDoes ==
    ASSUME SdkTypeOK, turn.n # 0, LeaveTurn
    PROVE  /\ SdkTypeOK'
           /\ bridge.up /\ turn.pc = "leave" /\ turn'.n = turn.n /\ turn'.request = 0
           /\ turn'.pc = "idle" /\ turn'.outcome = "none"
           /\ UNCHANGED <<driver, box, toWorker, fromWorker, worker, active, query, transcripts,
                          record, bridge, deaths, lost, cancelRead, strayed>>
           /\ answered' \in {answered, answered \union {turn.n}}
           /\ answered' # answered => turn.outcome = "ok"
<1>1. /\ UNCHANGED <<driver, box, toWorker, fromWorker, worker, active, query, transcripts,
                     record, bridge, deaths, lost, cancelRead, strayed>>
      /\ bridge.up /\ turn.pc = "leave" /\ turn' = Idle(turn.n)
      /\ answered' = IF turn.outcome = "ok" /\ ~turn.cancelled
                     THEN answered \union {turn.n} ELSE answered
  BY DEF LeaveTurn, At, workerVars, diskVars
<1>2. turn.n \in 0 .. MaxTurns BY DEF SdkTypeOK, DriverTypeOK, TurnStates
<1>3. /\ turn' \in TurnStates /\ turn'.n = turn.n /\ turn'.request = 0
      /\ turn'.pc = "idle" /\ turn'.outcome = "none"
  BY <1>1, <1>2 DEF TurnStates, TurnPcs, Idle
<1>4. DriverTypeOK' BY <1>1, <1>3 DEF SdkTypeOK, DriverTypeOK
<1>5. turn.n \in Turns BY <1>2 DEF Turns
<1>6. WorkerTypeOK' /\ RestTypeOK'
  BY <1>1, <1>5 DEF SdkTypeOK, WorkerTypeOK, RestTypeOK
<1> QED BY <1>1, <1>3, <1>4, <1>6, PipeTypes DEF SdkTypeOK

LEMMA DispatchDoes ==
    ASSUME SdkTypeOK, Dispatch, NEW f, f = Head(fromWorker)
    PROVE  /\ SdkTypeOK'
           /\ bridge.up /\ fromWorker # <<>> /\ fromWorker' = Tail(fromWorker) /\ f \in FromFrames
           /\ UNCHANGED <<turn, toWorker, worker, active, transcripts, record, bridge, deaths,
                          answered, lost, cancelRead, strayed>>
           /\ driver'.sid = driver.sid /\ driver'.established = driver.established
           /\ driver'.cmd = driver.cmd /\ driver'.gone = driver.gone
           /\ \A r \in Requests :
                 /\ query'[r].state = query[r].state /\ query'[r].said = query[r].said
                 /\ query'[r].resume = query[r].resume /\ query'[r].sid = query[r].sid
                 /\ query'[r].context = query[r].context
           /\ \/ /\ f.type = "ready"
                 /\ driver'.pending = driver.pending /\ UNCHANGED <<box, query>>
              \/ /\ f.type = "text"
                 /\ driver'.pending = driver.pending /\ UNCHANGED box
                 /\ \A r \in Requests :
                       query'[r].heard <=> query[r].heard \/ (r = f.request /\ r \in driver.pending)
              \/ /\ f.type \in Replies
                 /\ driver'.pending = driver.pending \ {f.request} /\ UNCHANGED query
                 /\ \A r \in Requests :
                       box'[r] = IF r = f.request /\ r \in driver.pending THEN f.type ELSE box[r]
<1>1. /\ UNCHANGED <<turn, toWorker, worker, active, transcripts, record, bridge, deaths,
                     answered, lost, cancelRead, strayed>>
      /\ bridge.up /\ fromWorker # <<>> /\ fromWorker' = Tail(fromWorker)
  BY DEF Dispatch, diskVars, history
<1>2. /\ turn \in TurnStates /\ driver \in Drivers /\ box \in [Requests -> Replies]
      /\ query \in [Requests -> Queries] /\ RestTypeOK
      /\ worker \in {"none", "booting", "up", "dead"} /\ active \in {0} \union Requests
  BY DEF SdkTypeOK, DriverTypeOK, WorkerTypeOK
<1>3. f \in FromFrames /\ fromWorker' \in Seq(FromFrames) /\ PipeTypeOK'
  BY <1>1, PipeTypes DEF PipeTypeOK, SdkTypeOK
<1>4. RestTypeOK' /\ turn' \in TurnStates
      /\ worker' \in {"none", "booting", "up", "dead"} /\ active' \in {0} \union Requests
  BY <1>1, <1>2 DEF RestTypeOK
<1> DEFINE awaited == f.request \in driver.pending
<1>5. \/ /\ f.type = "ready" /\ UNCHANGED <<box, query>>
         /\ driver' = [driver EXCEPT !.ready = IF @ = "no" THEN "yes" ELSE @]
      \/ /\ f.type = "text" /\ UNCHANGED <<driver, box>>
         /\ query' = [query EXCEPT ![f.request].heard = @ \/ awaited]
      \/ /\ f.type \in Replies /\ UNCHANGED query
         /\ box' = IF awaited THEN [box EXCEPT ![f.request] = f.type] ELSE box
         /\ driver' = [driver EXCEPT !.pending = @ \ {f.request}]
  BY <1>3 DEF Dispatch, FromFrames
<1>6. CASE /\ f.type = "ready" /\ UNCHANGED <<box, query>>
           /\ driver' = [driver EXCEPT !.ready = IF @ = "no" THEN "yes" ELSE @]
  <2>1. /\ driver' \in Drivers /\ driver'.pending = driver.pending /\ driver'.sid = driver.sid
        /\ driver'.established = driver.established
        /\ driver'.cmd = driver.cmd /\ driver'.gone = driver.gone
    BY <1>2, <1>6 DEF Drivers
  <2>2. DriverTypeOK' /\ WorkerTypeOK'
    BY <1>2, <1>4, <1>6, <2>1 DEF DriverTypeOK, WorkerTypeOK
  <2> QED BY <1>1, <1>3, <1>4, <1>6, <2>1, <2>2 DEF SdkTypeOK
<1>7. CASE /\ f.type = "text" /\ UNCHANGED <<driver, box>>
           /\ query' = [query EXCEPT ![f.request].heard = @ \/ awaited]
  <2>1. CASE f.request \notin Requests
    <3>1. query' = query BY <1>2, <1>7, <2>1
    <3>2. DriverTypeOK' /\ WorkerTypeOK'
      BY <1>2, <1>4, <1>7, <3>1 DEF DriverTypeOK, WorkerTypeOK
    <3> QED BY <1>1, <1>3, <1>4, <1>7, <2>1, <3>1, <3>2 DEF SdkTypeOK
  <2>2. CASE f.request \in Requests
    <3> DEFINE heard == query[f.request].heard \/ awaited
               q == [query[f.request] EXCEPT !.heard = heard]
    <3>1. query' = [query EXCEPT ![f.request] = q] BY <1>7
    <3>2. heard \in BOOLEAN OBVIOUS
    <3>3. query[f.request] \in Queries BY <1>2, <2>2
    <3>4. /\ q \in Queries /\ q.heard = heard
          /\ q.state = query[f.request].state /\ q.said = query[f.request].said
          /\ q.resume = query[f.request].resume /\ q.sid = query[f.request].sid
          /\ q.context = query[f.request].context
      <4> HIDE DEF heard
      <4> QED BY <3>2, <3>3 DEF Queries
    <3> HIDE DEF q
    <3>5. /\ query' \in [Requests -> Queries] /\ query'[f.request] = q
          /\ \A r \in Requests : r # f.request => query'[r] = query[r]
      BY <1>2, <2>2, <3>1, <3>4
    <3>6. DriverTypeOK' /\ WorkerTypeOK'
      BY <1>2, <1>4, <1>7, <3>5 DEF DriverTypeOK, WorkerTypeOK
    <3> QED BY <1>1, <1>3, <1>4, <1>7, <3>4, <3>5, <3>6 DEF SdkTypeOK
  <2> QED BY <2>1, <2>2
<1>8. CASE /\ f.type \in Replies /\ UNCHANGED query
           /\ box' = IF awaited THEN [box EXCEPT ![f.request] = f.type] ELSE box
           /\ driver' = [driver EXCEPT !.pending = @ \ {f.request}]
  <2>1. /\ driver' \in Drivers /\ driver'.pending = driver.pending \ {f.request}
        /\ driver'.sid = driver.sid /\ driver'.established = driver.established
        /\ driver'.cmd = driver.cmd /\ driver'.gone = driver.gone
    BY <1>2, <1>8 DEF Drivers
  <2>2. /\ box' \in [Requests -> Replies]
        /\ \A r \in Requests :
              box'[r] = IF r = f.request /\ r \in driver.pending THEN f.type ELSE box[r]
    BY <1>2, <1>8
  <2>3. DriverTypeOK' /\ WorkerTypeOK'
    BY <1>2, <1>4, <1>8, <2>1, <2>2 DEF DriverTypeOK, WorkerTypeOK
  <2> QED BY <1>1, <1>3, <1>4, <1>8, <2>1, <2>2, <2>3 DEF SdkTypeOK
<1> QED BY <1>5, <1>6, <1>7, <1>8

LEMMA ShutdownWorkerDoes ==
    ASSUME SdkTypeOK, ShutdownWorker
    PROVE  /\ SdkTypeOK'
           /\ bridge.up /\ worker = "dead" /\ worker' = "none"
           /\ fromWorker = <<>> /\ fromWorker' = <<>> /\ toWorker' = <<>>
           /\ UNCHANGED <<turn, active, query, transcripts, record, bridge, deaths,
                          answered, lost, cancelRead, strayed>>
           /\ driver'.sid = driver.sid /\ driver'.established = driver.established
           /\ ~driver'.cmd /\ driver'.gone /\ driver'.pending = {}
           /\ \A r \in Requests : box'[r] = IF r \in driver.pending /\ box[r] = "none"
                                            THEN "failed" ELSE box[r]
<1>1. /\ UNCHANGED <<turn, active, query, transcripts, record, bridge, deaths,
                     answered, lost, cancelRead, strayed>>
      /\ bridge.up /\ worker = "dead" /\ worker' = "none"
      /\ fromWorker = <<>> /\ fromWorker' = <<>> /\ toWorker' = <<>>
      /\ driver' = [driver EXCEPT !.cmd = FALSE, !.gone = TRUE, !.pending = {},
                                  !.ready = IF @ = "no" THEN "failed" ELSE @]
      /\ box' = [r \in Requests |-> IF r \in driver.pending /\ box[r] = "none"
                                    THEN "failed" ELSE box[r]]
  BY DEF ShutdownWorker, diskVars, history
<1>2. driver \in Drivers /\ box \in [Requests -> Replies] /\ turn \in TurnStates
  BY DEF SdkTypeOK, DriverTypeOK
<1>3. /\ driver' \in Drivers
      /\ driver'.sid = driver.sid /\ driver'.established = driver.established
      /\ ~driver'.cmd /\ driver'.gone /\ driver'.pending = {}
  <2> DEFINE a == [driver EXCEPT !.cmd = FALSE]
             b == [a EXCEPT !.gone = TRUE]
             c == [b EXCEPT !.pending = {}]
             ready == IF driver.ready = "no" THEN "failed" ELSE driver.ready
  <2>1. a \in Drivers /\ a.sid = driver.sid /\ a.established = driver.established
        /\ ~a.cmd /\ a.ready = driver.ready
    BY <1>2 DEF Drivers
  <2>2. driver' = [c EXCEPT !.ready = ready] BY <1>1
  <2>3. ready \in {"no", "yes", "failed"} BY <1>2 DEF Drivers
  <2> HIDE DEF a, ready
  <2>4. b \in Drivers /\ b.sid = driver.sid /\ b.established = driver.established
        /\ ~b.cmd /\ b.gone
    BY <2>1 DEF Drivers
  <2> HIDE DEF b
  <2>5. c \in Drivers /\ c.sid = driver.sid /\ c.established = driver.established
        /\ ~c.cmd /\ c.gone /\ c.pending = {}
    BY <2>4 DEF Drivers
  <2> HIDE DEF c
  <2> QED BY <2>2, <2>3, <2>5 DEF Drivers
<1>4. box' \in [Requests -> Replies] BY <1>1, <1>2 DEF Replies
<1>5. DriverTypeOK' BY <1>1, <1>2, <1>3, <1>4 DEF DriverTypeOK
<1>6. WorkerTypeOK' /\ RestTypeOK'
  BY <1>1 DEF SdkTypeOK, WorkerTypeOK, RestTypeOK
<1> QED BY <1>1, <1>3, <1>5, <1>6, PipeTypes DEF SdkTypeOK

LEMMA BootDoes ==
    ASSUME SdkTypeOK, Boot
    PROVE  /\ SdkTypeOK'
           /\ worker = "booting" /\ worker' = "up"
           /\ Frame("ready", 0) \in FromFrames
           /\ fromWorker' = Append(fromWorker, Frame("ready", 0))
           /\ UNCHANGED <<turn, driver, box, toWorker, active, query, transcripts, record,
                          bridge, deaths, answered, lost, cancelRead, strayed>>
<1>1. /\ worker = "booting" /\ worker' = "up"
      /\ fromWorker' = Append(fromWorker, Frame("ready", 0))
      /\ UNCHANGED <<turn, driver, box, toWorker, active, query, transcripts, record,
                     bridge, deaths, answered, lost, cancelRead, strayed>>
  BY DEF Boot, Emit, driverVars, diskVars, history
<1>2. Frame("ready", 0) \in FromFrames BY DEF Frame, FromFrames
<1>3. PipeTypeOK' BY <1>1, <1>2, PipeTypes DEF Emit
<1>4. DriverTypeOK' /\ WorkerTypeOK' /\ RestTypeOK'
  BY <1>1 DEF SdkTypeOK, DriverTypeOK, WorkerTypeOK, RestTypeOK
<1> QED BY <1>1, <1>2, <1>3, <1>4 DEF SdkTypeOK

\* What the end of the worker's process makes of its queries.
LEMMA Dying ==
    ASSUME SdkTypeOK, query' = Died(query)
    PROVE  /\ query' \in [Requests -> Queries]
           /\ \A r \in Requests :
                 /\ query'[r].state = IF query[r].state = "none" THEN "none" ELSE "ended"
                 /\ query'[r].said = query[r].said /\ query'[r].heard = query[r].heard
                 /\ query'[r].resume = query[r].resume /\ query'[r].sid = query[r].sid
<1> DEFINE state(r) == IF query[r].state = "none" THEN "none" ELSE "ended"
           dead(r) == [query[r] EXCEPT !.state = state(r)]
<1>1. query' = [r \in Requests |-> dead(r)] BY DEF Died
<1>2. ASSUME NEW r \in Requests
      PROVE  /\ dead(r) \in Queries /\ dead(r).state = state(r)
             /\ dead(r).said = query[r].said /\ dead(r).heard = query[r].heard
             /\ dead(r).resume = query[r].resume /\ dead(r).sid = query[r].sid
  <2>1. query[r] \in Queries BY DEF SdkTypeOK, WorkerTypeOK
  <2>2. state(r) \in {"none", "ended"} OBVIOUS
  <2> HIDE DEF state
  <2> QED BY <2>1, <2>2 DEF Queries
<1> HIDE DEF dead
<1> QED BY <1>1, <1>2

LEMMA WorkerDiesDoes ==
    ASSUME SdkTypeOK, WorkerDies
    PROVE  /\ SdkTypeOK'
           /\ worker \in {"booting", "up"} /\ worker' = "dead" /\ query' = Died(query)
           /\ UNCHANGED <<turn, driver, box, toWorker, fromWorker, active, transcripts,
                          record, bridge, answered, lost, cancelRead, strayed>>
<1>1. /\ worker \in {"booting", "up"} /\ worker' = "dead" /\ query' = Died(query)
      /\ deaths' = deaths + 1 /\ deaths < MaxDeaths
      /\ UNCHANGED <<turn, driver, box, toWorker, fromWorker, active, transcripts,
                     record, bridge, answered, lost, cancelRead, strayed>>
  BY DEF WorkerDies, driverVars, diskVars, history
<1>2. deaths' \in 0 .. MaxDeaths BY SdkAssumption, <1>1 DEF SdkTypeOK, RestTypeOK
<1>3. DriverTypeOK' /\ WorkerTypeOK' /\ RestTypeOK'
  BY <1>1, <1>2, Dying DEF SdkTypeOK, DriverTypeOK, WorkerTypeOK, RestTypeOK
<1> QED BY <1>1, <1>3, PipeTypes DEF SdkTypeOK

LEMMA ReadPromptDoes ==
    ASSUME SdkTypeOK, ReadPrompt, NEW f, f = Head(toWorker), f.request # 0
    PROVE  /\ SdkTypeOK'
           /\ worker = "up" /\ toWorker # <<>> /\ f.op = "prompt" /\ f \in ToFrames
           /\ f.request \in Requests /\ toWorker' = Tail(toWorker)
           /\ UNCHANGED <<turn, driver, box, worker, transcripts, record, bridge, deaths,
                          answered, lost, cancelRead, strayed>>
           /\ \/ /\ Frame("resume_failed", f.request) \in FromFrames
                 /\ fromWorker' = Append(fromWorker, Frame("resume_failed", f.request))
                 /\ UNCHANGED <<active, query>>
              \/ /\ query'[f.request].state = "open" /\ query'[f.request].resume = f.resume
                 /\ query'[f.request].sid = f.sid
                 /\ ~query'[f.request].said /\ ~query'[f.request].heard
                 /\ \A r \in Requests : r # f.request => query'[r] = query[r]
                 /\ active' = f.request /\ UNCHANGED fromWorker
<1>1. /\ UNCHANGED <<turn, driver, box, worker, transcripts, record, bridge, deaths,
                     answered, lost, cancelRead, strayed>>
      /\ worker = "up" /\ toWorker # <<>> /\ f.op = "prompt"
      /\ toWorker' = Tail(toWorker)
  BY DEF ReadPrompt, driverVars, diskVars, history
<1>2. f \in ToFrames /\ toWorker' \in Seq(ToFrames) BY <1>1, PipeTypes
<1>3. f.request \in Requests BY <1>2 DEF ToFrames
<1>4. DriverTypeOK' /\ RestTypeOK' /\ worker' \in {"none", "booting", "up", "dead"}
  BY <1>1 DEF SdkTypeOK, DriverTypeOK, RestTypeOK, WorkerTypeOK
<1>5. WorkerTypeOK /\ fromWorker \in Seq(FromFrames) BY DEF SdkTypeOK, PipeTypeOK
<1>6. CASE Emit(Frame("resume_failed", f.request)) /\ UNCHANGED <<active, query>>
  <2>1. Frame("resume_failed", f.request) \in FromFrames
    BY <1>3 DEF Frame, FromFrames, Replies
  <2>2. fromWorker' = Append(fromWorker, Frame("resume_failed", f.request)) BY <1>6 DEF Emit
  <2>3. PipeTypeOK' BY <1>2, <1>5, <2>1, <2>2 DEF PipeTypeOK
  <2>4. WorkerTypeOK' BY <1>4, <1>5, <1>6 DEF WorkerTypeOK
  <2> QED BY <1>1, <1>2, <1>3, <1>4, <1>6, <2>1, <2>2, <2>3, <2>4 DEF SdkTypeOK
<1>7. CASE /\ query' = [query EXCEPT ![f.request] =
                           [NoQuery EXCEPT !.state = "open", !.resume = f.resume, !.sid = f.sid]]
           /\ active' = f.request /\ UNCHANGED fromWorker
  <2> DEFINE q1 == [NoQuery EXCEPT !.state = "open"]
             q2 == [q1 EXCEPT !.resume = f.resume]
             q == [q2 EXCEPT !.sid = f.sid]
  <2>3. query' = [query EXCEPT ![f.request] = q] BY <1>7
  <2>1. /\ q1 \in Queries /\ q1.state = "open" /\ ~q1.said /\ ~q1.heard
    BY DEF NoQuery, Queries
  <2> HIDE DEF q1
  <2>8. /\ q2 \in Queries /\ q2.state = "open" /\ q2.resume = f.resume /\ ~q2.said /\ ~q2.heard
    BY <1>2, <2>1 DEF Queries, ToFrames
  <2> HIDE DEF q2
  <2>2. /\ q \in Queries /\ q.state = "open" /\ q.resume = f.resume /\ q.sid = f.sid
        /\ ~q.said /\ ~q.heard
    BY <1>2, <2>8 DEF Queries, ToFrames
  <2> HIDE DEF q
  <2>4. /\ query' \in [Requests -> Queries] /\ query'[f.request] = q
        /\ \A r \in Requests : r # f.request => query'[r] = query[r]
    BY <1>3, <1>5, <2>2, <2>3 DEF WorkerTypeOK
  <2>5. WorkerTypeOK' BY <1>3, <1>4, <1>7, <2>4 DEF WorkerTypeOK
  <2>6. PipeTypeOK' BY <1>2, <1>5, <1>7 DEF PipeTypeOK
  <2> QED BY <1>1, <1>2, <1>3, <1>4, <1>7, <2>2, <2>4, <2>5, <2>6 DEF SdkTypeOK
<1> QED BY <1>6, <1>7 DEF ReadPrompt

LEMMA ReadCancelDoes ==
    ASSUME SdkTypeOK, ReadCancel, NEW f, f = Head(toWorker)
    PROVE  /\ SdkTypeOK'
           /\ worker = "up" /\ toWorker # <<>> /\ f.op = "cancel" /\ f \in ToFrames
           /\ toWorker' = Tail(toWorker)
           /\ UNCHANGED <<turn, driver, box, fromWorker, worker, active, transcripts, record,
                          bridge, deaths, answered, lost>>
           /\ \A r \in Requests :
                 /\ query'[r].state = IF r = active /\ r \in Live THEN "interrupted"
                                      ELSE query[r].state
                 /\ query'[r].said = query[r].said /\ query'[r].heard = query[r].heard
                 /\ query'[r].resume = query[r].resume /\ query'[r].sid = query[r].sid
           /\ cancelRead' = cancelRead \union {TurnOf(f.request)}
           /\ strayed' = (strayed \/ LeftGoing' # {})
<1>1. /\ UNCHANGED <<turn, driver, box, fromWorker, worker, active, transcripts, record,
                     bridge, deaths, answered, lost>>
      /\ worker = "up" /\ toWorker # <<>> /\ f.op = "cancel"
      /\ toWorker' = Tail(toWorker)
      /\ query' = IF active \in Live
                  THEN [query EXCEPT ![active].state = "interrupted"] ELSE query
      /\ cancelRead' = cancelRead \union {TurnOf(f.request)}
      /\ strayed' = (strayed \/ LeftGoing' # {})
  BY DEF ReadCancel, driverVars, diskVars
<1>2. f \in ToFrames /\ toWorker' \in Seq(ToFrames) BY <1>1, PipeTypes
<1>3. cancelRead' \in SUBSET (0 .. MaxTurns)
  BY <1>1, <1>2, RequestFacts DEF SdkTypeOK, RestTypeOK, ToFrames
<1>4. strayed' \in BOOLEAN BY <1>1 DEF SdkTypeOK, RestTypeOK
<1>5. RestTypeOK' /\ DriverTypeOK' /\ PipeTypeOK'
  BY <1>1, <1>2, <1>3, <1>4 DEF SdkTypeOK, RestTypeOK, DriverTypeOK, PipeTypeOK
<1>6. /\ query' \in [Requests -> Queries]
      /\ \A r \in Requests :
            /\ query'[r].state = IF r = active /\ r \in Live THEN "interrupted"
                                 ELSE query[r].state
            /\ query'[r].said = query[r].said /\ query'[r].heard = query[r].heard
            /\ query'[r].resume = query[r].resume /\ query'[r].sid = query[r].sid
  <2>1. query \in [Requests -> Queries] BY DEF SdkTypeOK, WorkerTypeOK
  <2>2. CASE active \notin Live BY <1>1, <2>1, <2>2
  <2>3. CASE active \in Live
    <3> DEFINE q == [query[active] EXCEPT !.state = "interrupted"]
    <3>1. active \in Requests BY <2>3 DEF Live
    <3>2. query' = [query EXCEPT ![active] = q] BY <1>1, <2>3
    <3>3. /\ q \in Queries /\ q.state = "interrupted"
          /\ q.said = query[active].said /\ q.heard = query[active].heard
          /\ q.resume = query[active].resume /\ q.sid = query[active].sid
      BY <2>1, <3>1 DEF Queries
    <3> HIDE DEF q
    <3> QED BY <2>1, <2>3, <3>1, <3>2, <3>3
  <2> QED BY <2>2, <2>3
<1>7. WorkerTypeOK' BY <1>1, <1>6 DEF SdkTypeOK, WorkerTypeOK
<1> QED BY <1>1, <1>2, <1>5, <1>6, <1>7 DEF SdkTypeOK

\* A query that goes on, or ends: one field of it changes.
LEMMA QueryMoves ==
    ASSUME SdkTypeOK, NEW r \in Requests, NEW q \in Queries, query' = [query EXCEPT ![r] = q]
    PROVE  /\ query' \in [Requests -> Queries] /\ query'[r] = q
           /\ \A p \in Requests : p # r => query'[p] = query[p]
BY DEF SdkTypeOK, WorkerTypeOK

LEMMA QueryLoadsDoes ==
    ASSUME SdkTypeOK, NEW r \in Requests, query[r].sid \in Sessions, QueryLoads(r)
    PROVE  /\ SdkTypeOK'
           /\ query[r].state = "open" /\ query'[r].state = "running"
           /\ query'[r].said = query[r].said /\ query'[r].heard = query[r].heard
           /\ query'[r].resume = query[r].resume /\ query'[r].sid = query[r].sid
           /\ query[r].resume => /\ transcripts[query[r].sid].held
                                 /\ query'[r].context = transcripts[query[r].sid].turns
           /\ \A p \in Requests : p # r => query'[p] = query[p]
           /\ transcripts'[query[r].sid].held
           /\ \A s \in Sessions : transcripts'[s].turns = transcripts[s].turns
           /\ \A s \in Sessions : s # query[r].sid => transcripts'[s] = transcripts[s]
           /\ UNCHANGED <<turn, driver, box, toWorker, fromWorker, worker, active, record,
                          bridge, deaths, answered, lost, cancelRead, strayed>>
<1> DEFINE s == query[r].sid
           context == IF query[r].resume THEN transcripts[s].turns ELSE {}
           q1 == [query[r] EXCEPT !.state = "running"]
           q == [q1 EXCEPT !.context = context]
           t == [transcripts[s] EXCEPT !.held = TRUE]
<1>1. /\ UNCHANGED <<turn, driver, box, toWorker, fromWorker, worker, active, record,
                     bridge, deaths, answered, lost, cancelRead, strayed>>
      /\ query[r].state = "open" /\ (query[r].resume => transcripts[s].held)
      /\ query' = [query EXCEPT ![r].state = "running", ![r].context = context]
      /\ transcripts' = [transcripts EXCEPT ![s] = t]
  BY DEF QueryLoads, driverVars, history
<1>2. query \in [Requests -> Queries] /\ transcripts \in [Sessions -> Transcripts]
  BY DEF SdkTypeOK, WorkerTypeOK, RestTypeOK
<1>3. /\ t \in Transcripts /\ t.held /\ t.turns = transcripts[s].turns
      /\ context \in SUBSET Turns
  BY <1>2 DEF Transcripts
<1>4. /\ transcripts' \in [Sessions -> Transcripts]
      /\ transcripts'[s].held
      /\ \A p \in Sessions : transcripts'[p].turns = transcripts[p].turns
      /\ \A p \in Sessions : p # s => transcripts'[p] = transcripts[p]
  <2> HIDE DEF t
  <2> QED BY <1>1, <1>2, <1>3
<1>5. /\ q1 \in Queries /\ q1.state = "running" /\ q1.said = query[r].said
      /\ q1.heard = query[r].heard /\ q1.resume = query[r].resume /\ q1.sid = query[r].sid
  BY <1>2 DEF Queries
<1>6. query' = [query EXCEPT ![r] = q]
  <2>1. query' = [[query EXCEPT ![r] = q1] EXCEPT ![r].context = context] BY <1>1
  <2>2. [query EXCEPT ![r] = q1][r] = q1 /\ [query EXCEPT ![r] = q1] \in [Requests -> Queries]
    <3> HIDE DEF q1
    <3> QED BY <1>2, <1>5
  <2> HIDE DEF q1, context
  <2> QED BY <1>2, <2>1, <2>2
<1> HIDE DEF q1
<1>7. /\ q \in Queries /\ q.state = "running" /\ q.said = query[r].said
      /\ q.heard = query[r].heard /\ q.resume = query[r].resume /\ q.sid = query[r].sid
      /\ q.context = context
  <2> HIDE DEF context
  <2> QED BY <1>3, <1>5 DEF Queries
<1> HIDE DEF q
<1>8. /\ query' \in [Requests -> Queries] /\ query'[r] = q
      /\ \A p \in Requests : p # r => query'[p] = query[p]
  BY <1>6, <1>7, QueryMoves
<1>9. DriverTypeOK' /\ PipeTypeOK' /\ WorkerTypeOK' /\ RestTypeOK'
  BY <1>1, <1>4, <1>8, PipeTypes DEF SdkTypeOK, DriverTypeOK, WorkerTypeOK, RestTypeOK
<1> QED BY <1>1, <1>4, <1>7, <1>8, <1>9 DEF SdkTypeOK

LEMMA QuerySpeaksDoes ==
    ASSUME SdkTypeOK, NEW r \in Requests, QuerySpeaks(r)
    PROVE  /\ SdkTypeOK'
           /\ query[r].state = "running" /\ query'[r].state = "running"
           /\ ~query[r].said /\ query'[r].said = TRUE /\ query'[r].heard = query[r].heard
           /\ query'[r].resume = query[r].resume /\ query'[r].sid = query[r].sid
           /\ \A p \in Requests : p # r => query'[p] = query[p]
           /\ Frame("text", r) \in FromFrames
           /\ fromWorker' = Append(fromWorker, Frame("text", r))
           /\ UNCHANGED <<turn, driver, box, toWorker, worker, active, transcripts, record,
                          bridge, deaths, answered, lost, cancelRead, strayed>>
<1> DEFINE q == [query[r] EXCEPT !.said = TRUE]
<1>1. /\ UNCHANGED <<turn, driver, box, toWorker, worker, active, transcripts, record,
                     bridge, deaths, answered, lost, cancelRead, strayed>>
      /\ query[r].state = "running" /\ ~query[r].said
      /\ query' = [query EXCEPT ![r] = q] /\ Emit(Frame("text", r))
  BY DEF QuerySpeaks, driverVars, diskVars, history
<1>2. /\ q \in Queries /\ q.state = "running" /\ q.said = TRUE /\ q.heard = query[r].heard
      /\ q.resume = query[r].resume /\ q.sid = query[r].sid
  BY <1>1 DEF SdkTypeOK, WorkerTypeOK, Queries
<1> HIDE DEF q
<1>3. /\ query' \in [Requests -> Queries] /\ query'[r] = q
      /\ \A p \in Requests : p # r => query'[p] = query[p]
  BY <1>1, <1>2, QueryMoves
<1>4. Frame("text", r) \in FromFrames BY DEF Frame, FromFrames
<1>5. DriverTypeOK' /\ PipeTypeOK' /\ WorkerTypeOK' /\ RestTypeOK'
  BY <1>1, <1>3, <1>4, PipeTypes DEF SdkTypeOK, DriverTypeOK, WorkerTypeOK, RestTypeOK
<1> QED BY <1>1, <1>2, <1>3, <1>4, <1>5 DEF SdkTypeOK, Emit

LEMMA EndsDoes ==
    ASSUME SdkTypeOK, NEW r \in Requests, NEW type \in {"result", "failed", "resume_failed"},
           Ends(r, type)
    PROVE  /\ query' \in [Requests -> Queries]
           /\ query'[r].state = "ended"
           /\ query'[r].said = query[r].said /\ query'[r].heard = query[r].heard
           /\ query'[r].resume = query[r].resume /\ query'[r].sid = query[r].sid
           /\ \A p \in Requests : p # r => query'[p] = query[p]
           /\ Frame(type, r) \in FromFrames
           /\ fromWorker' = Append(fromWorker, Frame(type, r))
           /\ UNCHANGED toWorker => PipeTypeOK'
           /\ active' = 0
<1> DEFINE q == [query[r] EXCEPT !.state = "ended"]
<1>1. query' = [query EXCEPT ![r] = q] /\ Emit(Frame(type, r)) /\ active' = 0
  BY DEF Ends
<1>2. /\ q \in Queries /\ q.state = "ended" /\ q.said = query[r].said
      /\ q.heard = query[r].heard /\ q.resume = query[r].resume /\ q.sid = query[r].sid
  BY <1>1 DEF SdkTypeOK, WorkerTypeOK, Queries
<1> HIDE DEF q
<1>3. /\ query' \in [Requests -> Queries] /\ query'[r] = q
      /\ \A p \in Requests : p # r => query'[p] = query[p]
  BY <1>1, <1>2, QueryMoves
<1>4. Frame(type, r) \in FromFrames BY DEF Frame, FromFrames, Replies
<1>5. UNCHANGED toWorker => PipeTypeOK' BY <1>1, <1>4, PipeTypes
<1> QED BY <1>1, <1>2, <1>3, <1>4, <1>5 DEF Emit

LEMMA QuerySucceedsDoes ==
    ASSUME SdkTypeOK, NEW r \in Requests, query[r].sid \in Sessions, QuerySucceeds(r)
    PROVE  /\ SdkTypeOK'
           /\ query[r].state = "running" /\ query'[r].state = "ended"
           /\ query'[r].said = query[r].said /\ query'[r].heard = query[r].heard
           /\ query'[r].resume = query[r].resume /\ query'[r].sid = query[r].sid
           /\ \A p \in Requests : p # r => query'[p] = query[p]
           /\ Frame("result", r) \in FromFrames
           /\ fromWorker' = Append(fromWorker, Frame("result", r)) /\ active' = 0
           /\ \A s \in Sessions :
                 /\ transcripts'[s].held = transcripts[s].held
                 /\ transcripts'[s].turns = IF s = query[r].sid
                                            THEN transcripts[s].turns \union {TurnOf(r)}
                                            ELSE transcripts[s].turns
           /\ UNCHANGED <<turn, driver, box, toWorker, worker, record, bridge, deaths,
                          answered, lost, cancelRead, strayed>>
<1> DEFINE s == query[r].sid
           t == [transcripts[s] EXCEPT !.turns = @ \union {TurnOf(r)}]
<1>1. /\ UNCHANGED <<turn, driver, box, toWorker, worker, record, bridge, deaths,
                     answered, lost, cancelRead, strayed>>
      /\ query[r].state = "running" /\ Ends(r, "result")
      /\ transcripts' = [transcripts EXCEPT ![s] = t]
  BY DEF QuerySucceeds, driverVars, history
<1>2. transcripts \in [Sessions -> Transcripts] BY DEF SdkTypeOK, RestTypeOK
<1>3. /\ t \in Transcripts /\ t.held = transcripts[s].held
      /\ t.turns = transcripts[s].turns \union {TurnOf(r)}
  <2>1. TurnOf(r) \in Turns BY RequestFacts
  <2> QED BY <1>2, <2>1 DEF Transcripts
<1> HIDE DEF t
<1>4. /\ transcripts' \in [Sessions -> Transcripts]
      /\ \A p \in Sessions :
            /\ transcripts'[p].held = transcripts[p].held
            /\ transcripts'[p].turns = IF p = s THEN transcripts[p].turns \union {TurnOf(r)}
                                       ELSE transcripts[p].turns
  <2> HIDE DEF s
  <2>1. s \in Sessions BY DEF s
  <2> QED BY <1>1, <1>2, <1>3, <2>1
<1>5. /\ query' \in [Requests -> Queries]
      /\ query'[r].state = "ended"
      /\ query'[r].said = query[r].said /\ query'[r].heard = query[r].heard
      /\ query'[r].resume = query[r].resume /\ query'[r].sid = query[r].sid
      /\ \A p \in Requests : p # r => query'[p] = query[p]
      /\ Frame("result", r) \in FromFrames
      /\ fromWorker' = Append(fromWorker, Frame("result", r)) /\ active' = 0
      /\ PipeTypeOK'
  BY <1>1, EndsDoes
<1>6. DriverTypeOK' /\ WorkerTypeOK' /\ RestTypeOK'
  BY <1>1, <1>4, <1>5 DEF SdkTypeOK, DriverTypeOK, WorkerTypeOK, RestTypeOK
<1> QED BY <1>1, <1>4, <1>5, <1>6 DEF SdkTypeOK

LEMMA QueryFailsDoes ==
    ASSUME SdkTypeOK, NEW r \in Requests, QueryFails(r)
    PROVE  /\ SdkTypeOK'
           /\ r \in Live /\ query'[r].state = "ended"
           /\ query'[r].said = query[r].said /\ query'[r].heard = query[r].heard
           /\ query'[r].resume = query[r].resume /\ query'[r].sid = query[r].sid
           /\ \A p \in Requests : p # r => query'[p] = query[p]
           /\ \E type \in {"failed", "resume_failed"} :
                 /\ Frame(type, r) \in FromFrames
                 /\ fromWorker' = Append(fromWorker, Frame(type, r))
                 /\ type = "resume_failed" => query[r].resume
           /\ active' = 0
           /\ UNCHANGED <<turn, driver, box, toWorker, worker, transcripts, record, bridge,
                          deaths, answered, lost, cancelRead, strayed>>
<1>1. /\ UNCHANGED <<turn, driver, box, toWorker, worker, transcripts, record, bridge,
                     deaths, answered, lost, cancelRead, strayed>>
      /\ r \in Live
  BY DEF QueryFails, driverVars, diskVars, history
<1>2. PICK type \in {"failed", "resume_failed"} :
          /\ Ends(r, type)
          /\ type = "resume_failed" => query[r].resume
  BY DEF QueryFails
<1>3. /\ query' \in [Requests -> Queries]
      /\ query'[r].state = "ended"
      /\ query'[r].said = query[r].said /\ query'[r].heard = query[r].heard
      /\ query'[r].resume = query[r].resume /\ query'[r].sid = query[r].sid
      /\ \A p \in Requests : p # r => query'[p] = query[p]
      /\ Frame(type, r) \in FromFrames
      /\ fromWorker' = Append(fromWorker, Frame(type, r)) /\ active' = 0
      /\ PipeTypeOK'
  BY <1>1, <1>2, EndsDoes
<1>4. DriverTypeOK' /\ WorkerTypeOK' /\ RestTypeOK'
  BY <1>1, <1>3 DEF SdkTypeOK, DriverTypeOK, WorkerTypeOK, RestTypeOK
<1> QED BY <1>1, <1>2, <1>3, <1>4 DEF SdkTypeOK

LEMMA TranscriptDeletedDoes ==
    ASSUME SdkTypeOK, NEW s \in Sessions, TranscriptDeleted(s)
    PROVE  /\ SdkTypeOK'
           /\ ~transcripts'[s].held /\ transcripts'[s].turns = {}
           /\ \A p \in Sessions : p # s => transcripts'[p] = transcripts[p]
           /\ \A r \in Requests : query[r].state = "running" => query[r].sid # s
           /\ UNCHANGED <<turn, driver, box, toWorker, fromWorker, worker, active, query,
                          record, bridge, deaths, answered, lost, cancelRead, strayed>>
<1>1. /\ UNCHANGED <<turn, driver, box, toWorker, fromWorker, worker, active, query,
                     record, bridge, deaths, answered, lost, cancelRead, strayed>>
      /\ \A r \in Requests : query[r].state = "running" => query[r].sid # s
      /\ transcripts' = [transcripts EXCEPT ![s] = Absent]
  BY DEF TranscriptDeleted, driverVars, workerVars, history
<1>2. /\ transcripts' \in [Sessions -> Transcripts]
      /\ ~transcripts'[s].held /\ transcripts'[s].turns = {}
      /\ \A p \in Sessions : p # s => transcripts'[p] = transcripts[p]
  BY <1>1 DEF SdkTypeOK, RestTypeOK, Transcripts, Absent
<1>3. DriverTypeOK' /\ PipeTypeOK' /\ WorkerTypeOK' /\ RestTypeOK'
  BY <1>1, <1>2, PipeTypes DEF SdkTypeOK, DriverTypeOK, WorkerTypeOK, RestTypeOK
<1> QED BY <1>1, <1>2, <1>3 DEF SdkTypeOK

LEMMA BridgeEndsDoes ==
    ASSUME SdkTypeOK, BridgeEnds
    PROVE  /\ SdkTypeOK'
           /\ bridge.up /\ ~bridge'.up /\ bridge'.n = bridge.n
           /\ turn'.n = turn.n /\ turn'.pc = "idle" /\ turn'.request = 0
           /\ turn'.outcome = "none"
           /\ \A r \in Requests : box'[r] = "none"
           /\ worker' = "none" /\ toWorker' = <<>> /\ fromWorker' = <<>> /\ active' = 0
           /\ query' = Died(query)
           /\ UNCHANGED <<driver, transcripts, record, deaths, answered, lost, cancelRead,
                          strayed>>
<1>1. /\ UNCHANGED <<driver, transcripts, record, deaths, answered, lost, cancelRead, strayed>>
      /\ bridge.up /\ bridge' = [bridge EXCEPT !.up = FALSE] /\ turn' = Idle(turn.n)
      /\ box' = [r \in Requests |-> "none"]
      /\ worker' = "none" /\ toWorker' = <<>> /\ fromWorker' = <<>> /\ active' = 0
      /\ query' = Died(query)
  BY DEF BridgeEnds, diskVars, history
<1>2. turn \in TurnStates /\ driver \in Drivers /\ RestTypeOK
  BY DEF SdkTypeOK, DriverTypeOK
<1>3. /\ turn' \in TurnStates /\ turn'.n = turn.n /\ turn'.pc = "idle" /\ turn'.request = 0
      /\ turn'.outcome = "none"
  BY <1>1, <1>2 DEF TurnStates, TurnPcs, Idle
<1>4. bridge' \in [n : 1 .. MaxBridges, up : BOOLEAN] /\ ~bridge'.up /\ bridge'.n = bridge.n
  BY <1>1, <1>2 DEF RestTypeOK
<1>5. box' \in [Requests -> Replies] /\ \A r \in Requests : box'[r] = "none"
  BY <1>1 DEF Replies
<1>6. query' \in [Requests -> Queries] BY <1>1, Dying
<1>7. DriverTypeOK' BY <1>1, <1>2, <1>3, <1>5 DEF DriverTypeOK
<1>8. WorkerTypeOK' BY <1>1, <1>6 DEF WorkerTypeOK
<1>9. RestTypeOK' BY <1>1, <1>2, <1>4 DEF RestTypeOK
<1> QED BY <1>1, <1>3, <1>4, <1>5, <1>7, <1>8, <1>9, PipeTypes DEF SdkTypeOK

LEMMA BridgeStartsDoes ==
    ASSUME SdkTypeOK, bridge.n < MaxBridges, BridgeStarts
    PROVE  /\ SdkTypeOK'
           /\ ~bridge.up /\ bridge'.up
           /\ driver'.sid = record /\ (driver'.established <=> record # NoSession)
           /\ ~driver'.cmd /\ ~driver'.gone /\ driver'.pending = {}
           /\ UNCHANGED <<turn, box, toWorker, fromWorker, worker, active, query, transcripts,
                          record, deaths, answered, lost, cancelRead, strayed>>
<1>1. /\ UNCHANGED <<turn, box, toWorker, fromWorker, worker, active, query, transcripts,
                     record, deaths, answered, lost, cancelRead, strayed>>
      /\ ~bridge.up /\ bridge' = [n |-> bridge.n + 1, up |-> TRUE]
      /\ driver' = NewDriver(record)
  BY DEF BridgeStarts, workerVars, diskVars, history
<1>2. /\ bridge'.up /\ bridge' \in [n : 1 .. MaxBridges, up : BOOLEAN]
  BY SdkAssumption, <1>1 DEF SdkTypeOK, RestTypeOK
<1>3. /\ driver' \in Drivers
      /\ driver'.sid = record /\ (driver'.established <=> record # NoSession)
      /\ ~driver'.cmd /\ ~driver'.gone /\ driver'.pending = {}
  BY <1>1 DEF SdkTypeOK, RestTypeOK, NewDriver, Drivers, NoSession
<1>4. DriverTypeOK' /\ WorkerTypeOK' /\ RestTypeOK'
  BY <1>1, <1>2, <1>3 DEF SdkTypeOK, DriverTypeOK, WorkerTypeOK, RestTypeOK
<1> QED BY <1>1, <1>2, <1>3, <1>4, PipeTypes DEF SdkTypeOK

\* A pipe with one more frame, and one with its first frame read.
LEMMA Appended ==
    ASSUME NEW S, NEW s \in Seq(S), NEW e \in S
    PROVE  /\ Append(s, e) \in Seq(S)
           /\ DOMAIN s = 1 .. Len(s) /\ Len(s) \in Nat
           /\ DOMAIN Append(s, e) = 1 .. Len(s) + 1
           /\ \A i \in DOMAIN s : i \in DOMAIN Append(s, e) /\ Append(s, e)[i] = s[i]
           /\ Append(s, e)[Len(s) + 1] = e
           /\ \A i \in DOMAIN Append(s, e) : i \in DOMAIN s \/ i = Len(s) + 1
OBVIOUS

LEMMA Tailed ==
    ASSUME NEW S, NEW s \in Seq(S), s # <<>>
    PROVE  /\ Tail(s) \in Seq(S)
           /\ 1 \in DOMAIN s /\ Head(s) = s[1]
           /\ \A i \in DOMAIN s : i \in Nat /\ i >= 1
           /\ \A i \in DOMAIN Tail(s) : i \in Nat /\ i + 1 \in DOMAIN s /\ Tail(s)[i] = s[i + 1]
           /\ \A i \in DOMAIN s : i # 1 => i - 1 \in DOMAIN Tail(s) /\ Tail(s)[i - 1] = s[i]
OBVIOUS

LEMMA TurnRequests ==
    \A n \in Turns : TurnOf(2 * n - 1) = n /\ TurnOf(2 * n) = n
BY SdkAssumption DEF TurnOf, Turns

--------------------------------------------------------------------------------
(***************************************************************************)
(* What a turn, a worker and a pipe look like at each point.               *)
(***************************************************************************)
TurnShape ==
    /\ turn.pc # "idle" => turn.n >= 1
    /\ turn.pc \in {"idle", "ensure", "await"} => turn.request = 0
    /\ turn.request \in {0, 2 * turn.n - 1, 2 * turn.n}
    /\ turn.pc = "submit" => turn.request # 2 * turn.n \/ turn.request = 0
    /\ turn.pc \in {"wait", "record"} => turn.request # 0
    /\ turn.outcome = "ok" => turn.pc = "leave" /\ turn.request # 0
    /\ turn.pc = "leave" => turn.outcome # "none"

WorkerShape ==
    /\ bridge.up => (driver.cmd <=> worker # "none")
    /\ bridge.up /\ ~driver.cmd => driver.pending = {}
    /\ bridge.up /\ driver.gone => ~driver.cmd
    /\ ~bridge.up => turn.pc = "idle" /\ worker = "none" /\ bridge.n < MaxBridges
    /\ ~bridge.up => \A r \in Requests : box[r] = "none"
    /\ worker = "none" => toWorker = <<>> /\ fromWorker = <<>>
    /\ worker # "up" => \A r \in Requests : query[r].state \in {"none", "ended"}

Past ==
    /\ \A i \in DOMAIN toWorker :
          /\ TurnOf(toWorker[i].request) <= turn.n
          /\ toWorker[i].op = "prompt" => toWorker[i].request # 0 /\ toWorker[i].sid \in Sessions
    /\ TurnOf(active) <= turn.n
    /\ \A r \in Requests : query[r].state # "none" => TurnOf(r) <= turn.n /\ query[r].sid \in Sessions

Shape == SdkTypeOK /\ TurnShape /\ WorkerShape /\ Past

LEMMA ShapeInit == Init => Shape
<1> SUFFICES ASSUME Init PROVE Shape OBVIOUS
<1>1. DriverTypeOK
  BY SdkAssumption DEF Init, DriverTypeOK, TurnStates, TurnPcs, Drivers, Idle, NewDriver, NoSession, Replies
<1>2. PipeTypeOK BY DEF Init, PipeTypeOK
<1>3. WorkerTypeOK BY DEF Init, WorkerTypeOK, NoQuery, Queries, NoSession
<1>4. RestTypeOK
  <2>1. Absent \in Transcripts BY DEF Absent, Transcripts
  <2>2. transcripts \in [Sessions -> Transcripts] BY <2>1 DEF Init
  <2>3. bridge \in [n : 1 .. MaxBridges, up : BOOLEAN] BY SdkAssumption DEF Init
  <2>4. /\ record \in {NoSession} \union Sessions /\ deaths \in 0 .. MaxDeaths
        /\ answered = {} /\ lost = {} /\ cancelRead = {} /\ strayed = FALSE
    BY SdkAssumption DEF Init
  <2> QED BY <2>2, <2>3, <2>4 DEF RestTypeOK
<1>5. TurnShape BY DEF Init, TurnShape, Idle
<1>6. WorkerShape
  BY DEF Init, WorkerShape, Idle, NewDriver, NoQuery
<1>7. Past
  <2>1. turn.n = 0 /\ DOMAIN toWorker = {} /\ active = 0 BY DEF Init, Idle
  <2>2. \A r \in Requests : query[r].state = "none" BY DEF Init, NoQuery
  <2>3. TurnOf(active) = 0 BY <2>1, RequestFacts
  <2> QED BY <2>1, <2>2, <2>3 DEF Past
<1> QED BY <1>1, <1>2, <1>3, <1>4, <1>5, <1>6, <1>7 DEF Shape, SdkTypeOK

\* A turn that is served has a number.
LEMMA TurnNumber ==
    ASSUME Shape
    PROVE  /\ turn.n \in Nat /\ turn.n <= MaxTurns /\ turn.request \in Nat
           /\ turn.pc # "idle" => turn.n # 0 /\ turn.n \in Turns
           /\ turn.request # 0 => turn.request \in Requests /\ TurnOf(turn.request) = turn.n
<1>1. turn \in TurnStates BY DEF Shape, SdkTypeOK, DriverTypeOK
<1>2. TurnShape BY DEF Shape
<1>3. turn.n \in 0 .. MaxTurns /\ turn.request \in {0} \union Requests
  BY <1>1 DEF TurnStates
<1>4. turn.n \in Nat /\ turn.n <= MaxTurns /\ turn.request \in Nat
  BY <1>3, SdkAssumption, RequestFacts
<1>5. turn.pc # "idle" => turn.n # 0 /\ turn.n \in Turns
  BY <1>2, <1>4 DEF TurnShape, Turns
<1>6. ASSUME turn.request # 0 PROVE turn.request \in Requests /\ TurnOf(turn.request) = turn.n
  <2>1. turn.request = 2 * turn.n - 1 \/ turn.request = 2 * turn.n
    BY <1>2, <1>6 DEF TurnShape
  <2> QED BY <1>3, <1>4, <1>6, <2>1, TurnOfIs
<1> QED BY <1>4, <1>5, <1>6

LEMMA ShapeNext == Shape /\ [Next]_vars => Shape'
<1> SUFFICES ASSUME Shape, [Next]_vars PROVE Shape' OBVIOUS
<1>0. /\ SdkTypeOK /\ TurnShape /\ WorkerShape /\ Past
      /\ turn \in TurnStates /\ driver \in Drivers
      /\ toWorker \in Seq(ToFrames) /\ fromWorker \in Seq(FromFrames)
  BY DEF Shape, SdkTypeOK, DriverTypeOK, PipeTypeOK
<1>n. /\ turn.n \in Nat /\ (turn.pc # "idle" => turn.n # 0 /\ turn.n \in Turns)
      /\ (turn.request # 0 => turn.request \in Requests /\ TurnOf(turn.request) = turn.n)
  BY TurnNumber
\* A step that writes nothing to the worker and starts no query.
<1>p. ASSUME UNCHANGED <<toWorker, query, active>>, turn'.n \in Nat, turn'.n >= turn.n
      PROVE  Past'
  <2>0. /\ \A i \in DOMAIN toWorker : toWorker[i].request \in {0} \union Requests
        /\ active \in {0} \union Requests
    <3>1. \A i \in DOMAIN toWorker : toWorker[i] \in ToFrames BY <1>0
    <3>2. active \in {0} \union Requests BY <1>0 DEF SdkTypeOK, WorkerTypeOK
    <3> QED BY <3>1, <3>2 DEF ToFrames
  <2>1. /\ \A i \in DOMAIN toWorker : TurnOf(toWorker[i].request) \in Nat
        /\ TurnOf(active) \in Nat
        /\ \A r \in Requests : TurnOf(r) \in Nat
    BY <2>0, RequestFacts, SdkAssumption
  <2> QED BY <1>0, <1>n, <1>p, <2>1 DEF Past
\* A step that may write the cancel of this turn.
<1>c. ASSUME UNCHANGED <<query, active>>, turn'.n = turn.n, CancelFrame \in ToFrames,
             \/ toWorker' = Append(toWorker, CancelFrame)
             \/ UNCHANGED toWorker,
             turn.request # 0 \/ turn.n \in Nat
      PROVE  Past'
  <2>1. CASE UNCHANGED toWorker BY <1>p, <1>c, <1>n, <2>1
  <2>2. CASE toWorker' = Append(toWorker, CancelFrame)
    <3>1. CancelFrame.op = "cancel" /\ CancelFrame.request = turn.request BY DEF CancelFrame
    <3>2. TurnOf(turn.request) <= turn.n BY <1>0, <1>n, RequestFacts DEF TurnStates
    <3> QED BY <1>0, <1>c, <2>2, <3>1, <3>2, Appended DEF Past
  <2> QED BY <1>c, <2>1, <2>2
<1>1. CASE BeginTurn
  <2>1. TurnShape' BY <1>0, <1>n, <1>1, BeginTurnDoes DEF TurnShape
  <2>2. WorkerShape' BY <1>0, <1>1, BeginTurnDoes DEF WorkerShape, restVars
  <2>3. Past' BY <1>0, <1>1, <1>n, <1>p, BeginTurnDoes DEF restVars
  <2> QED BY <1>0, <1>1, <2>1, <2>2, <2>3, BeginTurnDoes DEF Shape
<1>2. CASE CallerLeaves
  <2>1. TurnShape' BY <1>0, <1>2, CallerLeavesDoes DEF TurnShape
  <2>2. WorkerShape' BY <1>0, <1>2, CallerLeavesDoes DEF WorkerShape, restVars
  <2>3. Past' BY <1>0, <1>2, <1>n, <1>p, CallerLeavesDoes DEF restVars
  <2> QED BY <1>0, <1>2, <2>1, <2>2, <2>3, CallerLeavesDoes DEF Shape
<1>3. CASE EnsureWorker
  <2>1. TurnShape' BY <1>0, <1>3, EnsureWorkerDoes DEF TurnShape
  <2>2. WorkerShape' BY <1>0, <1>3, EnsureWorkerDoes DEF WorkerShape
  <2>3. Past'
    <3>1. CASE UNCHANGED <<toWorker, active>> BY <1>0, <1>3, <1>n, <1>p, <3>1, EnsureWorkerDoes
    <3>2. CASE toWorker' = <<>> /\ active' = 0
      <4>1. TurnOf(0) <= turn.n BY <1>n, RequestFacts
      <4> QED BY <1>0, <1>3, <3>2, <4>1, EnsureWorkerDoes DEF Past
    <3> QED BY <1>0, <1>3, <3>1, <3>2, EnsureWorkerDoes
  <2> QED BY <1>0, <1>3, <2>1, <2>2, <2>3, EnsureWorkerDoes DEF Shape
<1>4. CASE WorkerReady \/ WorkerNotReady \/ PromptFails
  <2>1. TurnShape' BY <1>0, <1>n, <1>4, AwaitDoes DEF TurnShape
  <2>2. WorkerShape' BY <1>0, <1>4, AwaitDoes DEF WorkerShape, restVars
  <2>3. Past' BY <1>0, <1>4, <1>n, <1>p, AwaitDoes DEF restVars
  <2> QED BY <1>0, <1>4, <2>1, <2>2, <2>3, AwaitDoes DEF Shape
<1>5. CASE Submit
  <2>0. turn.pc = "submit" /\ turn.n # 0 /\ turn.n \in Turns BY <1>5, <1>n DEF Submit, At
  <2>1. TurnShape' BY <1>0, <1>5, <1>n, <2>0, SubmitDoes DEF TurnShape, NextRequest
  <2>2. WorkerShape' BY <1>0, <1>5, <2>0, SubmitDoes DEF WorkerShape, restVars
  <2>3. Past'
    <3>1. CASE UNCHANGED toWorker
      BY <1>0, <1>5, <1>n, <1>p, <2>0, <3>1, SubmitDoes DEF restVars
    <3>2. CASE /\ NextPrompt \in ToFrames /\ toWorker' = Append(toWorker, NextPrompt)
               /\ NextRequest \in Requests
      <4>1. NextPrompt.request = NextRequest /\ NextPrompt.sid = NextSid BY DEF NextPrompt
      <4>2. TurnOf(NextRequest) = turn.n /\ NextRequest # 0
        BY <2>0, <3>2, TurnRequests, RequestFacts DEF NextRequest
      <4>3. NextSid \in Sessions
        BY <1>0 DEF NextSid, Drivers, Sessions, SdkTypeOK, RestTypeOK
      <4> QED
        BY <1>0, <1>5, <1>n, <2>0, <3>2, <4>1, <4>2, <4>3, SubmitDoes, Appended
           DEF Past, restVars
    <3> QED BY <1>0, <1>5, <2>0, <3>1, <3>2, SubmitDoes
  <2> QED BY <1>0, <1>5, <2>0, <2>1, <2>2, <2>3, SubmitDoes DEF Shape
<1>6. CASE TakeReply
  <2>0. turn.request # 0 BY <1>0, <1>6 DEF TakeReply, At, TurnShape
  <2>1. TurnShape' BY <1>0, <1>6, <1>n, <2>0, TakeReplyDoes DEF TurnShape
  <2>2. WorkerShape' BY <1>0, <1>6, <2>0, TakeReplyDoes DEF WorkerShape
  <2>3. Past' BY <1>0, <1>6, <1>n, <1>p, <2>0, TakeReplyDoes
  <2> QED BY <1>0, <1>6, <2>0, <2>1, <2>2, <2>3, TakeReplyDoes DEF Shape
<1>7. CASE TurnCancelled
  <2>1. TurnShape' BY <1>0, <1>7, TurnCancelledDoes DEF TurnShape
  <2>2. WorkerShape' BY <1>0, <1>7, TurnCancelledDoes DEF WorkerShape, restVars
  <2>3. Past' BY <1>0, <1>7, <1>n, <1>c, TurnCancelledDoes DEF restVars
  <2> QED BY <1>0, <1>7, <2>1, <2>2, <2>3, TurnCancelledDoes DEF Shape
<1>8. CASE TurnOrphaned
  <2>1. TurnShape' BY <1>0, <1>8, TurnOrphanedDoes DEF TurnShape
  <2>2. WorkerShape' BY <1>0, <1>8, TurnOrphanedDoes DEF WorkerShape, restVars
  <2>3. Past' BY <1>0, <1>8, <1>n, <1>p, TurnOrphanedDoes DEF restVars
  <2> QED BY <1>0, <1>8, <2>1, <2>2, <2>3, TurnOrphanedDoes DEF Shape
<1>9. CASE Record
  <2>1. TurnShape' BY <1>0, <1>9, RecordDoes DEF TurnShape
  <2>2. WorkerShape' BY <1>0, <1>9, RecordDoes DEF WorkerShape
  <2>3. Past' BY <1>0, <1>9, <1>n, <1>p, RecordDoes
  <2> QED BY <1>0, <1>9, <2>1, <2>2, <2>3, RecordDoes DEF Shape
<1>10. CASE CancelDriver
  <2>1. TurnShape' BY <1>0, <1>10, CancelDriverDoes DEF TurnShape
  <2>2. WorkerShape'
    <3>1. worker = "none" => UNCHANGED toWorker
      BY <1>0, <1>10 DEF CancelDriver, Interrupt, WorkerShape, At
    <3> QED BY <1>0, <1>10, <3>1, CancelDriverDoes DEF WorkerShape, restVars
  <2>3. Past' BY <1>0, <1>10, <1>n, <1>c, CancelDriverDoes DEF restVars
  <2> QED BY <1>0, <1>10, <2>1, <2>2, <2>3, CancelDriverDoes DEF Shape
<1>11. CASE LeaveTurn
  <2>0. turn.n # 0 BY <1>11, <1>n DEF LeaveTurn, At
  <2>1. TurnShape' BY <1>0, <1>11, <2>0, LeaveTurnDoes DEF TurnShape
  <2>2. WorkerShape' BY <1>0, <1>11, <2>0, LeaveTurnDoes DEF WorkerShape
  <2>3. Past' BY <1>0, <1>11, <1>n, <1>p, <2>0, LeaveTurnDoes
  <2> QED BY <1>0, <1>11, <2>0, <2>1, <2>2, <2>3, LeaveTurnDoes DEF Shape
<1>12. CASE Dispatch
  <2> DEFINE f == Head(fromWorker)
  <2> HIDE DEF f
  <2>0. f = Head(fromWorker) BY DEF f
  <2>1. TurnShape' BY <1>0, <1>12, <2>0, DispatchDoes DEF TurnShape
  <2>2. WorkerShape' BY <1>0, <1>12, <2>0, DispatchDoes DEF WorkerShape
  <2>3. Past' BY <1>0, <1>12, <2>0, DispatchDoes DEF Past
  <2> QED BY <1>0, <1>12, <2>0, <2>1, <2>2, <2>3, DispatchDoes DEF Shape
<1>13. CASE ShutdownWorker
  <2>1. TurnShape' BY <1>0, <1>13, ShutdownWorkerDoes DEF TurnShape
  <2>2. WorkerShape' BY <1>0, <1>13, ShutdownWorkerDoes DEF WorkerShape
  <2>3. Past' BY <1>0, <1>13, ShutdownWorkerDoes DEF Past
  <2> QED BY <1>0, <1>13, <2>1, <2>2, <2>3, ShutdownWorkerDoes DEF Shape
<1>14. CASE Boot
  <2>1. TurnShape' BY <1>0, <1>14, BootDoes DEF TurnShape
  <2>2. WorkerShape' BY <1>0, <1>14, BootDoes DEF WorkerShape
  <2>3. Past' BY <1>0, <1>14, <1>n, <1>p, BootDoes
  <2> QED BY <1>0, <1>14, <2>1, <2>2, <2>3, BootDoes DEF Shape
<1>15. CASE WorkerDies
  <2>1. TurnShape' BY <1>0, <1>15, WorkerDiesDoes DEF TurnShape
  <2>2. WorkerShape' BY <1>0, <1>15, WorkerDiesDoes, Dying DEF WorkerShape
  <2>3. Past' BY <1>0, <1>15, WorkerDiesDoes, Dying DEF Past
  <2> QED BY <1>0, <1>15, <2>1, <2>2, <2>3, WorkerDiesDoes DEF Shape
<1>16. CASE ReadPrompt
  <2> DEFINE f == Head(toWorker)
  <2> HIDE DEF f
  <2>0. /\ f = Head(toWorker) /\ toWorker # <<>> /\ f.op = "prompt"
        /\ f.request # 0 /\ f.sid \in Sessions /\ TurnOf(f.request) <= turn.n
    BY <1>0, <1>16, Tailed DEF ReadPrompt, Past, f
  <2>1. TurnShape' BY <1>0, <1>16, <2>0, ReadPromptDoes DEF TurnShape
  <2>2. WorkerShape' BY <1>0, <1>16, <2>0, ReadPromptDoes DEF WorkerShape
  <2>3. Past'
    <3>1. \A i \in DOMAIN toWorker' : \E j \in DOMAIN toWorker : toWorker'[i] = toWorker[j]
      BY <1>0, <1>16, <2>0, ReadPromptDoes, Tailed
    <3>2. \A r \in Requests : query'[r] = query[r] \/ (r = f.request /\ query'[r].sid = f.sid)
      BY <1>0, <1>16, <2>0, ReadPromptDoes
    <3>3. active' \in {active, f.request} /\ UNCHANGED turn
      BY <1>0, <1>16, <2>0, ReadPromptDoes
    <3> QED BY <1>0, <2>0, <3>1, <3>2, <3>3 DEF Past
  <2> QED BY <1>0, <1>16, <2>0, <2>1, <2>2, <2>3, ReadPromptDoes DEF Shape
<1>17. CASE ReadCancel
  <2> DEFINE f == Head(toWorker)
  <2> HIDE DEF f
  <2>0. f = Head(toWorker) BY DEF f
  <2>1. TurnShape' BY <1>0, <1>17, <2>0, ReadCancelDoes DEF TurnShape
  <2>2. WorkerShape' BY <1>0, <1>17, <2>0, ReadCancelDoes DEF WorkerShape
  <2>3. Past'
    <3>1. \A i \in DOMAIN toWorker' : \E j \in DOMAIN toWorker : toWorker'[i] = toWorker[j]
      BY <1>0, <1>17, <2>0, ReadCancelDoes, Tailed
    <3>2. \A r \in Requests : /\ query'[r].sid = query[r].sid
                              /\ query'[r].state # "none" => query[r].state # "none"
      BY <1>0, <1>17, <2>0, ReadCancelDoes DEF Live
    <3>3. UNCHANGED <<turn, active>> BY <1>0, <1>17, <2>0, ReadCancelDoes
    <3> QED BY <1>0, <3>1, <3>2, <3>3 DEF Past
  <2> QED BY <1>0, <1>17, <2>0, <2>1, <2>2, <2>3, ReadCancelDoes DEF Shape
<1>18. ASSUME NEW r \in Requests, QueryStep(r) PROVE Shape'
  <2>0. query[r].sid \in Sessions /\ TurnOf(r) <= turn.n /\ worker = "up"
    BY <1>0, <1>18
       DEF QueryStep, QueryLoads, QuerySpeaks, QuerySucceeds, QueryFails, Live, Past, WorkerShape
  <2>n. TurnOf(0) <= turn.n BY <1>n, RequestFacts
  <2>1. CASE QueryLoads(r)
    <3>1. TurnShape' BY <1>0, <2>0, <2>1, QueryLoadsDoes DEF TurnShape
    <3>2. WorkerShape' BY <1>0, <2>0, <2>1, QueryLoadsDoes DEF WorkerShape
    <3>3. Past' BY <1>0, <2>0, <2>1, QueryLoadsDoes DEF Past
    <3> QED BY <1>0, <2>0, <2>1, <3>1, <3>2, <3>3, QueryLoadsDoes DEF Shape
  <2>2. CASE QuerySpeaks(r)
    <3>1. TurnShape' BY <1>0, <2>2, QuerySpeaksDoes DEF TurnShape
    <3>2. WorkerShape' BY <1>0, <2>0, <2>2, QuerySpeaksDoes DEF WorkerShape
    <3>3. Past' BY <1>0, <2>0, <2>2, QuerySpeaksDoes DEF Past
    <3> QED BY <1>0, <2>2, <3>1, <3>2, <3>3, QuerySpeaksDoes DEF Shape
  <2>3. CASE QuerySucceeds(r)
    <3>1. TurnShape' BY <1>0, <2>0, <2>3, QuerySucceedsDoes DEF TurnShape
    <3>2. WorkerShape' BY <1>0, <2>0, <2>3, QuerySucceedsDoes DEF WorkerShape
    <3>3. Past' BY <1>0, <2>0, <2>3, <2>n, QuerySucceedsDoes DEF Past
    <3> QED BY <1>0, <2>0, <2>3, <3>1, <3>2, <3>3, QuerySucceedsDoes DEF Shape
  <2>4. CASE QueryFails(r)
    <3>1. TurnShape' BY <1>0, <2>4, QueryFailsDoes DEF TurnShape
    <3>2. WorkerShape' BY <1>0, <2>0, <2>4, QueryFailsDoes DEF WorkerShape
    <3>3. Past' BY <1>0, <2>0, <2>4, <2>n, QueryFailsDoes DEF Past
    <3> QED BY <1>0, <2>4, <3>1, <3>2, <3>3, QueryFailsDoes DEF Shape
  <2> QED BY <1>18, <2>1, <2>2, <2>3, <2>4 DEF QueryStep
<1>19. ASSUME NEW s \in Sessions, TranscriptDeleted(s) PROVE Shape'
  <2>1. TurnShape' BY <1>0, <1>19, TranscriptDeletedDoes DEF TurnShape
  <2>2. WorkerShape' BY <1>0, <1>19, TranscriptDeletedDoes DEF WorkerShape
  <2>3. Past' BY <1>0, <1>19, TranscriptDeletedDoes DEF Past
  <2> QED BY <1>0, <1>19, <2>1, <2>2, <2>3, TranscriptDeletedDoes DEF Shape
<1>20. CASE BridgeEnds
  <2>1. TurnShape' BY <1>0, <1>20, <1>n, BridgeEndsDoes DEF TurnShape
  <2>2. WorkerShape'
    <3>1. bridge.n < MaxBridges BY <1>20 DEF BridgeEnds
    <3> QED BY <1>0, <1>20, <3>1, BridgeEndsDoes, Dying DEF WorkerShape
  <2>3. Past'
    <3>1. TurnOf(0) <= turn.n BY <1>n, RequestFacts
    <3> QED BY <1>0, <1>20, <3>1, BridgeEndsDoes, Dying DEF Past
  <2> QED BY <1>0, <1>20, <2>1, <2>2, <2>3, BridgeEndsDoes DEF Shape
<1>21. CASE BridgeStarts
  <2>0. bridge.n < MaxBridges BY <1>0, <1>21 DEF BridgeStarts, WorkerShape
  <2>1. TurnShape' BY <1>0, <1>21, <2>0, BridgeStartsDoes DEF TurnShape
  <2>2. WorkerShape' BY <1>0, <1>21, <2>0, BridgeStartsDoes DEF WorkerShape
  <2>3. Past' BY <1>0, <1>21, <2>0, BridgeStartsDoes DEF Past
  <2> QED BY <1>0, <1>21, <2>0, <2>1, <2>2, <2>3, BridgeStartsDoes DEF Shape
<1>22. CASE UNCHANGED vars
  BY <1>0, <1>22
     DEF vars, Shape, SdkTypeOK, DriverTypeOK, PipeTypeOK, WorkerTypeOK, RestTypeOK,
         TurnShape, WorkerShape, Past
<1> QED
  BY <1>1, <1>2, <1>3, <1>4, <1>5, <1>6, <1>7, <1>8, <1>9, <1>10, <1>11, <1>12, <1>13,
     <1>14, <1>15, <1>16, <1>17, <1>18, <1>19, <1>20, <1>21, <1>22 DEF Next, DriverStep

--------------------------------------------------------------------------------
(***************************************************************************)
(* Interrupts.  A cancel names no query: it stops whatever is active when  *)
(* it is read.  It is the right one because the frames of two turns keep   *)
(* their order, so a cancel behind a prompt of this turn, or in the pipe   *)
(* while this turn's query is the active one, was written by this turn.    *)
(***************************************************************************)
CancelsMeant ==
    \A i \in DOMAIN toWorker :
        /\ toWorker[i].op = "cancel"
        /\ turn.pc # "idle"
        /\ \/ TurnOf(active) = turn.n
           \/ \E j \in DOMAIN toWorker : /\ j < i /\ toWorker[j].op = "prompt"
                                         /\ TurnOf(toWorker[j].request) = turn.n
        => turn.cancelled

Meant == CancelsMeant /\ NoStrayInterrupt

LEMMA MeantNext == Shape /\ Shape' /\ Meant /\ [Next]_vars => Meant'
<1> SUFFICES ASSUME Shape, Shape', Meant, [Next]_vars PROVE Meant' OBVIOUS
<1>0. /\ SdkTypeOK /\ TurnShape /\ WorkerShape /\ Past /\ CancelsMeant /\ NoStrayInterrupt
      /\ toWorker \in Seq(ToFrames)
  BY DEF Shape, SdkTypeOK, PipeTypeOK, Meant
<1>n. /\ turn.n \in Nat /\ (turn.pc # "idle" => turn.n # 0 /\ turn.n \in Turns)
      /\ (turn.request # 0 => turn.request \in Requests /\ TurnOf(turn.request) = turn.n)
  BY TurnNumber
\* A turn goes on as it is; a cancel is written only by one whose caller is gone.
<1> DEFINE same == /\ turn'.n = turn.n
                   /\ turn'.pc # "idle" => turn.pc # "idle"
                   /\ turn.pc # "idle" /\ turn.cancelled => turn'.cancelled \/ turn'.pc = "idle"
<1>i. ASSUME same,
             \A r \in Requests : query'[r].state = "interrupted" => query[r].state = "interrupted"
      PROVE  NoStrayInterrupt'
  BY <1>0, <1>i DEF NoStrayInterrupt
<1>q. ASSUME same, \/ toWorker' = toWorker
                   \/ toWorker' = <<>>
                   \/ turn.cancelled /\ turn.pc # "idle" /\ toWorker' = Append(toWorker, CancelFrame),
             active' = active \/ (TurnOf(active') = 0 /\ (turn.pc # "idle" => turn.n # 0))
      PROVE  CancelsMeant'
  <2>1. CASE toWorker' = toWorker BY <1>0, <1>q, <2>1 DEF CancelsMeant
  <2>2. CASE toWorker' = <<>> BY <2>2 DEF CancelsMeant
  <2>3. CASE turn.cancelled /\ turn.pc # "idle" BY <1>q, <2>3 DEF CancelsMeant
  <2> QED BY <1>q, <2>1, <2>2, <2>3
<1> HIDE DEF same
<1>1. CASE BeginTurn
  <2>1. NoStrayInterrupt'
    <3>1. UNCHANGED query /\ turn'.n = turn.n + 1 BY <1>0, <1>1, BeginTurnDoes DEF restVars
    <3>2. \A r \in Requests : query[r].state # "none" => TurnOf(r) <= turn.n BY <1>0 DEF Past
    <3> QED BY <1>n, <3>1, <3>2 DEF NoStrayInterrupt
  <2>2. CancelsMeant'
    BY <1>0, <1>1, <1>n, BeginTurnDoes DEF CancelsMeant, Past, restVars
  <2> QED BY <2>1, <2>2 DEF Meant
<1>2. CASE CallerLeaves
  BY <1>0, <1>2, CallerLeavesDoes DEF Meant, CancelsMeant, NoStrayInterrupt
<1>3. CASE EnsureWorker
  <2>1. same BY <1>0, <1>3, EnsureWorkerDoes DEF same
  <2>2. CancelsMeant' BY <1>0, <1>3, <1>n, <1>q, <2>1, RequestFacts, EnsureWorkerDoes
  <2> QED BY <1>0, <1>3, <1>i, <2>1, <2>2, EnsureWorkerDoes DEF Meant
<1>4. CASE WorkerReady \/ WorkerNotReady \/ PromptFails
  <2>1. same BY <1>0, <1>4, AwaitDoes DEF same
  <2> QED BY <1>0, <1>4, <1>i, <1>q, <2>1, AwaitDoes DEF Meant, restVars
<1>5. CASE Submit
  <2>0. turn.n # 0 BY <1>5, <1>n DEF Submit, At
  <2>1. same BY <1>0, <1>5, <2>0, SubmitDoes DEF same
  <2>2. CancelsMeant'
    <3>1. CASE UNCHANGED toWorker BY <1>0, <1>5, <1>q, <2>0, <2>1, <3>1, SubmitDoes DEF restVars
    <3>2. CASE NextPrompt \in ToFrames /\ toWorker' = Append(toWorker, NextPrompt)
      <4>1. NextPrompt.op = "prompt" BY DEF NextPrompt
      <4>2. UNCHANGED active BY <1>0, <1>5, <2>0, SubmitDoes DEF restVars
      <4> SUFFICES ASSUME NEW i \in DOMAIN toWorker', toWorker'[i].op = "cancel",
                          turn'.pc # "idle",
                          \/ TurnOf(active) = turn.n
                          \/ \E j \in DOMAIN toWorker' :
                                 /\ j < i /\ toWorker'[j].op = "prompt"
                                 /\ TurnOf(toWorker'[j].request) = turn.n
                   PROVE  turn'.cancelled
        BY <2>1, <4>2 DEF CancelsMeant, same
      <4>3. i \in DOMAIN toWorker /\ toWorker[i].op = "cancel"
        BY <1>0, <3>2, <4>1, Appended
      <4>4. \A j \in DOMAIN toWorker' : j < i => j \in DOMAIN toWorker /\ toWorker'[j] = toWorker[j]
        BY <1>0, <3>2, <4>3, Appended
      <4> QED BY <1>0, <2>1, <4>3, <4>4 DEF CancelsMeant, same
    <3> QED BY <1>0, <1>5, <2>0, <3>1, <3>2, SubmitDoes
  <2> QED BY <1>0, <1>5, <1>i, <2>0, <2>1, <2>2, SubmitDoes DEF Meant, restVars
<1>6. CASE TakeReply
  <2>0. turn.request # 0 BY <1>0, <1>6 DEF TakeReply, At, TurnShape
  <2>1. same BY <1>0, <1>6, <2>0, TakeReplyDoes DEF same
  <2> QED BY <1>0, <1>6, <1>i, <1>q, <2>0, <2>1, TakeReplyDoes DEF Meant
<1>7. CASE TurnCancelled
  <2>1. same BY <1>0, <1>7, TurnCancelledDoes DEF same
  <2> QED BY <1>0, <1>7, <1>i, <1>q, <2>1, TurnCancelledDoes DEF Meant, restVars
<1>8. CASE TurnOrphaned
  <2>1. same BY <1>0, <1>8, TurnOrphanedDoes DEF same
  <2> QED BY <1>0, <1>8, <1>i, <1>q, <2>1, TurnOrphanedDoes DEF Meant, restVars
<1>9. CASE Record
  <2>1. same BY <1>0, <1>9, RecordDoes DEF same
  <2> QED BY <1>0, <1>9, <1>i, <1>q, <2>1, RecordDoes DEF Meant
<1>10. CASE CancelDriver
  <2>1. same BY <1>0, <1>10, CancelDriverDoes DEF same
  <2> QED BY <1>0, <1>10, <1>i, <1>q, <2>1, CancelDriverDoes DEF Meant, restVars
<1>11. CASE LeaveTurn
  <2>0. turn.n # 0 BY <1>11, <1>n DEF LeaveTurn, At
  <2>1. same BY <1>0, <1>11, <2>0, LeaveTurnDoes DEF same
  <2> QED BY <1>0, <1>11, <1>i, <1>q, <2>0, <2>1, LeaveTurnDoes DEF Meant
<1>12. CASE Dispatch
  <2> DEFINE f == Head(fromWorker)
  <2> HIDE DEF f
  <2>0. f = Head(fromWorker) BY DEF f
  <2>1. same BY <1>0, <1>12, <2>0, DispatchDoes DEF same
  <2> QED BY <1>0, <1>12, <1>i, <1>q, <2>0, <2>1, DispatchDoes DEF Meant
<1>13. CASE ShutdownWorker
  <2>1. same BY <1>0, <1>13, ShutdownWorkerDoes DEF same
  <2> QED BY <1>0, <1>13, <1>i, <1>q, <2>1, ShutdownWorkerDoes DEF Meant
<1>14. CASE Boot
  <2>1. same BY <1>0, <1>14, BootDoes DEF same
  <2> QED BY <1>0, <1>14, <1>i, <1>q, <2>1, BootDoes DEF Meant
<1>15. CASE WorkerDies
  <2>1. same BY <1>0, <1>15, WorkerDiesDoes DEF same
  <2> QED BY <1>0, <1>15, <1>i, <1>q, <2>1, WorkerDiesDoes, Dying DEF Meant
\* Reading a frame moves those behind it up by one.
<1>r. ASSUME toWorker # <<>>, toWorker' = Tail(toWorker), UNCHANGED turn,
             \/ active' = active
             \/ Head(toWorker).op = "prompt" /\ active' = Head(toWorker).request
      PROVE  CancelsMeant'
  <2> SUFFICES ASSUME NEW i \in DOMAIN toWorker', toWorker'[i].op = "cancel", turn.pc # "idle",
                      \/ TurnOf(active') = turn.n
                      \/ \E j \in DOMAIN toWorker' :
                             /\ j < i /\ toWorker'[j].op = "prompt"
                             /\ TurnOf(toWorker'[j].request) = turn.n
               PROVE  turn.cancelled
    BY <1>r DEF CancelsMeant
  <2>1. /\ i \in Nat /\ i + 1 \in DOMAIN toWorker /\ toWorker[i + 1].op = "cancel"
        /\ 1 \in DOMAIN toWorker /\ toWorker[1] = Head(toWorker) /\ i + 1 > 1
    <3>1. i \in Nat /\ i + 1 \in DOMAIN toWorker /\ toWorker'[i] = toWorker[i + 1]
          /\ 1 \in DOMAIN toWorker /\ Head(toWorker) = toWorker[1]
      BY <1>0, <1>r, Tailed
    <3>2. i >= 1 BY <1>0, <1>r
    <3> QED BY <3>1, <3>2
  <2>2. \A j \in DOMAIN toWorker' :
           j < i => j + 1 \in DOMAIN toWorker /\ toWorker'[j] = toWorker[j + 1] /\ j + 1 < i + 1
    BY <1>0, <1>r, <2>1, Tailed
  <2>3. CASE TurnOf(active) = turn.n BY <1>0, <2>1, <2>3 DEF CancelsMeant
  <2>4. CASE \E j \in DOMAIN toWorker : /\ j < i + 1 /\ toWorker[j].op = "prompt"
                                        /\ TurnOf(toWorker[j].request) = turn.n
    BY <1>0, <2>1, <2>4 DEF CancelsMeant
  <2> QED BY <1>r, <2>1, <2>2, <2>3, <2>4
<1>16. CASE ReadPrompt
  <2> DEFINE f == Head(toWorker)
  <2>0. toWorker # <<>> /\ f.op = "prompt" /\ f.request # 0
    BY <1>0, <1>16, Tailed DEF ReadPrompt, Past
  <2>1. CancelsMeant' BY <1>0, <1>16, <1>r, <2>0, ReadPromptDoes
  <2>2. NoStrayInterrupt' BY <1>0, <1>16, <2>0, ReadPromptDoes DEF NoStrayInterrupt
  <2> QED BY <2>1, <2>2 DEF Meant
<1>17. CASE ReadCancel
  <2> DEFINE f == Head(toWorker)
  <2>0. /\ toWorker # <<>> /\ f.op = "cancel" /\ toWorker' = Tail(toWorker)
        /\ UNCHANGED <<turn, active>>
    BY <1>0, <1>17, ReadCancelDoes
  <2>1. CancelsMeant' BY <1>r, <2>0
  <2>2. 1 \in DOMAIN toWorker /\ toWorker[1].op = "cancel" BY <1>0, <2>0, Tailed
  <2>3. NoStrayInterrupt'
    BY <1>0, <1>17, <2>0, <2>2, ReadCancelDoes DEF NoStrayInterrupt, CancelsMeant
  <2> QED BY <2>1, <2>3 DEF Meant
<1>18. ASSUME NEW r \in Requests, QueryStep(r) PROVE Meant'
  <2>0. query[r].sid \in Sessions
    BY <1>0, <1>18
       DEF QueryStep, QueryLoads, QuerySpeaks, QuerySucceeds, QueryFails, Live, Past
  <2>1. CASE QueryLoads(r)
    <3>1. same BY <1>0, <2>0, <2>1, QueryLoadsDoes DEF same
    <3> QED BY <1>0, <1>i, <1>q, <2>0, <2>1, <3>1, QueryLoadsDoes DEF Meant
  <2>2. CASE QuerySpeaks(r)
    <3>1. same BY <1>0, <2>2, QuerySpeaksDoes DEF same
    <3> QED BY <1>0, <1>i, <1>q, <2>2, <3>1, QuerySpeaksDoes DEF Meant
  <2>3. CASE QuerySucceeds(r)
    <3>1. same BY <1>0, <2>0, <2>3, QuerySucceedsDoes DEF same
    <3>2. CancelsMeant' BY <1>0, <1>n, <1>q, <2>0, <2>3, <3>1, QuerySucceedsDoes, RequestFacts
    <3> QED BY <1>0, <1>i, <2>0, <2>3, <3>1, <3>2, QuerySucceedsDoes DEF Meant
  <2>4. CASE QueryFails(r)
    <3>1. same BY <1>0, <2>4, QueryFailsDoes DEF same
    <3>2. CancelsMeant' BY <1>0, <1>n, <1>q, <2>4, <3>1, QueryFailsDoes, RequestFacts
    <3> QED BY <1>0, <1>i, <2>4, <3>1, <3>2, QueryFailsDoes DEF Meant
  <2> QED BY <1>18, <2>1, <2>2, <2>3, <2>4 DEF QueryStep
<1>19. ASSUME NEW s \in Sessions, TranscriptDeleted(s) PROVE Meant'
  <2>1. same BY <1>0, <1>19, TranscriptDeletedDoes DEF same
  <2> QED BY <1>0, <1>19, <1>i, <1>q, <2>1, TranscriptDeletedDoes DEF Meant
<1>20. CASE BridgeEnds
  <2>1. same BY <1>0, <1>20, BridgeEndsDoes DEF same
  <2>2. CancelsMeant' BY <1>0, <1>20, <1>n, <1>q, <2>1, RequestFacts, BridgeEndsDoes
  <2> QED BY <1>0, <1>20, <1>i, <2>1, <2>2, BridgeEndsDoes, Dying DEF Meant
<1>21. CASE BridgeStarts
  <2>0. bridge.n < MaxBridges BY <1>0, <1>21 DEF BridgeStarts, WorkerShape
  <2>1. same BY <1>0, <1>21, <2>0, BridgeStartsDoes DEF same
  <2> QED BY <1>0, <1>21, <1>i, <1>q, <2>0, <2>1, BridgeStartsDoes DEF Meant
<1>22. CASE UNCHANGED vars
  BY <1>0, <1>22 DEF vars, Meant, CancelsMeant, NoStrayInterrupt
<1> QED
  BY <1>1, <1>2, <1>3, <1>4, <1>5, <1>6, <1>7, <1>8, <1>9, <1>10, <1>11, <1>12, <1>13,
     <1>14, <1>15, <1>16, <1>17, <1>18, <1>19, <1>20, <1>21, <1>22 DEF Next, DriverStep

LEMMA MeantInit == Init => Meant
BY DEF Init, Meant, CancelsMeant, NoStrayInterrupt, NoQuery

--------------------------------------------------------------------------------
(***************************************************************************)
(* Answers.  A request is fresh until it is submitted, nothing is known of *)
(* it until the worker has read it, and the frames of its query keep their *)
(* order up to its one channel: a result that is taken ends a query all of *)
(* whose text has been handed on.                                          *)
(***************************************************************************)
Finals == {"result", "failed", "resume_failed"}
Fresh(r) == \/ TurnOf(r) > turn.n
            \/ TurnOf(r) = turn.n /\ turn.pc # "idle" /\ turn.request < r
Queued(r) == \E i \in DOMAIN toWorker : toWorker[i].op = "prompt" /\ toWorker[i].request = r
Unmentioned(r) == \A i \in DOMAIN fromWorker : fromWorker[i].request # r
Untouched(r) == /\ query[r].state = "none" /\ ~query[r].said /\ ~query[r].heard
                /\ box[r] = "none" /\ Unmentioned(r)
TextComes(r) == \E i \in DOMAIN fromWorker : fromWorker[i] = Frame("text", r)
Over(r) == query[r].state \in {"none", "ended"}
Done(r) == /\ query[r].state = "ended" /\ r \notin driver.pending
           /\ query[r].heard <=> query[r].said

NewRequests == \A r \in Requests :
    Fresh(r) => Untouched(r) /\ ~Queued(r) /\ r \notin driver.pending

UnreadRequests == \A r \in Requests : Queued(r) => Untouched(r)

OncePrompted == \A i, j \in DOMAIN toWorker :
    toWorker[i].op = "prompt" /\ toWorker[j].op = "prompt"
        /\ toWorker[i].request = toWorker[j].request => i = j

TextIsSaid == \A r \in Requests : query[r].heard \/ TextComes(r) => query[r].said

FinalsAreLast == \A j \in DOMAIN fromWorker : \A r \in Requests :
    fromWorker[j].type \in Finals /\ fromWorker[j].request = r =>
        /\ Over(r) /\ (fromWorker[j].type # "resume_failed" => query[r].state = "ended")
        /\ \A i \in DOMAIN fromWorker : i > j => fromWorker[i] # Frame("text", r)

Awaited == bridge.up => \A r \in driver.pending :
    /\ query[r].said => query[r].heard \/ TextComes(r)
    /\ box[r] = "none"

Boxes == \A r \in Requests : (box[r] # "none" => Over(r)) /\ (box[r] = "result" => Done(r))

Taken == turn.pc = "record" \/ turn.outcome = "ok" => Done(turn.request)

Replied == /\ NewRequests /\ UnreadRequests /\ OncePrompted
           /\ TextIsSaid /\ FinalsAreLast /\ Awaited /\ Boxes /\ Taken

\* A step that hands on no frame and writes no prompt.
Moves(p, q) == q = p \/ (p \notin {"none", "ended"} /\ q # "none")
Quiet ==
    /\ \A r \in Requests : /\ Moves(query[r].state, query'[r].state)
                           /\ query'[r].said = query[r].said
                           /\ query'[r].heard = query[r].heard
    /\ \A r \in Requests :
          \/ box'[r] = box[r]
          \/ box'[r] = "none"
          \/ /\ box'[r] = "failed" /\ r \in driver.pending /\ r \notin driver'.pending
             /\ toWorker' = <<>> /\ Over(r)
    /\ fromWorker' = fromWorker \/ (fromWorker' = <<>> /\ driver'.pending = {})
    /\ driver'.pending \subseteq driver.pending
    /\ bridge'.up => bridge.up \/ driver'.pending = {}
    /\ \/ toWorker' = toWorker
       \/ toWorker' = <<>>
       \/ toWorker # <<>> /\ toWorker' = Tail(toWorker)
       \/ CancelFrame \in ToFrames /\ toWorker' = Append(toWorker, CancelFrame)
    /\ \A r \in Requests : Fresh(r)' => Fresh(r)
    /\ turn'.pc = "record" \/ turn'.outcome = "ok" =>
          turn'.request \in Requests /\ Done(turn'.request)

LEMMA PromptsKept ==
    ASSUME SdkTypeOK,
           \/ toWorker' = toWorker
           \/ toWorker' = <<>>
           \/ toWorker # <<>> /\ toWorker' = Tail(toWorker)
           \/ CancelFrame \in ToFrames /\ toWorker' = Append(toWorker, CancelFrame)
    PROVE  /\ \A r \in Requests : Queued(r)' => Queued(r)
           /\ OncePrompted => OncePrompted'
<1>0. toWorker \in Seq(ToFrames) BY DEF SdkTypeOK, PipeTypeOK
<1>1. CASE toWorker' = toWorker BY <1>1 DEF Queued, OncePrompted
<1>2. CASE toWorker' = <<>> BY <1>2 DEF Queued, OncePrompted
<1>3. CASE toWorker # <<>> /\ toWorker' = Tail(toWorker)
  <2>1. \A i \in DOMAIN toWorker' :
           i \in Nat /\ i + 1 \in DOMAIN toWorker /\ toWorker'[i] = toWorker[i + 1]
    BY <1>0, <1>3, Tailed
  <2>2. ASSUME NEW i \in DOMAIN toWorker', NEW j \in DOMAIN toWorker', i + 1 = j + 1 PROVE i = j
    BY <2>1, <2>2
  <2> QED BY <2>1, <2>2 DEF Queued, OncePrompted
<1>4. CASE CancelFrame \in ToFrames /\ toWorker' = Append(toWorker, CancelFrame)
  <2>1. CancelFrame.op # "prompt" BY DEF CancelFrame
  <2>2. \A i \in DOMAIN toWorker' :
           toWorker'[i].op = "prompt" => i \in DOMAIN toWorker /\ toWorker'[i] = toWorker[i]
    BY <1>0, <1>4, <2>1, Appended
  <2> QED BY <2>2 DEF Queued, OncePrompted
<1> QED BY <1>1, <1>2, <1>3, <1>4

LEMMA QuietKeeps ==
    ASSUME Shape, Replied, Quiet
    PROVE  Replied'
<1>0. /\ SdkTypeOK
      /\ NewRequests /\ UnreadRequests /\ OncePrompted
      /\ TextIsSaid /\ FinalsAreLast /\ Awaited /\ Boxes
  BY DEF Shape, Replied
<1>1. (\A r \in Requests : Queued(r)' => Queued(r)) /\ OncePrompted'
  BY <1>0, PromptsKept DEF Quiet
<1>2. driver.pending \subseteq Requests /\ driver'.pending \subseteq driver.pending
  BY <1>0 DEF SdkTypeOK, DriverTypeOK, Drivers, Quiet
<1>3. \A r \in Requests : /\ query[r].state = "none" => query'[r].state = "none"
                          /\ query[r].state = "ended" => query'[r].state = "ended"
                          /\ Over(r) => Over(r)'
                          /\ query'[r].said = query[r].said /\ query'[r].heard = query[r].heard
  BY DEF Quiet, Moves, Over
<1>4. \A i \in DOMAIN fromWorker' : i \in DOMAIN fromWorker /\ fromWorker'[i] = fromWorker[i]
  BY DEF Quiet
<1>5. \A r \in Requests : r \notin driver.pending \/ Queued(r)' => box'[r] \in {box[r], "none"}
  BY DEF Quiet, Queued
<1>6. \A r \in Requests : Untouched(r) /\ (r \notin driver.pending \/ Queued(r)') => Untouched(r)'
  BY <1>3, <1>4, <1>5 DEF Untouched, Unmentioned
<1>7. NewRequests' BY <1>0, <1>1, <1>2, <1>6 DEF NewRequests, Quiet
<1>8. UnreadRequests' BY <1>0, <1>1, <1>6 DEF UnreadRequests
<1>9. TextIsSaid' BY <1>0, <1>3, <1>4 DEF TextIsSaid, TextComes, Frame
<1>10. FinalsAreLast'
  <2>1. \A r \in Requests : Frame("text", r)' = Frame("text", r) BY DEF Frame
  <2> QED BY <1>0, <1>3, <1>4, <2>1 DEF FinalsAreLast
<1>11. Awaited'
  <2> SUFFICES ASSUME bridge'.up, NEW r \in driver'.pending
               PROVE  /\ query'[r].said => query'[r].heard \/ TextComes(r)'
                      /\ box'[r] = "none"
    BY DEF Awaited
  <2>1. r \in driver.pending /\ r \in Requests /\ bridge.up /\ fromWorker' = fromWorker
    BY <1>2 DEF Quiet
  <2>2. box[r] = "none" /\ (query[r].said => query[r].heard \/ TextComes(r))
    BY <1>0, <2>1 DEF Awaited
  <2>3. TextComes(r) => TextComes(r)' BY <2>1 DEF TextComes, Frame
  <2>4. box'[r] = "none" BY <2>1, <2>2 DEF Quiet
  <2> QED BY <1>3, <2>1, <2>2, <2>3, <2>4
<1>12. \A r \in Requests : Done(r) => Done(r)' BY <1>2, <1>3 DEF Done
<1>13. Boxes'
  <2> SUFFICES ASSUME NEW r \in Requests
               PROVE  (box'[r] # "none" => Over(r)') /\ (box'[r] = "result" => Done(r)')
    BY DEF Boxes
  <2>1. (box[r] # "none" => Over(r)) /\ (box[r] = "result" => Done(r)) BY <1>0 DEF Boxes
  <2>2. \/ box'[r] \in {box[r], "none"}
        \/ box'[r] = "failed" /\ Over(r)
    BY DEF Quiet
  <2> QED BY <1>3, <1>12, <2>1, <2>2
<1>14. Taken' BY <1>12 DEF Taken, Quiet
<1> QED BY <1>1, <1>7, <1>8, <1>9, <1>10, <1>11, <1>13, <1>14 DEF Replied

\* The turn goes on or ends, or the next one begins.
LEMMA FreshShrinks ==
    ASSUME Shape,
           \/ turn'.n = turn.n /\ turn'.pc = "idle"
           \/ turn'.n = turn.n /\ turn.pc # "idle" /\ turn'.request = turn.request
           \/ turn'.n = turn.n + 1
           \/ turn' = turn
    PROVE  \A r \in Requests : Fresh(r)' => Fresh(r)
<1>1. turn.n \in Nat /\ \A r \in Requests : TurnOf(r) \in Nat
  BY TurnNumber, RequestFacts, SdkAssumption DEF Turns
<1>2. CASE turn'.n = turn.n + 1 BY <1>1, <1>2 DEF Fresh
<1>3. CASE turn'.n = turn.n /\ turn'.pc = "idle" BY <1>1, <1>3 DEF Fresh
<1>4. CASE turn'.n = turn.n /\ turn.pc # "idle" /\ turn'.request = turn.request
  BY <1>1, <1>4 DEF Fresh
<1>5. CASE turn' = turn BY <1>5 DEF Fresh
<1> QED BY <1>2, <1>3, <1>4, <1>5

\* A step of the worker that writes a frame.
Emits(type, p) ==
    /\ Frame(type, p) \in FromFrames /\ fromWorker' = Append(fromWorker, Frame(type, p))
    /\ UNCHANGED <<turn, driver, box, bridge>>
    /\ toWorker' = toWorker \/ (toWorker # <<>> /\ toWorker' = Tail(toWorker))
    /\ \A r \in Requests : /\ Moves(query[r].state, query'[r].state)
                           /\ query'[r].heard = query[r].heard
                           /\ r # p => query'[r].said = query[r].said
    /\ \/ type = "ready" /\ p = 0
       \/ /\ type = "text" /\ p \in Requests
          /\ query[p].state = "running" /\ query'[p].said
       \/ /\ type \in Finals /\ p \in Requests
          /\ query'[p].said = query[p].said
          /\ ~Fresh(p) /\ ~Queued(p)' /\ Over(p)'
          /\ type # "resume_failed" => query'[p].state = "ended"

LEMMA EmitKeeps ==
    ASSUME Shape, Replied, NEW type, NEW p, Emits(type, p)
    PROVE  Replied'
<1>0. /\ SdkTypeOK /\ fromWorker \in Seq(FromFrames)
      /\ NewRequests /\ UnreadRequests /\ OncePrompted
      /\ TextIsSaid /\ FinalsAreLast /\ Awaited /\ Boxes /\ Taken
  BY DEF Shape, Replied, SdkTypeOK, PipeTypeOK
<1>1. (\A r \in Requests : Queued(r)' => Queued(r)) /\ OncePrompted'
  BY <1>0, PromptsKept DEF Emits
<1>2. driver.pending \subseteq Requests /\ UNCHANGED <<turn, driver, box, bridge>>
  BY <1>0 DEF SdkTypeOK, DriverTypeOK, Drivers, Emits
<1>3. \A r \in Requests : /\ query[r].state = "none" => query'[r].state = "none"
                          /\ query[r].state = "ended" => query'[r].state = "ended"
                          /\ Over(r) => Over(r)'
                          /\ query'[r].heard = query[r].heard
                          /\ r # p => query'[r].said = query[r].said
  BY DEF Emits, Moves, Over
<1>4. /\ \A i \in DOMAIN fromWorker : /\ i \in Nat /\ i < Len(fromWorker) + 1
                                      /\ i \in DOMAIN fromWorker' /\ fromWorker'[i] = fromWorker[i]
      /\ Len(fromWorker) + 1 \in DOMAIN fromWorker'
      /\ fromWorker'[Len(fromWorker) + 1] = Frame(type, p)
      /\ \A i \in DOMAIN fromWorker' : i \in DOMAIN fromWorker \/ i = Len(fromWorker) + 1
  BY <1>0, Appended DEF Emits
<1>5. Frame(type, p).type = type /\ Frame(type, p).request = p BY DEF Frame
<1>6. \A r \in Requests : Untouched(r) /\ r # p => Untouched(r)'
  BY <1>2, <1>3, <1>4, <1>5 DEF Untouched, Unmentioned
<1>7. NewRequests'
  <2>1. \A r \in Requests : Fresh(r)' = Fresh(r) BY <1>2 DEF Fresh
  <2>2. ASSUME p \in Requests PROVE ~Fresh(p)
    BY <1>0, <2>2, RequestFacts DEF Emits, NewRequests, Untouched
  <2> QED BY <1>0, <1>1, <1>2, <1>6, <2>1, <2>2 DEF NewRequests
<1>8. UnreadRequests'
  <2>1. ASSUME p \in Requests PROVE ~Queued(p)'
    BY <1>0, <1>1, <2>1, RequestFacts DEF Emits, UnreadRequests, Untouched
  <2> QED BY <1>0, <1>1, <1>6, <2>1 DEF UnreadRequests
<1>9. TextIsSaid'
  <2> SUFFICES ASSUME NEW r \in Requests, query'[r].heard \/ TextComes(r)' PROVE query'[r].said
    BY DEF TextIsSaid
  <2>1. CASE query[r].said
    <3>1. r = p => p # 0 BY RequestFacts
    <3>2. r = p => query'[p].said \/ query'[p].said = query[p].said BY <3>1 DEF Emits
    <3> QED BY <1>3, <2>1, <3>2
  <2>2. CASE ~query[r].said
    <3>1. ~query[r].heard /\ ~TextComes(r) BY <1>0, <2>2 DEF TextIsSaid
    <3>2. TextComes(r)' BY <1>3, <3>1
    <3>3. Frame(type, p) = Frame("text", r)
      BY <1>4, <3>1, <3>2 DEF TextComes, Frame
    <3>4. type = "text" /\ p = r BY <3>3, <1>5 DEF Frame
    <3> QED BY <3>4 DEF Emits, Finals
  <2> QED BY <2>1, <2>2
<1>10. FinalsAreLast'
  <2> SUFFICES ASSUME NEW j \in DOMAIN fromWorker', NEW r \in Requests,
                      fromWorker'[j].type \in Finals, fromWorker'[j].request = r
               PROVE  /\ Over(r)' /\ (fromWorker'[j].type # "resume_failed" => query'[r].state = "ended")
                      /\ \A i \in DOMAIN fromWorker' : i > j => fromWorker'[i] # Frame("text", r)
    <3>1. \A r \in Requests : Frame("text", r)' = Frame("text", r) BY DEF Frame
    <3> QED BY <3>1 DEF FinalsAreLast
  <2>1. CASE j = Len(fromWorker) + 1
    <3>1. type \in Finals /\ p = r BY <1>4, <1>5, <2>1
    <3>2. ~ \E i \in DOMAIN fromWorker' : i > j BY <1>0, <1>4, <2>1
    <3> QED BY <1>4, <1>5, <2>1, <3>1, <3>2 DEF Emits, Finals
  <2>2. CASE j \in DOMAIN fromWorker
    <3>1. /\ Over(r) /\ (fromWorker[j].type # "resume_failed" => query[r].state = "ended")
          /\ \A i \in DOMAIN fromWorker : i > j => fromWorker[i] # Frame("text", r)
      BY <1>0, <1>4, <2>2 DEF FinalsAreLast
    <3>2. Frame(type, p) # Frame("text", r)
      <4>1. type = "text" => query[p].state = "running" BY DEF Emits, Finals
      <4> QED BY <3>1, <4>1 DEF Frame, Over
    <3> QED BY <1>3, <1>4, <2>2, <3>1, <3>2
  <2> QED BY <1>4, <2>1, <2>2
<1>11. Awaited'
  <2> SUFFICES ASSUME bridge.up, NEW r \in driver.pending
               PROVE  /\ query'[r].said => query'[r].heard \/ TextComes(r)'
                      /\ box[r] = "none"
    BY <1>2 DEF Awaited
  <2>1. r \in Requests /\ box[r] = "none" /\ (query[r].said => query[r].heard \/ TextComes(r))
    BY <1>0, <1>2 DEF Awaited
  <2>2. TextComes(r) => TextComes(r)' BY <1>4 DEF TextComes, Frame
  <2>3. r = p /\ type = "text" => TextComes(r)' BY <1>4 DEF TextComes, Frame
  <2>4. query'[r].said => query[r].said \/ (r = p /\ type = "text")
    BY <1>3, <2>1, RequestFacts DEF Emits
  <2> QED BY <1>3, <2>1, <2>2, <2>3, <2>4
<1>12. \A r \in Requests : Done(r) => Done(r)'
  <2>1. ASSUME NEW r \in Requests, Done(r) PROVE query'[r].said = query[r].said
    BY <1>3, <2>1, RequestFacts DEF Emits, Done
  <2> QED BY <1>2, <1>3, <2>1 DEF Done
<1>13. Boxes' BY <1>0, <1>2, <1>3, <1>12 DEF Boxes
<1>14. Taken'
  <2>1. turn.pc = "record" \/ turn.outcome = "ok" => turn.request \in Requests
    BY TurnNumber DEF Shape, TurnShape
  <2> QED BY <1>0, <1>2, <1>12, <2>1 DEF Taken
<1> QED BY <1>1, <1>7, <1>8, <1>9, <1>10, <1>11, <1>13, <1>14 DEF Replied

LEMMA DispatchKeeps ==
    ASSUME Shape, Replied, Dispatch
    PROVE  Replied'
<1> DEFINE f == Head(fromWorker)
<1> HIDE DEF f
<1>f. f = Head(fromWorker) BY DEF f
<1>0. /\ SdkTypeOK /\ fromWorker \in Seq(FromFrames)
      /\ NewRequests /\ UnreadRequests /\ OncePrompted
      /\ TextIsSaid /\ FinalsAreLast /\ Awaited /\ Boxes /\ Taken
  BY DEF Shape, Replied, SdkTypeOK, PipeTypeOK
<1>1. /\ bridge.up /\ fromWorker # <<>> /\ fromWorker' = Tail(fromWorker) /\ f \in FromFrames
      /\ UNCHANGED <<turn, toWorker>>
      /\ driver'.pending \subseteq driver.pending
      /\ \A r \in Requests : /\ query'[r].state = query[r].state /\ query'[r].said = query[r].said
                             /\ r # f.request => query'[r].heard = query[r].heard /\ box'[r] = box[r]
                             /\ r \notin driver.pending =>
                                   (query'[r].heard <=> query[r].heard) /\ box'[r] = box[r]
                             /\ query[r].heard => query'[r].heard
                             /\ f.type # "text" => query'[r].heard = query[r].heard
                             /\ f.type = "text" /\ r = f.request /\ r \in driver.pending =>
                                   query'[r].heard
                             /\ \/ box'[r] = box[r]
                                \/ /\ r = f.request /\ r \in driver.pending
                                   /\ box'[r] = f.type /\ f.type \in Replies
                                   /\ r \notin driver'.pending
  <2>1. \A r \in Requests : query[r].heard \in BOOLEAN /\ query'[r].heard \in BOOLEAN
    <3>1. SdkTypeOK' BY <1>f, <1>0, DispatchDoes
    <3> QED BY <1>0, <3>1 DEF SdkTypeOK, WorkerTypeOK, Queries
  <2>2. "text" \notin Replies /\ "ready" \notin Replies BY DEF Replies
  <2> QED BY <1>f, <1>0, <2>1, <2>2, DispatchDoes
<1>2. driver.pending \subseteq Requests BY <1>0 DEF SdkTypeOK, DriverTypeOK, Drivers
<1>3. /\ \A i \in DOMAIN fromWorker' :
            /\ i \in Nat /\ i + 1 \in DOMAIN fromWorker /\ fromWorker'[i] = fromWorker[i + 1]
      /\ \A i \in DOMAIN fromWorker :
            /\ i \in Nat
            /\ i # 1 => /\ i - 1 \in DOMAIN fromWorker' /\ fromWorker'[i - 1] = fromWorker[i]
                        /\ i > 1
      /\ 1 \in DOMAIN fromWorker /\ fromWorker[1] = f
  BY <1>0, <1>1, <1>f, Tailed
<1>4. \A r : f.type = "text" /\ f.request = r <=> f = Frame("text", r)
  BY <1>1 DEF FromFrames, Frame
<1>5. \A r \in Requests : Over(r) => Over(r)' BY <1>1 DEF Over
<1>6. \A r \in Requests : Untouched(r) => Untouched(r)'
  <2>1. ASSUME NEW r \in Requests, Untouched(r) PROVE Untouched(r)'
    <3>1. r # f.request BY <1>3, <2>1 DEF Untouched, Unmentioned
    <3>2. Unmentioned(r)' BY <1>3, <2>1 DEF Untouched, Unmentioned
    <3> QED BY <1>1, <2>1, <3>1, <3>2 DEF Untouched
  <2> QED BY <2>1
<1>7. NewRequests'
  <2>1. \A r \in Requests : Fresh(r)' = Fresh(r) /\ Queued(r)' = Queued(r)
    BY <1>1 DEF Fresh, Queued
  <2> QED BY <1>0, <1>1, <1>6, <2>1 DEF NewRequests
<1>8. UnreadRequests' /\ OncePrompted'
  BY <1>0, <1>1, <1>6 DEF UnreadRequests, OncePrompted, Queued
<1>9. TextIsSaid'
  <2> SUFFICES ASSUME NEW r \in Requests, query'[r].heard \/ TextComes(r)' PROVE query'[r].said
    BY DEF TextIsSaid
  <2>1. query[r].heard \/ TextComes(r) => query[r].said BY <1>0 DEF TextIsSaid
  <2>2. TextComes(r)' => TextComes(r) BY <1>3 DEF TextComes, Frame
  <2>3. f = Frame("text", r) => TextComes(r) BY <1>3 DEF TextComes
  <2>4. query'[r].heard => query[r].heard \/ f = Frame("text", r) BY <1>1, <1>4
  <2> QED BY <1>1, <2>1, <2>2, <2>3, <2>4
<1>10. FinalsAreLast'
  <2> SUFFICES ASSUME NEW j \in DOMAIN fromWorker', NEW r \in Requests,
                      fromWorker'[j].type \in Finals, fromWorker'[j].request = r
               PROVE  /\ Over(r)' /\ (fromWorker'[j].type # "resume_failed" => query'[r].state = "ended")
                      /\ \A i \in DOMAIN fromWorker' : i > j => fromWorker'[i] # Frame("text", r)
    <3>1. \A r \in Requests : Frame("text", r)' = Frame("text", r) BY DEF Frame
    <3> QED BY <3>1 DEF FinalsAreLast
  <2>1. /\ Over(r) /\ (fromWorker[j + 1].type # "resume_failed" => query[r].state = "ended")
        /\ \A i \in DOMAIN fromWorker : i > j + 1 => fromWorker[i] # Frame("text", r)
    BY <1>0, <1>3 DEF FinalsAreLast
  <2> QED BY <1>1, <1>3, <1>5, <2>1
<1>11. Awaited'
  <2> SUFFICES ASSUME NEW r \in driver'.pending
               PROVE  /\ query'[r].said => query'[r].heard \/ TextComes(r)'
                      /\ box'[r] = "none"
    BY DEF Awaited
  <2>1. /\ r \in driver.pending /\ r \in Requests /\ box[r] = "none"
        /\ query[r].said => query[r].heard \/ TextComes(r)
    BY <1>0, <1>1, <1>2 DEF Awaited
  <2>2. box'[r] = "none" BY <1>1, <2>1
  <2>3. TextComes(r) => TextComes(r)' \/ f = Frame("text", r) BY <1>3 DEF TextComes, Frame
  <2>4. f = Frame("text", r) => query'[r].heard BY <1>1, <1>4, <2>1
  <2> QED BY <1>1, <2>1, <2>2, <2>3, <2>4
<1>12. \A r \in Requests : Done(r) => Done(r)' BY <1>1 DEF Done
<1>13. Boxes'
  <2> SUFFICES ASSUME NEW r \in Requests
               PROVE  (box'[r] # "none" => Over(r)') /\ (box'[r] = "result" => Done(r)')
    BY DEF Boxes
  <2>1. CASE box'[r] = box[r] BY <1>0, <1>5, <1>12, <2>1 DEF Boxes
  <2>2. CASE /\ r = f.request /\ r \in driver.pending
             /\ box'[r] = f.type /\ f.type \in Finals /\ r \notin driver'.pending
    <3>1. /\ Over(r) /\ (f.type # "resume_failed" => query[r].state = "ended")
          /\ \A i \in DOMAIN fromWorker : i > 1 => fromWorker[i] # Frame("text", r)
      BY <1>0, <1>3, <2>2 DEF FinalsAreLast
    <3>2. ASSUME f.type = "result" PROVE Done(r)'
      <4>1. f # Frame("text", r) BY <1>4, <3>2
      <4>2. ~TextComes(r) BY <1>3, <3>1, <4>1 DEF TextComes
      <4>3. query[r].said => query[r].heard BY <1>0, <1>1, <2>2, <4>2 DEF Awaited
      <4>4. query[r].heard => query[r].said BY <1>0 DEF TextIsSaid
      <4>5. query'[r].heard = query[r].heard BY <1>1, <3>2
      <4> QED BY <1>1, <2>2, <3>1, <3>2, <4>3, <4>4, <4>5 DEF Done
    <3> QED BY <1>5, <2>2, <3>1, <3>2
  <2>3. CASE box'[r] = "none" BY <2>3
  <2>4. Replies = Finals \union {"none"} BY DEF Replies, Finals
  <2> QED BY <1>1, <2>1, <2>2, <2>3, <2>4
<1>14. Taken'
  <2>1. turn.pc = "record" \/ turn.outcome = "ok" => turn.request \in Requests
    BY TurnNumber DEF Shape, TurnShape
  <2> QED BY <1>0, <1>1, <1>12, <2>1 DEF Taken
<1> QED BY <1>7, <1>8, <1>9, <1>10, <1>11, <1>13, <1>14 DEF Replied

LEMMA SubmitKeeps ==
    ASSUME Shape, Replied, NextPrompt \in ToFrames, NextRequest \in Requests,
           turn.pc = "submit", turn.n # 0,
           toWorker' = Append(toWorker, NextPrompt),
           driver'.pending = driver.pending \union {NextRequest},
           turn'.pc = "wait", turn'.n = turn.n, turn'.request = NextRequest,
           turn'.outcome = turn.outcome,
           query' = query, box' = box, fromWorker' = fromWorker, bridge' = bridge
    PROVE  Replied'
<1> DEFINE p == NextRequest
<1>0. /\ SdkTypeOK /\ TurnShape /\ toWorker \in Seq(ToFrames)
      /\ NewRequests /\ UnreadRequests /\ OncePrompted
      /\ TextIsSaid /\ FinalsAreLast /\ Awaited /\ Boxes
  BY DEF Shape, Replied, SdkTypeOK, PipeTypeOK
<1>n. turn.n \in Nat /\ turn.n \in Turns /\ turn.request \in Nat
  BY TurnNumber
<1>1. TurnOf(p) = turn.n /\ p \in Nat /\ turn.request < p
  <2>1. turn.request = 0 \/ turn.request = 2 * turn.n - 1 BY <1>0 DEF TurnShape
  <2> QED BY <1>n, <2>1, TurnRequests DEF NextRequest
<1>2. Fresh(p) BY <1>1 DEF Fresh
<1>3. Untouched(p) /\ ~Queued(p) /\ p \notin driver.pending BY <1>0, <1>2 DEF NewRequests
<1> HIDE DEF p
<1>4. \A r \in Requests : Fresh(r)' => Fresh(r) /\ r # p
  <2>1. \A r \in Requests : TurnOf(r) \in Nat /\ r \in Nat
    BY RequestFacts, SdkAssumption DEF Turns
  <2> QED BY <1>n, <1>1, <2>1 DEF Fresh, p
<1>5. /\ \A i \in DOMAIN toWorker : i \in DOMAIN toWorker' /\ toWorker'[i] = toWorker[i]
      /\ \A i \in DOMAIN toWorker' : i \in DOMAIN toWorker \/ i = Len(toWorker) + 1
      /\ toWorker'[Len(toWorker) + 1].request = p
  BY <1>0, Appended DEF NextPrompt, p
<1>6. \A r \in Requests : Queued(r)' => Queued(r) \/ r = p BY <1>5 DEF Queued
<1>7. \A r \in Requests : Untouched(r)' = Untouched(r) BY DEF Untouched, Unmentioned
<1>8. NewRequests' BY <1>0, <1>4, <1>6, <1>7 DEF NewRequests, p
<1>9. UnreadRequests' BY <1>0, <1>3, <1>6, <1>7 DEF UnreadRequests
<1>10. OncePrompted'
  <2>1. \A i \in DOMAIN toWorker :
           ~(toWorker[i].op = "prompt" /\ toWorker[i].request = p)
    BY <1>3 DEF Queued
  <2> QED BY <1>0, <1>5, <2>1 DEF OncePrompted
<1>11. TextIsSaid' BY <1>0 DEF TextIsSaid, TextComes, Frame
<1>12. FinalsAreLast' BY <1>0 DEF FinalsAreLast, Over, Frame
<1>13. Awaited'
  <2>1. ~query[p].said /\ box[p] = "none" BY <1>3 DEF Untouched
  <2>2. \A r \in Requests : TextComes(r)' = TextComes(r) BY DEF TextComes, Frame
  <2>3. driver.pending \subseteq Requests BY <1>0 DEF SdkTypeOK, DriverTypeOK, Drivers
  <2> QED BY <1>0, <2>1, <2>2, <2>3 DEF Awaited, p
<1>14. Boxes'
  <2>1. box[p] = "none" BY <1>3 DEF Untouched
  <2>2. \A r \in Requests : r # p => (Done(r) => Done(r)') BY DEF Done, p
  <2>3. \A r \in Requests : Over(r)' = Over(r) BY DEF Over
  <2> QED BY <1>0, <2>1, <2>2, <2>3 DEF Boxes
<1>15. Taken' BY <1>0 DEF Taken, TurnShape
<1> QED BY <1>8, <1>9, <1>10, <1>11, <1>12, <1>13, <1>14, <1>15 DEF Replied

\* The prompt at the head of the pipe is the only one of its request.
LEMMA PromptRead ==
    ASSUME Shape, Replied, toWorker # <<>>, toWorker' = Tail(toWorker),
           NEW f, f = Head(toWorker), f.op = "prompt", f.request \in Requests
    PROVE  /\ Queued(f.request) /\ ~Queued(f.request)'
           /\ Untouched(f.request) /\ ~Fresh(f.request)
<1>0. /\ NewRequests /\ UnreadRequests /\ OncePrompted /\ toWorker \in Seq(ToFrames)
  BY DEF Shape, Replied, SdkTypeOK, PipeTypeOK
<1>1. 1 \in DOMAIN toWorker /\ toWorker[1] = f BY <1>0, Tailed
<1>2. Queued(f.request) BY <1>1 DEF Queued
<1>3. ~Queued(f.request)'
  <2>1. \A i \in DOMAIN toWorker' :
           /\ i \in Nat /\ i # 0 /\ i + 1 \in DOMAIN toWorker /\ toWorker'[i] = toWorker[i + 1]
    BY <1>0, Tailed
  <2>2. \A i \in DOMAIN toWorker' : i + 1 # 1 BY <2>1
  <2> QED BY <1>0, <1>1, <2>1, <2>2 DEF OncePrompted, Queued
<1> QED BY <1>0, <1>2, <1>3 DEF UnreadRequests, NewRequests

LEMMA OpenKeeps ==
    ASSUME Shape, Replied, toWorker # <<>>, toWorker' = Tail(toWorker),
           NEW f, f = Head(toWorker), f.op = "prompt", f.request \in Requests,
           ~query'[f.request].said, ~query'[f.request].heard,
           \A r \in Requests : r # f.request => query'[r] = query[r],
           turn' = turn, driver' = driver, box' = box, bridge' = bridge,
           fromWorker' = fromWorker
    PROVE  Replied'
<1> DEFINE p == f.request
<1>0. /\ SdkTypeOK
      /\ NewRequests /\ UnreadRequests /\ OncePrompted
      /\ TextIsSaid /\ FinalsAreLast /\ Awaited /\ Boxes /\ Taken
  BY DEF Shape, Replied
<1>1. ~Queued(p)' /\ Untouched(p) /\ ~Fresh(p) BY PromptRead
<1>2. (\A r \in Requests : Queued(r)' => Queued(r)) /\ OncePrompted' BY <1>0, PromptsKept
<1>3. \A r \in Requests : Untouched(r) /\ r # p => Untouched(r)' BY DEF Untouched, Unmentioned
<1>4. \A r \in Requests : Fresh(r)' = Fresh(r) /\ TextComes(r)' = TextComes(r)
  BY DEF Fresh, TextComes, Frame
<1>5. ~TextComes(p) /\ box[p] = "none" /\ query[p].state = "none"
  BY <1>1 DEF TextComes, Untouched, Unmentioned, Frame
<1>6. NewRequests' BY <1>0, <1>1, <1>2, <1>3, <1>4 DEF NewRequests
<1>7. UnreadRequests' BY <1>0, <1>1, <1>2, <1>3 DEF UnreadRequests
<1>8. TextIsSaid' BY <1>0, <1>4, <1>5 DEF TextIsSaid
<1>9. \A r \in Requests : r # p => Over(r)' = Over(r) /\ Done(r)' = Done(r) BY DEF Over, Done
<1>10. FinalsAreLast'
  <2>1. \A j \in DOMAIN fromWorker : fromWorker[j].request # p
    BY <1>1 DEF Untouched, Unmentioned
  <2>2. \A r \in Requests : Frame("text", r)' = Frame("text", r) BY DEF Frame
  <2> QED BY <1>0, <1>9, <2>1, <2>2 DEF FinalsAreLast
<1>11. Awaited'
  <2>1. driver.pending \subseteq Requests BY <1>0 DEF SdkTypeOK, DriverTypeOK, Drivers
  <2> QED BY <1>0, <1>4, <1>5, <2>1 DEF Awaited
<1>12. Boxes' BY <1>0, <1>5, <1>9 DEF Boxes
<1>13. Taken'
  <2>1. turn.pc = "record" \/ turn.outcome = "ok" => turn.request \in Requests
    BY TurnNumber DEF Shape, TurnShape
  <2>2. ~Done(p) BY <1>5 DEF Done
  <2> QED BY <1>0, <1>9, <2>1, <2>2 DEF Taken
<1> QED BY <1>2, <1>6, <1>7, <1>8, <1>10, <1>11, <1>12, <1>13 DEF Replied

LEMMA RepliedInit == Init => Replied
<1> SUFFICES ASSUME Init PROVE Replied OBVIOUS
<1>1. /\ DOMAIN toWorker = {} /\ DOMAIN fromWorker = {} /\ driver.pending = {}
      /\ turn.pc = "idle" /\ turn.outcome = "none"
  BY DEF Init, NewDriver, Idle
<1>2. \A r \in Requests : /\ query[r].state = "none" /\ ~query[r].said /\ ~query[r].heard
                          /\ box[r] = "none"
  BY DEF Init, NoQuery
<1>3. \A r \in Requests : Untouched(r) /\ ~Queued(r) /\ ~TextComes(r)
  BY <1>1, <1>2 DEF Untouched, Unmentioned, Queued, TextComes
<1> QED
  BY <1>1, <1>2, <1>3 DEF Replied, NewRequests, UnreadRequests, OncePrompted, TextIsSaid,
     FinalsAreLast, Awaited, Boxes, Taken

LEMMA RepliedNext == Shape /\ Shape' /\ Replied /\ [Next]_vars => Replied'
<1> SUFFICES ASSUME Shape, Shape', Replied, [Next]_vars PROVE Replied' OBVIOUS
<1>0. /\ SdkTypeOK /\ TurnShape /\ WorkerShape /\ Past /\ SdkTypeOK' /\ TurnShape' /\ Taken
      /\ toWorker \in Seq(ToFrames) /\ fromWorker \in Seq(FromFrames)
  BY DEF Shape, SdkTypeOK, PipeTypeOK, Replied
<1>n. /\ turn.n \in Nat /\ (turn.pc # "idle" => turn.n # 0 /\ turn.n \in Turns)
      /\ (turn.request # 0 => turn.request \in Requests /\ TurnOf(turn.request) = turn.n)
  BY TurnNumber
<1>d. turn.pc = "record" \/ turn.outcome = "ok" => turn.request \in Requests /\ Done(turn.request)
  BY <1>0, <1>n DEF TurnShape, Taken
\* A step that only moves the turn on, and may write a cancel.
<1>t. ASSUME query' = query, box' = box, fromWorker' = fromWorker,
             driver'.pending \subseteq driver.pending, bridge'.up => bridge.up,
             \/ toWorker' = toWorker
             \/ CancelFrame \in ToFrames /\ toWorker' = Append(toWorker, CancelFrame),
             \A r \in Requests : Fresh(r)' => Fresh(r),
             turn'.pc = "record" \/ turn'.outcome = "ok" =>
                 (turn.pc = "record" \/ turn.outcome = "ok") /\ turn'.request = turn.request
      PROVE  Replied'
  <2>1. Quiet BY <1>d, <1>t DEF Quiet, Moves
  <2> QED BY <2>1, QuietKeeps
\* A step of the worker's side that writes nothing.
<1>w. ASSUME \A r \in Requests : /\ Moves(query[r].state, query'[r].state)
                                 /\ query'[r].said = query[r].said
                                 /\ query'[r].heard = query[r].heard,
             turn' = turn, driver' = driver, box' = box, fromWorker' = fromWorker,
             bridge' = bridge,
             toWorker' = toWorker \/ (toWorker # <<>> /\ toWorker' = Tail(toWorker))
      PROVE  Replied'
  <2>1. \A r \in Requests : Fresh(r)' => Fresh(r) BY <1>w DEF Fresh
  <2>2. Quiet BY <1>d, <1>w, <2>1 DEF Quiet
  <2> QED BY <2>2, QuietKeeps
<1>1. CASE BeginTurn
  <2>1. \A r \in Requests : Fresh(r)' => Fresh(r) BY <1>0, <1>1, BeginTurnDoes, FreshShrinks
  <2> QED BY <1>0, <1>1, <1>t, <2>1, BeginTurnDoes DEF restVars
<1>2. CASE CallerLeaves
  <2>1. \A r \in Requests : Fresh(r)' => Fresh(r)
    BY <1>0, <1>2, CallerLeavesDoes, FreshShrinks DEF CallerLeaves
  <2> QED BY <1>0, <1>2, <1>t, <2>1, CallerLeavesDoes DEF restVars
<1>3. CASE EnsureWorker
  <2>1. \A r \in Requests : Fresh(r)' => Fresh(r) BY <1>0, <1>3, EnsureWorkerDoes, FreshShrinks
  <2>2. turn'.pc # "record" /\ turn'.outcome # "ok"
    BY <1>0, <1>3, EnsureWorkerDoes DEF TurnShape
  <2>3. ~driver.cmd => driver.pending = {} BY <1>0, <1>3, EnsureWorkerDoes DEF WorkerShape
  <2>4. Quiet BY <1>0, <1>3, <2>1, <2>2, <2>3, EnsureWorkerDoes DEF Quiet, Moves
  <2> QED BY <2>4, QuietKeeps
<1>4. CASE WorkerReady \/ WorkerNotReady \/ PromptFails
  <2>1. \A r \in Requests : Fresh(r)' => Fresh(r) BY <1>0, <1>4, AwaitDoes, FreshShrinks
  <2>2. turn'.pc # "record" /\ turn'.outcome # "ok" BY <1>0, <1>4, AwaitDoes DEF TurnShape
  <2> QED BY <1>0, <1>4, <1>t, <2>1, <2>2, AwaitDoes DEF restVars
<1>5. CASE Submit
  <2>0. turn.pc = "submit" /\ turn.n # 0 BY <1>5, <1>n DEF Submit, At
  <2>1. CASE UNCHANGED toWorker /\ turn'.pc = "leave" /\ turn'.request = turn.request
             /\ turn'.outcome = "error" /\ driver'.pending = driver.pending
    <3>1. \A r \in Requests : Fresh(r)' => Fresh(r)
      BY <1>0, <1>5, <2>0, <2>1, SubmitDoes, FreshShrinks
    <3> QED BY <1>0, <1>5, <1>t, <2>0, <2>1, <3>1, SubmitDoes DEF restVars
  <2>2. CASE /\ NextRequest \in Requests
             /\ driver'.pending = driver.pending \union {NextRequest}
             /\ turn'.pc = "wait" /\ turn'.request = NextRequest
             /\ turn'.outcome = turn.outcome
             /\ NextPrompt \in ToFrames /\ toWorker' = Append(toWorker, NextPrompt)
    BY <1>0, <1>5, <2>0, <2>2, SubmitDoes, SubmitKeeps DEF restVars
  <2> QED BY <1>0, <1>5, <2>0, <2>1, <2>2, SubmitDoes
<1>6. CASE TakeReply
  <2>0. turn.request # 0 /\ turn.pc = "wait" BY <1>0, <1>6 DEF TakeReply, At, TurnShape
  <2>1. \A r \in Requests : Fresh(r)' => Fresh(r)
    BY <1>0, <1>6, <2>0, TakeReplyDoes, FreshShrinks
  <2>2. box[turn.request] = "result" => Done(turn.request)
    BY <1>n, <2>0 DEF Replied, Boxes
  <2>3. turn'.pc = "record" \/ turn'.outcome = "ok" =>
            turn'.request \in Requests /\ Done(turn'.request)
    BY <1>0, <1>6, <1>n, <2>0, <2>2, TakeReplyDoes DEF TurnShape
  <2>4. Quiet BY <1>0, <1>6, <2>0, <2>1, <2>3, TakeReplyDoes DEF Quiet, Moves
  <2> QED BY <2>4, QuietKeeps
<1>7. CASE TurnCancelled
  <2>1. \A r \in Requests : Fresh(r)' => Fresh(r) BY <1>0, <1>7, TurnCancelledDoes, FreshShrinks
  <2> QED BY <1>0, <1>7, <1>t, <2>1, TurnCancelledDoes DEF restVars
<1>8. CASE TurnOrphaned
  <2>1. \A r \in Requests : Fresh(r)' => Fresh(r) BY <1>0, <1>8, TurnOrphanedDoes, FreshShrinks
  <2> QED BY <1>0, <1>8, <1>t, <2>1, TurnOrphanedDoes DEF restVars
<1>9. CASE Record
  <2>1. \A r \in Requests : Fresh(r)' => Fresh(r) BY <1>0, <1>9, RecordDoes, FreshShrinks
  <2> QED BY <1>0, <1>9, <1>t, <2>1, RecordDoes
<1>10. CASE CancelDriver
  <2>1. \A r \in Requests : Fresh(r)' => Fresh(r) BY <1>0, <1>10, CancelDriverDoes, FreshShrinks
  <2> QED BY <1>0, <1>10, <1>t, <2>1, CancelDriverDoes DEF restVars
<1>11. CASE LeaveTurn
  <2>0. turn.n # 0 BY <1>11, <1>n DEF LeaveTurn, At
  <2>1. \A r \in Requests : Fresh(r)' => Fresh(r) BY <1>0, <1>11, <2>0, LeaveTurnDoes, FreshShrinks
  <2> QED BY <1>0, <1>11, <1>t, <2>0, <2>1, LeaveTurnDoes
<1>12. CASE Dispatch BY <1>12, DispatchKeeps
<1>13. CASE ShutdownWorker
  <2>1. \A r \in Requests : Fresh(r)' => Fresh(r) BY <1>0, <1>13, ShutdownWorkerDoes DEF Fresh
  <2>2. \A r \in Requests : Over(r) BY <1>0, <1>13, ShutdownWorkerDoes DEF WorkerShape, Over
  <2>3. Quiet BY <1>0, <1>13, <1>d, <2>1, <2>2, ShutdownWorkerDoes DEF Quiet, Moves
  <2> QED BY <2>3, QuietKeeps
<1>14. CASE Boot
  <2>1. Emits("ready", 0) BY <1>0, <1>14, BootDoes, RequestFacts DEF Emits, Moves
  <2> QED BY <2>1, EmitKeeps
<1>15. CASE WorkerDies
  <2>1. \A r \in Requests : Moves(query[r].state, query'[r].state)
    BY <1>0, <1>15, WorkerDiesDoes, Dying DEF Moves
  <2> QED BY <1>0, <1>15, <1>w, <2>1, WorkerDiesDoes, Dying DEF WorkerDies
<1>16. CASE ReadPrompt
  <2> PICK f : f = Head(toWorker) OBVIOUS
  <2>0. /\ f = Head(toWorker) /\ toWorker # <<>> /\ f.op = "prompt" /\ f.request # 0
        /\ toWorker' = Tail(toWorker)
    BY <1>0, <1>16, Tailed DEF ReadPrompt, Past
  <2>1. f.request \in Requests BY <1>0, <1>16, <2>0, ReadPromptDoes
  <2>2. /\ Queued(f.request) /\ ~Queued(f.request)'
        /\ Untouched(f.request) /\ ~Fresh(f.request)
    BY <2>0, <2>1, PromptRead
  <2>3. CASE /\ Frame("resume_failed", f.request) \in FromFrames
             /\ fromWorker' = Append(fromWorker, Frame("resume_failed", f.request))
             /\ UNCHANGED <<active, query>>
    <3>1. Over(f.request)' BY <2>2, <2>3 DEF Over, Untouched
    <3>2. Emits("resume_failed", f.request)
      BY <1>0, <1>16, <2>0, <2>1, <2>2, <2>3, <3>1, ReadPromptDoes DEF Emits, Moves, Finals
    <3> QED BY <3>2, EmitKeeps
  <2>4. CASE /\ ~query'[f.request].said /\ ~query'[f.request].heard
             /\ \A r \in Requests : r # f.request => query'[r] = query[r]
             /\ UNCHANGED fromWorker
    BY <1>0, <1>16, <2>0, <2>1, <2>4, ReadPromptDoes, OpenKeeps
  <2> QED BY <1>0, <1>16, <2>0, <2>3, <2>4, ReadPromptDoes
<1>17. CASE ReadCancel
  <2>1. \A r \in Requests : Moves(query[r].state, query'[r].state)
    BY <1>0, <1>17, ReadCancelDoes DEF Moves, Live
  <2> QED BY <1>0, <1>17, <1>w, <2>1, ReadCancelDoes
<1>18. ASSUME NEW r \in Requests, QueryStep(r) PROVE Replied'
  <2>0. query[r].sid \in Sessions /\ query[r].state \notin {"none", "ended"}
    BY <1>0, <1>18
       DEF QueryStep, QueryLoads, QuerySpeaks, QuerySucceeds, QueryFails, Live, Past
  <2>1. ~Fresh(r) /\ ~Queued(r) BY <2>0 DEF Replied, NewRequests, UnreadRequests, Untouched
  <2>2. CASE QueryLoads(r)
    <3>1. \A p \in Requests : /\ Moves(query[p].state, query'[p].state)
                              /\ query'[p].said = query[p].said
                              /\ query'[p].heard = query[p].heard
      BY <1>0, <2>0, <2>2, QueryLoadsDoes DEF Moves
    <3> QED BY <1>0, <1>w, <2>0, <2>2, <3>1, QueryLoadsDoes
  <2>3. CASE QuerySpeaks(r)
    <3>1. Emits("text", r) BY <1>0, <2>3, QuerySpeaksDoes DEF Emits, Moves
    <3> QED BY <3>1, EmitKeeps
  <2>4. CASE QuerySucceeds(r)
    <3>1. ~Queued(r)' BY <1>0, <2>0, <2>1, <2>4, QuerySucceedsDoes DEF Queued
    <3>2. Over(r)' BY <1>0, <2>0, <2>4, QuerySucceedsDoes DEF Over
    <3>3. Emits("result", r)
      BY <1>0, <2>0, <2>1, <2>4, <3>1, <3>2, QuerySucceedsDoes DEF Emits, Moves, Finals
    <3> QED BY <3>3, EmitKeeps
  <2>5. CASE QueryFails(r)
    <3>1. ~Queued(r)' BY <1>0, <2>1, <2>5, QueryFailsDoes DEF Queued
    <3>2. Over(r)' BY <1>0, <2>5, QueryFailsDoes DEF Over
    <3>3. \E type \in {"failed", "resume_failed"} : Emits(type, r)
      BY <1>0, <2>0, <2>1, <2>5, <3>1, <3>2, QueryFailsDoes DEF Emits, Moves, Finals
    <3> QED BY <3>3, EmitKeeps
  <2> QED BY <1>18, <2>2, <2>3, <2>4, <2>5 DEF QueryStep
<1>19. ASSUME NEW s \in Sessions, TranscriptDeleted(s) PROVE Replied'
  <2>1. \A r \in Requests : Moves(query[r].state, query'[r].state)
    BY <1>0, <1>19, TranscriptDeletedDoes DEF Moves
  <2> QED BY <1>0, <1>19, <1>w, <2>1, TranscriptDeletedDoes
<1>20. CASE BridgeEnds
  <2>1. \A r \in Requests : Fresh(r)' => Fresh(r) BY <1>0, <1>20, BridgeEndsDoes, FreshShrinks
  <2>2. \A r \in Requests : Moves(query[r].state, query'[r].state)
    BY <1>0, <1>20, BridgeEndsDoes, Dying DEF Moves
  <2>3. FinalsAreLast' /\ OncePrompted' BY <1>0, <1>20, BridgeEndsDoes DEF FinalsAreLast, OncePrompted
  <2>4. \A r \in Requests : /\ ~Queued(r)' /\ Unmentioned(r)' /\ ~TextComes(r)'
    BY <1>0, <1>20, BridgeEndsDoes DEF Queued, Unmentioned, TextComes
  <2>5. NewRequests'
    BY <1>0, <1>20, <2>1, <2>4, BridgeEndsDoes, Dying DEF Replied, NewRequests, Untouched
  <2>6. UnreadRequests' BY <2>4 DEF UnreadRequests
  <2>7. TextIsSaid' BY <1>0, <1>20, <2>4, BridgeEndsDoes, Dying DEF Replied, TextIsSaid
  <2>8. Awaited' BY <1>0, <1>20, BridgeEndsDoes DEF Awaited
  <2>9. Boxes' BY <1>0, <1>20, BridgeEndsDoes DEF Boxes
  <2>10. Taken' BY <1>0, <1>20, BridgeEndsDoes DEF Taken
  <2> QED BY <2>3, <2>5, <2>6, <2>7, <2>8, <2>9, <2>10 DEF Replied
<1>21. CASE BridgeStarts
  <2>0. bridge.n < MaxBridges BY <1>0, <1>21 DEF BridgeStarts, WorkerShape
  <2>1. \A r \in Requests : Fresh(r)' => Fresh(r) BY <1>0, <1>21, <2>0, BridgeStartsDoes DEF Fresh
  <2>2. Quiet BY <1>0, <1>21, <1>d, <2>0, <2>1, BridgeStartsDoes DEF Quiet, Moves
  <2> QED BY <2>2, QuietKeeps
<1>22. CASE UNCHANGED vars
  <2>1. \A r \in Requests : Moves(query[r].state, query'[r].state) BY <1>22 DEF vars, Moves
  <2> QED BY <1>22, <1>w, <2>1 DEF vars
<1> QED
  BY <1>1, <1>2, <1>3, <1>4, <1>5, <1>6, <1>7, <1>8, <1>9, <1>10, <1>11, <1>12, <1>13,
     <1>14, <1>15, <1>16, <1>17, <1>18, <1>19, <1>20, <1>21, <1>22 DEF Next, DriverStep

--------------------------------------------------------------------------------
(***************************************************************************)
(* What is left behind.  The pipe to the worker keeps its order: whatever  *)
(* an earlier turn wrote is read before the prompt of this one, and a      *)
(* prompt that nobody waits for has its cancel behind it.                  *)
(***************************************************************************)
Waits(r) == turn.pc = "wait" /\ turn.request = r
CancelComes(r) == \E i \in DOMAIN toWorker :
    toWorker[i].op = "cancel" /\ TurnOf(toWorker[i].request) = TurnOf(r)
CancelFollows(i) == \E j \in DOMAIN toWorker :
    /\ j > i /\ toWorker[j].op = "cancel"
    /\ TurnOf(toWorker[j].request) = TurnOf(toWorker[i].request)

OpenIsAwaited == ~strayed =>
    \A r \in Requests : query[r].state = "open" => Waits(r) \/ CancelComes(r)

PromptIsAwaited == worker \in {"booting", "up"} =>
    \A i \in DOMAIN toWorker :
        toWorker[i].op = "prompt" => Waits(toWorker[i].request) \/ CancelFollows(i)

InOrder == turn.request # 0 =>
    \A i \in DOMAIN toWorker :
        TurnOf(toWorker[i].request) \in 1 .. turn.n - 1 =>
            \E j \in DOMAIN toWorker :
                j > i /\ toWorker[j].op = "prompt" /\ toWorker[j].request = turn.request

Second == turn.n > 0 /\ (turn.request = 2 * turn.n \/ (turn.pc = "submit" /\ turn.request # 0))
Retried == Second => ~Queued(2 * turn.n - 1) /\ Over(2 * turn.n - 1)

Sent == OpenIsAwaited /\ PromptIsAwaited /\ InOrder /\ Retried

\* A step that writes nothing to the worker and reads nothing of it.
Still ==
    /\ \A r \in Requests : /\ query'[r].state = "open" => query[r].state = "open"
                           /\ Over(r) => Over(r)'
    /\ strayed' = strayed
    /\ toWorker' = toWorker \/ (toWorker' = <<>> /\ \A r \in Requests : Over(r)')
    /\ worker' \in {"booting", "up"} => worker \in {"booting", "up"} \/ toWorker' = <<>>
    /\ \A r \in Requests :
          \/ Waits(r) => Waits(r)'
          \/ Over(r) /\ (~Queued(r) \/ worker' \notin {"booting", "up"})
    /\ turn'.n \in Nat
    /\ turn'.request = 0 \/ (turn'.request = turn.request /\ turn'.n = turn.n)
    /\ Second' => \/ Second
                  \/ ~Queued(2 * turn.n - 1) /\ Over(2 * turn.n - 1)

LEMMA StillKeeps ==
    ASSUME Shape, Sent, Still
    PROVE  Sent'
<1>0. /\ SdkTypeOK /\ TurnShape /\ Past /\ toWorker \in Seq(ToFrames)
      /\ OpenIsAwaited /\ PromptIsAwaited /\ InOrder /\ Retried
  BY DEF Shape, SdkTypeOK, PipeTypeOK, Sent
<1>n. turn.n \in Nat /\ turn.n <= MaxTurns BY TurnNumber
<1>1. OpenIsAwaited'
  <2> SUFFICES ASSUME ~strayed, NEW r \in Requests, query'[r].state = "open"
               PROVE  Waits(r)' \/ CancelComes(r)'
    BY DEF OpenIsAwaited, Still
  <2>1. query[r].state = "open" /\ ~Over(r)' /\ ~Over(r) BY DEF Still, Over
  <2>2. toWorker' = toWorker BY <2>1 DEF Still
  <2>3. Waits(r) \/ CancelComes(r) BY <1>0, <2>1 DEF OpenIsAwaited
  <2>4. Waits(r) => Waits(r)' BY <2>1 DEF Still
  <2> QED BY <2>2, <2>3, <2>4 DEF CancelComes
<1>2. PromptIsAwaited'
  <2> SUFFICES ASSUME worker' \in {"booting", "up"}, NEW i \in DOMAIN toWorker',
                      toWorker'[i].op = "prompt"
               PROVE  Waits(toWorker[i].request)' \/ CancelFollows(i)'
    BY DEF PromptIsAwaited
  <2>1. toWorker' = toWorker /\ worker \in {"booting", "up"} BY DEF Still
  <2>2. toWorker[i] \in ToFrames /\ toWorker[i].request # 0 BY <1>0, <2>1 DEF Past
  <2>3. toWorker[i].request \in Requests BY <2>2 DEF ToFrames
  <2>4. Queued(toWorker[i].request) BY <2>1 DEF Queued
  <2>5. CancelFollows(i) => CancelFollows(i)' BY <2>1 DEF CancelFollows
  <2>6. Waits(toWorker[i].request) => Waits(toWorker[i].request)'
    <3>1. PICK r \in Requests : r = toWorker[i].request BY <2>3
    <3>2. Waits(r) => Waits(r)' BY <2>4, <3>1 DEF Still
    <3> QED BY <2>1, <3>1, <3>2 DEF Waits
  <2> QED BY <1>0, <2>1, <2>5, <2>6 DEF PromptIsAwaited
<1>3. InOrder'
  <2>1. CASE turn'.request = 0 BY <2>1 DEF InOrder
  <2>2. CASE turn'.request = turn.request /\ turn'.n = turn.n
    BY <1>0, <2>2 DEF InOrder, Still
  <2> QED BY <2>1, <2>2 DEF Still
<1>4. Retried'
  <2> SUFFICES ASSUME Second' PROVE ~Queued(2 * turn.n - 1)' /\ Over(2 * turn.n - 1)'
    BY DEF Retried
  <2>1. turn'.n > 0 /\ turn'.request # 0 BY DEF Second, Still
  <2>2. turn'.n = turn.n /\ turn.n \in Turns BY <1>n, <2>1 DEF Still, Turns
  <2>3. ~Queued(2 * turn.n - 1) /\ Over(2 * turn.n - 1) BY <1>0 DEF Still, Retried
  <2>4. PICK r \in Requests : r = 2 * turn.n - 1 BY <2>2, RequestFacts
  <2>5. ~Queued(r)' /\ Over(r)' BY <2>3, <2>4 DEF Still, Queued
  <2>6. r = 2 * turn'.n - 1 BY <2>2, <2>4
  <2> QED BY <2>5, <2>6 DEF Queued, Over
<1> QED BY <1>1, <1>2, <1>3, <1>4 DEF Sent

\* A turn that is left behind writes its cancel.
LEMMA CancelKeeps ==
    ASSUME Shape, Sent, CancelFrame \in ToFrames, toWorker' = Append(toWorker, CancelFrame),
           turn'.pc = "leave", turn'.n = turn.n, turn'.request = turn.request,
           query' = query, strayed' = strayed, worker' = worker
    PROVE  Sent'
<1>0. /\ SdkTypeOK /\ Past /\ toWorker \in Seq(ToFrames)
      /\ OpenIsAwaited /\ PromptIsAwaited /\ InOrder /\ Retried
  BY DEF Shape, SdkTypeOK, PipeTypeOK, Sent
<1>n. /\ turn.n \in Nat
      /\ (turn.request # 0 => turn.request \in Requests /\ TurnOf(turn.request) = turn.n)
  BY TurnNumber
<1>1. /\ \A i \in DOMAIN toWorker : /\ i \in Nat /\ i < Len(toWorker) + 1
                                    /\ i \in DOMAIN toWorker' /\ toWorker'[i] = toWorker[i]
      /\ Len(toWorker) + 1 \in DOMAIN toWorker' /\ Len(toWorker) \in Nat
      /\ toWorker'[Len(toWorker) + 1].op = "cancel"
      /\ toWorker'[Len(toWorker) + 1].request = turn.request
      /\ \A i \in DOMAIN toWorker' : i \in DOMAIN toWorker \/ i = Len(toWorker) + 1
  BY <1>0, Appended DEF CancelFrame
<1>2. OpenIsAwaited'
  <2> SUFFICES ASSUME ~strayed, NEW r \in Requests, query[r].state = "open"
               PROVE  CancelComes(r)'
    BY DEF OpenIsAwaited
  <2>1. CancelComes(r) => CancelComes(r)' BY <1>1 DEF CancelComes
  <2>2. turn.request = r => CancelComes(r)' BY <1>1 DEF CancelComes
  <2> QED BY <1>0, <2>1, <2>2 DEF OpenIsAwaited, Waits
<1>3. PromptIsAwaited'
  <2> SUFFICES ASSUME worker \in {"booting", "up"}, NEW i \in DOMAIN toWorker',
                      toWorker'[i].op = "prompt"
               PROVE  CancelFollows(i)'
    BY DEF PromptIsAwaited
  <2>1. i \in DOMAIN toWorker /\ toWorker[i].op = "prompt" BY <1>1
  <2>2. CancelFollows(i) => CancelFollows(i)' BY <1>1, <2>1 DEF CancelFollows
  <2>3. turn.request = toWorker[i].request => CancelFollows(i)' BY <1>1, <2>1 DEF CancelFollows
  <2> QED BY <1>0, <2>1, <2>2, <2>3 DEF PromptIsAwaited, Waits
<1>4. InOrder'
  <2> SUFFICES ASSUME turn.request # 0, NEW i \in DOMAIN toWorker',
                      TurnOf(toWorker'[i].request) \in 1 .. turn.n - 1
               PROVE  \E j \in DOMAIN toWorker' : /\ j > i /\ toWorker'[j].op = "prompt"
                                                  /\ toWorker'[j].request = turn.request
    BY DEF InOrder
  <2>1. i \in DOMAIN toWorker /\ toWorker'[i] = toWorker[i] BY <1>1, <1>n
  <2>2. PICK j \in DOMAIN toWorker :
            j > i /\ toWorker[j].op = "prompt" /\ toWorker[j].request = turn.request
    BY <1>0, <2>1 DEF InOrder
  <2> QED BY <1>1, <2>2
<1>5. Retried'
  <2>1. Second' => Second BY DEF Second
  <2>2. \A r : Queued(r)' => Queued(r) BY <1>1 DEF Queued
  <2>3. Over(2 * turn.n - 1)' = Over(2 * turn'.n - 1) BY DEF Over
  <2>4. Queued(2 * turn.n - 1)' => Queued(2 * turn.n - 1) BY <1>1 DEF Queued
  <2> QED BY <1>0, <2>1, <2>3, <2>4 DEF Retried
<1> QED BY <1>2, <1>3, <1>4, <1>5 DEF Sent

LEMMA SubmitSends ==
    ASSUME Shape, Replied, Sent, NextPrompt \in ToFrames, NextRequest \in Requests,
           turn.pc = "submit", turn.n # 0,
           toWorker' = Append(toWorker, NextPrompt),
           turn'.pc = "wait", turn'.n = turn.n, turn'.request = NextRequest,
           query' = query, strayed' = strayed, worker' = worker
    PROVE  Sent'
<1>0. /\ SdkTypeOK /\ TurnShape /\ Past /\ toWorker \in Seq(ToFrames)
      /\ OpenIsAwaited /\ PromptIsAwaited /\ InOrder /\ Retried
  BY DEF Shape, SdkTypeOK, PipeTypeOK, Sent
<1>n. turn.n \in Nat /\ turn.n \in Turns BY TurnNumber
<1>1. /\ \A i \in DOMAIN toWorker : /\ i \in Nat /\ i < Len(toWorker) + 1
                                    /\ i \in DOMAIN toWorker' /\ toWorker'[i] = toWorker[i]
      /\ Len(toWorker) + 1 \in DOMAIN toWorker' /\ Len(toWorker) \in Nat
      /\ toWorker'[Len(toWorker) + 1].op = "prompt"
      /\ toWorker'[Len(toWorker) + 1].request = NextRequest
      /\ \A i \in DOMAIN toWorker' : i \in DOMAIN toWorker \/ i = Len(toWorker) + 1
  BY <1>0, Appended DEF NextPrompt
<1>2. OpenIsAwaited'
  <2> SUFFICES ASSUME ~strayed, NEW r \in Requests, query[r].state = "open"
               PROVE  CancelComes(r)'
    BY DEF OpenIsAwaited
  <2>1. CancelComes(r) => CancelComes(r)' BY <1>1 DEF CancelComes
  <2> QED BY <1>0, <2>1 DEF OpenIsAwaited, Waits
<1>3. PromptIsAwaited'
  <2> SUFFICES ASSUME worker \in {"booting", "up"}, NEW i \in DOMAIN toWorker',
                      toWorker'[i].op = "prompt"
               PROVE  Waits(toWorker[i].request)' \/ CancelFollows(i)'
    BY DEF PromptIsAwaited
  <2>1. CASE i = Len(toWorker) + 1 BY <1>1, <2>1 DEF Waits
  <2>2. CASE i \in DOMAIN toWorker
    <3>1. CancelFollows(i) BY <1>0, <1>1, <2>2 DEF PromptIsAwaited, Waits
    <3> QED BY <1>1, <2>2, <3>1 DEF CancelFollows
  <2> QED BY <1>1, <2>1, <2>2
<1>4. InOrder'
  <2> SUFFICES ASSUME NEW i \in DOMAIN toWorker',
                      TurnOf(toWorker'[i].request) \in 1 .. turn.n - 1
               PROVE  \E j \in DOMAIN toWorker' : /\ j > i /\ toWorker'[j].op = "prompt"
                                                  /\ toWorker'[j].request = NextRequest
    BY DEF InOrder
  <2>1. TurnOf(NextRequest) = turn.n BY <1>n, TurnRequests DEF NextRequest
  <2>2. i # Len(toWorker) + 1 BY <1>1, <1>n, <2>1
  <2> QED BY <1>1, <2>2
<1>5. Retried'
  <2> SUFFICES ASSUME Second' PROVE ~Queued(2 * turn.n - 1)' /\ Over(2 * turn.n - 1)'
    BY DEF Retried
  <2>1. NextRequest = 2 * turn.n /\ turn.request # 0 BY <1>n DEF Second, NextRequest
  <2>2. ~Queued(2 * turn.n - 1) /\ Over(2 * turn.n - 1) BY <1>0, <1>n, <2>1 DEF Second, Retried
  <2>3. NextRequest # 2 * turn.n - 1 BY <1>n, <2>1
  <2>4. ~Queued(2 * turn.n - 1)' BY <1>1, <2>2, <2>3 DEF Queued
  <2> QED BY <2>2, <2>4 DEF Queued, Over
<1> QED BY <1>2, <1>3, <1>4, <1>5 DEF Sent

\* A frame is read: those behind it keep their order.
LEMMA ReadInOrder ==
    ASSUME Shape, Sent, toWorker # <<>>, toWorker' = Tail(toWorker), turn' = turn, worker' = worker
    PROVE  PromptIsAwaited' /\ InOrder' /\ \A r : Queued(r)' => Queued(r)
<1>0. /\ toWorker \in Seq(ToFrames) /\ PromptIsAwaited /\ InOrder
  BY DEF Shape, SdkTypeOK, PipeTypeOK, Sent
<1>1. /\ \A i \in DOMAIN toWorker' :
            /\ i \in Nat /\ i + 1 \in DOMAIN toWorker /\ toWorker'[i] = toWorker[i + 1]
      /\ \A i \in DOMAIN toWorker :
            /\ i \in Nat /\ i >= 1
            /\ i # 1 => i - 1 \in DOMAIN toWorker' /\ toWorker'[i - 1] = toWorker[i]
  BY <1>0, Tailed
<1>2. ASSUME NEW i \in DOMAIN toWorker', NEW j \in DOMAIN toWorker, j > i + 1
      PROVE  j - 1 \in DOMAIN toWorker' /\ j - 1 > i /\ toWorker'[j - 1] = toWorker[j]
  BY <1>1, <1>2
<1>3. PromptIsAwaited'
  <2> SUFFICES ASSUME worker \in {"booting", "up"}, NEW i \in DOMAIN toWorker',
                      toWorker'[i].op = "prompt"
               PROVE  Waits(toWorker[i].request)' \/ CancelFollows(i)'
    BY DEF PromptIsAwaited
  <2>1. CASE Waits(toWorker[i + 1].request) BY <1>1, <2>1 DEF Waits
  <2>2. CASE CancelFollows(i + 1)
    <3>1. PICK j \in DOMAIN toWorker :
              /\ j > i + 1 /\ toWorker[j].op = "cancel"
              /\ TurnOf(toWorker[j].request) = TurnOf(toWorker[i + 1].request)
      BY <2>2 DEF CancelFollows
    <3> QED BY <1>1, <1>2, <3>1 DEF CancelFollows
  <2> QED BY <1>0, <1>1, <2>1, <2>2 DEF PromptIsAwaited
<1>4. InOrder'
  <2> SUFFICES ASSUME turn.request # 0, NEW i \in DOMAIN toWorker',
                      TurnOf(toWorker'[i].request) \in 1 .. turn.n - 1
               PROVE  \E j \in DOMAIN toWorker' : /\ j > i /\ toWorker'[j].op = "prompt"
                                                  /\ toWorker'[j].request = turn.request
    BY DEF InOrder
  <2>1. PICK j \in DOMAIN toWorker :
            j > i + 1 /\ toWorker[j].op = "prompt" /\ toWorker[j].request = turn.request
    BY <1>0, <1>1 DEF InOrder
  <2> QED BY <1>2, <2>1
<1>5. \A r : Queued(r)' => Queued(r) BY <1>1 DEF Queued
<1> QED BY <1>3, <1>4, <1>5

LEMMA PromptReadSent ==
    ASSUME Shape, Replied, Sent, toWorker # <<>>, toWorker' = Tail(toWorker),
           NEW f, f = Head(toWorker), f.op = "prompt", f.request \in Requests,
           worker = "up", worker' = worker, turn' = turn, strayed' = strayed,
           \A r \in Requests : r # f.request => query'[r] = query[r]
    PROVE  Sent'
<1>0. /\ toWorker \in Seq(ToFrames) /\ OpenIsAwaited /\ PromptIsAwaited /\ Retried
  BY DEF Shape, SdkTypeOK, PipeTypeOK, Sent
<1>n. turn.n \in Nat /\ turn.n <= MaxTurns BY TurnNumber
<1>1. PromptIsAwaited' /\ InOrder' /\ \A r : Queued(r)' => Queued(r) BY ReadInOrder
<1>2. Queued(f.request) BY PromptRead
<1>3. /\ 1 \in DOMAIN toWorker /\ toWorker[1] = f
      /\ \A i \in DOMAIN toWorker :
            i \in Nat /\ (i # 1 => i - 1 \in DOMAIN toWorker' /\ toWorker'[i - 1] = toWorker[i])
  BY <1>0, Tailed
<1>4. OpenIsAwaited'
  <2> SUFFICES ASSUME ~strayed, NEW r \in Requests, query'[r].state = "open"
               PROVE  Waits(r)' \/ CancelComes(r)'
    BY DEF OpenIsAwaited
  <2>1. CancelComes(r) => CancelComes(r)' BY <1>3 DEF CancelComes
  <2>2. CASE r # f.request BY <1>0, <2>1, <2>2 DEF OpenIsAwaited, Waits
  <2>3. CASE r = f.request
    <3>1. Waits(r) \/ CancelFollows(1) BY <1>0, <1>3, <2>3 DEF PromptIsAwaited
    <3>2. CancelFollows(1) => CancelComes(r) BY <1>3, <2>3 DEF CancelFollows, CancelComes
    <3> QED BY <2>1, <3>1, <3>2 DEF Waits
  <2> QED BY <2>2, <2>3
<1>5. Retried'
  <2> SUFFICES ASSUME Second PROVE ~Queued(2 * turn.n - 1)' /\ Over(2 * turn.n - 1)'
    BY DEF Retried, Second, Queued, Over
  <2>1. ~Queued(2 * turn.n - 1) /\ Over(2 * turn.n - 1) BY <1>0 DEF Retried
  <2>2. 2 * turn.n - 1 \in Requests BY <1>n, RequestFacts DEF Second, Turns
  <2>3. PICK r \in Requests : r = 2 * turn.n - 1 BY <2>2
  <2>4. r # f.request BY <1>2, <2>1, <2>3
  <2>5. ~Queued(r)' /\ Over(r)' BY <1>1, <2>1, <2>3, <2>4 DEF Over
  <2> QED BY <2>3, <2>5 DEF Queued, Over
<1> QED BY <1>1, <1>4, <1>5 DEF Sent

LEMMA CancelReadSent ==
    ASSUME Shape, Sent, ReadCancel
    PROVE  Sent'
<1> PICK f : f = Head(toWorker) OBVIOUS
<1>0. /\ SdkTypeOK /\ toWorker \in Seq(ToFrames) /\ OpenIsAwaited /\ PromptIsAwaited /\ Retried
  BY DEF Shape, SdkTypeOK, PipeTypeOK, Sent
<1>n. turn.n \in Nat /\ turn.n <= MaxTurns BY TurnNumber
<1>d. /\ toWorker # <<>> /\ toWorker' = Tail(toWorker) /\ turn' = turn /\ worker' = worker
      /\ \A r \in Requests : query'[r].state \in {query[r].state, "interrupted"}
      /\ \A r \in Requests : Over(r) => Over(r)'
      /\ cancelRead' = cancelRead \union {TurnOf(f.request)}
      /\ strayed' = (strayed \/ LeftGoing' # {})
  BY <1>0, ReadCancelDoes DEF Over, Live
<1>1. PromptIsAwaited' /\ InOrder' /\ \A r : Queued(r)' => Queued(r) BY <1>d, ReadInOrder
<1>3. /\ toWorker[1] = f
      /\ \A i \in DOMAIN toWorker :
            i \in Nat /\ (i # 1 => i - 1 \in DOMAIN toWorker' /\ toWorker'[i - 1] = toWorker[i])
  BY <1>0, <1>d, Tailed
<1>4. OpenIsAwaited'
  <2> SUFFICES ASSUME ~strayed', NEW r \in Requests, query'[r].state = "open"
               PROVE  Waits(r)' \/ CancelComes(r)'
    BY DEF OpenIsAwaited
  <2>1. ~strayed /\ r \notin LeftGoing' BY <1>d
  <2>2. TurnOf(r) \notin cancelRead' BY <2>1 DEF LeftGoing
  <2>3. TurnOf(r) # TurnOf(f.request) BY <1>d, <2>2
  <2>4. query[r].state = "open" BY <1>d
  <2>5. Waits(r) \/ CancelComes(r) BY <1>0, <2>1, <2>4 DEF OpenIsAwaited
  <2>6. CancelComes(r) => CancelComes(r)' BY <1>3, <2>3 DEF CancelComes
  <2> QED BY <1>d, <2>5, <2>6 DEF Waits
<1>5. Retried'
  <2> SUFFICES ASSUME Second PROVE ~Queued(2 * turn.n - 1)' /\ Over(2 * turn.n - 1)'
    BY <1>d DEF Retried, Second, Queued, Over
  <2>1. ~Queued(2 * turn.n - 1) /\ Over(2 * turn.n - 1) BY <1>0 DEF Retried
  <2>2. PICK r \in Requests : r = 2 * turn.n - 1 BY <1>n, RequestFacts DEF Second, Turns
  <2>3. ~Queued(r)' /\ Over(r)' BY <1>d, <1>1, <2>1, <2>2 DEF Over
  <2> QED BY <1>d, <2>2, <2>3 DEF Queued, Over
<1> QED BY <1>1, <1>4, <1>5 DEF Sent

LEMMA SentNext == Shape /\ Shape' /\ Replied /\ Sent /\ [Next]_vars => Sent'
<1> SUFFICES ASSUME Shape, Shape', Replied, Sent, [Next]_vars PROVE Sent' OBVIOUS
<1>0. /\ SdkTypeOK /\ TurnShape /\ WorkerShape /\ Past /\ TurnShape'
      /\ toWorker \in Seq(ToFrames)
  BY DEF Shape, SdkTypeOK, PipeTypeOK
<1>n. /\ turn.n \in Nat /\ turn'.n \in Nat /\ turn'.request \in Nat
      /\ (turn.pc # "idle" => turn.n # 0 /\ turn.n \in Turns)
      /\ (turn.request # 0 => turn.request \in Requests /\ TurnOf(turn.request) = turn.n)
  <2>1. turn'.n \in Nat /\ turn'.request \in Nat
    <3>1. turn' \in TurnStates BY DEF Shape, SdkTypeOK, DriverTypeOK
    <3>2. turn'.n \in 0 .. MaxTurns /\ turn'.request \in {0} \union Requests
      BY <3>1 DEF TurnStates
    <3> QED BY <3>2, SdkAssumption, RequestFacts
  <2> QED BY <2>1, TurnNumber
\* A turn that is not waiting goes on as it is.
<1>t. ASSUME turn.pc # "wait", query' = query, toWorker' = toWorker, strayed' = strayed,
             worker' = worker, turn'.request = 0 \/ turn' = turn
                               \/ (turn'.request = turn.request /\ turn'.n = turn.n),
             turn'.pc = "submit" => turn'.request = 0
      PROVE  Sent'
  <2>1. Second' => Second BY <1>n, <1>t DEF Second
  <2>2. Still BY <1>t, <1>n, <2>1 DEF Still, Over, Waits
  <2> QED BY <2>2, StillKeeps
\* A step that leaves the turn alone.
<1>w. ASSUME \A r \in Requests : /\ query'[r].state = "open" => query[r].state = "open"
                                 /\ Over(r) => Over(r)',
             turn' = turn, strayed' = strayed,
             toWorker' = toWorker \/ (toWorker' = <<>> /\ \A r \in Requests : Over(r)'),
             worker' \in {"booting", "up"} => worker \in {"booting", "up"}
      PROVE  Sent'
  <2>1. Second' => Second BY <1>w DEF Second
  <2>2. Still BY <1>w, <1>n, <2>1 DEF Still, Waits
  <2> QED BY <2>2, StillKeeps
<1>1. CASE BeginTurn
  BY <1>0, <1>1, <1>n, <1>t, BeginTurnDoes DEF restVars
<1>2. CASE CallerLeaves
  <2>1. Second' => Second BY <1>0, <1>2, CallerLeavesDoes DEF Second
  <2>2. Still BY <1>0, <1>2, <1>n, <2>1, CallerLeavesDoes DEF Still, Waits, Over, restVars
  <2> QED BY <2>2, StillKeeps
<1>3. CASE EnsureWorker
  <2>1. CASE UNCHANGED <<toWorker, worker>>
    BY <1>0, <1>3, <1>t, <2>1, EnsureWorkerDoes
  <2>2. CASE ~driver.cmd /\ toWorker' = <<>>
    <3>1. \A r \in Requests : Over(r)' BY <1>0, <1>3, <2>2, EnsureWorkerDoes DEF WorkerShape, Over
    <3>2. Second' => Second BY <1>0, <1>3, EnsureWorkerDoes DEF Second
    <3>3. Still BY <1>0, <1>3, <1>n, <2>2, <3>1, <3>2, EnsureWorkerDoes DEF Still, Waits
    <3> QED BY <3>3, StillKeeps
  <2> QED BY <1>0, <1>3, <2>1, <2>2, EnsureWorkerDoes
<1>4. CASE WorkerReady \/ WorkerNotReady \/ PromptFails
  <2>1. turn'.pc = "submit" => turn'.request = 0
    BY <1>0, <1>4, AwaitDoes DEF TurnShape
  <2> QED BY <1>0, <1>4, <1>t, <2>1, AwaitDoes DEF restVars
<1>5. CASE Submit
  <2>0. turn.pc = "submit" /\ turn.n # 0 BY <1>5, <1>n DEF Submit, At
  <2>1. CASE UNCHANGED toWorker /\ turn'.pc = "leave" /\ turn'.request = turn.request
    BY <1>0, <1>5, <1>t, <2>0, <2>1, SubmitDoes DEF restVars
  <2>2. CASE /\ NextRequest \in Requests /\ turn'.pc = "wait" /\ turn'.request = NextRequest
             /\ NextPrompt \in ToFrames /\ toWorker' = Append(toWorker, NextPrompt)
    BY <1>0, <1>5, <2>0, <2>2, SubmitDoes, SubmitSends DEF restVars
  <2> QED BY <1>0, <1>5, <2>0, <2>1, <2>2, SubmitDoes
<1>6. CASE TakeReply
  <2>0. turn.request # 0 /\ turn.pc = "wait" BY <1>0, <1>6 DEF TakeReply, At, TurnShape
  <2>1. Over(turn.request) /\ ~Queued(turn.request)
    BY <1>0, <1>6, <1>n, <2>0, TakeReplyDoes DEF Replied, Boxes, UnreadRequests, Untouched
  <2>2. Second' => Second \/ (~Queued(2 * turn.n - 1) /\ Over(2 * turn.n - 1))
    <3>1. turn'.pc = "submit" => turn.request = 2 * turn.n - 1 BY <1>0, <1>6, <2>0, TakeReplyDoes
    <3>2. turn'.n = turn.n /\ turn'.request = turn.request BY <1>0, <1>6, <2>0, TakeReplyDoes
    <3>3. turn'.pc = "submit" => ~Queued(2 * turn.n - 1) /\ Over(2 * turn.n - 1)
      BY <2>1, <3>1 DEF Queued, Over
    <3> QED BY <3>2, <3>3 DEF Second
  <2>3. Still
    BY <1>0, <1>6, <1>n, <2>0, <2>1, <2>2, TakeReplyDoes DEF Still, Waits, Over
  <2> QED BY <2>3, StillKeeps
<1>7. CASE TurnCancelled
  <2>1. CASE toWorker' = Append(toWorker, CancelFrame)
    BY <1>0, <1>7, <2>1, TurnCancelledDoes, CancelKeeps DEF restVars
  <2>2. CASE ~(driver.cmd /\ worker # "dead") /\ UNCHANGED toWorker
    <3>1. worker \notin {"booting", "up"} /\ \A r \in Requests : Over(r)
      BY <1>0, <1>7, <2>2, TurnCancelledDoes DEF WorkerShape, Over
    <3>2. Second' => Second BY <1>0, <1>7, TurnCancelledDoes DEF Second
    <3>3. Still BY <1>0, <1>7, <1>n, <2>2, <3>1, <3>2, TurnCancelledDoes DEF Still, Over, restVars
    <3> QED BY <3>3, StillKeeps
  <2> QED BY <1>0, <1>7, <2>1, <2>2, TurnCancelledDoes
<1>8. CASE TurnOrphaned
  <2>1. worker \notin {"booting", "up"} /\ \A r \in Requests : Over(r)
    BY <1>0, <1>8, TurnOrphanedDoes DEF WorkerShape, Over
  <2>2. Second' => Second BY <1>0, <1>8, TurnOrphanedDoes DEF Second
  <2>3. Still BY <1>0, <1>8, <1>n, <2>1, <2>2, TurnOrphanedDoes DEF Still, Over, restVars
  <2> QED BY <2>3, StillKeeps
<1>9. CASE Record BY <1>0, <1>9, <1>t, RecordDoes
<1>10. CASE CancelDriver
  <2>1. CASE toWorker' = Append(toWorker, CancelFrame)
    BY <1>0, <1>10, <2>1, CancelDriverDoes, CancelKeeps DEF restVars
  <2>2. CASE UNCHANGED toWorker
    BY <1>0, <1>10, <1>t, <2>2, CancelDriverDoes DEF restVars
  <2> QED BY <1>0, <1>10, <2>1, <2>2, CancelDriverDoes
<1>11. CASE LeaveTurn
  <2>0. turn.n # 0 BY <1>11, <1>n DEF LeaveTurn, At
  <2> QED BY <1>0, <1>11, <1>t, <2>0, LeaveTurnDoes
<1>12. CASE Dispatch
  <2>1. \A r \in Requests : query'[r].state = query[r].state BY <1>0, <1>12, DispatchDoes
  <2> QED BY <1>0, <1>12, <1>w, <2>1, DispatchDoes DEF Over
<1>13. CASE ShutdownWorker
  <2>1. \A r \in Requests : Over(r) BY <1>0, <1>13, ShutdownWorkerDoes DEF WorkerShape, Over
  <2> QED BY <1>0, <1>13, <1>w, <2>1, ShutdownWorkerDoes DEF Over
<1>14. CASE Boot BY <1>0, <1>14, <1>w, BootDoes DEF Over
<1>15. CASE WorkerDies
  <2>1. \A r \in Requests : Over(r)' /\ query'[r].state # "open"
    BY <1>0, <1>15, WorkerDiesDoes, Dying DEF Over
  <2> QED BY <1>0, <1>15, <1>w, <2>1, WorkerDiesDoes
<1>16. CASE ReadPrompt
  <2> PICK f : f = Head(toWorker) OBVIOUS
  <2>0. f.request # 0 /\ toWorker # <<>>
    BY <1>0, <1>16, Tailed DEF ReadPrompt, Past
  <2>1. \A r \in Requests : r # f.request => query'[r] = query[r]
    BY <1>0, <1>16, <2>0, ReadPromptDoes
  <2> QED BY <1>0, <1>16, <2>0, <2>1, ReadPromptDoes, PromptReadSent
<1>17. CASE ReadCancel BY <1>17, CancelReadSent
<1>18. ASSUME NEW r \in Requests, QueryStep(r) PROVE Sent'
  <2>0. query[r].sid \in Sessions /\ ~Over(r)
    BY <1>0, <1>18
       DEF QueryStep, QueryLoads, QuerySpeaks, QuerySucceeds, QueryFails, Live, Past, Over
  <2>1. ASSUME \A p \in Requests : p # r => query'[p] = query[p], query'[r].state # "open",
               turn' = turn, strayed' = strayed, toWorker' = toWorker, worker' = worker
        PROVE  Sent'
    <3>1. \A p \in Requests : /\ query'[p].state = "open" => query[p].state = "open"
                              /\ Over(p) => Over(p)'
      BY <2>0, <2>1 DEF Over
    <3> QED BY <1>w, <2>1, <3>1
  <2>2. CASE QueryLoads(r) BY <1>0, <2>0, <2>1, <2>2, QueryLoadsDoes
  <2>3. CASE QuerySpeaks(r) BY <1>0, <2>1, <2>3, QuerySpeaksDoes
  <2>4. CASE QuerySucceeds(r) BY <1>0, <2>0, <2>1, <2>4, QuerySucceedsDoes
  <2>5. CASE QueryFails(r) BY <1>0, <2>1, <2>5, QueryFailsDoes
  <2> QED BY <1>18, <2>2, <2>3, <2>4, <2>5 DEF QueryStep
<1>19. ASSUME NEW s \in Sessions, TranscriptDeleted(s) PROVE Sent'
  BY <1>0, <1>19, <1>w, TranscriptDeletedDoes DEF Over
<1>20. CASE BridgeEnds
  <2>1. \A r \in Requests : Over(r)' /\ query'[r].state # "open"
    BY <1>0, <1>20, BridgeEndsDoes, Dying DEF Over
  <2>2. ~Second' BY <1>0, <1>20, <1>n, BridgeEndsDoes DEF Second
  <2>3. OpenIsAwaited' BY <2>1 DEF OpenIsAwaited
  <2>4. PromptIsAwaited' /\ InOrder' BY <1>0, <1>20, BridgeEndsDoes DEF PromptIsAwaited, InOrder
  <2> QED BY <2>2, <2>3, <2>4 DEF Sent, Retried
<1>21. CASE BridgeStarts
  <2>0. bridge.n < MaxBridges BY <1>0, <1>21 DEF BridgeStarts, WorkerShape
  <2> QED BY <1>0, <1>21, <1>w, <2>0, BridgeStartsDoes DEF Over
<1>22. CASE UNCHANGED vars BY <1>22, <1>w DEF vars, Over
<1> QED
  BY <1>1, <1>2, <1>3, <1>4, <1>5, <1>6, <1>7, <1>8, <1>9, <1>10, <1>11, <1>12, <1>13,
     <1>14, <1>15, <1>16, <1>17, <1>18, <1>19, <1>20, <1>21, <1>22 DEF Next, DriverStep

LEMMA SentInit == Init => Sent
<1> SUFFICES ASSUME Init PROVE Sent OBVIOUS
<1>1. DOMAIN toWorker = {} /\ turn.n = 0 /\ turn.request = 0 BY DEF Init, Idle
<1>2. \A r \in Requests : query[r].state = "none" BY DEF Init, NoQuery
<1> QED
  BY <1>1, <1>2 DEF Sent, OpenIsAwaited, PromptIsAwaited, InOrder, Retried, Second

--------------------------------------------------------------------------------
(***************************************************************************)
(* The session: what the record names, what the driver resumes, and what   *)
(* the prompt and the query of the turn being served were given.           *)
(***************************************************************************)
SessionRecorded == bridge.up =>
    IF driver.established THEN record = driver.sid /\ record # NoSession ELSE record = NoSession
NothingYet == record = NoSession => answered = {}
SessionOfTurn == turn.request # 0 =>
    /\ driver.sid # NoSession
    /\ query[turn.request].state # "none" =>
          query[turn.request].sid = driver.sid /\ (query[turn.request].resume => driver.established)
SessionOfPrompt == \A i \in DOMAIN toWorker :
    toWorker[i].op = "prompt" /\ toWorker[i].request = turn.request =>
        toWorker[i].sid = driver.sid /\ (toWorker[i].resume => driver.established)
OkRecorded == turn.outcome = "ok" => driver.established

Named == /\ SessionRecorded /\ NothingYet /\ SessionOfTurn /\ SessionOfPrompt /\ OkRecorded

\* The prompts in the pipe after the step were in it before.
PromptsFrom == \A i \in DOMAIN toWorker' :
    toWorker'[i].op = "prompt" => \E j \in DOMAIN toWorker : toWorker[j] = toWorker'[i]

LEMMA PromptsStay ==
    ASSUME toWorker \in Seq(ToFrames),
           \/ toWorker' = toWorker
           \/ toWorker' = <<>>
           \/ toWorker # <<>> /\ toWorker' = Tail(toWorker)
           \/ CancelFrame \in ToFrames /\ toWorker' = Append(toWorker, CancelFrame)
    PROVE  PromptsFrom
<1>1. CASE toWorker' = toWorker BY <1>1 DEF PromptsFrom
<1>2. CASE toWorker' = <<>> BY <1>2 DEF PromptsFrom
<1>3. CASE toWorker # <<>> /\ toWorker' = Tail(toWorker)
  <2>1. \A i \in DOMAIN toWorker' : i + 1 \in DOMAIN toWorker /\ toWorker'[i] = toWorker[i + 1]
    BY <1>3, Tailed
  <2> QED BY <2>1 DEF PromptsFrom
<1>4. CASE CancelFrame \in ToFrames /\ toWorker' = Append(toWorker, CancelFrame)
  <2>1. \A i \in DOMAIN toWorker' : \/ i \in DOMAIN toWorker /\ toWorker'[i] = toWorker[i]
                                    \/ toWorker'[i].op = "cancel"
    BY <1>4, Appended DEF CancelFrame
  <2> QED BY <2>1 DEF PromptsFrom
<1> QED BY <1>1, <1>2, <1>3, <1>4

\* A step that keeps the sessions as they are.
Steady ==
    /\ driver'.sid = driver.sid /\ driver'.established = driver.established
    /\ record' = record /\ answered' = answered
    /\ turn'.request = 0 \/ turn'.request = turn.request
    /\ turn'.outcome = "ok" => turn.outcome = "ok"
    /\ \A r \in Requests : query'[r].state # "none" =>
          /\ query[r].state # "none"
          /\ query'[r].sid = query[r].sid /\ query'[r].resume = query[r].resume
    /\ PromptsFrom
    /\ bridge'.up => bridge.up

LEMMA SteadyKeeps ==
    ASSUME Shape, Shape', Named, Steady
    PROVE  Named'
<1>0. /\ SessionRecorded /\ NothingYet /\ SessionOfTurn /\ SessionOfPrompt /\ OkRecorded /\ Past'
  BY DEF Named, Shape
<1>1. SessionRecorded' BY <1>0 DEF SessionRecorded, Steady
<1>2. NothingYet' BY <1>0 DEF NothingYet, Steady
<1>3. SessionOfTurn'
  <2>1. turn.request # 0 => turn.request \in Requests BY TurnNumber
  <2> QED BY <1>0, <2>1 DEF SessionOfTurn, Steady
<1>4. SessionOfPrompt'
  <2> SUFFICES ASSUME NEW i \in DOMAIN toWorker', toWorker'[i].op = "prompt",
                      toWorker'[i].request = turn'.request
               PROVE  toWorker'[i].sid = driver.sid
                      /\ (toWorker'[i].resume => driver.established)
    BY DEF SessionOfPrompt, Steady
  <2>1. turn'.request = turn.request BY <1>0 DEF Past, Steady
  <2> QED BY <1>0, <2>1 DEF SessionOfPrompt, Steady, PromptsFrom
<1>5. OkRecorded' BY <1>0 DEF OkRecorded, Steady
<1> QED BY <1>1, <1>2, <1>3, <1>4, <1>5 DEF Named

LEMMA SubmitNames ==
    ASSUME Shape, Shape', Replied, Named, NextPrompt \in ToFrames, NextRequest \in Requests,
           turn.pc = "submit", turn.n # 0, toWorker' = Append(toWorker, NextPrompt),
           turn'.request = NextRequest, turn'.outcome = turn.outcome,
           driver'.sid = NextSid, driver'.established = driver.established,
           query' = query, record' = record, answered' = answered, bridge' = bridge, bridge.up
    PROVE  Named'
<1>0. /\ SdkTypeOK /\ TurnShape /\ SessionRecorded /\ NothingYet /\ SessionOfPrompt /\ OkRecorded
      /\ NewRequests /\ toWorker \in Seq(ToFrames)
  BY DEF Named, Shape, Replied, SdkTypeOK, PipeTypeOK
<1>1. NextSid # NoSession
  BY <1>0, SdkAssumption DEF NextSid, SdkTypeOK, RestTypeOK, NoSession
<1>2. driver.established => NextSid = driver.sid BY <1>0 DEF SessionRecorded, NextSid
<1>3. SessionRecorded' BY <1>0, <1>2 DEF SessionRecorded
<1>4. NothingYet' BY <1>0 DEF NothingYet
<1>5. query[NextRequest].state = "none" /\ ~Queued(NextRequest)
  <2>1. turn.n \in Nat /\ turn.n \in Turns /\ turn.request \in Nat BY TurnNumber
  <2>2. turn.request = 0 \/ turn.request = 2 * turn.n - 1 BY <1>0 DEF TurnShape
  <2>3. TurnOf(NextRequest) = turn.n BY <2>1, TurnRequests DEF NextRequest
  <2>4. turn.request < NextRequest BY <2>1, <2>2 DEF NextRequest
  <2>5. Fresh(NextRequest) BY <2>3, <2>4 DEF Fresh
  <2> QED BY <1>0, <2>5 DEF NewRequests, Untouched
<1>6. SessionOfTurn' BY <1>1, <1>5 DEF SessionOfTurn
<1>7. SessionOfPrompt'
  <2>1. \A i \in DOMAIN toWorker' : \/ i \in DOMAIN toWorker /\ toWorker'[i] = toWorker[i]
                                    \/ toWorker'[i] = NextPrompt
    BY <1>0, Appended
  <2>2. NextPrompt.sid = NextSid /\ (NextPrompt.resume => driver.established) BY DEF NextPrompt
  <2> QED BY <1>5, <2>1, <2>2 DEF SessionOfPrompt, Queued
<1>8. OkRecorded' BY <1>0 DEF OkRecorded
<1> QED BY <1>3, <1>4, <1>6, <1>7, <1>8 DEF Named

LEMMA NamedInit == Init => Named
<1> SUFFICES ASSUME Init PROVE Named OBVIOUS
<1>1. DOMAIN toWorker = {} /\ record = NoSession /\ answered = {} BY DEF Init
<1>2. turn.request = 0 /\ turn.outcome = "none" BY DEF Init, Idle
<1>3. ~driver.established
  <2>1. driver = NewDriver(NoSession) BY DEF Init
  <2> QED BY <2>1 DEF NewDriver
<1> QED
  BY <1>1, <1>2, <1>3 DEF Named, SessionRecorded, NothingYet, SessionOfTurn, SessionOfPrompt, OkRecorded

LEMMA NamedNext == Shape /\ Shape' /\ Replied /\ Named /\ [Next]_vars => Named'
<1> SUFFICES ASSUME Shape, Shape', Replied, Named, [Next]_vars PROVE Named' OBVIOUS
<1>0. /\ SdkTypeOK /\ TurnShape /\ WorkerShape /\ Past /\ TurnShape' /\ Past'
      /\ toWorker \in Seq(ToFrames)
      /\ SessionRecorded /\ NothingYet /\ SessionOfTurn /\ SessionOfPrompt /\ OkRecorded
  BY DEF Shape, SdkTypeOK, PipeTypeOK, Named
<1>n. /\ turn.n \in Nat /\ (turn.pc # "idle" => turn.n # 0 /\ turn.n \in Turns)
      /\ (turn.request # 0 => turn.request \in Requests /\ TurnOf(turn.request) = turn.n)
  BY TurnNumber
\* A step that leaves the queries and the sessions alone.
<1>s. ASSUME driver'.sid = driver.sid, driver'.established = driver.established,
             record' = record, answered' = answered,
             turn'.request = 0 \/ turn'.request = turn.request,
             turn'.outcome = "ok" => turn.outcome = "ok",
             \A r \in Requests : /\ query'[r].state # "none" => query[r].state # "none"
                                 /\ query'[r].sid = query[r].sid
                                 /\ query'[r].resume = query[r].resume,
             \/ toWorker' = toWorker
             \/ toWorker' = <<>>
             \/ toWorker # <<>> /\ toWorker' = Tail(toWorker)
             \/ CancelFrame \in ToFrames /\ toWorker' = Append(toWorker, CancelFrame),
             bridge'.up => bridge.up
      PROVE  Named'
  <2>1. PromptsFrom BY <1>0, <1>s, PromptsStay
  <2>2. Steady BY <1>s, <2>1 DEF Steady
  <2> QED BY <2>2, SteadyKeeps
<1>1. CASE BeginTurn BY <1>0, <1>1, <1>s, BeginTurnDoes DEF restVars
<1>2. CASE CallerLeaves BY <1>0, <1>2, <1>s, CallerLeavesDoes DEF restVars
<1>3. CASE EnsureWorker
  <2>1. turn'.outcome # "ok" BY <1>0, <1>3, EnsureWorkerDoes DEF TurnShape
  <2> QED BY <1>0, <1>3, <1>s, <2>1, EnsureWorkerDoes
<1>4. CASE WorkerReady \/ WorkerNotReady \/ PromptFails
  BY <1>0, <1>4, <1>s, AwaitDoes DEF restVars
<1>5. CASE Submit
  <2>0. turn.pc = "submit" /\ turn.n # 0 BY <1>5, <1>n DEF Submit, At
  <2>1. CASE UNCHANGED toWorker /\ turn'.pc = "leave" /\ turn'.request = turn.request
             /\ turn'.outcome = "error"
    <3>1. /\ driver'.sid = NextSid /\ driver'.established = driver.established
          /\ UNCHANGED <<query, record, answered, bridge>> /\ bridge.up
      BY <1>0, <1>5, <2>0, SubmitDoes DEF restVars
    <3>2. driver.established \/ turn.request # 0 => NextSid = driver.sid
      BY <1>0, <3>1 DEF SessionRecorded, SessionOfTurn, NextSid
    <3>3. SessionRecorded' /\ NothingYet' /\ OkRecorded'
      BY <1>0, <2>1, <3>1, <3>2 DEF SessionRecorded, NothingYet, OkRecorded
    <3>4. SessionOfTurn' BY <1>0, <2>1, <3>1, <3>2 DEF SessionOfTurn
    <3>5. SessionOfPrompt'
      <4>1. \A i \in DOMAIN toWorker : toWorker[i].op = "prompt" => toWorker[i].request # 0
        BY <1>0 DEF Past
      <4> QED BY <1>0, <2>1, <3>1, <3>2, <4>1 DEF SessionOfPrompt
    <3> QED BY <3>3, <3>4, <3>5 DEF Named
  <2>2. CASE /\ NextRequest \in Requests /\ turn'.pc = "wait" /\ turn'.request = NextRequest
             /\ turn'.outcome = turn.outcome
             /\ NextPrompt \in ToFrames /\ toWorker' = Append(toWorker, NextPrompt)
    BY <1>0, <1>5, <2>0, <2>2, SubmitDoes, SubmitNames DEF restVars
  <2> QED BY <1>0, <1>5, <2>0, <2>1, <2>2, SubmitDoes
<1>6. CASE TakeReply
  <2>0. turn.request # 0 BY <1>0, <1>6 DEF TakeReply, At, TurnShape
  <2> QED BY <1>0, <1>6, <1>s, <2>0, TakeReplyDoes
<1>7. CASE TurnCancelled BY <1>0, <1>7, <1>s, TurnCancelledDoes DEF restVars
<1>8. CASE TurnOrphaned BY <1>0, <1>8, <1>s, TurnOrphanedDoes DEF restVars
<1>9. CASE Record
  <2>1. turn.request # 0 /\ driver.sid # NoSession
    BY <1>0, <1>9, RecordDoes DEF TurnShape, SessionOfTurn
  <2>2. SessionRecorded' BY <1>0, <1>9, <2>1, RecordDoes DEF SessionRecorded
  <2>3. NothingYet' BY <1>0, <1>9, <2>1, RecordDoes DEF NothingYet
  <2>4. SessionOfTurn' BY <1>0, <1>9, <2>1, RecordDoes DEF SessionOfTurn
  <2>5. SessionOfPrompt' BY <1>0, <1>9, RecordDoes DEF SessionOfPrompt
  <2>6. OkRecorded' BY <1>0, <1>9, RecordDoes DEF OkRecorded
  <2> QED BY <2>2, <2>3, <2>4, <2>5, <2>6 DEF Named
<1>10. CASE CancelDriver BY <1>0, <1>10, <1>s, CancelDriverDoes DEF restVars
<1>11. CASE LeaveTurn
  <2>0. turn.n # 0 BY <1>11, <1>n DEF LeaveTurn, At
  <2>1. SessionRecorded' BY <1>0, <1>11, <2>0, LeaveTurnDoes DEF SessionRecorded
  <2>2. NothingYet'
    BY <1>0, <1>11, <2>0, LeaveTurnDoes DEF NothingYet, OkRecorded, SessionRecorded
  <2>3. SessionOfTurn' BY <1>0, <1>11, <2>0, LeaveTurnDoes DEF SessionOfTurn
  <2>4. SessionOfPrompt' BY <1>0, <1>11, <2>0, LeaveTurnDoes DEF SessionOfPrompt, Past
  <2>5. OkRecorded' BY <1>0, <1>11, <2>0, LeaveTurnDoes DEF OkRecorded
  <2> QED BY <2>1, <2>2, <2>3, <2>4, <2>5 DEF Named
<1>12. CASE Dispatch BY <1>0, <1>12, <1>s, DispatchDoes
<1>13. CASE ShutdownWorker BY <1>0, <1>13, <1>s, ShutdownWorkerDoes
<1>14. CASE Boot BY <1>0, <1>14, <1>s, BootDoes
<1>15. CASE WorkerDies BY <1>0, <1>15, <1>s, WorkerDiesDoes, Dying DEF WorkerDies
<1>16. CASE ReadPrompt
  <2> PICK f : f = Head(toWorker) OBVIOUS
  <2>0. f.request # 0 /\ toWorker # <<>>
    BY <1>0, <1>16, Tailed DEF ReadPrompt, Past
  <2>1. CASE UNCHANGED query BY <1>0, <1>16, <1>s, <2>0, <2>1, ReadPromptDoes
  <2>2. CASE /\ query'[f.request].resume = f.resume /\ query'[f.request].sid = f.sid
             /\ \A r \in Requests : r # f.request => query'[r] = query[r]
    <3>0. /\ toWorker' = Tail(toWorker) /\ f.op = "prompt"
          /\ UNCHANGED <<turn, driver, record, answered, bridge>>
      BY <1>0, <1>16, <2>0, ReadPromptDoes
    <3>1. SessionRecorded' /\ NothingYet' /\ OkRecorded'
      BY <1>0, <3>0 DEF SessionRecorded, NothingYet, OkRecorded
    <3>2. SessionOfTurn'
      <4>1. f.request = turn.request =>
               f.sid = driver.sid /\ (f.resume => driver.established)
        BY <1>0, <2>0, <3>0, Tailed DEF SessionOfPrompt
      <4> QED BY <1>0, <1>n, <2>2, <3>0, <4>1 DEF SessionOfTurn
    <3>3. SessionOfPrompt'
      <4>1. PromptsFrom BY <1>0, <2>0, <3>0, PromptsStay
      <4> QED BY <1>0, <3>0, <4>1 DEF SessionOfPrompt, PromptsFrom
    <3> QED BY <3>1, <3>2, <3>3 DEF Named
  <2> QED BY <1>0, <1>16, <2>0, <2>1, <2>2, ReadPromptDoes
<1>17. CASE ReadCancel
  <2>1. \A r \in Requests : query'[r].state # "none" => query[r].state # "none"
    BY <1>0, <1>17, ReadCancelDoes DEF Live
  <2> QED BY <1>0, <1>17, <1>s, <2>1, ReadCancelDoes
<1>18. ASSUME NEW r \in Requests, QueryStep(r) PROVE Named'
  <2>0. query[r].sid \in Sessions /\ query[r].state # "none"
    BY <1>0, <1>18
       DEF QueryStep, QueryLoads, QuerySpeaks, QuerySucceeds, QueryFails, Live, Past
  <2>1. ASSUME \A p \in Requests : p # r => query'[p] = query[p],
               query'[r].sid = query[r].sid, query'[r].resume = query[r].resume,
               turn' = turn, driver' = driver, record' = record, answered' = answered,
               toWorker' = toWorker, bridge' = bridge
        PROVE  Named'
    <3>1. \A p \in Requests : /\ query'[p].state # "none" => query[p].state # "none"
                              /\ query'[p].sid = query[p].sid
                              /\ query'[p].resume = query[p].resume
      BY <2>0, <2>1
    <3> QED BY <1>s, <2>1, <3>1
  <2>2. CASE QueryLoads(r) BY <1>0, <2>0, <2>1, <2>2, QueryLoadsDoes
  <2>3. CASE QuerySpeaks(r) BY <1>0, <2>1, <2>3, QuerySpeaksDoes
  <2>4. CASE QuerySucceeds(r) BY <1>0, <2>0, <2>1, <2>4, QuerySucceedsDoes
  <2>5. CASE QueryFails(r) BY <1>0, <2>1, <2>5, QueryFailsDoes
  <2> QED BY <1>18, <2>2, <2>3, <2>4, <2>5 DEF QueryStep
<1>19. ASSUME NEW s \in Sessions, TranscriptDeleted(s) PROVE Named'
  BY <1>0, <1>19, <1>s, TranscriptDeletedDoes
<1>20. CASE BridgeEnds BY <1>0, <1>20, <1>s, BridgeEndsDoes, Dying
<1>21. CASE BridgeStarts
  <2>0. bridge.n < MaxBridges /\ turn.pc = "idle"
    BY <1>0, <1>21 DEF BridgeStarts, WorkerShape
  <2>1. turn.request = 0 /\ turn.outcome # "ok" BY <1>0, <2>0 DEF TurnShape
  <2>2. SessionRecorded' BY <1>0, <1>21, <2>0, BridgeStartsDoes DEF SessionRecorded
  <2>3. NothingYet' BY <1>0, <1>21, <2>0, BridgeStartsDoes DEF NothingYet
  <2>4. SessionOfTurn' BY <1>0, <1>21, <2>0, <2>1, BridgeStartsDoes DEF SessionOfTurn
  <2>5. SessionOfPrompt'
    BY <1>0, <1>21, <2>0, <2>1, BridgeStartsDoes DEF SessionOfPrompt, Past
  <2>6. OkRecorded' BY <1>0, <1>21, <2>0, <2>1, BridgeStartsDoes DEF OkRecorded
  <2> QED BY <2>2, <2>3, <2>4, <2>5, <2>6 DEF Named
<1>22. CASE UNCHANGED vars BY <1>22, <1>s DEF vars
<1> QED
  BY <1>1, <1>2, <1>3, <1>4, <1>5, <1>6, <1>7, <1>8, <1>9, <1>10, <1>11, <1>12, <1>13,
     <1>14, <1>15, <1>16, <1>17, <1>18, <1>19, <1>20, <1>21, <1>22 DEF Next, DriverStep

--------------------------------------------------------------------------------
(***************************************************************************)
(* The conversation: what the transcript of the recorded session holds.    *)
(* It holds whatever was answered, unless a warning said it was lost; and  *)
(* once a turn has succeeded, nothing is under way that could start the    *)
(* transcript anew before the answer is recorded.                          *)
(***************************************************************************)
Succeeded == \/ turn.pc = "record" \/ turn.outcome = "ok"
             \/ /\ turn.request # 0
                /\ \/ box[turn.request] = "result"
                   \/ \E i \in DOMAIN fromWorker : /\ fromWorker[i].type = "result"
                                                   /\ fromWorker[i].request = turn.request

RecordHolds == ~strayed /\ record # NoSession /\ transcripts[record].held =>
    answered \subseteq transcripts[record].turns \union lost
TurnHolds == ~strayed /\ Succeeded /\ transcripts[driver.sid].held =>
    turn.n \in transcripts[driver.sid].turns
RetryIsWarned == ~strayed /\ turn.pc = "submit" /\ turn.request # 0 => answered \subseteq lost
NewIsWarned == ~strayed => \A r \in Requests :
    query[r].state = "open" /\ ~query[r].resume => answered \subseteq lost
PromptIsWarned == ~strayed => \A i \in DOMAIN toWorker :
    toWorker[i].op = "prompt" /\ ~toWorker[i].resume => answered \subseteq lost
DeletedIsEmpty == \A s \in Sessions : ~transcripts[s].held => transcripts[s].turns = {}
RunningIsHeld == \A r \in Requests :
    query[r].state = "running" => transcripts[query[r].sid].held

Conversed == /\ RecordHolds /\ TurnHolds /\ RetryIsWarned /\ NewIsWarned /\ PromptIsWarned
             /\ DeletedIsEmpty /\ RunningIsHeld

\* When a turn has succeeded, no prompt and no query that has not loaded its
\* conversation is left.
LEMMA NothingElse ==
    ASSUME Shape, Replied, Sent, Succeeded
    PROVE  /\ turn.request \in Requests /\ TurnOf(turn.request) = turn.n
           /\ query[turn.request].state = "ended"
           /\ \A i \in DOMAIN toWorker : toWorker[i].op # "prompt"
           /\ ~strayed => \A r \in Requests : query[r].state # "open"
<1>0. /\ SdkTypeOK /\ TurnShape /\ Past /\ toWorker \in Seq(ToFrames) /\ fromWorker \in Seq(FromFrames)
      /\ NewRequests /\ UnreadRequests /\ FinalsAreLast /\ Boxes /\ Taken
      /\ OpenIsAwaited /\ InOrder /\ Retried
  BY DEF Shape, Replied, Sent, SdkTypeOK, PipeTypeOK
<1>1. turn.request # 0 /\ turn.pc # "idle" BY <1>0 DEF Succeeded, TurnShape
<1>n. /\ turn.n \in Nat /\ turn.n # 0 /\ turn.n \in Turns
      /\ turn.request \in Requests /\ TurnOf(turn.request) = turn.n
  BY <1>1, TurnNumber
<1>2. query[turn.request].state = "ended"
  <2>1. CASE turn.pc = "record" \/ turn.outcome = "ok" BY <1>0, <2>1 DEF Taken, Done
  <2>2. CASE box[turn.request] = "result" BY <1>0, <1>n, <2>2 DEF Boxes, Done
  <2>3. CASE \E i \in DOMAIN fromWorker : /\ fromWorker[i].type = "result"
                                          /\ fromWorker[i].request = turn.request
    BY <1>0, <1>n, <2>3 DEF FinalsAreLast, Finals
  <2> QED BY <2>1, <2>2, <2>3 DEF Succeeded
<1>3. ~Queued(turn.request) BY <1>0, <1>n, <1>2 DEF UnreadRequests, Untouched
<1>4. \A i \in DOMAIN toWorker : TurnOf(toWorker[i].request) \notin 1 .. turn.n - 1
  BY <1>0, <1>1, <1>3 DEF InOrder, Queued
\* Of this turn's own requests, the other one is over or fresh.
<1>5. ASSUME NEW r \in Requests, TurnOf(r) = turn.n, r # turn.request
      PROVE  Over(r) /\ ~Queued(r)
  <2>1. r \in Nat /\ (r = 2 * turn.n \/ r = 2 * turn.n - 1)
    BY <1>n, <1>5, TurnOfIs, RequestFacts
  <2>2. CASE turn.request = 2 * turn.n
    <3>1. r = 2 * turn.n - 1 BY <1>5, <2>1, <2>2
    <3>2. Second BY <1>n, <2>2 DEF Second
    <3> QED BY <1>0, <3>1, <3>2 DEF Retried, Queued, Over
  <2>3. CASE turn.request = 2 * turn.n - 1
    <3>1. r = 2 * turn.n /\ turn.request < r BY <1>n, <1>5, <2>1, <2>3
    <3>2. Fresh(r) BY <1>1, <1>5, <3>1 DEF Fresh
    <3> QED BY <1>0, <3>2 DEF NewRequests, Untouched, Over
  <2> QED BY <1>0, <1>1, <2>2, <2>3 DEF TurnShape
<1>6. ASSUME NEW i \in DOMAIN toWorker PROVE toWorker[i].op # "prompt"
  <2> SUFFICES ASSUME toWorker[i].op = "prompt" PROVE FALSE OBVIOUS
  <2>1. toWorker[i] \in ToFrames /\ toWorker[i].request # 0
        /\ TurnOf(toWorker[i].request) <= turn.n
    BY <1>0 DEF Past
  <2>2. toWorker[i].request \in Requests /\ Queued(toWorker[i].request)
    BY <2>1 DEF ToFrames, Queued
  <2>3. TurnOf(toWorker[i].request) \in Nat /\ TurnOf(toWorker[i].request) # 0
    BY <2>2, RequestFacts, SdkAssumption DEF Turns
  <2>4. TurnOf(toWorker[i].request) = turn.n BY <1>4, <1>n, <2>1, <2>3
  <2> QED BY <1>3, <1>5, <2>2, <2>4
<1>7. ASSUME ~strayed, NEW r \in Requests, query[r].state = "open" PROVE FALSE
  <2>1. TurnOf(r) <= turn.n /\ TurnOf(r) \in Nat /\ TurnOf(r) # 0
    BY <1>0, <1>7, RequestFacts, SdkAssumption DEF Past, Turns
  <2>2. r # turn.request BY <1>2, <1>7
  <2>3. TurnOf(r) # turn.n BY <1>5, <1>7, <2>2 DEF Over
  <2>4. CancelComes(r) BY <1>0, <1>7, <2>2 DEF OpenIsAwaited, Waits
  <2> QED BY <1>4, <1>n, <2>1, <2>3, <2>4 DEF CancelComes
<1> QED BY <1>2, <1>6, <1>7, <1>n

\* A step that neither answers a turn nor touches a transcript.
Calm ==
    /\ record' = record /\ answered' = answered /\ transcripts' = transcripts
    /\ lost \subseteq lost' /\ (~strayed' => ~strayed)
    /\ Succeeded' => Succeeded /\ turn'.n = turn.n /\ driver'.sid = driver.sid
    /\ turn'.pc = "submit" /\ turn'.request # 0 =>
          (turn.pc = "submit" /\ turn.request # 0) \/ answered \subseteq lost'
    /\ \A r \in Requests :
          /\ query'[r].state = "open" => query[r].state = "open" /\ query'[r].resume = query[r].resume
          /\ query'[r].state = "running" => query[r].state = "running" /\ query'[r].sid = query[r].sid
    /\ PromptsFrom

LEMMA CalmKeeps ==
    ASSUME Conversed, Calm
    PROVE  Conversed'
<1>0. /\ RecordHolds /\ TurnHolds /\ RetryIsWarned /\ NewIsWarned /\ PromptIsWarned
      /\ DeletedIsEmpty /\ RunningIsHeld
  BY DEF Conversed
<1>1. RecordHolds' BY <1>0 DEF RecordHolds, Calm
<1>2. TurnHolds' BY <1>0 DEF TurnHolds, Calm
<1>3. RetryIsWarned' BY <1>0 DEF RetryIsWarned, Calm
<1>4. NewIsWarned' BY <1>0 DEF NewIsWarned, Calm
<1>5. PromptIsWarned' BY <1>0 DEF PromptIsWarned, Calm, PromptsFrom
<1>6. DeletedIsEmpty' BY <1>0 DEF DeletedIsEmpty, Calm
<1>7. RunningIsHeld' BY <1>0 DEF RunningIsHeld, Calm
<1> QED BY <1>1, <1>2, <1>3, <1>4, <1>5, <1>6, <1>7 DEF Conversed

LEMMA RecordConverses ==
    ASSUME Shape, Replied, Sent, Named, Conversed, Record
    PROVE  Conversed'
<1>0. /\ SdkTypeOK /\ NothingYet /\ SessionRecorded
      /\ RecordHolds /\ TurnHolds /\ RetryIsWarned /\ NewIsWarned /\ PromptIsWarned
      /\ DeletedIsEmpty /\ RunningIsHeld
  BY DEF Shape, Named, Conversed
<1>d. /\ bridge.up /\ turn.pc = "record" /\ turn'.n = turn.n /\ turn'.pc = "leave"
      /\ driver'.sid = driver.sid /\ record' = driver.sid
      /\ UNCHANGED <<toWorker, query, transcripts, answered, lost, strayed>>
  BY <1>0, RecordDoes
<1>1. RecordHolds'
  <2>1. CASE driver.established BY <1>0, <1>d, <2>1 DEF RecordHolds, SessionRecorded
  <2>2. CASE ~driver.established
    <3>1. answered = {} BY <1>0, <1>d, <2>2 DEF SessionRecorded, NothingYet
    <3> QED BY <1>d, <3>1 DEF RecordHolds
  <2> QED BY <2>1, <2>2
<1>2. TurnHolds'
  <2>1. Succeeded BY <1>d DEF Succeeded
  <2> QED BY <1>0, <1>d, <2>1 DEF TurnHolds
<1>3. RetryIsWarned' BY <1>d DEF RetryIsWarned
<1>4. NewIsWarned' BY <1>0, <1>d DEF NewIsWarned
<1>5. PromptIsWarned' BY <1>0, <1>d DEF PromptIsWarned
<1>6. DeletedIsEmpty' /\ RunningIsHeld' BY <1>0, <1>d DEF DeletedIsEmpty, RunningIsHeld
<1> QED BY <1>1, <1>2, <1>3, <1>4, <1>5, <1>6 DEF Conversed

LEMMA LeaveConverses ==
    ASSUME Shape, Replied, Sent, Named, Conversed, LeaveTurn
    PROVE  Conversed'
<1>0. /\ SdkTypeOK /\ OkRecorded /\ SessionRecorded
      /\ RecordHolds /\ TurnHolds /\ RetryIsWarned /\ NewIsWarned /\ PromptIsWarned
      /\ DeletedIsEmpty /\ RunningIsHeld
  BY DEF Shape, Named, Conversed
<1>n. turn.n # 0 BY TurnNumber DEF LeaveTurn, At
<1>d. /\ bridge.up /\ turn'.pc = "idle" /\ turn'.request = 0 /\ turn'.outcome = "none"
      /\ UNCHANGED <<toWorker, query, transcripts, record, lost, strayed>>
      /\ answered' \in {answered, answered \union {turn.n}}
      /\ answered' # answered => turn.outcome = "ok"
  BY <1>0, <1>n, LeaveTurnDoes
<1>1. TurnHolds' BY <1>d DEF TurnHolds, Succeeded
<1>2. RetryIsWarned' BY <1>d DEF RetryIsWarned
<1>3. DeletedIsEmpty' /\ RunningIsHeld' BY <1>0, <1>d DEF DeletedIsEmpty, RunningIsHeld
<1>4. CASE answered' = answered
  <2>1. RecordHolds' BY <1>0, <1>d, <1>4 DEF RecordHolds
  <2>2. NewIsWarned' BY <1>0, <1>d, <1>4 DEF NewIsWarned
  <2>3. PromptIsWarned' BY <1>0, <1>d, <1>4 DEF PromptIsWarned
  <2> QED BY <1>1, <1>2, <1>3, <2>1, <2>2, <2>3 DEF Conversed
<1>5. CASE turn.outcome = "ok"
  <2>1. Succeeded BY <1>5 DEF Succeeded
  <2>2. record = driver.sid BY <1>0, <1>5, <1>d DEF OkRecorded, SessionRecorded
  <2>3. RecordHolds' BY <1>0, <1>d, <2>1, <2>2 DEF RecordHolds, TurnHolds
  <2>4. NewIsWarned' BY <1>d, <2>1, NothingElse DEF NewIsWarned
  <2>5. PromptIsWarned' BY <1>d, <2>1, NothingElse DEF PromptIsWarned
  <2> QED BY <1>1, <1>2, <1>3, <2>3, <2>4, <2>5 DEF Conversed
<1> QED BY <1>d, <1>4, <1>5

LEMMA SubmitConverses ==
    ASSUME Shape, Shape', Replied, Named, Conversed, NextPrompt \in ToFrames,
           turn.pc = "submit", turn.n # 0, toWorker' = Append(toWorker, NextPrompt),
           turn'.pc = "wait", turn'.outcome = turn.outcome, turn'.request = NextRequest,
           NextRequest \in Requests, bridge.up,
           UNCHANGED <<box, fromWorker, query, record, transcripts, answered, lost, strayed>>
    PROVE  Conversed'
<1>0. /\ SdkTypeOK /\ TurnShape /\ TurnShape' /\ NewRequests /\ toWorker \in Seq(ToFrames)
      /\ SessionRecorded /\ NothingYet
      /\ RecordHolds /\ RetryIsWarned /\ NewIsWarned /\ PromptIsWarned
      /\ DeletedIsEmpty /\ RunningIsHeld
  BY DEF Shape, Replied, Named, Conversed, SdkTypeOK, PipeTypeOK
<1>1. RecordHolds' BY <1>0 DEF RecordHolds
<1>2. Fresh(NextRequest)
  <2>1. turn.n \in Nat /\ turn.n \in Turns /\ turn.request \in Nat BY TurnNumber
  <2>2. turn.request = 0 \/ turn.request = 2 * turn.n - 1 BY <1>0 DEF TurnShape
  <2>3. TurnOf(NextRequest) = turn.n BY <2>1, TurnRequests DEF NextRequest
  <2>4. turn.request < NextRequest BY <2>1, <2>2 DEF NextRequest
  <2> QED BY <2>3, <2>4 DEF Fresh
<1>3. TurnHolds'
  <2>1. Untouched(NextRequest) BY <1>0, <1>2 DEF NewRequests
  <2>2. ~Succeeded' BY <1>0, <2>1 DEF Untouched, Unmentioned, Succeeded, TurnShape
  <2> QED BY <2>2 DEF TurnHolds
<1>4. RetryIsWarned' BY DEF RetryIsWarned
<1>5. NewIsWarned' BY <1>0 DEF NewIsWarned
<1>6. PromptIsWarned'
  <2>1. \A i \in DOMAIN toWorker' : \/ i \in DOMAIN toWorker /\ toWorker'[i] = toWorker[i]
                                    \/ toWorker'[i] = NextPrompt
    BY <1>0, Appended
  <2>2. ~strayed /\ ~NextPrompt.resume => answered \subseteq lost
    <3>1. NextPrompt.resume = (driver.established /\ turn.request = 0) BY DEF NextPrompt
    <3>2. ~driver.established => answered = {} BY <1>0 DEF SessionRecorded, NothingYet
    <3> QED BY <1>0, <3>1, <3>2 DEF RetryIsWarned
  <2> QED BY <1>0, <2>1, <2>2 DEF PromptIsWarned
<1>7. DeletedIsEmpty' /\ RunningIsHeld' BY <1>0 DEF DeletedIsEmpty, RunningIsHeld
<1> QED BY <1>1, <1>3, <1>4, <1>5, <1>6, <1>7 DEF Conversed

LEMMA LoadConverses ==
    ASSUME Shape, Replied, Sent, Conversed, NEW r \in Requests, query[r].sid \in Sessions,
           QueryLoads(r)
    PROVE  Conversed'
<1> PICK s : s = query[r].sid OBVIOUS
<1>0. /\ SdkTypeOK /\ record \in {NoSession} \union Sessions
      /\ RecordHolds /\ TurnHolds /\ RetryIsWarned /\ NewIsWarned /\ PromptIsWarned
      /\ DeletedIsEmpty /\ RunningIsHeld
  BY DEF Shape, SdkTypeOK, RestTypeOK, Conversed
<1>d. /\ query[r].state = "open" /\ query'[r].state = "running"
      /\ query'[r].sid = s /\ s \in Sessions
      /\ query[r].resume => transcripts[s].held
      /\ \A p \in Requests : p # r => query'[p] = query[p]
      /\ transcripts'[s].held
      /\ \A p \in Sessions : transcripts'[p].turns = transcripts[p].turns
      /\ \A p \in Sessions : p # s => transcripts'[p] = transcripts[p]
      /\ UNCHANGED <<turn, driver, box, toWorker, fromWorker, record, answered, lost, strayed>>
  BY <1>0, QueryLoadsDoes
<1>1. RecordHolds'
  <2> SUFFICES ASSUME ~strayed, record # NoSession, transcripts'[record].held
               PROVE  answered \subseteq transcripts[record].turns \union lost
    BY <1>0, <1>d DEF RecordHolds
  <2>1. CASE transcripts[record].held BY <1>0, <2>1 DEF RecordHolds
  <2>2. CASE ~transcripts[record].held
    <3>1. record = s BY <1>0, <1>d, <2>2
    <3>2. ~query[r].resume BY <1>d, <2>2, <3>1
    <3> QED BY <1>0, <1>d, <3>2 DEF NewIsWarned
  <2> QED BY <2>1, <2>2
<1>2. TurnHolds'
  <2>1. Succeeded' = Succeeded BY <1>d DEF Succeeded
  <2>2. ~(~strayed /\ Succeeded) BY <1>d, NothingElse
  <2> QED BY <1>d, <2>1, <2>2 DEF TurnHolds
<1>3. RetryIsWarned' BY <1>0, <1>d DEF RetryIsWarned
<1>4. NewIsWarned'
  <2>1. \A p \in Requests : query'[p].state = "open" => p # r BY <1>d
  <2> QED BY <1>0, <1>d, <2>1 DEF NewIsWarned
<1>5. PromptIsWarned' BY <1>0, <1>d DEF PromptIsWarned
<1>6. DeletedIsEmpty' BY <1>0, <1>d DEF DeletedIsEmpty
<1>7. RunningIsHeld'
  <2> SUFFICES ASSUME NEW p \in Requests, query'[p].state = "running"
               PROVE  transcripts'[query'[p].sid].held
    BY DEF RunningIsHeld
  <2>1. CASE p = r BY <1>d, <2>1
  <2>2. CASE p # r
    <3>1. query'[p] = query[p] /\ transcripts[query[p].sid].held
      BY <1>0, <1>d, <2>2 DEF RunningIsHeld
    <3>2. query[p].sid \in Sessions
      BY <2>2, <3>1 DEF Shape, Past
    <3> QED BY <1>d, <3>1, <3>2
  <2> QED BY <2>1, <2>2
<1> QED BY <1>1, <1>2, <1>3, <1>4, <1>5, <1>6, <1>7 DEF Conversed

LEMMA SuccessConverses ==
    ASSUME Shape, Replied, Named, Conversed, NEW r \in Requests, query[r].sid \in Sessions,
           QuerySucceeds(r)
    PROVE  Conversed'
<1> PICK s : s = query[r].sid OBVIOUS
<1>0. /\ SdkTypeOK /\ record \in {NoSession} \union Sessions /\ SessionOfTurn
      /\ driver.sid \in {NoSession} \union Sessions /\ fromWorker \in Seq(FromFrames)
      /\ RecordHolds /\ TurnHolds /\ RetryIsWarned /\ NewIsWarned /\ PromptIsWarned
      /\ DeletedIsEmpty /\ RunningIsHeld
  BY DEF Shape, SdkTypeOK, RestTypeOK, DriverTypeOK, PipeTypeOK, Drivers, Named, Conversed
<1>n. turn.request # 0 => TurnOf(turn.request) = turn.n BY TurnNumber
<1>d. /\ query[r].state = "running" /\ query'[r].state = "ended" /\ s \in Sessions
      /\ \A p \in Requests : p # r => query'[p] = query[p]
      /\ Frame("result", r) \in FromFrames
      /\ fromWorker' = Append(fromWorker, Frame("result", r))
      /\ \A p \in Sessions :
            /\ transcripts'[p].held = transcripts[p].held
            /\ transcripts'[p].turns = IF p = s
                                       THEN transcripts[p].turns \union {TurnOf(r)}
                                       ELSE transcripts[p].turns
      /\ UNCHANGED <<turn, driver, box, toWorker, record, answered, lost, strayed>>
  BY <1>0, QuerySucceedsDoes
<1>1. \A p \in Sessions : transcripts[p].turns \subseteq transcripts'[p].turns BY <1>d
<1>2. RecordHolds' BY <1>0, <1>1, <1>d DEF RecordHolds
<1>3. TurnHolds'
  <2> SUFFICES ASSUME ~strayed, Succeeded', transcripts'[driver.sid].held
               PROVE  turn.n \in transcripts'[driver.sid].turns
    BY <1>d DEF TurnHolds
  <2>0. turn.request # 0 BY <1>d DEF Succeeded, Shape, TurnShape
  <2>1. driver.sid \in Sessions BY <1>0, <2>0 DEF SessionOfTurn
  <2>2. CASE Succeeded BY <1>0, <1>1, <1>d, <2>1, <2>2 DEF TurnHolds
  <2>3. CASE ~Succeeded
    <3>1. \A i \in DOMAIN fromWorker' : \/ i \in DOMAIN fromWorker /\ fromWorker'[i] = fromWorker[i]
                                        \/ fromWorker'[i] = Frame("result", r)
      BY <1>0, <1>d, Appended
    <3>2. turn.request = r BY <1>d, <2>3, <3>1 DEF Succeeded, Frame
    <3>3. driver.sid = s BY <1>0, <1>d, <2>0, <3>2 DEF SessionOfTurn
    <3> QED BY <1>d, <1>n, <2>0, <3>2, <3>3
  <2> QED BY <2>2, <2>3
<1>4. RetryIsWarned' BY <1>0, <1>d DEF RetryIsWarned
<1>5. NewIsWarned'
  <2>1. \A p \in Requests : query'[p].state = "open" => p # r BY <1>d
  <2> QED BY <1>0, <1>d, <2>1 DEF NewIsWarned
<1>6. PromptIsWarned' BY <1>0, <1>d DEF PromptIsWarned
<1>7. DeletedIsEmpty'
  <2>1. transcripts[s].held BY <1>0, <1>d DEF RunningIsHeld
  <2> QED BY <1>0, <1>d, <2>1 DEF DeletedIsEmpty
<1>8. RunningIsHeld'
  <2> SUFFICES ASSUME NEW p \in Requests, query'[p].state = "running"
               PROVE  transcripts'[query'[p].sid].held
    BY DEF RunningIsHeld
  <2>1. p # r BY <1>d
  <2>2. query'[p] = query[p] /\ transcripts[query[p].sid].held
    BY <1>0, <1>d, <2>1 DEF RunningIsHeld
  <2>3. query[p].sid \in Sessions BY <2>2 DEF Shape, Past
  <2> QED BY <1>d, <2>2, <2>3
<1> QED BY <1>2, <1>3, <1>4, <1>5, <1>6, <1>7, <1>8 DEF Conversed

LEMMA DeletionConverses ==
    ASSUME Shape, Named, Conversed, NEW s \in Sessions, TranscriptDeleted(s)
    PROVE  Conversed'
<1>0. /\ SdkTypeOK /\ record \in {NoSession} \union Sessions /\ SessionOfTurn /\ TurnShape
      /\ driver.sid \in {NoSession} \union Sessions
      /\ RecordHolds /\ TurnHolds /\ RetryIsWarned /\ NewIsWarned /\ PromptIsWarned
      /\ DeletedIsEmpty /\ RunningIsHeld
  BY DEF Shape, SdkTypeOK, RestTypeOK, DriverTypeOK, Drivers, Named, Conversed
<1>d. /\ ~transcripts'[s].held /\ transcripts'[s].turns = {}
      /\ \A p \in Sessions : p # s => transcripts'[p] = transcripts[p]
      /\ \A r \in Requests : query[r].state = "running" => query[r].sid # s
      /\ UNCHANGED <<turn, driver, box, toWorker, fromWorker, query, record, answered, lost,
                     strayed>>
  BY <1>0, TranscriptDeletedDoes
<1>1. RecordHolds' BY <1>0, <1>d DEF RecordHolds
<1>2. TurnHolds'
  <2>1. Succeeded' = Succeeded BY <1>d DEF Succeeded
  <2>2. Succeeded => driver.sid \in Sessions BY <1>0 DEF Succeeded, TurnShape, SessionOfTurn
  <2> QED BY <1>0, <1>d, <2>1, <2>2 DEF TurnHolds
<1>3. RetryIsWarned' BY <1>0, <1>d DEF RetryIsWarned
<1>4. NewIsWarned' BY <1>0, <1>d DEF NewIsWarned
<1>5. PromptIsWarned' BY <1>0, <1>d DEF PromptIsWarned
<1>6. DeletedIsEmpty' BY <1>0, <1>d DEF DeletedIsEmpty
<1>7. RunningIsHeld'
  <2>1. \A r \in Requests : query[r].state = "running" => query[r].sid \in Sessions
    BY DEF Shape, Past
  <2> QED BY <1>0, <1>d, <2>1 DEF RunningIsHeld
<1> QED BY <1>1, <1>2, <1>3, <1>4, <1>5, <1>6, <1>7 DEF Conversed

LEMMA ConversedInit == Init => Conversed
<1> SUFFICES ASSUME Init PROVE Conversed OBVIOUS
<1>1. DOMAIN toWorker = {} /\ answered = {} BY DEF Init
<1>2. turn.request = 0 /\ turn.outcome = "none" /\ turn.pc = "idle" BY DEF Init, Idle
<1>3. \A r \in Requests : query[r].state = "none" BY DEF Init, NoQuery
<1>4. \A s \in Sessions : transcripts[s].turns = {} BY DEF Init, Absent
<1> QED
  BY <1>1, <1>2, <1>3, <1>4 DEF Conversed, RecordHolds, TurnHolds, RetryIsWarned, NewIsWarned,
     PromptIsWarned, DeletedIsEmpty, RunningIsHeld, Succeeded

LEMMA ConversedNext ==
    Shape /\ Shape' /\ Replied /\ Sent /\ Named /\ Conversed /\ [Next]_vars => Conversed'
<1> SUFFICES ASSUME Shape, Shape', Replied, Sent, Named, Conversed, [Next]_vars
             PROVE  Conversed'
  OBVIOUS
<1>0. /\ SdkTypeOK /\ TurnShape /\ WorkerShape /\ Past /\ TurnShape'
      /\ toWorker \in Seq(ToFrames) /\ fromWorker \in Seq(FromFrames)
      /\ SessionOfTurn /\ OkRecorded
  BY DEF Shape, SdkTypeOK, PipeTypeOK, Named
<1>n. /\ turn.n \in Nat /\ (turn.pc # "idle" => turn.n # 0 /\ turn.n \in Turns)
      /\ (turn.request # 0 => turn.request \in Requests /\ TurnOf(turn.request) = turn.n)
  BY TurnNumber
\* A step of the handler that answers nothing and takes up nothing.
<1>t. ASSUME UNCHANGED <<fromWorker, query, transcripts, record, answered, lost, strayed>>,
             turn'.n = turn.n, driver'.sid = driver.sid,
             turn'.request = 0 \/ (turn'.request = turn.request
                                   /\ (turn.request # 0 /\ box'[turn.request] = "result"
                                          => box[turn.request] = "result")),
             turn'.pc = "record" => turn.pc = "record",
             turn'.outcome = "ok" => turn.outcome = "ok",
             turn'.pc = "submit" => turn.pc = "submit" \/ turn.request = 0,
             \/ toWorker' = toWorker
             \/ toWorker' = <<>>
             \/ CancelFrame \in ToFrames /\ toWorker' = Append(toWorker, CancelFrame)
      PROVE  Conversed'
  <2>1. PromptsFrom BY <1>0, <1>t, PromptsStay
  <2>2. Succeeded' => Succeeded BY <1>t DEF Succeeded
  <2>3. Calm BY <1>t, <2>1, <2>2 DEF Calm
  <2> QED BY <2>3, CalmKeeps
\* A step of the worker that writes no result.
<1>w. ASSUME UNCHANGED <<turn, transcripts, record, answered, lost>>, driver'.sid = driver.sid,
             ~strayed' => ~strayed,
             turn.request # 0 /\ box'[turn.request] = "result" => box[turn.request] = "result",
             \A r \in Requests :
                /\ query'[r].state = "open" => query[r].state = "open"
                                               /\ query'[r].resume = query[r].resume
                /\ query'[r].state = "running" => query[r].state = "running"
                                                  /\ query'[r].sid = query[r].sid,
             \/ toWorker' = toWorker
             \/ toWorker' = <<>>
             \/ toWorker # <<>> /\ toWorker' = Tail(toWorker),
             \/ fromWorker' = fromWorker
             \/ fromWorker' = <<>>
             \/ fromWorker # <<>> /\ fromWorker' = Tail(fromWorker)
             \/ \E f \in FromFrames : f.type # "result" /\ fromWorker' = Append(fromWorker, f)
      PROVE  Conversed'
  <2>1. PromptsFrom BY <1>0, <1>w, PromptsStay
  <2>2. \A i \in DOMAIN fromWorker' :
           \/ \E j \in DOMAIN fromWorker : fromWorker'[i] = fromWorker[j]
           \/ fromWorker'[i].type # "result"
    <3>1. CASE fromWorker' = fromWorker BY <3>1
    <3>2. CASE fromWorker' = <<>> BY <3>2
    <3>3. CASE fromWorker # <<>> /\ fromWorker' = Tail(fromWorker) BY <1>0, <3>3, Tailed
    <3>4. ASSUME NEW f \in FromFrames, f.type # "result", fromWorker' = Append(fromWorker, f)
          PROVE  \A i \in DOMAIN fromWorker' :
                    \/ \E j \in DOMAIN fromWorker : fromWorker'[i] = fromWorker[j]
                    \/ fromWorker'[i].type # "result"
      BY <1>0, <3>4, Appended
    <3> QED BY <1>w, <3>1, <3>2, <3>3, <3>4
  <2>3. Succeeded' => Succeeded BY <1>w, <2>2 DEF Succeeded
  <2>4. Calm BY <1>w, <2>1, <2>3 DEF Calm
  <2> QED BY <2>4, CalmKeeps
<1>1. CASE BeginTurn
  <2>1. UNCHANGED <<fromWorker, query, transcripts, record, answered, lost, strayed, toWorker>>
        /\ ~Succeeded' /\ turn'.request = 0
    BY <1>0, <1>1, BeginTurnDoes DEF restVars, Succeeded
  <2>2. PromptsFrom BY <1>0, <2>1, PromptsStay
  <2>3. Calm BY <2>1, <2>2 DEF Calm
  <2> QED BY <2>3, CalmKeeps
<1>2. CASE CallerLeaves BY <1>0, <1>2, <1>t, CallerLeavesDoes DEF restVars
<1>3. CASE EnsureWorker
  <2>1. /\ UNCHANGED <<query, transcripts, record, answered, lost, strayed>>
        /\ turn'.request = 0 /\ turn'.outcome # "ok" /\ turn'.pc # "record"
        /\ (toWorker' = toWorker \/ toWorker' = <<>>)
    BY <1>0, <1>3, EnsureWorkerDoes DEF TurnShape
  <2>2. PromptsFrom BY <1>0, <2>1, PromptsStay
  <2>3. ~Succeeded' BY <2>1 DEF Succeeded
  <2>4. Calm BY <2>1, <2>2, <2>3 DEF Calm
  <2> QED BY <2>4, CalmKeeps
<1>4. CASE WorkerReady \/ WorkerNotReady \/ PromptFails
  <2>1. turn.request = 0 BY <1>0, <1>4, AwaitDoes DEF TurnShape
  <2> QED BY <1>0, <1>4, <1>t, <2>1, AwaitDoes DEF restVars
<1>5. CASE Submit
  <2>0. turn.pc = "submit" /\ turn.n # 0 BY <1>5, <1>n DEF Submit, At
  <2>1. CASE UNCHANGED toWorker /\ turn'.pc = "leave" /\ turn'.request = turn.request
             /\ turn'.outcome = "error"
    <3>1. /\ driver'.sid = NextSid /\ turn'.n = turn.n
          /\ UNCHANGED <<box, fromWorker, query, transcripts, record, answered, lost, strayed>>
      BY <1>0, <1>5, <2>0, SubmitDoes DEF restVars
    <3>2. turn.request # 0 => driver'.sid = driver.sid BY <1>0, <3>1 DEF SessionOfTurn, NextSid
    <3>3. Succeeded' => Succeeded /\ turn'.n = turn.n /\ driver'.sid = driver.sid
      BY <2>1, <3>1, <3>2 DEF Succeeded
    <3>4. PromptsFrom BY <1>0, <2>1, PromptsStay
    <3>5. Calm BY <2>1, <3>1, <3>3, <3>4 DEF Calm
    <3> QED BY <3>5, CalmKeeps
  <2>2. CASE /\ NextRequest \in Requests /\ turn'.pc = "wait" /\ turn'.request = NextRequest
             /\ turn'.outcome = turn.outcome
             /\ NextPrompt \in ToFrames /\ toWorker' = Append(toWorker, NextPrompt)
    BY <1>0, <1>5, <2>0, <2>2, SubmitDoes, SubmitConverses DEF restVars
  <2> QED BY <1>0, <1>5, <2>0, <2>1, <2>2, SubmitDoes
<1>6. CASE TakeReply
  <2>0. turn.request # 0 BY <1>0, <1>6 DEF TakeReply, At, TurnShape
  <2>1. /\ UNCHANGED <<driver, toWorker, fromWorker, query, transcripts, record, answered, strayed>>
        /\ turn'.n = turn.n /\ turn'.request = turn.request /\ box'[turn.request] = "none"
        /\ lost \subseteq lost'
    BY <1>0, <1>6, <2>0, TakeReplyDoes
  <2>2. PromptsFrom BY <1>0, <2>1, PromptsStay
  <2>3. turn'.pc = "submit" => answered \subseteq lost' BY <1>0, <1>6, <2>0, TakeReplyDoes
  <2>4. (turn'.pc = "record" => box[turn.request] = "result")
        /\ (turn'.outcome = "ok" => turn.outcome = "ok")
    BY <1>0, <1>6, <2>0, TakeReplyDoes
  <2>5. Succeeded' => Succeeded BY <2>0, <2>1, <2>4 DEF Succeeded
  <2>6. Calm BY <2>1, <2>2, <2>3, <2>5 DEF Calm
  <2> QED BY <2>6, CalmKeeps
<1>7. CASE TurnCancelled BY <1>0, <1>7, <1>t, TurnCancelledDoes DEF restVars
<1>8. CASE TurnOrphaned BY <1>0, <1>8, <1>t, TurnOrphanedDoes DEF restVars
<1>9. CASE Record BY <1>9, RecordConverses
<1>10. CASE CancelDriver BY <1>0, <1>10, <1>t, CancelDriverDoes DEF restVars
<1>11. CASE LeaveTurn BY <1>11, LeaveConverses
<1>12. CASE Dispatch
  <2> PICK f : f = Head(fromWorker) OBVIOUS
  <2>1. /\ fromWorker # <<>> /\ fromWorker' = Tail(fromWorker)
        /\ UNCHANGED <<turn, toWorker, transcripts, record, answered, lost, strayed>>
        /\ driver'.sid = driver.sid
        /\ \A r \in Requests : /\ query'[r].state = query[r].state
                               /\ query'[r].resume = query[r].resume
                               /\ query'[r].sid = query[r].sid
        /\ \A r \in Requests : box'[r] = "result" =>
              box[r] = "result" \/ (f.type = "result" /\ f.request = r)
    BY <1>0, <1>12, DispatchDoes
  <2>2. Succeeded' => Succeeded
    <3>1. 1 \in DOMAIN fromWorker /\ fromWorker[1] = f BY <1>0, <2>1, Tailed
    <3>2. \A i \in DOMAIN fromWorker' : \E j \in DOMAIN fromWorker : fromWorker'[i] = fromWorker[j]
      BY <1>0, <2>1, Tailed
    <3> QED BY <1>n, <2>1, <3>1, <3>2 DEF Succeeded
  <2>3. PromptsFrom BY <1>0, <2>1, PromptsStay
  <2>4. Calm BY <2>1, <2>2, <2>3 DEF Calm
  <2> QED BY <2>4, CalmKeeps
<1>13. CASE ShutdownWorker BY <1>0, <1>n, <1>13, <1>w, ShutdownWorkerDoes
<1>14. CASE Boot
  <2>1. Frame("ready", 0).type # "result" BY DEF Frame
  <2> QED BY <1>0, <1>14, <1>w, <2>1, BootDoes
<1>15. CASE WorkerDies
  <2>1. \A r \in Requests : query'[r].state \in {"none", "ended"}
    BY <1>0, <1>15, WorkerDiesDoes, Dying
  <2> QED BY <1>0, <1>15, <1>w, <2>1, WorkerDiesDoes
<1>16. CASE ReadPrompt
  <2> PICK f : f = Head(toWorker) OBVIOUS
  <2>0. f.request # 0 /\ toWorker # <<>>
    BY <1>0, <1>16, Tailed DEF ReadPrompt, Past
  <2>d. /\ f.op = "prompt" /\ f.request \in Requests /\ toWorker' = Tail(toWorker)
        /\ UNCHANGED <<turn, driver, box, transcripts, record, answered, lost, strayed>>
    BY <1>0, <1>16, <2>0, ReadPromptDoes
  <2>1. CASE /\ Frame("resume_failed", f.request) \in FromFrames
             /\ fromWorker' = Append(fromWorker, Frame("resume_failed", f.request))
             /\ UNCHANGED query
    <3>1. Frame("resume_failed", f.request).type # "result" BY DEF Frame
    <3> QED BY <1>w, <2>0, <2>1, <2>d, <3>1
  <2>2. CASE /\ query'[f.request].state = "open" /\ query'[f.request].resume = f.resume
             /\ \A r \in Requests : r # f.request => query'[r] = query[r]
             /\ UNCHANGED fromWorker
    <3>0. /\ RecordHolds /\ TurnHolds /\ RetryIsWarned /\ NewIsWarned /\ PromptIsWarned
          /\ DeletedIsEmpty /\ RunningIsHeld
      BY DEF Conversed
    <3>1. RecordHolds' BY <2>d, <3>0 DEF RecordHolds
    <3>2. TurnHolds'
      <4>1. Succeeded' = Succeeded BY <2>2, <2>d DEF Succeeded
      <4> QED BY <2>d, <3>0, <4>1 DEF TurnHolds
    <3>3. RetryIsWarned' BY <2>d, <3>0 DEF RetryIsWarned
    <3>4. NewIsWarned'
      <4>1. ~strayed /\ ~f.resume => answered \subseteq lost
        BY <1>0, <2>0, <2>d, <3>0, Tailed DEF PromptIsWarned
      <4> QED BY <2>2, <2>d, <3>0, <4>1 DEF NewIsWarned
    <3>5. PromptIsWarned'
      <4>1. PromptsFrom BY <1>0, <2>0, <2>d, PromptsStay
      <4> QED BY <2>d, <3>0, <4>1 DEF PromptIsWarned, PromptsFrom
    <3>6. DeletedIsEmpty' BY <2>d, <3>0 DEF DeletedIsEmpty
    <3>7. RunningIsHeld' BY <2>2, <2>d, <3>0 DEF RunningIsHeld
    <3> QED BY <3>1, <3>2, <3>3, <3>4, <3>5, <3>6, <3>7 DEF Conversed
  <2> QED BY <1>0, <1>16, <2>0, <2>1, <2>2, ReadPromptDoes
<1>17. CASE ReadCancel
  <2> PICK f : f = Head(toWorker) OBVIOUS
  <2>1. /\ UNCHANGED <<turn, driver, box, fromWorker, transcripts, record, answered, lost>>
        /\ strayed' = (strayed \/ LeftGoing' # {})
        /\ toWorker # <<>> /\ toWorker' = Tail(toWorker)
    BY <1>0, <1>17, ReadCancelDoes
  <2>2. \A r \in Requests : /\ query'[r].state \in {query[r].state, "interrupted"}
                            /\ query'[r].resume = query[r].resume /\ query'[r].sid = query[r].sid
    BY <1>0, <1>17, ReadCancelDoes
  <2>3. ~strayed' => ~strayed BY <2>1
  <2> QED BY <1>w, <2>1, <2>2, <2>3
<1>18. ASSUME NEW r \in Requests, QueryStep(r) PROVE Conversed'
  <2>0. query[r].sid \in Sessions
    BY <1>0, <1>18
       DEF QueryStep, QueryLoads, QuerySpeaks, QuerySucceeds, QueryFails, Live, Past
  <2>1. CASE QueryLoads(r) BY <2>0, <2>1, LoadConverses
  <2>2. CASE QuerySpeaks(r)
    <3>1. Frame("text", r).type # "result" BY DEF Frame
    <3>2. /\ UNCHANGED <<turn, driver, box, toWorker, transcripts, record, answered, lost, strayed>>
          /\ Frame("text", r) \in FromFrames
          /\ fromWorker' = Append(fromWorker, Frame("text", r))
      BY <1>0, <2>2, QuerySpeaksDoes
    <3>3. \A p \in Requests : /\ query'[p].state = query[p].state
                              /\ query'[p].resume = query[p].resume /\ query'[p].sid = query[p].sid
      BY <1>0, <2>2, QuerySpeaksDoes
    <3> QED BY <1>w, <3>1, <3>2, <3>3
  <2>3. CASE QuerySucceeds(r) BY <2>0, <2>3, SuccessConverses
  <2>4. CASE QueryFails(r)
    <3>1. \A type \in {"failed", "resume_failed"} : Frame(type, r).type # "result" BY DEF Frame
    <3>2. UNCHANGED <<turn, driver, box, toWorker, transcripts, record, answered, lost, strayed>>
      BY <1>0, <2>4, QueryFailsDoes
    <3>3. \E f \in FromFrames : f.type # "result" /\ fromWorker' = Append(fromWorker, f)
      BY <1>0, <2>4, <3>1, QueryFailsDoes
    <3>4. \A p \in Requests : query'[p].state = "ended" \/ query'[p] = query[p]
      BY <1>0, <2>4, QueryFailsDoes
    <3> QED BY <1>w, <3>2, <3>3, <3>4
  <2> QED BY <1>18, <2>1, <2>2, <2>3, <2>4 DEF QueryStep
<1>19. ASSUME NEW s \in Sessions, TranscriptDeleted(s) PROVE Conversed'
  BY <1>19, DeletionConverses
<1>20. CASE BridgeEnds
  <2>1. /\ turn'.request = 0 /\ turn'.pc = "idle" /\ turn'.outcome = "none" /\ toWorker' = <<>>
        /\ UNCHANGED <<transcripts, record, answered, lost, strayed>>
    BY <1>0, <1>20, BridgeEndsDoes
  <2>2. \A r \in Requests : query'[r].state \in {"none", "ended"}
    BY <1>0, <1>20, BridgeEndsDoes, Dying
  <2>3. PromptsFrom BY <1>0, <2>1, PromptsStay
  <2>4. ~Succeeded' BY <2>1 DEF Succeeded
  <2>5. Calm BY <2>1, <2>2, <2>3, <2>4 DEF Calm
  <2> QED BY <2>5, CalmKeeps
<1>21. CASE BridgeStarts
  <2>0. bridge.n < MaxBridges /\ turn.pc = "idle"
    BY <1>0, <1>21 DEF BridgeStarts, WorkerShape
  <2>1. UNCHANGED <<turn, toWorker, query, transcripts, record, answered, lost, strayed>>
    BY <1>0, <1>21, <2>0, BridgeStartsDoes
  <2>2. PromptsFrom BY <1>0, <2>1, PromptsStay
  <2>3. turn.request = 0 /\ turn.outcome # "ok" BY <1>0, <2>0 DEF TurnShape
  <2>4. ~Succeeded' BY <2>0, <2>1, <2>3 DEF Succeeded
  <2>5. Calm BY <2>1, <2>2, <2>3, <2>4 DEF Calm
  <2> QED BY <2>5, CalmKeeps
<1>22. CASE UNCHANGED vars BY <1>22, <1>w DEF vars
<1> QED
  BY <1>1, <1>2, <1>3, <1>4, <1>5, <1>6, <1>7, <1>8, <1>9, <1>10, <1>11, <1>12, <1>13,
     <1>14, <1>15, <1>16, <1>17, <1>18, <1>19, <1>20, <1>21, <1>22 DEF Next, DriverStep

--------------------------------------------------------------------------------
(***************************************************************************)
(* The results.                                                            *)
(***************************************************************************)
\* A query that was open and runs has loaded its conversation.
LEMMA OnlyLoads ==
    ASSUME Shape, [Next]_vars, NEW r \in Requests,
           query[r].state = "open", query'[r].state = "running"
    PROVE  QueryLoads(r)
<1>0. SdkTypeOK /\ WorkerShape /\ Past /\ toWorker \in Seq(ToFrames)
  BY DEF Shape, SdkTypeOK, PipeTypeOK
<1>n. turn.pc # "idle" => turn.n # 0 BY TurnNumber
<1>1. query' # query OBVIOUS
<1>2. CASE BeginTurn \/ CallerLeaves \/ WorkerReady \/ WorkerNotReady \/ PromptFails \/ EnsureWorker
  BY <1>1, <1>2
     DEF BeginTurn, CallerLeaves, WorkerReady, WorkerNotReady, PromptFails, EnsureWorker, workerVars
<1>3. CASE Submit \/ TakeReply \/ TurnCancelled \/ TurnOrphaned
  BY <1>1, <1>3 DEF Submit, TakeReply, TurnCancelled, TurnOrphaned, workerVars
<1>4. CASE Record \/ CancelDriver \/ LeaveTurn
  BY <1>1, <1>4 DEF Record, CancelDriver, LeaveTurn, workerVars
<1>5. CASE Dispatch
  <2> PICK f : f = Head(fromWorker) OBVIOUS
  <2> QED BY <1>0, <1>5, DispatchDoes
<1>6. CASE ShutdownWorker \/ Boot \/ BridgeStarts
  BY <1>1, <1>6 DEF ShutdownWorker, Boot, BridgeStarts, workerVars
<1>7. CASE WorkerDies \/ BridgeEnds
  <2>1. query' = Died(query) BY <1>7 DEF WorkerDies, BridgeEnds
  <2> QED BY <1>0, <2>1, Dying
<1>8. CASE ReadPrompt
  <2> PICK f : f = Head(toWorker) OBVIOUS
  <2>0. f.request # 0 BY <1>0, <1>8, Tailed DEF ReadPrompt, Past
  <2>1. query' = query \/ (/\ query'[f.request].state = "open"
                           /\ \A p \in Requests : p # f.request => query'[p] = query[p])
    BY <1>0, <1>8, <2>0, ReadPromptDoes
  <2> QED BY <2>1
<1>9. CASE ReadCancel
  <2> PICK f : f = Head(toWorker) OBVIOUS
  <2> QED BY <1>0, <1>9, ReadCancelDoes
<1>10. ASSUME NEW p \in Requests, QueryStep(p) PROVE QueryLoads(r)
  <2>1. CASE QueryLoads(p)
    <3>1. query[p].sid \in Sessions BY <1>0, <2>1 DEF QueryLoads, Past
    <3>2. r = p BY <1>0, <2>1, <3>1, QueryLoadsDoes
    <3> QED BY <2>1, <3>2
  <2>2. CASE QuerySpeaks(p) BY <1>0, <2>2, QuerySpeaksDoes
  <2>3. CASE QuerySucceeds(p)
    <3>1. query[p].sid \in Sessions BY <1>0, <2>3 DEF QuerySucceeds, Past
    <3> QED BY <1>0, <2>3, <3>1, QuerySucceedsDoes
  <2>4. CASE QueryFails(p) BY <1>0, <2>4, QueryFailsDoes
  <2> QED BY <1>10, <2>1, <2>2, <2>3, <2>4 DEF QueryStep
<1>11. ASSUME NEW s \in Sessions, TranscriptDeleted(s) PROVE QueryLoads(r)
  BY <1>1, <1>11 DEF TranscriptDeleted, workerVars
<1>12. CASE UNCHANGED vars BY <1>1, <1>12 DEF vars
<1> QED
  BY <1>2, <1>3, <1>4, <1>5, <1>6, <1>7, <1>8, <1>9, <1>10, <1>11, <1>12 DEF Next, DriverStep

\* The layers of the invariant, one upon the other.
SdkInv == Shape /\ Meant /\ Replied /\ Sent /\ Named /\ Conversed

LEMMA SdkInvariant == Spec => []SdkInv
<1>1. Init => SdkInv
  BY ShapeInit, MeantInit, RepliedInit, SentInit, NamedInit, ConversedInit DEF SdkInv
<1>2. SdkInv /\ [Next]_vars => SdkInv'
  <2> SUFFICES ASSUME SdkInv, [Next]_vars PROVE SdkInv' OBVIOUS
  <2>1. Shape /\ Meant /\ Replied /\ Sent /\ Named /\ Conversed BY DEF SdkInv
  <2>2. Shape' BY <2>1, ShapeNext
  <2>3. Meant' BY <2>1, <2>2, MeantNext
  <2>4. Replied' BY <2>1, <2>2, RepliedNext
  <2>5. Sent' BY <2>1, <2>2, SentNext
  <2>6. Named' BY <2>1, <2>2, NamedNext
  <2>7. Conversed' BY <2>1, <2>2, ConversedNext
  <2> QED BY <2>2, <2>3, <2>4, <2>5, <2>6, <2>7 DEF SdkInv
<1> QED BY <1>1, <1>2, PTL DEF Spec

\* Whatever the interleaving of the handler, the two pipes, the worker and the
\* SDK, every field keeps the values the code gives it (driver.go:60, the fields
\* of Driver; claude-sdk-worker.mjs, active and the frames).
THEOREM SdkTypesHold == Spec => []TypeOK
<1>1. SdkInv => TypeOK BY SdkTypes DEF SdkInv, Shape
<1> QED BY <1>1, SdkInvariant, PTL

\* A cancel frame names no query and interrupts the one the worker holds active,
\* and yet a query of the turn being served is interrupted only when that turn's
\* own caller has left (interrupt of driver.go, interruptActive of the worker).
THEOREM NoStrayInterruptHolds == Spec => []NoStrayInterrupt
<1>1. SdkInv => NoStrayInterrupt BY DEF SdkInv, Meant
<1> QED BY <1>1, SdkInvariant, PTL

\* A turn that ends without an error was answered by its own request, whose query
\* is over, and all the text of that query was handed on before (dispatch and
\* runTurn of driver.go).
THEOREM CompleteAnswerHolds == Spec => []CompleteAnswer
<1>1. SdkInv => CompleteAnswer
  <2> SUFFICES ASSUME SdkInv, turn.pc \in {"record", "leave"}, turn.outcome # "error"
               PROVE  /\ TurnOf(turn.request) = turn.n
                      /\ query[turn.request].state = "ended"
                      /\ query[turn.request].heard = query[turn.request].said
    BY DEF CompleteAnswer
  <2>1. Shape /\ Taken /\ TurnShape /\ turn \in TurnStates /\ query \in [Requests -> Queries]
    BY DEF SdkInv, Replied, Shape, SdkTypeOK, DriverTypeOK, WorkerTypeOK
  <2>2. turn.request # 0 /\ (turn.pc = "record" \/ turn.outcome = "ok")
    BY <2>1 DEF TurnShape, TurnStates
  <2>3. Done(turn.request) BY <2>1, <2>2 DEF Taken
  <2>4. turn.request \in Requests /\ TurnOf(turn.request) = turn.n BY <2>1, <2>2, TurnNumber
  <2>5. query[turn.request].heard \in BOOLEAN /\ query[turn.request].said \in BOOLEAN
    BY <2>1, <2>4 DEF Queries
  <2>6. query[turn.request].heard = query[turn.request].said BY <2>3, <2>5 DEF Done
  <2> QED BY <2>3, <2>4, <2>6 DEF Done
<1> QED BY <1>1, SdkInvariant, PTL

\* When the SDK takes up the prompt of the turn being served, it has before it
\* every turn answered earlier, by whichever bridge and whichever worker, save
\* those a warning said were lost (Prompt, runTurn and OnSessionEstablished of
\* driver.go; the resume of the worker's runPrompt).
THEOREM NoSilentLossHolds == Spec => NoSilentLoss
<1> DEFINE Kept == \A r \in Requests :
               ~strayed /\ query[r].state = "open" /\ query'[r].state = "running"
                   /\ TurnOf(r) = turn.n /\ turn.pc = "wait" /\ turn.request = r
               => answered \subseteq query'[r].context \union lost
<1>1. SdkInv /\ [Next]_vars => [Kept]_vars
  <2> SUFFICES ASSUME SdkInv, [Next]_vars, NEW r \in Requests, ~strayed,
                      query[r].state = "open", query'[r].state = "running",
                      turn.pc = "wait", turn.request = r
               PROVE  answered \subseteq query'[r].context \union lost
    OBVIOUS
  <2>0. /\ Shape /\ SdkTypeOK /\ WorkerShape /\ Past /\ SessionRecorded /\ SessionOfTurn
        /\ RecordHolds /\ NewIsWarned
    BY DEF SdkInv, Shape, Named, Conversed
  <2>1. QueryLoads(r) BY <2>0, OnlyLoads
  <2>2. query[r].sid \in Sessions BY <2>0 DEF Past
  <2>3. CASE query[r].resume
    <3>1. bridge.up /\ r # 0 BY <2>0, RequestFacts DEF WorkerShape
    <3>2. query[r].sid = driver.sid /\ driver.established BY <2>0, <2>3, <3>1 DEF SessionOfTurn
    <3>3. record = driver.sid /\ record # NoSession BY <2>0, <3>1, <3>2 DEF SessionRecorded
    <3>4. transcripts[record].held /\ query'[r].context = transcripts[record].turns
      BY <2>0, <2>1, <2>2, <2>3, <3>2, <3>3, QueryLoadsDoes
    <3> QED BY <2>0, <3>3, <3>4 DEF RecordHolds
  <2>4. CASE ~query[r].resume BY <2>0, <2>4 DEF NewIsWarned
  <2> QED BY <2>3, <2>4
<1>2. NoSilentLoss <=> [][Kept]_vars BY DEF NoSilentLoss
<1> HIDE DEF Kept
<1> QED BY <1>1, <1>2, SdkInvariant, PTL DEF Spec

================================================================================
