------------------------------ MODULE BridgeProofs ------------------------------
(***************************************************************************)
(* Proofs about BridgeProcess, for any number of bridges, "model" commands *)
(* and sessions.                                                           *)
(*                                                                         *)
(* OneHarness is not inductive: that nobody's harness lives when another   *)
(* one is spawned needs that the process that spawns holds the lock alone  *)
(* (Alone), that nobody gives the lock up over a living harness, and that  *)
(* nobody has one before its spawn (HarnessInv).                           *)
(***************************************************************************)
EXTENDS BridgeProcess, TLAPS

\* The flock is exclusive.
Alone == \A p, q \in holders : p = q

\* A harness begins with its spawn and has ended when its process releases the
\* lock; only a process that was killed leaves one behind.
HarnessInv ==
    \A p \in Processes :
        /\ process[p].pc \in {"idle", "locking", "reading", "spawning"} => harness[p] = "none"
        /\ process[p].pc \in {"releasing", "gone"} => harness[p] \notin {"live", "told"}

IInv == BridgeTypeOK /\ Alone /\ HarnessInv

--------------------------------------------------------------------------------
(***************************************************************************)
(* Types.                                                                  *)
(***************************************************************************)
PCs == {"idle", "locking", "reading", "spawning", "init", "resume", "load", "new",
        "writing", "renaming", "serving", "closing", "releasing", "gone", "killed"}
Holding == PCs \ {"idle", "locking", "gone", "killed"}
States == [pc : PCs, saved : 0 .. MaxSessions, session : 0 .. MaxSessions,
           signalled : BOOLEAN, eof : BOOLEAN, refused : BOOLEAN, unread : BOOLEAN]

\* What the invariant says, in these names.
LEMMA Typed ==
    ASSUME BridgeTypeOK
    PROVE  /\ process \in [Processes -> States]
           /\ holders = {p \in Processes : process[p].pc \in Holding}
           /\ \A p \in Processes : process[p] \in States /\ process[p].pc \in PCs
<1>1. process \in [Processes -> States] BY DEF BridgeTypeOK, States, PCs
<1>2. \A p \in Processes : process[p] \in States BY <1>1
<1>3. \A p \in Processes : process[p].pc \in PCs BY <1>2 DEF States
<1>4. \A p \in Processes :
        process[p].pc \notin {"idle", "locking", "gone", "killed"} <=> process[p].pc \in Holding
  BY <1>3 DEF Holding
<1> QED BY <1>1, <1>2, <1>3, <1>4 DEF BridgeTypeOK

\* What a step that replaces one process's state leaves of the others.
LEMMA OneMoves ==
    ASSUME NEW p \in Processes, NEW s \in States,
           process \in [Processes -> States], process' = [process EXCEPT ![p] = s]
    PROVE  /\ process' \in [Processes -> States]
           /\ process'[p] = s
           /\ \A q \in Processes : q # p => process'[q] = process[q]
OBVIOUS

LEMMA GotoMoves ==
    ASSUME NEW p \in Processes, NEW pc \in PCs, process \in [Processes -> States], Goto(p, pc)
    PROVE  /\ process' \in [Processes -> States]
           /\ process'[p].pc = pc
           /\ \A q \in Processes : q # p => process'[q] = process[q]
<1> DEFINE s == [process[p] EXCEPT !.pc = pc]
<1>1. process[p] \in States OBVIOUS
<1>2. s \in States /\ s.pc = pc BY <1>1 DEF States
<1>3. process' = [process EXCEPT ![p] = s] BY DEF Goto
<1> HIDE DEF s
<1> QED BY <1>2, <1>3, OneMoves

--------------------------------------------------------------------------------
(***************************************************************************)
(* What any step of process p does: it moves p alone, takes the lock only  *)
(* when it is free, has its harness ended when it leaves the lock, and     *)
(* creates and records sessions in their range.                            *)
(***************************************************************************)
HarnessStates == {"none", "live", "told", "gone"}
Records == [state : {"absent", "unreadable", "whole"}, session : 0 .. MaxSessions]

Effect(p) ==
    /\ process' \in [Processes -> States]
    /\ harness' \in [Processes -> HarnessStates]
    /\ \A q \in Processes : q # p => process'[q] = process[q] /\ harness'[q] = harness[q]
    /\ process'[p].pc \in Holding => process[p].pc \in Holding \/ holders = {}
    /\ holders' = IF process'[p].pc \in Holding THEN holders \union {p} ELSE holders \ {p}
    /\ process'[p].pc \in {"idle", "locking", "reading", "spawning"} => harness'[p] = "none"
    /\ process'[p].pc \in {"releasing", "gone"} => harness'[p] \notin {"live", "told"}
    /\ record' \in Records /\ caps' = caps /\ minted' \in 0 .. MaxSessions

Step(p) == ProcessStep(p) \/ HarnessExits(p) \/ Signal(p) \/ StdinEnds(p) \/ Killed(p)

\* At the start nobody holds anything.
LEMMA InitInv == BridgeInit => IInv
<1> SUFFICES ASSUME BridgeInit PROVE IInv OBVIOUS
<1>1. MaxSessions \in Nat /\ MaxSessions >= 1 BY BridgeAssumption
<1>2. 0 \in 0 .. MaxSessions /\ 1 \in 0 .. MaxSessions BY <1>1
<1>3. process \in [Processes -> States] BY <1>2 DEF BridgeInit, States, PCs, NoSession
<1>4. \A p \in Processes : process[p].pc = "idle" BY DEF BridgeInit
<1>5. holders = {} /\ harness = [p \in Processes |-> "none"] BY DEF BridgeInit
<1>6. record \in Records BY <1>2 DEF BridgeInit, Records, NoSession
<1>7. caps \in [resume : BOOLEAN, load : BOOLEAN] /\ minted \in 0 .. MaxSessions
  BY <1>2 DEF BridgeInit
<1>8. BridgeTypeOK
  BY <1>3, <1>4, <1>5, <1>6, <1>7 DEF BridgeTypeOK, States, PCs, Records
<1>9. Alone BY <1>5 DEF Alone
<1>10. HarnessInv BY <1>4, <1>5 DEF HarnessInv
<1> QED BY <1>8, <1>9, <1>10 DEF IInv

\* A step of such an effect preserves the invariant.
LEMMA EffectKeeps ==
    ASSUME IInv, NEW p \in Processes, Effect(p)
    PROVE  IInv'
<1>1. /\ process \in [Processes -> States]
      /\ holders = {q \in Processes : process[q].pc \in Holding}
  BY Typed DEF IInv
<1>2. holders' = {q \in Processes : process'[q].pc \in Holding} BY <1>1 DEF Effect
<1>3. \A q \in Processes : process'[q].pc \in PCs
  <2>1. \A q \in Processes : process'[q] \in States BY DEF Effect
  <2> QED BY <2>1 DEF States
<1>4. holders' = {q \in Processes : process'[q].pc \notin {"idle", "locking", "gone", "killed"}}
  BY <1>2, <1>3 DEF Holding
<1>5. BridgeTypeOK'
  BY <1>4 DEF Effect, IInv, BridgeTypeOK, States, PCs, HarnessStates, Records
<1>6. Alone'
  <2>1. CASE process'[p].pc \in Holding /\ holders = {}
    BY <2>1 DEF Effect, Alone
  <2>2. CASE process'[p].pc \in Holding /\ process[p].pc \in Holding
    <3>1. holders' = holders BY <1>1, <2>2 DEF Effect
    <3> QED BY <3>1 DEF IInv, Alone
  <2>3. CASE process'[p].pc \notin Holding
    BY <2>3 DEF Effect, IInv, Alone
  <2> QED BY <2>1, <2>2, <2>3 DEF Effect
<1>7. HarnessInv' BY DEF Effect, IInv, HarnessInv
<1> QED BY <1>5, <1>6, <1>7 DEF IInv

\* A step that leaves everything as it is preserves it too.
LEMMA StutterKeeps == IInv /\ UNCHANGED bridgeVars => IInv'
BY DEF IInv, BridgeTypeOK, Alone, HarnessInv, bridgeVars

\* A step that moves p from one pc at which it holds the lock to another, and
\* changes no harness.
LEMMA MoveEffect ==
    ASSUME IInv, NEW p \in Processes,
           process' \in [Processes -> States],
           \A q \in Processes : q # p => process'[q] = process[q],
           process[p].pc \in Holding, process'[p].pc \in Holding \ {"reading"},
           process'[p].pc = "spawning" => harness[p] = "none",
           process'[p].pc = "releasing" => harness[p] \notin {"live", "told"},
           record' \in Records, minted' \in 0 .. MaxSessions,
           UNCHANGED <<holders, harness, caps>>
    PROVE  Effect(p)
<1>1. p \in holders BY Typed DEF IInv
<1>2. harness \in [Processes -> HarnessStates] BY DEF IInv, BridgeTypeOK, HarnessStates
<1> QED BY <1>1, <1>2 DEF Effect, Holding

\* The same for a step that is a Goto.
LEMMA GotoEffect ==
    ASSUME IInv, NEW p \in Processes, NEW pc \in Holding \ {"reading"},
           process[p].pc \in Holding, Goto(p, pc),
           pc = "spawning" => harness[p] = "none",
           pc = "releasing" => harness[p] \notin {"live", "told"},
           record' \in Records, minted' \in 0 .. MaxSessions,
           UNCHANGED <<holders, harness, caps>>
    PROVE  Effect(p)
<1>1. pc \in PCs BY DEF Holding
<1>2. /\ process' \in [Processes -> States]
      /\ process'[p].pc = pc
      /\ \A q \in Processes : q # p => process'[q] = process[q]
  BY <1>1, GotoMoves, Typed DEF IInv
<1> QED BY <1>2, MoveEffect

\* A failed step goes on to Close where there is a harness.
LEMMA FailEffect ==
    ASSUME IInv, NEW p \in Processes, process[p].pc \in Holding, Fail(p),
           UNCHANGED <<holders, record, harness, caps, minted>>
    PROVE  Effect(p)
<1>1. record \in Records /\ minted \in 0 .. MaxSessions
  BY DEF IInv, BridgeTypeOK, Records
<1>2. CASE harness[p] = "none" BY <1>1, <1>2, GotoEffect DEF Fail, Holding, PCs
<1>3. CASE harness[p] # "none" BY <1>1, <1>3, GotoEffect DEF Fail, Holding, PCs
<1> QED BY <1>2, <1>3

\* The lock: only a free one is taken.
LEMMA AcquireEffect ==
    ASSUME IInv, NEW p \in Processes, AcquireLock(p)
    PROVE  Effect(p)
<1>1. /\ process \in [Processes -> States] /\ harness \in [Processes -> HarnessStates]
      /\ record \in Records /\ minted \in 0 .. MaxSessions
      /\ holders = {q \in Processes : process[q].pc \in Holding}
  BY Typed DEF IInv, BridgeTypeOK, HarnessStates, Records
<1>2. harness[p] = "none" BY DEF AcquireLock, At, IInv, HarnessInv
<1>3. CASE At(p, "idle") /\ Goto(p, "locking") /\ UNCHANGED <<holders, record, harness, caps, minted>>
  <2>1. /\ process' \in [Processes -> States] /\ process'[p].pc = "locking"
        /\ \A q \in Processes : q # p => process'[q] = process[q]
    BY <1>1, <1>3, GotoMoves DEF PCs
  <2> QED BY <1>1, <1>2, <1>3, <2>1 DEF Effect, At, Holding, PCs
<1>4. CASE /\ At(p, "locking") /\ Free(p) /\ holders' = holders \union {p} /\ Goto(p, "reading")
           /\ UNCHANGED <<record, harness, caps, minted>>
  <2>1. /\ process' \in [Processes -> States] /\ process'[p].pc = "reading"
        /\ \A q \in Processes : q # p => process'[q] = process[q]
    BY <1>1, <1>4, GotoMoves DEF PCs
  <2> QED BY <1>1, <1>2, <1>4, <2>1 DEF Effect, At, Free, Holding, PCs
<1>5. CASE At(p, "locking") /\ Goto(p, "gone") /\ UNCHANGED <<holders, record, harness, caps, minted>>
  <2>1. /\ process' \in [Processes -> States] /\ process'[p].pc = "gone"
        /\ \A q \in Processes : q # p => process'[q] = process[q]
    BY <1>1, <1>5, GotoMoves DEF PCs
  <2> QED BY <1>1, <1>2, <1>5, <2>1 DEF Effect, At, Holding, PCs
<1> QED BY <1>3, <1>4, <1>5 DEF AcquireLock

\* The session on record, if any.
Recorded == IF record.state = "whole" THEN record.session ELSE NoSession

\* The record is read into the process's own state, or could not be.
LEMMA ReadMoves ==
    ASSUME BridgeTypeOK, NEW p \in Processes, ReadSession(p)
    PROVE  /\ process' \in [Processes -> States] /\ process'[p].pc = "spawning"
           /\ \A q \in Processes : q # p => process'[q] = process[q]
           /\ process'[p].saved = Recorded \/ (process'[p].unread /\ process'[p].saved = NoSession)
<1>1. record \in Records /\ process[p] \in States /\ process \in [Processes -> States]
  BY Typed DEF BridgeTypeOK, Records
<1>2. Recorded \in 0 .. MaxSessions /\ NoSession \in 0 .. MaxSessions
  BY <1>1, BridgeAssumption DEF Recorded, Records, NoSession
<1>3. CASE process' = [process EXCEPT ![p].pc = "spawning", ![p].saved = Recorded]
  <2> DEFINE s == [process[p] EXCEPT !.pc = "spawning", !.saved = Recorded]
  <2>1. s \in States /\ s.pc = "spawning" /\ s.saved = Recorded
    BY <1>1, <1>2 DEF States, PCs
  <2>2. process' = [process EXCEPT ![p] = s] BY <1>3
  <2> HIDE DEF s
  <2> QED BY <1>1, <2>1, <2>2, OneMoves
<1>4. CASE process' = [process EXCEPT
                ![p].pc = "spawning", ![p].saved = NoSession, ![p].unread = TRUE]
  <2> DEFINE t == [process[p] EXCEPT !.pc = "spawning", !.saved = NoSession]
             s == [t EXCEPT !.unread = TRUE]
  <2>1. t \in States /\ t.pc = "spawning" /\ t.saved = NoSession
    BY <1>1, <1>2 DEF States, PCs
  <2>2. process' = [process EXCEPT ![p] = s] BY <1>4
  <2> HIDE DEF t
  <2>3. s \in States /\ s.pc = "spawning" /\ s.saved = NoSession /\ s.unread = TRUE
    BY <2>1 DEF States
  <2> HIDE DEF s
  <2> QED BY <1>1, <2>2, <2>3, OneMoves
<1> QED BY <1>3, <1>4 DEF ReadSession, Recorded

LEMMA ReadEffect ==
    ASSUME IInv, NEW p \in Processes, ReadSession(p)
    PROVE  Effect(p)
<1>1. record \in Records /\ minted \in 0 .. MaxSessions BY DEF IInv, BridgeTypeOK, Records
<1>2. /\ process' \in [Processes -> States] /\ process'[p].pc = "spawning"
      /\ \A q \in Processes : q # p => process'[q] = process[q]
  BY ReadMoves DEF IInv
<1>3. process[p].pc = "reading" /\ harness[p] = "none" BY DEF ReadSession, At, IInv, HarnessInv
<1>4. UNCHANGED <<holders, record, harness, caps, minted>> BY DEF ReadSession
<1> QED BY <1>1, <1>2, <1>3, <1>4, MoveEffect DEF Holding, PCs

\* The spawn, by a process that has no harness.
LEMMA StartEffect ==
    ASSUME IInv, NEW p \in Processes, StartHarness(p)
    PROVE  Effect(p)
<1>1. /\ process \in [Processes -> States] /\ harness \in [Processes -> HarnessStates]
      /\ record \in Records /\ minted \in 0 .. MaxSessions
      /\ holders = {q \in Processes : process[q].pc \in Holding}
  BY Typed DEF IInv, BridgeTypeOK, HarnessStates, Records
<1>2. process[p].pc = "spawning" /\ harness[p] = "none"
  BY DEF StartHarness, At, IInv, HarnessInv
<1>3. UNCHANGED <<holders, record, caps, minted>> BY DEF StartHarness
<1>4. CASE Goto(p, "init") /\ harness' = [harness EXCEPT ![p] = "live"]
  <2>1. /\ process' \in [Processes -> States] /\ process'[p].pc = "init"
        /\ \A q \in Processes : q # p => process'[q] = process[q]
    BY <1>1, <1>4, GotoMoves DEF PCs
  <2>2. /\ harness' \in [Processes -> HarnessStates]
        /\ \A q \in Processes : q # p => harness'[q] = harness[q]
    BY <1>1, <1>4 DEF HarnessStates
  <2> QED BY <1>1, <1>2, <1>3, <2>1, <2>2 DEF Effect, Holding, PCs
<1>5. CASE Goto(p, "releasing") /\ UNCHANGED harness
  BY <1>1, <1>2, <1>3, <1>5, GotoEffect DEF Holding, PCs
<1> QED BY <1>4, <1>5 DEF StartHarness

\* The handshake up to the session it serves: the lock and the harness stay.
LEMMA HandshakeEffect ==
    ASSUME IInv, NEW p \in Processes,
           \/ Initialize(p) \/ WriteTemp(p) \/ WriteFails(p) \/ Rename(p) \/ Serve(p)
    PROVE  Effect(p)
<1>1. /\ process[p] \in States /\ record \in Records /\ minted \in 0 .. MaxSessions
  BY Typed DEF IInv, BridgeTypeOK, Records
<1>2. CASE Initialize(p)
  <2>1. process[p].pc \in Holding /\ UNCHANGED <<holders, record, harness, caps, minted>>
    BY <1>2 DEF Initialize, At, Holding, PCs
  <2>2. CASE Goto(p, "new") BY <1>1, <2>1, <2>2, GotoEffect DEF Holding, PCs
  <2>3. CASE Goto(p, "resume") BY <1>1, <2>1, <2>3, GotoEffect DEF Holding, PCs
  <2>4. CASE Fail(p) BY <2>1, <2>4, FailEffect
  <2>5. Goto(p, "new") \/ Goto(p, "resume") \/ Fail(p) BY <1>2 DEF Initialize
  <2> QED BY <2>2, <2>3, <2>4, <2>5
<1>3. CASE WriteTemp(p) BY <1>1, <1>3, GotoEffect DEF WriteTemp, At, Holding, PCs
<1>4. CASE WriteFails(p) BY <1>4, FailEffect DEF WriteFails, Holding, PCs
<1>5. CASE Rename(p)
  <2>1. record' \in Records BY <1>1, <1>5 DEF Rename, States, Records
  <2> QED BY <1>1, <1>5, <2>1, GotoEffect DEF Rename, At, Holding, PCs
<1>6. CASE Serve(p) BY <1>1, <1>6, GotoEffect DEF Serve, At, Holding, PCs
<1> QED BY <1>2, <1>3, <1>4, <1>5, <1>6

\* session/resume and session/load.
LEMMA ReopenEffect ==
    ASSUME IInv, NEW p \in Processes, NEW method \in {"resume", "load"},
           NEW advertised, NEW next \in {"load", "new"}, Reopen(p, method, advertised, next)
    PROVE  Effect(p)
<1>1. /\ process \in [Processes -> States] /\ process[p] \in States
      /\ record \in Records /\ minted \in 0 .. MaxSessions
  BY Typed DEF IInv, BridgeTypeOK, Records
<1>2. process[p].pc \in Holding /\ UNCHANGED <<holders, record, harness, caps, minted>>
  BY DEF Reopen, At, Holding, PCs
<1>3. CASE Goto(p, next) BY <1>1, <1>2, <1>3, GotoEffect DEF Holding, PCs
<1>4. CASE process' = [process EXCEPT ![p].pc = "serving", ![p].session = process[p].saved]
  <2> DEFINE s == [process[p] EXCEPT !.pc = "serving", !.session = process[p].saved]
  <2>1. s \in States /\ s.pc = "serving" BY <1>1 DEF States, PCs
  <2>2. process' = [process EXCEPT ![p] = s] BY <1>4
  <2> HIDE DEF s
  <2>3. /\ process' \in [Processes -> States] /\ process'[p].pc = "serving"
        /\ \A q \in Processes : q # p => process'[q] = process[q]
    BY <1>1, <2>1, <2>2, OneMoves
  <2> QED BY <1>1, <1>2, <2>3, MoveEffect DEF Holding, PCs
<1>5. CASE process' = [process EXCEPT ![p].pc = next, ![p].refused = TRUE]
  <2> DEFINE s == [process[p] EXCEPT !.pc = next, !.refused = TRUE]
  <2>1. s \in States /\ s.pc = next BY <1>1 DEF States, PCs
  <2>2. process' = [process EXCEPT ![p] = s] BY <1>5
  <2> HIDE DEF s
  <2>3. /\ process' \in [Processes -> States] /\ process'[p].pc = next
        /\ \A q \in Processes : q # p => process'[q] = process[q]
    BY <1>1, <2>1, <2>2, OneMoves
  <2> QED BY <1>1, <1>2, <2>3, MoveEffect DEF Holding, PCs
<1> QED BY <1>3, <1>4, <1>5 DEF Reopen

\* session/new.
LEMMA NewEffect ==
    ASSUME IInv, NEW p \in Processes, NewSession(p)
    PROVE  Effect(p)
<1>1. /\ process \in [Processes -> States] /\ process[p] \in States
      /\ record \in Records /\ minted \in 0 .. MaxSessions
  BY Typed DEF IInv, BridgeTypeOK, Records
<1>2. process[p].pc \in Holding /\ UNCHANGED <<holders, record, harness, caps>>
  BY DEF NewSession, At, Holding, PCs
<1>3. CASE /\ minted < MaxSessions /\ minted' = minted + 1
           /\ process' = [process EXCEPT ![p].pc = "writing", ![p].session = minted + 1]
  <2> DEFINE s == [process[p] EXCEPT !.pc = "writing", !.session = minted + 1]
  <2>1. minted + 1 \in 0 .. MaxSessions BY <1>1, <1>3, BridgeAssumption
  <2>2. s \in States /\ s.pc = "writing" BY <1>1, <2>1 DEF States, PCs
  <2>3. process' = [process EXCEPT ![p] = s] BY <1>3
  <2> HIDE DEF s
  <2>4. /\ process' \in [Processes -> States] /\ process'[p].pc = "writing"
        /\ \A q \in Processes : q # p => process'[q] = process[q]
    BY <1>1, <2>2, <2>3, OneMoves
  <2>5. record' \in Records /\ minted' \in 0 .. MaxSessions BY <1>1, <1>2, <1>3, <2>1
  <2> QED BY <1>2, <2>4, <2>5, MoveEffect DEF Holding, PCs
<1>4. CASE Fail(p) /\ UNCHANGED minted BY <1>2, <1>4, FailEffect
<1> QED BY <1>3, <1>4 DEF NewSession

\* A harness that ends, or is told to, while its process goes on.
LEMMA HarnessEffect ==
    ASSUME IInv, NEW p \in Processes, Escalate(p) \/ HarnessExits(p)
    PROVE  Effect(p)
<1>1. /\ process \in [Processes -> States] /\ harness \in [Processes -> HarnessStates]
      /\ record \in Records /\ minted \in 0 .. MaxSessions
      /\ holders = {q \in Processes : process[q].pc \in Holding}
  BY Typed DEF IInv, BridgeTypeOK, HarnessStates, Records
<1>2. harness[p] \in {"live", "told"} /\ UNCHANGED <<process, holders, record, caps, minted>>
  BY DEF Escalate, HarnessExits
<1>3. process[p].pc \notin {"idle", "locking", "reading", "spawning", "releasing", "gone"}
  BY <1>2 DEF IInv, HarnessInv
<1>4. /\ harness' \in [Processes -> HarnessStates]
      /\ \A q \in Processes : q # p => harness'[q] = harness[q]
  BY <1>1 DEF Escalate, HarnessExits, HarnessStates
<1> QED BY <1>1, <1>2, <1>3, <1>4 DEF Effect

\* Close returns once the harness has ended.
LEMMA CloseEffect ==
    ASSUME IInv, NEW p \in Processes, CloseHarness(p)
    PROVE  Effect(p)
<1>1. record \in Records /\ minted \in 0 .. MaxSessions
  BY DEF IInv, BridgeTypeOK, Records
<1> QED BY <1>1, GotoEffect DEF CloseHarness, Reaped, At, Holding, PCs

\* The lock is given up, by the deferred Release or by the death of the process.
LEMMA ReleaseEffect ==
    ASSUME IInv, NEW p \in Processes, Release(p) \/ Killed(p)
    PROVE  Effect(p)
<1>1. /\ process \in [Processes -> States] /\ harness \in [Processes -> HarnessStates]
      /\ record \in Records /\ minted \in 0 .. MaxSessions
  BY Typed DEF IInv, BridgeTypeOK, HarnessStates, Records
<1>2. holders' = holders \ {p} /\ UNCHANGED <<record, harness, caps, minted>>
  BY DEF Release, Killed
<1>3. CASE Release(p)
  <2>1. harness[p] \notin {"live", "told"} BY <1>3 DEF Release, At, IInv, HarnessInv
  <2>2. /\ process' \in [Processes -> States] /\ process'[p].pc = "gone"
        /\ \A q \in Processes : q # p => process'[q] = process[q]
    BY <1>1, <1>3, GotoMoves DEF Release, PCs
  <2> QED BY <1>1, <1>2, <2>1, <2>2 DEF Effect, Holding
<1>4. CASE Killed(p)
  <2>1. /\ process' \in [Processes -> States] /\ process'[p].pc = "killed"
        /\ \A q \in Processes : q # p => process'[q] = process[q]
    BY <1>1, <1>4, GotoMoves DEF Killed, PCs
  <2> QED BY <1>1, <1>2, <2>1 DEF Effect, Holding
<1> QED BY <1>3, <1>4

\* A signal or the end of the stdin is noted; the process stays where it is.
LEMMA NoteEffect ==
    ASSUME IInv, NEW p \in Processes, Signal(p) \/ StdinEnds(p)
    PROVE  Effect(p)
<1>1. /\ process \in [Processes -> States] /\ harness \in [Processes -> HarnessStates]
      /\ process[p] \in States /\ record \in Records /\ minted \in 0 .. MaxSessions
      /\ holders = {q \in Processes : process[q].pc \in Holding}
  BY Typed DEF IInv, BridgeTypeOK, HarnessStates, Records
<1>2. UNCHANGED <<holders, record, harness, caps, minted>> BY DEF Signal, StdinEnds
<1>3. /\ process' \in [Processes -> States] /\ process'[p].pc = process[p].pc
      /\ \A q \in Processes : q # p => process'[q] = process[q]
  <2>1. CASE Signal(p)
    <3> DEFINE s == [process[p] EXCEPT !.signalled = TRUE]
    <3>1. s \in States /\ s.pc = process[p].pc BY <1>1 DEF States
    <3>2. process' = [process EXCEPT ![p] = s] BY <2>1 DEF Signal
    <3> HIDE DEF s
    <3> QED BY <1>1, <3>1, <3>2, OneMoves
  <2>2. CASE StdinEnds(p)
    <3> DEFINE s == [process[p] EXCEPT !.eof = TRUE]
    <3>1. s \in States /\ s.pc = process[p].pc BY <1>1 DEF States
    <3>2. process' = [process EXCEPT ![p] = s] BY <2>2 DEF StdinEnds
    <3> HIDE DEF s
    <3> QED BY <1>1, <3>1, <3>2, OneMoves
  <2> QED BY <2>1, <2>2
<1> QED BY <1>1, <1>2, <1>3 DEF Effect, IInv, HarnessInv

LEMMA StepEffect ==
    ASSUME IInv, NEW p \in Processes, Step(p)
    PROVE  Effect(p)
BY AcquireEffect, ReadEffect, StartEffect, HandshakeEffect, ReopenEffect, NewEffect,
   HarnessEffect, CloseEffect, ReleaseEffect, NoteEffect
   DEF Step, ProcessStep, EstablishSession

--------------------------------------------------------------------------------
\* The invariant is inductive.
LEMMA NextInv == IInv /\ [BridgeNext]_bridgeVars => IInv'
BY StepEffect, EffectKeeps, StutterKeeps DEF BridgeNext, Step

\* Whatever the processes do, the invariant holds in every state.
LEMMA Invariance == BridgeSpec => []IInv
BY InitInv, NextInv, PTL DEF BridgeSpec

\* The variables keep their types, and whoever is between the acquisition and the
\* release holds the flock (acquire and Release in internal/session/session.go).
THEOREM BridgeTypes == BridgeSpec => []BridgeTypeOK
<1>1. IInv => BridgeTypeOK BY DEF IInv
<1> QED BY <1>1, Invariance, PTL

\* Two harnesses live on the folder only when the process of one was killed: both
\* processes would be past their spawn and short of their release, so both would
\* hold the lock.
THEOREM OneHarnessHolds == BridgeSpec => []OneHarness
<1>1. IInv => OneHarness
  <2> SUFFICES ASSUME IInv, NEW p \in Processes, NEW q \in Processes, p # q,
                      harness[p] \in {"live", "told"}, harness[q] \in {"live", "told"},
                      ~At(p, "killed"), ~At(q, "killed")
               PROVE  FALSE
    BY DEF OneHarness
  <2>1. p \in holders /\ q \in holders
    BY DEF IInv, HarnessInv, BridgeTypeOK, At
  <2> QED BY <2>1 DEF IInv, Alone
<1> QED BY <1>1, Invariance, PTL

--------------------------------------------------------------------------------
(***************************************************************************)
(* The record.  ServesRecord and Continuity need what a process knows of   *)
(* it while it holds the lock: it goes by the session it read, which is    *)
(* still the recorded one unless it could not read it, and it passes a method over only for a reason   *)
(* (Excuse), or after its harness's end, which a session/new does not      *)
(* survive.                                                                *)
(***************************************************************************)
Opening == {"spawning", "init", "resume", "load", "new", "writing", "renaming"}
Excuse(p) == process[p].refused \/ (~caps.resume /\ ~caps.load) \/ process[p].signalled

\* What was read is what is recorded; or nothing was.
Informed(p) ==
    process[p].saved = Recorded \/ (process[p].unread /\ process[p].saved = NoSession)

Knows(p) ==
    /\ process[p].pc \in Opening => Informed(p)
    /\ process[p].pc \in {"resume", "load"} => process[p].saved # NoSession
    /\ process[p].pc = "load" => Excuse(p) \/ ~caps.resume \/ harness[p] = "gone"
    /\ process[p].pc = "new" /\ process[p].saved # NoSession => Excuse(p) \/ harness[p] = "gone"
    /\ process[p].pc \in {"writing", "renaming"} => process[p].session # NoSession
    /\ process[p].pc \in {"writing", "renaming"} /\ process[p].saved # NoSession => Excuse(p)
    /\ process[p].pc = "serving" =>
          record = [state |-> "whole", session |-> process[p].session]

RecordInv ==
    /\ record.state = "whole" => record.session # NoSession
    /\ \A p \in Processes : Knows(p)

LEMMA InitRecord == BridgeInit => RecordInv
<1> SUFFICES ASSUME BridgeInit PROVE RecordInv OBVIOUS
<1>1. \A p \in Processes : process[p].pc = "idle" BY DEF BridgeInit
<1>2. record.state = "whole" => record.session # NoSession BY DEF BridgeInit, NoSession
<1> QED BY <1>1, <1>2 DEF RecordInv, Knows, Opening

\* What Goto leaves of the process it moves.
LEMMA GotoFields ==
    ASSUME IInv, NEW p \in Processes, NEW pc \in PCs, Goto(p, pc)
    PROVE  /\ process'[p].pc = pc
           /\ process'[p].saved = process[p].saved /\ process'[p].session = process[p].session
           /\ process'[p].signalled = process[p].signalled
           /\ process'[p].refused = process[p].refused /\ process'[p].unread = process[p].unread
<1>1. process \in [Processes -> States] /\ process[p] \in States BY Typed DEF IInv
<1> DEFINE s == [process[p] EXCEPT !.pc = pc]
<1>2. /\ s \in States /\ s.pc = pc /\ s.saved = process[p].saved /\ s.session = process[p].session
      /\ s.signalled = process[p].signalled /\ s.refused = process[p].refused /\ s.unread = process[p].unread
  BY <1>1 DEF States
<1>3. process' = [process EXCEPT ![p] = s] BY DEF Goto
<1> HIDE DEF s
<1>4. process'[p] = s BY <1>1, <1>2, <1>3, OneMoves
<1> QED BY <1>2, <1>4

\* A failed step leaves the handshake.
LEMMA FailLeaves ==
    ASSUME IInv, NEW p \in Processes, Fail(p)
    PROVE  process'[p].pc \in {"releasing", "closing"}
<1>1. CASE harness[p] = "none" BY <1>1, GotoFields DEF Fail, PCs
<1>2. CASE harness[p] # "none" BY <1>2, GotoFields DEF Fail, PCs
<1> QED BY <1>1, <1>2

\* A step that leaves the record alone preserves what the others know.
LEMMA OthersKnow ==
    ASSUME RecordInv, NEW p \in Processes, Effect(p), UNCHANGED record, Knows(p)'
    PROVE  RecordInv'
<1>1. \A q \in Processes : q # p => Knows(q)'
  BY DEF Effect, RecordInv, Knows, Excuse, Informed, Recorded
<1> QED BY <1>1 DEF RecordInv

\* Outside the handshake a process knows nothing of the record.
LEMMA NothingKnown ==
    ASSUME NEW p \in Processes, process'[p].pc \notin Opening \union {"serving"}
    PROVE  Knows(p)'
BY DEF Knows, Opening

\* Up to the spawn: the session is read from the record.
LEMMA EarlyKnows ==
    ASSUME IInv, RecordInv, NEW p \in Processes,
           AcquireLock(p) \/ ReadSession(p) \/ StartHarness(p)
    PROVE  Knows(p)' /\ UNCHANGED record
<1>1. UNCHANGED record BY DEF AcquireLock, ReadSession, StartHarness
<1>2. CASE AcquireLock(p)
  <2>1. process'[p].pc \in {"locking", "reading", "gone"}
    <3>1. Goto(p, "locking") \/ Goto(p, "reading") \/ Goto(p, "gone")
      BY <1>2 DEF AcquireLock
    <3> QED BY <3>1, GotoFields DEF PCs
  <2> QED BY <1>1, <2>1, NothingKnown DEF Opening
<1>3. CASE ReadSession(p)
  <2>1. /\ process'[p].pc = "spawning"
        /\ process'[p].saved = Recorded \/ (process'[p].unread /\ process'[p].saved = NoSession)
    BY <1>3, ReadMoves DEF IInv
  <2> QED BY <1>1, <2>1 DEF Knows, Opening, Informed, Recorded
<1>4. CASE StartHarness(p)
  <2>1. process[p].pc = "spawning" BY <1>4 DEF StartHarness, At
  <2>2. Informed(p) BY <2>1 DEF RecordInv, Knows, Opening
  <2>3. CASE Goto(p, "init")
    BY <1>1, <2>2, <2>3, GotoFields DEF Knows, PCs, Informed, Recorded
  <2>4. CASE Goto(p, "releasing")
    <3>1. process'[p].pc = "releasing" BY <2>4, GotoFields DEF PCs
    <3> QED BY <1>1, <3>1, NothingKnown DEF Opening
  <2> QED BY <1>4, <2>3, <2>4 DEF StartHarness
<1> QED BY <1>1, <1>2, <1>3, <1>4

\* Initialize chooses session/resume only for a session it read.
LEMMA InitializeKnows ==
    ASSUME IInv, RecordInv, NEW p \in Processes, Initialize(p)
    PROVE  Knows(p)'
<1>1. process[p].pc = "init" /\ UNCHANGED record BY DEF Initialize, At
<1>2. Informed(p) BY <1>1 DEF RecordInv, Knows, Opening
<1>3. CASE process[p].saved = NoSession /\ Goto(p, "new")
  BY <1>1, <1>2, <1>3, GotoFields DEF Knows, PCs, Informed, Recorded
<1>4. CASE process[p].saved # NoSession /\ Goto(p, "resume")
  BY <1>1, <1>2, <1>4, GotoFields DEF Knows, PCs, Informed, Recorded
<1>5. CASE Fail(p) BY <1>5, FailLeaves, NothingKnown DEF Opening
<1> QED BY <1>3, <1>4, <1>5 DEF Initialize

\* A reopened session is the recorded one.
LEMMA ReopenedKnows ==
    ASSUME IInv, RecordInv, NEW p \in Processes, process[p].pc \in {"resume", "load"},
           UNCHANGED record,
           process' = [process EXCEPT ![p].pc = "serving", ![p].session = process[p].saved]
    PROVE  Knows(p)'
<1> DEFINE s == [process[p] EXCEPT !.pc = "serving", !.session = process[p].saved]
<1>1. process[p] \in States /\ process \in [Processes -> States] BY Typed DEF IInv
<1>2. process' = [process EXCEPT ![p] = s] OBVIOUS
<1>3. s.pc = "serving" /\ s.session = process[p].saved BY <1>1 DEF States
<1> HIDE DEF s
<1>4. process'[p] = s BY <1>1, <1>2
<1>5. Recorded = process[p].saved /\ process[p].saved # NoSession
  BY DEF RecordInv, Knows, Opening, Informed
<1>6. record.state = "whole" /\ record.session = process[p].saved BY <1>5 DEF Recorded
<1>7. record \in Records BY DEF IInv, BridgeTypeOK, Records
<1>8. record = [state |-> "whole", session |-> process[p].saved] BY <1>6, <1>7 DEF Records
<1> QED BY <1>3, <1>4, <1>8 DEF Knows, Opening

\* A refusal is noted.
LEMMA RefusedKnows ==
    ASSUME IInv, RecordInv, NEW p \in Processes, NEW next \in {"load", "new"},
           process[p].pc \in {"resume", "load"}, UNCHANGED <<record, caps>>,
           process' = [process EXCEPT ![p].pc = next, ![p].refused = TRUE]
    PROVE  Knows(p)'
<1> DEFINE s == [process[p] EXCEPT !.pc = next, !.refused = TRUE]
<1>1. process[p] \in States /\ process \in [Processes -> States] BY Typed DEF IInv
<1>2. process' = [process EXCEPT ![p] = s] OBVIOUS
<1>3. s.pc = next /\ s.refused = TRUE /\ s.saved = process[p].saved BY <1>1 DEF States
<1> HIDE DEF s
<1>4. process'[p] = s BY <1>1, <1>2
<1>5. process[p].saved = Recorded /\ process[p].saved # NoSession
  BY DEF RecordInv, Knows, Opening, Informed
<1> QED BY <1>3, <1>4, <1>5 DEF Knows, Excuse, Informed, Recorded

\* Each method is passed over for a reason, or because the harness is gone.
LEMMA ReopenKnows ==
    ASSUME IInv, RecordInv, NEW p \in Processes,
           \/ Reopen(p, "resume", caps.resume, "load")
           \/ Reopen(p, "load", caps.load, "new")
    PROVE  Knows(p)' /\ UNCHANGED record
<1>1. process[p].pc \in {"resume", "load"} /\ UNCHANGED <<record, caps, harness>>
  BY DEF Reopen, At
<1>2. process[p].saved = Recorded /\ process[p].saved # NoSession
  BY <1>1 DEF RecordInv, Knows, Opening, Informed
<1>3. CASE process' = [process EXCEPT ![p].pc = "serving", ![p].session = process[p].saved]
  BY <1>1, <1>3, ReopenedKnows
<1>4. CASE \/ process' = [process EXCEPT ![p].pc = "load", ![p].refused = TRUE]
           \/ process' = [process EXCEPT ![p].pc = "new", ![p].refused = TRUE]
  BY <1>1, <1>4, RefusedKnows
<1>5. CASE /\ process[p].pc = "resume" /\ Goto(p, "load")
           /\ ~caps.resume \/ Breaks(p)
  BY <1>1, <1>2, <1>5, GotoFields DEF Knows, Excuse, Breaks, PCs, Informed, Recorded
<1>6. CASE /\ process[p].pc = "load" /\ Goto(p, "new")
           /\ ~caps.load \/ Breaks(p)
  <2>1. Excuse(p) \/ ~caps.resume \/ harness[p] = "gone" BY <1>6 DEF RecordInv, Knows
  <2>2. Excuse(p) \/ harness[p] = "gone" BY <1>6, <2>1 DEF Excuse, Breaks
  <2> QED BY <1>1, <1>2, <1>6, <2>2, GotoFields DEF Knows, Excuse, PCs, Informed, Recorded
<1> QED BY <1>1, <1>3, <1>4, <1>5, <1>6 DEF Reopen, At

\* session/new is answered by a harness that lives.
LEMMA NewKnows ==
    ASSUME IInv, RecordInv, NEW p \in Processes, NewSession(p)
    PROVE  Knows(p)' /\ UNCHANGED record
<1>1. process[p].pc = "new" /\ UNCHANGED <<record, caps, harness>> BY DEF NewSession, At
<1>2. CASE /\ Answers(p)
           /\ process' = [process EXCEPT ![p].pc = "writing", ![p].session = minted + 1]
  <2> DEFINE s == [process[p] EXCEPT !.pc = "writing", !.session = minted + 1]
  <2>1. process[p] \in States /\ process \in [Processes -> States] BY Typed DEF IInv
  <2>2. process' = [process EXCEPT ![p] = s] BY <1>2
  <2>3. /\ s.pc = "writing" /\ s.session = minted + 1 /\ s.saved = process[p].saved
        /\ s.refused = process[p].refused /\ s.signalled = process[p].signalled
        /\ s.unread = process[p].unread
    BY <2>1 DEF States
  <2> HIDE DEF s
  <2>4. process'[p] = s BY <2>1, <2>2
  <2>5. minted + 1 # NoSession BY BridgeAssumption DEF IInv, BridgeTypeOK, NoSession
  <2>6. Informed(p) /\ (process[p].saved # NoSession => Excuse(p))
    BY <1>1, <1>2 DEF RecordInv, Knows, Opening, Answers
  <2> QED BY <1>1, <2>3, <2>4, <2>5, <2>6 DEF Knows, Excuse, Informed, Recorded
<1>3. CASE Fail(p) BY <1>1, <1>3, FailLeaves, NothingKnown DEF Opening
<1> QED BY <1>1, <1>2, <1>3 DEF NewSession

\* The record is written under the lock: nobody else knows anything of the old one.
LEMMA RenameKeeps ==
    ASSUME IInv, RecordInv, NEW p \in Processes, Rename(p)
    PROVE  RecordInv'
<1>1. process[p].pc = "renaming" /\ record' = [state |-> "whole", session |-> process[p].session]
  BY DEF Rename, At
<1>2. process'[p].pc = "serving" /\ process'[p].session = process[p].session
  BY GotoFields DEF Rename, PCs
<1>3. process[p].session # NoSession BY <1>1 DEF RecordInv, Knows
<1>4. Knows(p)' BY <1>1, <1>2 DEF Knows, Opening
<1>5. ASSUME NEW q \in Processes, q # p PROVE Knows(q)'
  <2>1. q \notin holders
    <3>1. p \in holders BY <1>1 DEF IInv, BridgeTypeOK
    <3> QED BY <1>5, <3>1 DEF IInv, Alone
  <2>2. process[q].pc \in {"idle", "locking", "gone", "killed"} BY <2>1 DEF IInv, BridgeTypeOK
  <2>3. process'[q] = process[q] BY <1>5, HandshakeEffect DEF Effect
  <2> QED BY <2>2, <2>3, NothingKnown DEF Opening
<1> QED BY <1>1, <1>3, <1>4, <1>5 DEF RecordInv

\* What is left of the handshake before the record is in place.
LEMMA WriteKnows ==
    ASSUME IInv, RecordInv, NEW p \in Processes, WriteTemp(p) \/ WriteFails(p)
    PROVE  Knows(p)' /\ UNCHANGED record
<1>1. UNCHANGED <<record, caps, harness>> BY DEF WriteTemp, WriteFails
<1>2. CASE WriteTemp(p)
  <2>1. process[p].pc = "writing" /\ Goto(p, "renaming") BY <1>2 DEF WriteTemp, At
  <2>2. /\ Informed(p) /\ process[p].session # NoSession
        /\ process[p].saved # NoSession => Excuse(p)
    BY <2>1 DEF RecordInv, Knows, Opening
  <2> QED BY <1>1, <2>1, <2>2, GotoFields DEF Knows, Excuse, PCs, Informed, Recorded
<1>3. CASE WriteFails(p)
  BY <1>3, FailLeaves, NothingKnown DEF WriteFails, Opening
<1> QED BY <1>1, <1>2, <1>3

\* The steps after the handshake, and those of the harness and the outside.
LEMMA LateKnows ==
    ASSUME IInv, RecordInv, NEW p \in Processes,
           \/ Serve(p) \/ Escalate(p) \/ CloseHarness(p) \/ Release(p)
           \/ HarnessExits(p) \/ Killed(p)
    PROVE  Knows(p)' /\ UNCHANGED record
<1>1. UNCHANGED <<record, caps>>
  BY DEF Serve, Escalate, CloseHarness, Release, HarnessExits, Killed
<1>2. CASE Serve(p) \/ CloseHarness(p) \/ Release(p) \/ Killed(p)
  <2>1. Goto(p, "closing") \/ Goto(p, "releasing") \/ Goto(p, "gone") \/ Goto(p, "killed")
    BY <1>2 DEF Serve, CloseHarness, Release, Killed
  <2>2. process'[p].pc \in {"closing", "releasing", "gone", "killed"}
    BY <2>1, GotoFields DEF PCs
  <2> QED BY <1>1, <2>2, NothingKnown DEF Opening
<1>3. CASE Escalate(p) \/ HarnessExits(p)
  <2>1. UNCHANGED process /\ (harness[p] = "gone" => harness'[p] = "gone")
    BY <1>3 DEF Escalate, HarnessExits
  <2>2. Knows(p) BY DEF RecordInv
  <2> QED BY <1>1, <2>1, <2>2 DEF Knows, Excuse, Informed, Recorded
<1> QED BY <1>1, <1>2, <1>3

LEMMA NoteKnows ==
    ASSUME IInv, RecordInv, NEW p \in Processes, Signal(p) \/ StdinEnds(p)
    PROVE  Knows(p)' /\ UNCHANGED record
<1>1. UNCHANGED <<record, caps, harness>> BY DEF Signal, StdinEnds
<1>2. process[p] \in States /\ process \in [Processes -> States] BY Typed DEF IInv
<1>3. /\ process'[p].pc = process[p].pc /\ process'[p].saved = process[p].saved
      /\ process'[p].session = process[p].session /\ process'[p].refused = process[p].refused
      /\ process'[p].unread = process[p].unread
      /\ process[p].signalled => process'[p].signalled
  <2>1. CASE Signal(p)
    <3> DEFINE s == [process[p] EXCEPT !.signalled = TRUE]
    <3>1. /\ s.pc = process[p].pc /\ s.saved = process[p].saved /\ s.session = process[p].session
          /\ s.refused = process[p].refused /\ s.unread = process[p].unread /\ s.signalled
      BY <1>2 DEF States
    <3>2. process' = [process EXCEPT ![p] = s] BY <2>1 DEF Signal
    <3> HIDE DEF s
    <3>3. process'[p] = s BY <1>2, <3>2
    <3> QED BY <3>1, <3>3
  <2>2. CASE StdinEnds(p)
    <3> DEFINE s == [process[p] EXCEPT !.eof = TRUE]
    <3>1. /\ s.pc = process[p].pc /\ s.saved = process[p].saved /\ s.session = process[p].session
          /\ s.refused = process[p].refused /\ s.signalled = process[p].signalled
        /\ s.unread = process[p].unread
      BY <1>2 DEF States
    <3>2. process' = [process EXCEPT ![p] = s] BY <2>2 DEF StdinEnds
    <3> HIDE DEF s
    <3>3. process'[p] = s BY <1>2, <3>2
    <3> QED BY <3>1, <3>3
  <2> QED BY <2>1, <2>2
<1>4. Knows(p) BY DEF RecordInv
<1> QED BY <1>1, <1>3, <1>4 DEF Knows, Excuse, Informed, Recorded

\* Every step but the rename leaves the record alone.
LEMMA StepKnows ==
    ASSUME IInv, RecordInv, NEW p \in Processes, Step(p), ~Rename(p)
    PROVE  Knows(p)' /\ UNCHANGED record
<1>1. Initialize(p) => Knows(p)' /\ UNCHANGED record
  BY InitializeKnows DEF Initialize
<1> QED
  BY <1>1, EarlyKnows, ReopenKnows, NewKnows, WriteKnows, LateKnows, NoteKnows
     DEF Step, ProcessStep, EstablishSession

LEMMA NextRecord == IInv /\ RecordInv /\ [BridgeNext]_bridgeVars => RecordInv'
<1> SUFFICES ASSUME IInv, RecordInv, [BridgeNext]_bridgeVars PROVE RecordInv' OBVIOUS
<1>1. CASE UNCHANGED bridgeVars
  BY <1>1 DEF bridgeVars, RecordInv, Knows, Excuse, Informed, Recorded
<1>2. CASE BridgeNext
  <2>1. PICK p \in Processes : Step(p) BY <1>2 DEF BridgeNext, Step
  <2>2. CASE Rename(p) BY <2>2, RenameKeeps
  <2>3. CASE ~Rename(p) BY <2>1, <2>3, StepKnows, StepEffect, OthersKnow
  <2> QED BY <2>2, <2>3
<1> QED BY <1>1, <1>2

LEMMA RecordInvariance == BridgeSpec => [](IInv /\ RecordInv)
BY InitInv, InitRecord, NextInv, NextRecord, PTL DEF BridgeSpec

\* Whoever serves a session serves the recorded one: a session is served once the
\* record was read or written to name it, and nobody else writes while the server
\* holds the lock (EstablishSession and WriteSession).
THEOREM ServesRecordHolds == BridgeSpec => []ServesRecord
<1>1. RecordInv => ServesRecord BY DEF RecordInv, Knows, ServesRecord, At
<1> QED BY <1>1, RecordInvariance, PTL

\* The record of a session is replaced only by a process that read it and was
\* refused it, could not reopen any, or was told to stop; or by one that could not
\* read it (EstablishSession, ReadSession).
THEOREM ContinuityHolds == BridgeSpec => Continuity
<1> DEFINE Kept ==
      record.state = "whole" /\ record' # record
        => \E p \in Processes :
              /\ At(p, "renaming")
              /\ \/ process[p].unread
                 \/ /\ process[p].saved = record.session
                    /\ \/ process[p].refused
                       \/ ~caps.resume /\ ~caps.load
                       \/ process[p].signalled
<1>1. IInv /\ RecordInv /\ [BridgeNext]_bridgeVars => [Kept]_bridgeVars
  <2> SUFFICES ASSUME IInv, RecordInv, BridgeNext, record.state = "whole", record' # record
               PROVE  Kept
    OBVIOUS
  <2>1. PICK p \in Processes : Step(p) BY DEF BridgeNext, Step
  <2>2. Rename(p) BY <2>1, StepKnows
  <2>3. At(p, "renaming") BY <2>2 DEF Rename
  <2>4. process[p].unread \/ (process[p].saved = record.session /\ record.session # NoSession)
    BY <2>3 DEF RecordInv, Knows, Opening, Informed, Recorded, At
  <2>5. process[p].unread \/ Excuse(p) BY <2>3, <2>4 DEF RecordInv, Knows, At
  <2> QED BY <2>3, <2>4, <2>5 DEF Excuse
<1> QED BY <1>1, RecordInvariance, PTL DEF BridgeSpec, Continuity

================================================================================
