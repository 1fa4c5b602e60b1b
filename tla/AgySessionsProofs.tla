------------------------- MODULE AgySessionsProofs -------------------------
(***************************************************************************)
(* Proofs about AgySessions, for any number of sessions, prompts and       *)
(* conversations, whatever agy writes and whenever the bridge is killed.   *)
(***************************************************************************)
EXTENDS AgySessions, TLAPS

USE AgyAssumption DEF AgyAssumption
USE DEF bridgeVars, turnVars, ctxVars, agyVars, clientVars, Goto

-----------------------------------------------------------------------------
(* Types.  Nothing that is proved here depends on the order of the cache,  *)
(* which a recursive library operator computes.                            *)

Places == {"unsent", "resolving", "choosing", "launch", "running", "cache", "persist",
           "respond", "unregister", "answered", "lost", "dropped"}

Serving == [at : {"idle", "resolve", "read", "restore", "resolved", "lookup", "persist", "reply"},
            op : {"load", "configure", "model", "prompt"}, s : Sessions \union {NoSession},
            p : Prompts \union {NoPrompt}, row : Rows]

Told == [conv : Nat, idx : Nat, model : Models \union {NoModel, "unsure"}]

RowTypes ==
    /\ sessions \in [Sessions -> Rows \union {NoRow}]
    /\ store \in [Sessions -> Rows \union {NoRow}]
    /\ srv \in Serving /\ (srv.at # "idle" => srv.s \in Sessions)
    /\ row \in [Prompts -> Rows]
    /\ told \in [Sessions -> Told]

PromptTypes ==
    /\ turns \in [Sessions -> Prompts \union {NoPrompt}]
    /\ pc \in [Prompts -> Places]
    /\ sess \in [Prompts -> Sessions \union {NoSession}]
    /\ \A p \in Prompts : pc[p] # "unsent" => sess[p] \in Sessions
    /\ result \in [Prompts -> {"none", "invalid", "busy", "end_turn", "cancelled", "failed"}]
    /\ cancelled \in SUBSET Prompts
    /\ aborted \in SUBSET Prompts

AgyTypes ==
    /\ writes \in [Prompts -> Nat]
    /\ convs \in Seq(Nat)
    /\ born \in SUBSET Sessions

Types == RowTypes /\ PromptTypes /\ AgyTypes

\* A row names no conversation, or one there is and no more rows than it has.
Known(r, c) == IF r.conv = 0 THEN r.idx = 0 ELSE r.conv \in DOMAIN c /\ r.idx <= c[r.conv]
KnownInv ==
    /\ \A s \in Sessions : Known(sessions[s], convs) /\ Known(store[s], convs)
    /\ Known(srv.row, convs)
    /\ \A p \in Prompts : Known(row[p], convs) /\ writes[p] \in DOMAIN convs \union {0}

LEMMA RowFacts ==
    /\ NewRow \in Rows /\ NoRow \notin Rows /\ NewRow # NoRow
    /\ Idle \in Serving /\ Idle.at = "idle" /\ Idle.p = NoPrompt /\ Idle.op = "load"
BY DEF NewRow, NoRow, Rows, Idle, Serving

\* Whatever setSession evicts, a session is cached as given, as before or not at all.
LEMMA Cached ==
    ASSUME RowTypes, NEW s \in Sessions, NEW r \in Rows, SetSession(s, r)
    PROVE  /\ sessions' \in [Sessions -> Rows \union {NoRow}]
           /\ \A u \in Sessions : sessions'[u] \in {NoRow, IF u = s THEN r ELSE sessions[u]}
<1> DEFINE cached == [sessions EXCEPT ![s] = r]
<1>1. /\ cached \in [Sessions -> Rows \union {NoRow}]
      /\ \A u \in Sessions : cached[u] = IF u = s THEN r ELSE sessions[u]
  BY DEF RowTypes
<1>2. sessions' = cached \/ \E e : sessions' = [cached EXCEPT ![e] = NoRow]
  BY DEF SetSession
<1> HIDE DEF cached
<1>3. QED BY <1>1, <1>2

\* What a choice of model does, but for the order of the cache.
Chosen(r) ==
    /\ r.conv = srv.row.conv /\ r.idx = srv.row.idx /\ r.model \in Models
    /\ sessions' \in [Sessions -> Rows \union {NoRow}]
    /\ \A u \in Sessions : sessions'[u] \in {NoRow, IF u = srv.s THEN r ELSE sessions[u]}
    /\ srv' = [srv EXCEPT !.at = "persist", !.row = r]
NotChosen ==
    /\ UNCHANGED sessions
    /\ \/ srv.op = "model" /\ srv' = [srv EXCEPT !.at = "reply"]
       \/ srv.op # "model" /\ srv' = Idle

LEMMA ModelChosen ==
    ASSUME Types, ChooseModel
    PROVE  /\ srv.at = "lookup" \/ (srv.at = "resolved" /\ srv.op = "configure")
           /\ srv.s \in Sessions /\ srv.row \in Rows
           /\ UNCHANGED <<bridge, turns, store, pc, sess, row, result, cancelled, aborted>>
           /\ UNCHANGED <<agyVars, clientVars>>
           /\ (\E r \in Rows : Chosen(r)) \/ NotChosen
<1> DEFINE Picked(m) == /\ SetSession(srv.s, [srv.row EXCEPT !.model = m])
                        /\ srv' = [srv EXCEPT !.at = "persist", !.row.model = m]
<1>0. RowTypes BY DEF Types
<1>1. /\ srv.at = "lookup" \/ (srv.at = "resolved" /\ srv.op = "configure")
      /\ UNCHANGED <<bridge, turns, store, turnVars, ctxVars, agyVars, clientVars>>
  BY Zenon DEF ChooseModel
<1>2. srv.s \in Sessions /\ srv.row \in Rows BY <1>0, <1>1 DEF RowTypes, Serving
<1>3. \/ \E m \in Models : Picked(m)
      \/ /\ UNCHANGED sessions
         /\ srv' = IF srv.op = "model" THEN [srv EXCEPT !.at = "reply"] ELSE Idle
  BY Zenon DEF ChooseModel
<1>4. ASSUME NEW m \in Models, Picked(m)
      PROVE  \E r \in Rows : Chosen(r)
  <2> DEFINE r == [srv.row EXCEPT !.model = m]
  <2>1. r \in Rows /\ r.conv = srv.row.conv /\ r.idx = srv.row.idx /\ r.model \in Models
    BY <1>2 DEF Rows
  <2>2. srv' = [srv EXCEPT !.at = "persist", !.row = r] BY <1>0, <1>4 DEF RowTypes, Serving
  <2>3. SetSession(srv.s, r) BY <1>4
  <2> HIDE DEF r
  <2>4. /\ sessions' \in [Sessions -> Rows \union {NoRow}]
        /\ \A u \in Sessions : sessions'[u] \in {NoRow, IF u = srv.s THEN r ELSE sessions[u]}
    BY <1>0, <1>2, <2>1, <2>3, Cached
  <2>5. Chosen(r) BY <2>1, <2>2, <2>4 DEF Chosen
  <2> QED BY <2>1, <2>5
<1> HIDE DEF Picked
<1>5. ~(\E m \in Models : Picked(m)) => NotChosen BY <1>3 DEF NotChosen
<1>6. QED BY <1>1, <1>2, <1>4, <1>5

LEMMA InitTypes == Init => Types
BY RowFacts DEF Init, Types, RowTypes, PromptTypes, AgyTypes, Places, Told, NewRow

LEMMA NextRowTypes ==
    ASSUME Types, KnownInv, [Next]_vars
    PROVE  RowTypes'
<1>0. RowTypes /\ PromptTypes /\ AgyTypes BY DEF Types
<1>1. ASSUME NEW s \in Sessions, NewSession(s) PROVE RowTypes'
  BY <1>0, <1>1, RowFacts, Cached DEF NewSession, RowTypes
<1>2. ASSUME NEW s \in Sessions, NEW p \in Prompts, NEW op \in {"prompt", "model"},
             SendPrompt(op, p, s)
      PROVE  RowTypes'
  BY <1>0, <1>2, RowFacts DEF SendPrompt, RowTypes, Serving
<1>3. ASSUME NEW s \in Sessions, NEW r \in Requests, NEW op \in {"load", "configure"},
             SendRequest(op, r, s)
      PROVE  RowTypes'
  BY <1>0, <1>3, RowFacts DEF SendRequest, RowTypes, Serving
<1>4. CASE Resolve
  <2>1. sessions[srv.s] # NoRow => sessions[srv.s] \in Rows BY <1>0, <1>4 DEF Resolve, RowTypes
  <2> QED BY <1>0, <1>4, <2>1 DEF Resolve, RowTypes, Serving
<1>5. CASE ReadStore
  <2>1. store[srv.s] # NoRow => store[srv.s] \in Rows BY <1>0, <1>5 DEF ReadStore, RowTypes
  <2>2. /\ UNCHANGED <<sessions, store, row, told>> /\ srv.at = "read"
        /\ srv' = Idle \/ (store[srv.s] # NoRow
                              /\ srv' = [srv EXCEPT !.at = "restore", !.row = store[srv.s]])
    BY <1>5, Zenon DEF ReadStore
  <2> QED BY <1>0, <2>1, <2>2, RowFacts DEF RowTypes, Serving
<1>6. CASE Restore
  <2>1. srv.s \in Sessions /\ srv.row \in Rows BY <1>0, <1>6 DEF Restore, RowTypes, Serving
  <2>2. SetSession(srv.s, srv.row) /\ UNCHANGED <<store, row, told>>
        /\ srv' = [srv EXCEPT !.at = "resolved"]
    BY <1>6 DEF Restore
  <2>3. sessions' \in [Sessions -> Rows \union {NoRow}] BY <1>0, <2>1, <2>2, Cached
  <2> QED BY <1>0, <2>1, <2>2, <2>3 DEF RowTypes, Serving
<1>7. CASE ReplyLoad
  <2>1. srv.s \in Sessions /\ srv.row.model \in Models \union {NoModel}
    BY <1>0, <1>7 DEF ReplyLoad, RowTypes, Serving, Rows
  <2>2. told' \in [Sessions -> Told]
    BY <1>0, <1>7, <2>1 DEF ReplyLoad, RowTypes, Told
  <2> QED BY <1>0, <1>7, <2>2, RowFacts DEF ReplyLoad, RowTypes
<1>8. CASE Register
  <2>1. /\ UNCHANGED <<sessions, store, told>> /\ row' = [row EXCEPT ![srv.p] = srv.row]
        /\ srv' = Idle \/ srv' = [srv EXCEPT !.at = "lookup"]
    BY <1>8, Zenon DEF Register
  <2>2. srv.at # "idle" BY <1>8 DEF Register
  <2> QED BY <1>0, <2>1, <2>2, RowFacts DEF RowTypes, Serving
<1>9. CASE RefuseTurn BY <1>0, <1>9, RowFacts DEF RefuseTurn, RowTypes
<1>10. CASE ChooseModel
  <2>1. UNCHANGED <<store, row, told>> /\ srv.s \in Sessions /\ srv.row \in Rows
        /\ ((\E r \in Rows : Chosen(r)) \/ NotChosen)
    BY <1>10, ModelChosen
  <2>2. CASE NotChosen BY <1>0, <2>1, <2>2, RowFacts DEF NotChosen, RowTypes, Serving
  <2>3. ASSUME NEW r \in Rows, Chosen(r) PROVE RowTypes'
    <3>1. srv' = [srv EXCEPT !.at = "persist", !.row = r] BY <2>3 DEF Chosen
    <3>2. sessions' \in [Sessions -> Rows \union {NoRow}] BY <2>3 DEF Chosen
    <3>3. srv' \in Serving /\ srv'.s = srv.s BY <1>0, <3>1 DEF RowTypes, Serving
    <3> QED BY <1>0, <2>1, <3>2, <3>3 DEF RowTypes
  <2> QED BY <2>1, <2>2, <2>3
<1>11. CASE PersistModel BY <1>0, <1>11 DEF PersistModel, RowTypes, Serving
<1>12. CASE ReplyModel
  <2>1. srv.s \in Sessions /\ srv.row.model \in Models \union {NoModel}
    BY <1>0, <1>12 DEF ReplyModel, RowTypes, Serving, Rows
  <2>2. told' \in [Sessions -> Told]
    BY <1>0, <1>12, <2>1 DEF ReplyModel, RowTypes, Told
  <2> QED BY <1>0, <1>12, <2>2, RowFacts DEF ReplyModel, RowTypes
<1>13. ASSUME NEW p \in Prompts,
              SkipLaunch(p) \/ FailLaunch(p) \/ Launch(p) \/ Unregister(p)
              \/ AgyCreates(p) \/ AgyWrites(p) \/ AgyExits(p)
       PROVE  RowTypes'
  BY <1>0, <1>13 DEF SkipLaunch, FailLaunch, Launch, Unregister, AgyCreates, AgyWrites, AgyExits,
                     RowTypes
<1>14. ASSUME NEW p \in Prompts, NEW n \in Nat, ReadRows(p, n), UNCHANGED <<sessions, store, srv, told>>
       PROVE  RowTypes'
  <2>1. Bound(p) \in Nat BY <1>0, <1>14 DEF Bound, RowTypes, AgyTypes, Rows
  <2> DEFINE r1 == [row[p] EXCEPT !.conv = Bound(p)]
             r2 == [r1 EXCEPT !.idx = n]
  <2>2. r1 \in Rows BY <1>0, <2>1 DEF RowTypes, Rows
  <2> HIDE DEF r1
  <2>3. r2 \in Rows BY <2>2 DEF Rows
  <2> HIDE DEF r2
  <2>4. row' = [row EXCEPT ![p] = r2] BY <1>0, <1>14 DEF ReadRows, r1, r2, RowTypes
  <2> QED BY <1>0, <1>14, <2>3, <2>4 DEF RowTypes
<1>15. ASSUME NEW p \in Prompts, Poll(p) PROVE RowTypes'
  <2>1. Bound(p) \in DOMAIN convs BY <1>0, <1>15 DEF Poll, Bound, AgyTypes, KnownInv, Known
  <2>2. convs[Bound(p)] \in Nat BY <1>0, <2>1 DEF AgyTypes
  <2> QED BY <1>0, <1>14, <1>15, <2>2 DEF Poll
<1>16. ASSUME NEW p \in Prompts, Drain(p) PROVE RowTypes'
  <2>1. CASE UNCHANGED row BY <1>0, <1>16, <2>1 DEF Drain, RowTypes
  <2>2. ASSUME NEW n \in row[p].idx..convs[Bound(p)], ReadRows(p, n) PROVE RowTypes'
    <3>1. n \in Nat BY <1>0, <2>2 DEF RowTypes, Rows
    <3> QED BY <1>14, <1>16, <2>2, <3>1 DEF Drain
  <2> QED BY <1>16, <2>1, <2>2 DEF Drain
<1>17. ASSUME NEW p \in Prompts, CacheRow(p) PROVE RowTypes'
  BY <1>0, <1>17, Cached DEF CacheRow, RowTypes, PromptTypes
<1>18. ASSUME NEW p \in Prompts, PersistRow(p) PROVE RowTypes'
  BY <1>0, <1>18 DEF PersistRow, RowTypes
<1>19. ASSUME NEW p \in Prompts, Respond(p) PROVE RowTypes'
  <2>1. row[p].conv \in Nat /\ row[p].idx \in Nat BY <1>0 DEF RowTypes, Rows
  <2>2. told' \in [Sessions -> Told]
    <3> DEFINE s == sess[p]
               t1 == [told[s] EXCEPT !.conv = row[p].conv]
               t2 == [t1 EXCEPT !.idx = row[p].idx]
    <3>1. told[s] \in Told BY <1>0, <1>19 DEF Respond, RowTypes, PromptTypes
    <3>2. t1 \in Told BY <2>1, <3>1 DEF Told
    <3> HIDE DEF t1
    <3>3. t2 \in Told BY <2>1, <3>2 DEF Told
    <3>4. told' = [told EXCEPT ![s] = t2] BY <1>0, <1>19 DEF Respond, RowTypes, t1
    <3> HIDE DEF t2, s
    <3> QED BY <1>0, <3>3, <3>4 DEF RowTypes
  <2> QED BY <1>0, <1>19, <2>2 DEF Respond, RowTypes
<1>20. CASE Crash
  <2>0. told' = told \/ told' = [told EXCEPT ![srv.s].model = "unsure"] BY <1>20, Zenon DEF Crash
  <2>1. told' \in [Sessions -> Told] BY <1>0, <2>0 DEF RowTypes, Told
  <2> QED BY <1>0, <1>20, <2>1, RowFacts DEF Crash, RowTypes
<1>21. CASE ServeReturns BY <1>0, <1>21 DEF ServeReturns, RowTypes
<1>22. CASE Eof \/ Restart \/ (\E s \in Sessions : CancelTurn(s)) \/ UNCHANGED vars
  BY <1>0, <1>22 DEF Eof, Restart, CancelTurn, vars, RowTypes
<1>23. QED
  BY <1>1, <1>2, <1>3, <1>4, <1>5, <1>6, <1>7, <1>8, <1>9, <1>10, <1>11, <1>12, <1>13, <1>15, <1>16,
     <1>17, <1>18, <1>19, <1>20, <1>21, <1>22 DEF Next, ServeStep, TurnStep

\* agy only adds to its conversations.
LEMMA ConversationsGrow ==
    ASSUME Types, KnownInv, [Next]_vars
    PROVE  /\ convs' \in Seq(Nat)
           /\ \A r \in Rows \union {NoRow} : Known(r, convs) => Known(r, convs')
           /\ DOMAIN convs \subseteq DOMAIN convs'
<1>0. convs \in Seq(Nat) BY DEF Types, AgyTypes
<1>1. CASE UNCHANGED convs BY <1>0, <1>1 DEF Known
<1>2. ASSUME NEW p \in Prompts, convs' = Append(convs, 0)
      PROVE  /\ convs' \in Seq(Nat)
             /\ \A r \in Rows \union {NoRow} : Known(r, convs) => Known(r, convs')
             /\ DOMAIN convs \subseteq DOMAIN convs'
  <2>1. /\ convs' \in Seq(Nat)
        /\ \A i \in DOMAIN convs : i \in DOMAIN convs' /\ convs'[i] = convs[i]
    BY <1>0, <1>2
  <2> QED BY <2>1 DEF Known
<1>3. ASSUME NEW p \in Prompts, writes[p] # 0, convs' = [convs EXCEPT ![writes[p]] = convs[writes[p]] + 1]
      PROVE  /\ convs' \in Seq(Nat)
             /\ \A r \in Rows \union {NoRow} : Known(r, convs) => Known(r, convs')
             /\ DOMAIN convs \subseteq DOMAIN convs'
  <2>1. writes[p] \in DOMAIN convs BY <1>3 DEF KnownInv
  <2>2. /\ convs' \in Seq(Nat) /\ DOMAIN convs' = DOMAIN convs
        /\ \A i \in DOMAIN convs : convs[i] \in Nat /\ convs'[i] \in {convs[i], convs[i] + 1}
    BY <1>0, <1>3, <2>1
  <2>3. \A r \in Rows \union {NoRow} : r.idx \in Nat BY DEF Rows, NoRow
  <2> QED BY <2>2, <2>3 DEF Known
<1>4. CASE \E p \in Prompts : AgyCreates(p) BY <1>2, <1>4 DEF AgyCreates
<1>5. CASE \E p \in Prompts : AgyWrites(p) BY <1>3, <1>5 DEF AgyWrites
<1>6. CASE ~(\E p \in Prompts : AgyCreates(p) \/ AgyWrites(p))
  <2>1. CASE ChooseModel BY <1>1, <2>1, ModelChosen
  <2>2. CASE ~ChooseModel
    <3>1. UNCHANGED convs
      BY <1>6, <2>2
      DEF Next, vars, NewSession, CancelTurn, SendPrompt, SendRequest, ServeStep, Resolve, ReadStore,
          Restore, ReplyLoad, Register, RefuseTurn, PersistModel, ReplyModel, TurnStep, SkipLaunch,
          FailLaunch, Launch, Poll, Drain, CacheRow, PersistRow, Respond, Unregister, AgyExits,
          Eof, ServeReturns, Crash, Restart
    <3> QED BY <1>1, <3>1
  <2> QED BY <2>1, <2>2
<1>7. QED BY <1>4, <1>5, <1>6

LEMMA InitKnown == Init => KnownInv
BY DEF Init, KnownInv, Known, NoRow, NewRow, Idle

LEMMA NextKnown ==
    ASSUME Types, KnownInv, [Next]_vars
    PROVE  KnownInv'
<1>0. RowTypes /\ PromptTypes /\ AgyTypes BY DEF Types
<1>1. /\ convs' \in Seq(Nat) /\ DOMAIN convs \subseteq DOMAIN convs'
      /\ \A r \in Rows \union {NoRow} : Known(r, convs) => Known(r, convs')
  BY ConversationsGrow
<1>n. Known(NewRow, convs) /\ Known(NoRow, convs) /\ Known(NoRow, convs') /\ Known(NewRow, convs')
  BY DEF Known, NewRow, NoRow
<1>o. /\ \A s \in Sessions : sessions[s] \in Rows \union {NoRow} /\ store[s] \in Rows \union {NoRow}
      /\ srv.row \in Rows /\ \A p \in Prompts : row[p] \in Rows
  BY <1>0 DEF RowTypes, Serving
\* What was there stays known.
<1>k. /\ \A s \in Sessions : Known(sessions[s], convs') /\ Known(store[s], convs')
      /\ Known(srv.row, convs')
      /\ \A p \in Prompts : Known(row[p], convs') /\ writes[p] \in DOMAIN convs' \union {0}
  BY <1>1, <1>o DEF KnownInv
<1>2. \A s \in Sessions : Known(sessions'[s], convs')
  <2>s. ASSUME NEW s \in Sessions, NEW r \in Rows, SetSession(s, r), Known(r, convs')
        PROVE  \A u \in Sessions : Known(sessions'[u], convs')
    <3>1. \A u \in Sessions : sessions'[u] \in {NoRow, IF u = s THEN r ELSE sessions[u]}
      BY <1>0, <2>s, Cached
    <3> QED BY <1>k, <1>n, <2>s, <3>1
  <2>1. CASE UNCHANGED sessions BY <1>k, <2>1
  <2>2. ASSUME NEW s \in Sessions, NewSession(s) PROVE \A u \in Sessions : Known(sessions'[u], convs')
    BY <1>n, <2>2, <2>s, RowFacts DEF NewSession
  <2>3. CASE Restore
    <3>1. srv.s \in Sessions BY <1>0, <2>3 DEF Restore, RowTypes
    <3> QED BY <1>k, <1>o, <2>3, <2>s, <3>1 DEF Restore
  <2>4. CASE ChooseModel
    <3>1. ASSUME NEW r \in Rows, Chosen(r) PROVE \A u \in Sessions : Known(sessions'[u], convs')
      <4>1. Known(r, convs') BY <1>k, <3>1 DEF Chosen, Known
      <4>2. \A u \in Sessions : sessions'[u] \in {NoRow, IF u = srv.s THEN r ELSE sessions[u]}
        BY <3>1 DEF Chosen
      <4> QED BY <1>k, <1>n, <4>1, <4>2
    <3>2. CASE NotChosen BY <1>k, <3>2 DEF NotChosen
    <3>3. (\E r \in Rows : Chosen(r)) \/ NotChosen BY <2>4, ModelChosen
    <3> QED BY <3>1, <3>2, <3>3
  <2>5. ASSUME NEW p \in Prompts, CacheRow(p) PROVE \A u \in Sessions : Known(sessions'[u], convs')
    <3>1. sess[p] \in Sessions BY <1>0, <2>5 DEF CacheRow, PromptTypes
    <3> QED BY <1>k, <1>o, <2>5, <2>s, <3>1 DEF CacheRow
  <2>6. CASE ServeReturns \/ Crash
    <3>1. \A u \in Sessions : sessions'[u] = NoRow BY <2>6 DEF ServeReturns, Crash
    <3> QED BY <1>n, <3>1
  <2>7. CASE ~(\/ (\E s \in Sessions : NewSession(s)) \/ Restore \/ ChooseModel
               \/ (\E p \in Prompts : CacheRow(p)) \/ ServeReturns \/ Crash)
    <3>1. UNCHANGED sessions
      BY <2>7
      DEF Next, vars, CancelTurn, SendPrompt, SendRequest, ServeStep, Resolve, ReadStore,
          ReplyLoad, Register, RefuseTurn, PersistModel, ReplyModel, TurnStep, SkipLaunch,
          FailLaunch, Launch, Poll, Drain, PersistRow, Respond, Unregister, AgyCreates, AgyWrites,
          AgyExits, Eof, Restart
    <3> QED BY <1>k, <3>1
  <2> QED BY <2>2, <2>3, <2>4, <2>5, <2>6, <2>7
<1>3. \A s \in Sessions : Known(store'[s], convs')
  <2>1. CASE UNCHANGED store BY <1>k, <2>1
  <2>2. CASE PersistModel
    <3>1. \A s \in Sessions : store'[s] \in {store[s], srv.row} BY <1>0, <2>2 DEF PersistModel, RowTypes
    <3> QED BY <1>k, <3>1
  <2>3. ASSUME NEW p \in Prompts, PersistRow(p) PROVE \A s \in Sessions : Known(store'[s], convs')
    <3>1. \A s \in Sessions : store'[s] \in {store[s], row[p]} BY <1>0, <2>3 DEF PersistRow, RowTypes
    <3> QED BY <1>k, <3>1
  <2>4. CASE ChooseModel BY <1>k, <2>4, ModelChosen
  <2>5. CASE ~(PersistModel \/ (\E p \in Prompts : PersistRow(p)) \/ ChooseModel)
    <3>1. UNCHANGED store
      BY <2>5
      DEF Next, vars, NewSession, CancelTurn, SendPrompt, SendRequest, ServeStep, Resolve, ReadStore,
          Restore, ReplyLoad, Register, RefuseTurn, ReplyModel, TurnStep, SkipLaunch,
          FailLaunch, Launch, Poll, Drain, CacheRow, Respond, Unregister, AgyCreates, AgyWrites,
          AgyExits, Eof, ServeReturns, Crash, Restart
    <3> QED BY <1>k, <3>1
  <2> QED BY <2>2, <2>3, <2>4, <2>5
<1>4. Known(srv'.row, convs')
  <2>1. CASE srv' = Idle \/ srv'.row \in {srv.row, NewRow} BY <1>k, <1>n, <2>1 DEF Idle
  <2>2. ASSUME NEW s \in Sessions, srv'.row \in {sessions[s], store[s]} PROVE Known(srv'.row, convs')
    BY <1>k, <2>2
  <2>3. CASE Resolve
    <3>1. srv.s \in Sessions BY <1>0, <2>3 DEF Resolve, RowTypes
    <3>2. srv'.row \in {srv.row, sessions[srv.s]} BY <1>0, <2>3 DEF Resolve, RowTypes, Serving
    <3> QED BY <2>1, <2>2, <3>1, <3>2
  <2>4. CASE ReadStore
    <3>1. srv.s \in Sessions BY <1>0, <2>4 DEF ReadStore, RowTypes
    <3>2. srv' = Idle \/ srv' = [srv EXCEPT !.at = "restore", !.row = store[srv.s]]
      BY <2>4, Zenon DEF ReadStore
    <3>3. srv' = Idle \/ srv'.row = store[srv.s] BY <1>0, <3>2 DEF RowTypes, Serving
    <3> QED BY <2>1, <2>2, <3>1, <3>3
  <2>5. CASE ChooseModel
    <3>1. ASSUME NEW r \in Rows, Chosen(r) PROVE Known(srv'.row, convs')
      <4>1. Known(r, convs') BY <1>k, <3>1 DEF Chosen, Known
      <4>2. srv'.row = r BY <1>0, <3>1 DEF Chosen, RowTypes, Serving
      <4> QED BY <4>1, <4>2
    <3>2. CASE NotChosen
      <4>1. srv'.row = srv.row \/ srv' = Idle BY <1>0, <3>2 DEF NotChosen, RowTypes, Serving
      <4> QED BY <2>1, <4>1
    <3>3. (\E r \in Rows : Chosen(r)) \/ NotChosen BY <2>5, ModelChosen
    <3> QED BY <3>1, <3>2, <3>3
  <2>6. CASE Register
    <3>1. srv' = Idle \/ srv' = [srv EXCEPT !.at = "lookup"] BY <2>6, Zenon DEF Register
    <3>2. srv' = Idle \/ srv'.row = srv.row BY <1>0, <3>1 DEF RowTypes, Serving
    <3> QED BY <2>1, <3>2
  <2>7. CASE Restore \/ PersistModel
    <3>1. srv'.row = srv.row BY <1>0, <2>7 DEF Restore, PersistModel, RowTypes, Serving
    <3> QED BY <2>1, <3>1
  <2>8. CASE ReplyLoad \/ RefuseTurn \/ ReplyModel \/ Crash
    BY <2>1, <2>8 DEF ReplyLoad, RefuseTurn, ReplyModel, Crash
  <2>9. ASSUME NEW s \in Sessions, NEW op \in {"prompt", "model", "load", "configure"},
               (\E p \in Prompts : SendPrompt(op, p, s)) \/ (\E r \in Requests : SendRequest(op, r, s))
        PROVE  Known(srv'.row, convs')
    BY <2>1, <2>9 DEF SendPrompt, SendRequest
  <2>10. CASE UNCHANGED srv BY <2>1, <2>10
  <2> QED
    BY <2>3, <2>4, <2>5, <2>6, <2>7, <2>8, <2>9, <2>10
    DEF Next, vars, NewSession, CancelTurn, ServeStep, TurnStep, SkipLaunch, FailLaunch, Launch,
        Poll, Drain, CacheRow, PersistRow, Respond, Unregister, AgyCreates, AgyWrites, AgyExits,
        Eof, ServeReturns, Restart
<1>5. \A p \in Prompts : Known(row'[p], convs')
  <2>1. CASE UNCHANGED row BY <1>k, <2>1
  <2>2. CASE Register
    <3>1. \A p \in Prompts : row'[p] \in {row[p], srv.row} BY <1>0, <2>2 DEF Register, RowTypes
    <3> QED BY <1>k, <3>1
  <2>3. ASSUME NEW p \in Prompts, NEW n \in Nat, ReadRows(p, n), UNCHANGED convs,
               Bound(p) # 0, n <= convs[Bound(p)], pc[p] # "unsent"
        PROVE  \A q \in Prompts : Known(row'[q], convs')
    <3>1. Bound(p) \in DOMAIN convs
      BY <1>0, <2>3 DEF Bound, KnownInv, Known, AgyTypes
    <3>2. row'[p].conv = Bound(p) /\ row'[p].idx = n /\ \A q \in Prompts : q # p => row'[q] = row[q]
      BY <1>0, <2>3 DEF ReadRows, RowTypes, Rows
    <3>3. Known(row'[p], convs') BY <2>3, <3>1, <3>2 DEF Known
    <3> QED BY <1>k, <3>2, <3>3
  <2>4. ASSUME NEW p \in Prompts, Poll(p) PROVE \A q \in Prompts : Known(row'[q], convs')
    <3>1. Bound(p) \in DOMAIN convs BY <1>0, <2>4 DEF Poll, Bound, AgyTypes, KnownInv, Known
    <3>2. convs[Bound(p)] \in Nat BY <1>0, <3>1 DEF AgyTypes
    <3> QED BY <2>3, <2>4, <3>2 DEF Poll
  <2>5. ASSUME NEW p \in Prompts, Drain(p) PROVE \A q \in Prompts : Known(row'[q], convs')
    <3>1. CASE UNCHANGED row BY <2>1, <3>1
    <3>2. ASSUME Bound(p) # 0, NEW n \in row[p].idx..convs[Bound(p)], ReadRows(p, n)
          PROVE  \A q \in Prompts : Known(row'[q], convs')
      <4>0. Bound(p) \in DOMAIN convs BY <1>0, <3>2 DEF Bound, AgyTypes, KnownInv, Known
      <4>1. n \in Nat /\ n <= convs[Bound(p)] BY <1>0, <3>2, <4>0 DEF RowTypes, Rows, AgyTypes
      <4> QED BY <2>3, <2>5, <3>2, <4>1 DEF Drain
    <3> QED BY <2>5, <3>1, <3>2 DEF Drain
  <2>6. CASE ChooseModel BY <1>k, <2>6, ModelChosen
  <2>7. CASE ~(Register \/ ChooseModel \/ \E p \in Prompts : Poll(p) \/ Drain(p))
    <3>1. UNCHANGED row
      BY <2>7
      DEF Next, vars, NewSession, CancelTurn, SendPrompt, SendRequest, ServeStep, Resolve, ReadStore,
          Restore, ReplyLoad, RefuseTurn, PersistModel, ReplyModel, TurnStep, SkipLaunch,
          FailLaunch, Launch, CacheRow, PersistRow, Respond, Unregister, AgyCreates, AgyWrites,
          AgyExits, Eof, ServeReturns, Crash, Restart
    <3> QED BY <1>k, <3>1
  <2> QED BY <2>2, <2>4, <2>5, <2>6, <2>7
<1>6. writes' \in [Prompts -> Nat] /\ \A p \in Prompts : writes'[p] \in DOMAIN convs' \union {0}
  <2>1. CASE UNCHANGED writes BY <1>0, <1>k, <2>1 DEF AgyTypes
  <2>2. ASSUME NEW p \in Prompts, Launch(p)
        PROVE  writes' \in [Prompts -> Nat] /\ \A q \in Prompts : writes'[q] \in DOMAIN convs' \union {0}
    <3>1. row[p].conv \in Nat /\ row[p].conv \in DOMAIN convs \union {0}
      BY <1>o DEF Rows, KnownInv, Known
    <3> QED BY <1>0, <1>1, <1>k, <2>2, <3>1 DEF Launch, AgyTypes
  <2>3. ASSUME NEW p \in Prompts, AgyCreates(p)
        PROVE  writes' \in [Prompts -> Nat] /\ \A q \in Prompts : writes'[q] \in DOMAIN convs' \union {0}
    <3>1. Len(convs') \in Nat /\ Len(convs') \in DOMAIN convs'
      BY <1>0, <2>3 DEF AgyCreates, AgyTypes
    <3> QED BY <1>0, <1>k, <2>3, <3>1 DEF AgyCreates, AgyTypes
  <2>4. CASE ChooseModel BY <2>1, <2>4, ModelChosen
  <2>5. CASE ~(ChooseModel \/ \E p \in Prompts : Launch(p) \/ AgyCreates(p))
    <3>1. UNCHANGED writes
      BY <2>5
      DEF Next, vars, NewSession, CancelTurn, SendPrompt, SendRequest, ServeStep, Resolve, ReadStore,
          Restore, ReplyLoad, Register, RefuseTurn, PersistModel, ReplyModel, TurnStep, SkipLaunch,
          FailLaunch, Poll, Drain, CacheRow, PersistRow, Respond, Unregister, AgyWrites,
          AgyExits, Eof, ServeReturns, Crash, Restart
    <3> QED BY <2>1, <3>1
  <2> QED BY <2>2, <2>3, <2>4, <2>5
<1>7. QED BY <1>2, <1>3, <1>4, <1>5, <1>6 DEF KnownInv

-----------------------------------------------------------------------------
(* The registry of turns.                                                  *)

Registered == {"choosing", "launch", "running", "cache", "persist", "respond", "unregister"}
Finished == {"cache", "persist", "respond", "unregister"}
Resolving == {"resolve", "read", "restore", "resolved"}
Choosing == {"lookup", "persist", "reply"}

\* A session's turn is the one prompt of it that is registered, and Serve holds the
\* prompt it is about to register or whose model it chooses.
RegistryInv ==
    /\ \A s \in Sessions : turns[s] # NoPrompt => sess[turns[s]] = s /\ pc[turns[s]] \in Registered
    /\ \A p \in Prompts : pc[p] \in Registered => turns[sess[p]] = p
    /\ \A p \in Prompts : pc[p] = "resolving" <=>
          srv.at \in Resolving /\ srv.op \in {"prompt", "model"} /\ srv.p = p
    /\ \A p \in Prompts : pc[p] = "choosing" <=> srv.at \in Choosing /\ srv.op = "model" /\ srv.p = p
    /\ srv.p # NoPrompt => sess[srv.p] = srv.s
    /\ srv.op \in {"prompt", "model"} <=> srv.p # NoPrompt
    /\ srv.at \in Choosing => srv.op \in {"model", "configure"}
    /\ srv.at = "idle" => srv.p = NoPrompt

\* A turn is not "cancelled" before it was.
VerdictInv ==
    /\ \A p \in Prompts : pc[p] \in Finished =>
          /\ result[p] \in {"end_turn", "cancelled", "failed"}
          /\ result[p] = "cancelled" => p \in cancelled \union aborted
    /\ \A p \in cancelled \union aborted : pc[p] \notin {"unsent", "resolving", "dropped"}

RegInv == PromptTypes /\ RegistryInv /\ VerdictInv

GateStep == \A s \in Sessions : Gate(s)!GateNext \/ UNCHANGED Gate(s)!gateVars

LEMMA GateInitMaps == Init => \A s \in Sessions : Gate(s)!GateInit
BY DEF Init, Gate!GateInit, phaseOf, verdictOf

LEMMA GateStill ==
    ASSUME UNCHANGED <<turns, pc, sess, result, cancelled, aborted>>
    PROVE  GateStep
BY DEF GateStep, Gate!gateVars, phaseOf, verdictOf

LEMMA Quiet ==
    ASSUME RowTypes, RegInv, UNCHANGED <<turns, pc, sess, result, cancelled, aborted>>,
           \/ UNCHANGED srv
           \/ /\ srv'.op = srv.op /\ srv'.p = srv.p /\ srv'.s = srv.s
              /\ {srv.at, srv'.at} \subseteq Resolving \/ {srv.at, srv'.at} \subseteq Choosing
           \/ /\ srv.p = NoPrompt /\ srv'.p = NoPrompt
              /\ srv'.op \in {"load", "configure"}
              /\ srv'.at \in Choosing => srv'.op = "configure"
    PROVE  RegInv' /\ GateStep
<1>1. PromptTypes' BY DEF RegInv, PromptTypes
<1>2. RegistryInv'
  <2>1. PromptTypes /\ RegistryInv BY DEF RegInv
  <2>2. CASE UNCHANGED srv BY <2>1, <2>2 DEF RegistryInv
  <2>3. CASE /\ srv'.op = srv.op /\ srv'.p = srv.p /\ srv'.s = srv.s
             /\ {srv.at, srv'.at} \subseteq Resolving \/ {srv.at, srv'.at} \subseteq Choosing
    BY <2>1, <2>3 DEF RegistryInv, Resolving, Choosing
  <2>4. CASE /\ srv.p = NoPrompt /\ srv'.p = NoPrompt
             /\ srv'.op \in {"load", "configure"}
             /\ srv'.at \in Choosing => srv'.op = "configure"
    BY <2>1, <2>4 DEF RegistryInv
  <2> QED BY <2>2, <2>3, <2>4
<1>3. VerdictInv' BY DEF RegInv, VerdictInv
<1>4. QED BY <1>1, <1>2, <1>3, GateStill DEF RegInv

LEMMA Sends ==
    ASSUME RowTypes, RegInv, NEW s \in Sessions, NEW p \in Prompts, NEW op \in {"prompt", "model"},
           SendPrompt(op, p, s)
    PROVE  RegInv' /\ GateStep
<1>0. PromptTypes /\ RegistryInv /\ VerdictInv BY DEF RegInv
<1>1. /\ srv.at = "idle" /\ pc[p] = "unsent"
      /\ srv' = [at |-> "resolve", op |-> op, s |-> s, p |-> p, row |-> NewRow]
      /\ UNCHANGED <<turns, result, cancelled, aborted>>
      /\ \A q \in Prompts : pc'[q] = IF q = p THEN "resolving" ELSE pc[q]
      /\ \A q \in Prompts : sess'[q] = IF q = p THEN s ELSE sess[q]
  BY <1>0 DEF SendPrompt, MaySend, PromptTypes
<1>2. PromptTypes' BY <1>0 DEF SendPrompt, PromptTypes, Places
<1>3. \A q \in Prompts : pc[q] \notin {"resolving", "choosing"}
  BY <1>0, <1>1 DEF RegistryInv, Resolving, Choosing
<1>4. RegistryInv'
  <2>1. \A u \in Sessions : turns[u] # NoPrompt => turns[u] # p /\ turns[u] \in Prompts
    BY <1>0, <1>1 DEF RegistryInv, Registered, PromptTypes
  <2>2. \A u \in Sessions : turns'[u] # NoPrompt => sess'[turns'[u]] = u /\ pc'[turns'[u]] \in Registered
    BY <1>0, <1>1, <2>1 DEF RegistryInv
  <2>3. \A q \in Prompts : pc'[q] \in Registered => turns'[sess'[q]] = q
    BY <1>0, <1>1 DEF RegistryInv, Registered
  <2>4. \A q \in Prompts : /\ pc'[q] = "resolving" <=> q = p
                           /\ pc'[q] # "choosing"
    BY <1>1, <1>3
  <2>5. srv'.at \in Resolving /\ srv'.at \notin Choosing /\ srv'.op \in {"prompt", "model"} /\ srv'.p = p
        /\ sess'[p] = s /\ srv'.s = s /\ srv'.at # "idle"
    BY <1>1 DEF Resolving, Choosing
  <2> QED BY <2>2, <2>3, <2>4, <2>5 DEF RegistryInv
<1>5. VerdictInv' BY <1>0, <1>1 DEF VerdictInv, Finished, PromptTypes
<1>6. ASSUME NEW u \in Sessions PROVE UNCHANGED Gate(u)!gateVars
  <2>1. \A q \in Prompts : phaseOf(q, u)' = phaseOf(q, u) /\ verdictOf(q, u)' = verdictOf(q, u)
    BY <1>1 DEF phaseOf, verdictOf
  <2>2. {q \in cancelled \union aborted : sess[q] = u}' = {q \in cancelled \union aborted : sess[q] = u}
    <3>1. p \notin cancelled \union aborted BY <1>0, <1>1 DEF VerdictInv
    <3>2. cancelled \union aborted \subseteq Prompts BY <1>0 DEF PromptTypes
    <3> QED BY <1>1, <3>1, <3>2
  <2> QED BY <1>1, <2>1, <2>2 DEF Gate!gateVars
<1>7. QED BY <1>2, <1>4, <1>5, <1>6 DEF RegInv, GateStep

LEMMA Refused ==
    ASSUME RowTypes, RegInv, NEW p \in Prompts, NEW v \in {"invalid", "busy"},
           srv.at \in Resolving, srv.p = p, v = "busy" => turns[srv.s] # NoPrompt, srv' = Idle,
           pc' = [q \in Prompts |-> IF q = p THEN "answered" ELSE pc[q]],
           result' = [q \in Prompts |-> IF q = p THEN v ELSE result[q]],
           UNCHANGED <<turns, sess, cancelled, aborted>>
    PROVE  RegInv' /\ GateStep
<1>0. PromptTypes /\ RegistryInv /\ VerdictInv BY DEF RegInv
<1>1. /\ pc[p] = "resolving" /\ sess[p] = srv.s /\ srv.s \in Sessions
      /\ \A q \in Prompts : q # p => pc[q] # "resolving"
      /\ \A q \in Prompts : pc[q] # "choosing"
  BY <1>0 DEF RegistryInv, PromptTypes, RowTypes, Resolving, Choosing
<1>2. PromptTypes'
  <2>1. \A q \in Prompts : /\ pc'[q] \in Places
                           /\ result'[q] \in {"none", "invalid", "busy", "end_turn", "cancelled", "failed"}
    BY <1>0 DEF PromptTypes, Places
  <2>2. \A q \in Prompts : pc'[q] # "unsent" => sess'[q] \in Sessions BY <1>0, <1>1 DEF PromptTypes
  <2> QED BY <1>0, <2>1, <2>2 DEF PromptTypes
<1>3. RegistryInv'
  <2>1. \A u \in Sessions : turns[u] # NoPrompt => turns[u] # p /\ turns[u] \in Prompts
    BY <1>0, <1>1 DEF RegistryInv, Registered, PromptTypes
  <2>2. \A u \in Sessions : turns'[u] # NoPrompt => sess'[turns'[u]] = u /\ pc'[turns'[u]] \in Registered
    BY <1>0, <2>1 DEF RegistryInv
  <2>3. \A q \in Prompts : pc'[q] \in Registered => turns'[sess'[q]] = q
    BY <1>0 DEF RegistryInv, Registered
  <2>4. \A q \in Prompts : pc'[q] \notin {"resolving", "choosing"} BY <1>1
  <2>5. srv'.at \notin Resolving \union Choosing /\ srv'.op = "load" /\ srv'.p = NoPrompt
    BY RowFacts DEF Resolving, Choosing
  <2> QED BY <2>2, <2>3, <2>4, <2>5 DEF RegistryInv
<1>4. VerdictInv' BY <1>0 DEF VerdictInv, Finished, PromptTypes
<1>5. ASSUME NEW u \in Sessions, u # sess[p] PROVE UNCHANGED Gate(u)!gateVars
  <2>1. \A q \in Prompts : phaseOf(q, u)' = phaseOf(q, u) /\ verdictOf(q, u)' = verdictOf(q, u)
    BY <1>5 DEF phaseOf, verdictOf
  <2>2. [q \in Prompts |-> phaseOf(q, u)]' = [q \in Prompts |-> phaseOf(q, u)] BY <2>1
  <2>3. [q \in Prompts |-> verdictOf(q, u)]' = [q \in Prompts |-> verdictOf(q, u)] BY <2>1
  <2> QED BY <2>2, <2>3 DEF Gate!gateVars
<1>6. ASSUME NEW u, u = sess[p] PROVE Gate(u)!Refuse(p)
  <2>1. \A q \in Prompts : phaseOf(q, u)' = IF q = p THEN "settled" ELSE phaseOf(q, u)
    BY <1>1, <1>6 DEF phaseOf
  <2>2. \A q \in Prompts : verdictOf(q, u)' = IF q = p THEN v ELSE verdictOf(q, u)
    BY <1>1, <1>6, <2>1 DEF verdictOf, phaseOf
  <2>3. phaseOf(p, u) = "new" BY <1>1 DEF phaseOf
  <2>4. v = "busy" => turns[u] # NoPrompt BY <1>1, <1>6
  <2>5. [q \in Prompts |-> phaseOf(q, u)]' = [[q \in Prompts |-> phaseOf(q, u)] EXCEPT ![p] = "settled"]
    BY <2>1
  <2>6. [q \in Prompts |-> verdictOf(q, u)]' = [[q \in Prompts |-> verdictOf(q, u)] EXCEPT ![p] = v]
    BY <2>2
  <2>7. UNCHANGED <<turns[u], {q \in cancelled \union aborted : sess[q] = u}, FALSE>> OBVIOUS
  <2> QED BY <1>6, <2>3, <2>4, <2>5, <2>6, <2>7 DEF Gate!Refuse
<1>7. QED BY <1>1, <1>2, <1>3, <1>4, <1>5, <1>6 DEF RegInv, GateStep, Gate!GateNext

LEMMA GateTakes ==
    ASSUME PromptTypes, RegistryInv, VerdictInv, NEW p \in Prompts, NEW l \in {"launch", "choosing"},
           pc[p] = "resolving", turns[sess[p]] = NoPrompt,
           turns' = [turns EXCEPT ![sess[p]] = p], pc' = [pc EXCEPT ![p] = l],
           UNCHANGED <<sess, result, cancelled, aborted>>
    PROVE  GateStep
<1>0. /\ \A q \in Prompts : pc'[q] = IF q = p THEN l ELSE pc[q]
      /\ \A s \in Sessions : turns'[s] = IF s = sess[p] THEN p ELSE turns[s]
      /\ sess[p] \in Sessions
  BY DEF PromptTypes
<1>1. ASSUME NEW s \in Sessions, s # sess[p] PROVE UNCHANGED Gate(s)!gateVars
  <2>1. \A q \in Prompts : phaseOf(q, s)' = phaseOf(q, s) /\ verdictOf(q, s)' = verdictOf(q, s)
    BY <1>0, <1>1 DEF phaseOf, verdictOf
  <2> QED BY <1>0, <1>1, <2>1 DEF Gate!gateVars
<1>2. ASSUME NEW s, s = sess[p] PROVE Gate(s)!Take(p)
  <2>1. \A q \in Prompts : phaseOf(q, s)' = IF q = p THEN "running" ELSE phaseOf(q, s)
    BY <1>0, <1>2 DEF phaseOf
  <2>2. \A q \in Prompts : verdictOf(q, s)' = verdictOf(q, s)
    BY <1>0, <1>2 DEF verdictOf, phaseOf
  <2>3. phaseOf(p, s) = "new" BY DEF phaseOf
  <2> QED BY <1>0, <1>2, <2>1, <2>2, <2>3 DEF Gate!Take
<1>3. QED BY <1>0, <1>1, <1>2 DEF GateStep, Gate!GateNext

LEMMA Registers ==
    ASSUME RowTypes, RegInv, Register
    PROVE  RegInv' /\ GateStep
<1> DEFINE p == srv.p
           l == IF srv.op = "prompt" THEN "launch" ELSE "choosing"
<1>0. PromptTypes /\ RegistryInv /\ VerdictInv BY DEF RegInv
<1>1. /\ srv.at = "resolved" /\ srv.op \in {"prompt", "model"} /\ turns[srv.s] = NoPrompt
      /\ turns' = [turns EXCEPT ![srv.s] = p]
      /\ UNCHANGED <<sess, result, cancelled, aborted>>
  BY DEF Register
<1>2. /\ pc' = [pc EXCEPT ![p] = l]
      /\ IF srv.op = "prompt" THEN srv' = Idle ELSE srv' = [srv EXCEPT !.at = "lookup"]
  BY Zenon DEF Register
<1>3. /\ p \in Prompts /\ pc[p] = "resolving" /\ sess[p] = srv.s /\ srv.s \in Sessions
      /\ \A q \in Prompts : q # p => pc[q] # "resolving"
      /\ \A q \in Prompts : pc[q] # "choosing"
  BY <1>0, <1>1 DEF RegistryInv, PromptTypes, RowTypes, Resolving, Choosing, Serving
<1>4. \/ l = "launch" /\ srv.op = "prompt" /\ srv' = Idle
      \/ /\ l = "choosing" /\ srv'.at = "lookup" /\ srv'.op = "model" /\ srv'.p = p /\ srv'.s = srv.s
         /\ srv.op = "model"
  BY <1>1, <1>2 DEF RowTypes, Serving
<1> HIDE DEF p, l
<1>5. /\ \A q \in Prompts : pc'[q] = IF q = p THEN l ELSE pc[q]
      /\ \A s \in Sessions : turns'[s] = IF s = srv.s THEN p ELSE turns[s]
      /\ l \in {"launch", "choosing"}
  BY <1>0, <1>1, <1>2, <1>3, <1>4 DEF PromptTypes
<1>6. PromptTypes' BY <1>0, <1>1, <1>2, <1>3, <1>5 DEF PromptTypes, Places
<1>7. RegistryInv'
  <2>1. \A u \in Sessions : turns'[u] # NoPrompt => sess'[turns'[u]] = u /\ pc'[turns'[u]] \in Registered
    <3>1. \A u \in Sessions : turns[u] # NoPrompt => turns[u] # p /\ turns[u] \in Prompts
      BY <1>0, <1>3 DEF RegistryInv, Registered, PromptTypes
    <3> QED BY <1>0, <1>1, <1>3, <1>5, <3>1 DEF RegistryInv, Registered
  <2>2. \A q \in Prompts : pc'[q] \in Registered => turns'[sess'[q]] = q
    <3>1. \A q \in Prompts : q # p /\ pc[q] \in Registered => sess[q] # srv.s /\ sess[q] \in Sessions
      BY <1>0, <1>1 DEF RegistryInv, PromptTypes, Registered
    <3> QED BY <1>0, <1>1, <1>3, <1>5, <3>1 DEF RegistryInv
  <2>3. \A q \in Prompts : pc'[q] # "resolving" /\ (pc'[q] = "choosing" <=> q = p /\ l = "choosing")
    BY <1>3, <1>5
  <2>4. CASE srv' = Idle
    <3>1. srv'.at \notin Resolving \union Choosing /\ srv'.op = "load" /\ srv'.p = NoPrompt /\ l # "choosing"
      BY <1>4, <2>4, RowFacts DEF Resolving, Choosing
    <3> QED BY <2>1, <2>2, <2>3, <3>1 DEF RegistryInv
  <2>5. CASE l = "choosing"
    <3>1. /\ srv'.at \in Choosing /\ srv'.at \notin Resolving /\ srv'.at # "idle"
          /\ srv'.op = "model" /\ srv'.p = p /\ srv'.s = srv.s /\ sess'[p] = srv'.s
      BY <1>1, <1>3, <1>4, <2>5, RowFacts DEF Resolving, Choosing
    <3> QED BY <1>3, <2>1, <2>2, <2>3, <2>5, <3>1 DEF RegistryInv
  <2> QED BY <1>4, <2>4, <2>5
<1>8. VerdictInv' BY <1>0, <1>1, <1>5 DEF VerdictInv, Finished, PromptTypes
<1>9. GateStep BY <1>0, <1>1, <1>2, <1>3, <1>5, GateTakes
<1>10. QED BY <1>6, <1>7, <1>8, <1>9 DEF RegInv

\* The steps of a turn between its registration and its end.
LEMMA Goes ==
    ASSUME RowTypes, RegInv, NEW p \in Prompts, NEW l \in Registered \ {"choosing", "launch"},
           NEW v, pc[p] \in Registered \ {"choosing", "unregister"},
           pc' = [pc EXCEPT ![p] = l], result' = [result EXCEPT ![p] = v],
           v = result[p] \/ v \in {"end_turn", "cancelled", "failed"},
           l \in Finished => /\ v \in {"end_turn", "cancelled", "failed"}
                             /\ v = "cancelled" => p \in cancelled \union aborted,
           UNCHANGED <<turns, sess, srv, cancelled, aborted>>
    PROVE  RegInv' /\ GateStep
<1>0. PromptTypes /\ RegistryInv /\ VerdictInv BY DEF RegInv
<1>1. /\ \A q \in Prompts : pc'[q] = IF q = p THEN l ELSE pc[q]
      /\ \A q \in Prompts : result'[q] = IF q = p THEN v ELSE result[q]
  BY <1>0 DEF PromptTypes
<1>2. PromptTypes'
  <2>1. v \in {"none", "invalid", "busy", "end_turn", "cancelled", "failed"} BY <1>0 DEF PromptTypes
  <2> QED BY <1>0, <1>1, <2>1 DEF PromptTypes, Places, Registered
<1>3. RegistryInv'
  <2>1. \A q \in Prompts : /\ pc'[q] \in Registered <=> pc[q] \in Registered
                           /\ pc'[q] = "resolving" <=> pc[q] = "resolving"
                           /\ pc'[q] = "choosing" <=> pc[q] = "choosing"
    BY <1>1 DEF Registered
  <2>2. \A s \in Sessions : turns[s] # NoPrompt => turns[s] \in Prompts BY <1>0 DEF PromptTypes
  <2> QED BY <1>0, <2>1, <2>2 DEF RegistryInv
<1>4. VerdictInv' BY <1>0, <1>1 DEF VerdictInv, Finished, Registered, PromptTypes
<1>5. ASSUME NEW s \in Sessions PROVE UNCHANGED Gate(s)!gateVars
  <2>1. \A q \in Prompts : phaseOf(q, s)' = phaseOf(q, s) BY <1>1 DEF phaseOf, Registered
  <2>2. \A q \in Prompts : verdictOf(q, s)' = verdictOf(q, s)
    BY <1>1, <2>1 DEF verdictOf, phaseOf, Registered
  <2>3. [q \in Prompts |-> phaseOf(q, s)]' = [q \in Prompts |-> phaseOf(q, s)] BY <2>1
  <2>4. [q \in Prompts |-> verdictOf(q, s)]' = [q \in Prompts |-> verdictOf(q, s)] BY <2>2
  <2> QED BY <2>3, <2>4 DEF Gate!gateVars
<1>6. QED BY <1>2, <1>3, <1>4, <1>5 DEF RegInv, GateStep

LEMMA Ends ==
    ASSUME RowTypes, RegInv, NEW p \in Prompts, NEW v \in {"end_turn", "cancelled", "failed"},
           pc[p] \in {"choosing", "unregister"},
           v = "cancelled" => p \in cancelled \union aborted,
           turns' = [turns EXCEPT ![sess[p]] = NoPrompt],
           pc' = [pc EXCEPT ![p] = "answered"], result' = [result EXCEPT ![p] = v],
           srv' = IF pc[p] = "choosing" THEN Idle ELSE srv,
           UNCHANGED <<sess, cancelled, aborted>>
    PROVE  RegInv' /\ GateStep
<1>0. PromptTypes /\ RegistryInv /\ VerdictInv BY DEF RegInv
<1>1. /\ \A q \in Prompts : pc'[q] = IF q = p THEN "answered" ELSE pc[q]
      /\ \A q \in Prompts : result'[q] = IF q = p THEN v ELSE result[q]
      /\ \A s \in Sessions : turns'[s] = IF s = sess[p] THEN NoPrompt ELSE turns[s]
      /\ sess[p] \in Sessions /\ turns[sess[p]] = p
  BY <1>0 DEF PromptTypes, RegistryInv, Registered
<1>2. PromptTypes' BY <1>0, <1>1 DEF PromptTypes, Places
<1>3. RegistryInv'
  <2>1. \A s \in Sessions : turns'[s] # NoPrompt => sess'[turns'[s]] = s /\ pc'[turns'[s]] \in Registered
    BY <1>0, <1>1 DEF RegistryInv, PromptTypes
  <2>2. \A q \in Prompts : pc'[q] \in Registered => turns'[sess'[q]] = q
    <3>1. \A q \in Prompts : q # p /\ pc[q] \in Registered => sess[q] # sess[p] /\ sess[q] \in Sessions
      BY <1>0, <1>1 DEF RegistryInv, PromptTypes, Registered
    <3> QED BY <1>0, <1>1, <3>1 DEF RegistryInv, Registered
  <2>3. CASE pc[p] = "choosing"
    <3>1. /\ \A q \in Prompts : pc[q] # "resolving" /\ (pc[q] = "choosing" => q = p)
          /\ srv' = Idle
      BY <1>0, <2>3 DEF RegistryInv, Resolving, Choosing
    <3>2. srv'.at \notin Resolving \union Choosing /\ srv'.op = "load" /\ srv'.p = NoPrompt
      BY <3>1, RowFacts DEF Resolving, Choosing
    <3> QED BY <1>1, <2>1, <2>2, <3>1, <3>2 DEF RegistryInv
  <2>4. CASE pc[p] = "unregister"
    <3>1. \A q \in Prompts : /\ pc'[q] = "resolving" <=> pc[q] = "resolving"
                             /\ pc'[q] = "choosing" <=> pc[q] = "choosing"
      BY <1>1, <2>4
    <3>2. UNCHANGED srv BY <2>4
    <3> QED BY <1>0, <2>1, <2>2, <3>1, <3>2 DEF RegistryInv
  <2> QED BY <2>3, <2>4
<1>4. VerdictInv' BY <1>0, <1>1 DEF VerdictInv, Finished, PromptTypes
<1>5. ASSUME NEW u \in Sessions, u # sess[p] PROVE UNCHANGED Gate(u)!gateVars
  <2>1. \A q \in Prompts : phaseOf(q, u)' = phaseOf(q, u) /\ verdictOf(q, u)' = verdictOf(q, u)
    BY <1>1, <1>5 DEF phaseOf, verdictOf
  <2>2. [q \in Prompts |-> phaseOf(q, u)]' = [q \in Prompts |-> phaseOf(q, u)] BY <2>1
  <2>3. [q \in Prompts |-> verdictOf(q, u)]' = [q \in Prompts |-> verdictOf(q, u)] BY <2>1
  <2> QED BY <1>1, <1>5, <2>2, <2>3 DEF Gate!gateVars
<1>6. ASSUME NEW u, u = sess[p] PROVE Gate(u)!Settle(p)
  <2>1. \A q \in Prompts : phaseOf(q, u)' = IF q = p THEN "settled" ELSE phaseOf(q, u)
    BY <1>1, <1>6 DEF phaseOf
  <2>2. \A q \in Prompts : verdictOf(q, u)' = IF q = p THEN v ELSE verdictOf(q, u)
    BY <1>1, <1>6, <2>1 DEF verdictOf, phaseOf
  <2>3. phaseOf(p, u) = "running" BY <1>6 DEF phaseOf
  <2>5. [q \in Prompts |-> phaseOf(q, u)]' = [[q \in Prompts |-> phaseOf(q, u)] EXCEPT ![p] = "settled"]
    BY <2>1
  <2>6. [q \in Prompts |-> verdictOf(q, u)]' = [[q \in Prompts |-> verdictOf(q, u)] EXCEPT ![p] = v]
    BY <2>2
  <2>7. UNCHANGED <<{q \in cancelled \union aborted : sess[q] = u}, FALSE>> OBVIOUS
  <2>8. turns[u] = p /\ turns'[u] = NoPrompt BY <1>1, <1>6
  <2>9. v = "cancelled" => p \in {q \in cancelled \union aborted : sess[q] = u} BY <1>6
  <2> QED BY <2>3, <2>5, <2>6, <2>7, <2>8, <2>9 DEF Gate!Settle
<1>7. QED BY <1>1, <1>2, <1>3, <1>4, <1>5, <1>6 DEF RegInv, GateStep, Gate!GateNext

LEMMA Asks ==
    ASSUME RowTypes, RegInv, NEW A, A \subseteq {turns[s] : s \in Sessions} \ {NoPrompt},
           cancelled' \union aborted' = (cancelled \union aborted) \union A,
           UNCHANGED <<turns, pc, sess, result, srv>>
    PROVE  RegInv' /\ GateStep
<1>0. PromptTypes /\ RegistryInv /\ VerdictInv BY DEF RegInv
<1>1. \A p \in A : p \in Prompts /\ pc[p] \in Registered /\ sess[p] \in Sessions /\ turns[sess[p]] = p
  BY <1>0 DEF PromptTypes, RegistryInv
<1>2. PromptTypes'
  <2>1. cancelled' \in SUBSET Prompts /\ aborted' \in SUBSET Prompts
    <3>1. (cancelled \union aborted) \union A \subseteq Prompts BY <1>0, <1>1 DEF PromptTypes
    <3> QED BY <3>1
  <2> QED BY <1>0, <2>1 DEF PromptTypes
<1>3. RegistryInv' BY <1>0 DEF RegistryInv
<1>4. VerdictInv'
  <2>1. \A p \in cancelled' \union aborted' : pc[p] \notin {"unsent", "resolving", "dropped"}
    BY <1>0, <1>1 DEF VerdictInv, Registered
  <2>2. \A p \in cancelled \union aborted : p \in cancelled' \union aborted' OBVIOUS
  <2> QED BY <1>0, <2>1, <2>2 DEF VerdictInv
<1>5. ASSUME NEW u \in Sessions
      PROVE  Gate(u)!GateNext \/ UNCHANGED Gate(u)!gateVars
  <2> DEFINE asked == {p \in cancelled \union aborted : sess[p] = u}
  <2>1. [p \in Prompts |-> phaseOf(p, u)]' = [p \in Prompts |-> phaseOf(p, u)] BY DEF phaseOf
  <2>2. [p \in Prompts |-> verdictOf(p, u)]' = [p \in Prompts |-> verdictOf(p, u)]
    BY DEF verdictOf, phaseOf
  <2>3. CASE turns[u] \notin A
    <3>1. {p \in cancelled' \union aborted' : sess'[p] = u} = asked BY <1>1, <2>3
    <3> QED BY <2>1, <2>2, <3>1 DEF Gate!gateVars
  <2>4. CASE turns[u] \in A
    <3>0. PICK q : q = turns[u] OBVIOUS
    <3>1. q \in Prompts /\ pc[q] \in Registered /\ sess[q] = u BY <1>0, <1>1, <2>4, <3>0 DEF RegistryInv
    <3>2. {p \in cancelled' \union aborted' : sess'[p] = u} = asked \union {q}
      BY <1>1, <2>4, <3>0, <3>1
    <3>3. phaseOf(q, u) # "new" BY <3>1 DEF phaseOf, Registered
    <3>4. UNCHANGED <<turns[u], FALSE>> OBVIOUS
    <3>5. Gate(u)!Ask(q) BY <2>1, <2>2, <3>1, <3>2, <3>3, <3>4 DEF Gate!Ask
    <3> QED BY <3>1, <3>5 DEF Gate!GateNext
  <2> QED BY <2>3, <2>4
<1>6. QED BY <1>2, <1>3, <1>4, <1>5 DEF RegInv, GateStep

LEMMA Crashes ==
    ASSUME RowTypes, RegInv, Crash
    PROVE  RegInv' /\ GateStep
<1>0. PromptTypes /\ RegistryInv /\ VerdictInv BY DEF RegInv
<1>1. /\ \A s \in Sessions : turns'[s] = NoPrompt
      /\ srv' = Idle
      /\ UNCHANGED <<sess, result, cancelled, aborted>>
      /\ turns' \in [Sessions -> Prompts \union {NoPrompt}]
      /\ pc' = [p \in Prompts |-> IF \E s \in Sessions : turns[s] = p THEN "lost"
                                  ELSE IF pc[p] = "resolving" THEN "dropped" ELSE pc[p]]
  BY DEF Crash
<1>2. \A p \in Prompts : (\E s \in Sessions : turns[s] = p) <=> pc[p] \in Registered
  BY <1>0 DEF RegistryInv, PromptTypes, Registered
<1>3. \A p \in Prompts : pc'[p] = IF pc[p] \in Registered THEN "lost"
                                  ELSE IF pc[p] = "resolving" THEN "dropped" ELSE pc[p]
  BY <1>1, <1>2
<1>4. \A p \in Prompts : pc'[p] \in Places \ (Registered \union {"resolving"})
  BY <1>0, <1>3 DEF PromptTypes, Places, Registered
<1>5. PromptTypes' BY <1>0, <1>1, <1>3, <1>4 DEF PromptTypes, Registered
<1>6. RegistryInv'
  <2>1. srv'.at \notin Resolving \union Choosing /\ srv'.op = "load" /\ srv'.p = NoPrompt
    BY <1>1, RowFacts DEF Resolving, Choosing
  <2> QED BY <1>1, <1>4, <2>1 DEF RegistryInv, Registered
<1>7. VerdictInv' BY <1>0, <1>1, <1>3, <1>4 DEF VerdictInv, Finished, Registered, PromptTypes
<1>8. ASSUME NEW u \in Sessions
      PROVE  Gate(u)!GateNext \/ UNCHANGED Gate(u)!gateVars
  <2>0. PICK q : q = turns[u] OBVIOUS
  <2>1. \A p \in Prompts : p # q =>
            phaseOf(p, u)' = phaseOf(p, u) /\ verdictOf(p, u)' = verdictOf(p, u)
    BY <1>0, <1>1, <1>3, <2>0 DEF phaseOf, verdictOf, RegistryInv, Registered
  <2>2. CASE q = NoPrompt
    <3>1. [p \in Prompts |-> phaseOf(p, u)]' = [p \in Prompts |-> phaseOf(p, u)] BY <2>1, <2>2
    <3>2. [p \in Prompts |-> verdictOf(p, u)]' = [p \in Prompts |-> verdictOf(p, u)] BY <2>1, <2>2
    <3> QED BY <1>1, <2>0, <2>2, <3>1, <3>2 DEF Gate!gateVars
  <2>3. CASE q # NoPrompt
    <3>1. q \in Prompts /\ pc[q] \in Registered /\ sess[q] = u
      BY <1>0, <2>0, <2>3 DEF RegistryInv, PromptTypes
    <3>2. phaseOf(q, u) = "running" /\ phaseOf(q, u)' = "settled" /\ verdictOf(q, u)' = "failed"
      BY <1>1, <1>3, <3>1 DEF phaseOf, verdictOf, Registered
    <3>3. [p \in Prompts |-> phaseOf(p, u)]' = [[p \in Prompts |-> phaseOf(p, u)] EXCEPT ![q] = "settled"]
      BY <2>1, <3>1, <3>2
    <3>4. [p \in Prompts |-> verdictOf(p, u)]' = [[p \in Prompts |-> verdictOf(p, u)] EXCEPT ![q] = "failed"]
      BY <2>1, <3>1, <3>2
    <3>5. UNCHANGED <<{p \in cancelled \union aborted : sess[p] = u}, FALSE>> BY <1>1
    <3>6. turns[u] = q /\ turns'[u] = NoPrompt BY <1>1, <2>0
    <3>7. Gate(u)!Settle(q) BY <3>1, <3>2, <3>3, <3>4, <3>5, <3>6 DEF Gate!Settle
    <3> QED BY <3>1, <3>7 DEF Gate!GateNext
  <2> QED BY <2>2, <2>3
<1>9. QED BY <1>5, <1>6, <1>7, <1>8 DEF RegInv, GateStep

-----------------------------------------------------------------------------
\* Steps of one prompt's goroutine, and of its agy.
LEMMA TurnMaps ==
    ASSUME Types, RegInv, NEW p \in Prompts, TurnStep(p) \/ Poll(p) \/ AgyCreates(p) \/ AgyWrites(p) \/ AgyExits(p)
    PROVE  RegInv' /\ GateStep
<1>0. RowTypes /\ PromptTypes /\ RegistryInv /\ VerdictInv BY DEF RegInv, Types
<1>1. CASE SkipLaunch(p) \/ FailLaunch(p) \/ Drain(p)
  <2>1. PICK v \in {"end_turn", "cancelled", "failed"}, l \in {"respond", "cache"} :
           /\ result' = [result EXCEPT ![p] = v] /\ pc' = [pc EXCEPT ![p] = l]
           /\ v = "cancelled" => p \in cancelled \union aborted
           /\ pc[p] \in {"launch", "running"}
    <3>1. CASE SkipLaunch(p)
      BY <3>1 DEF SkipLaunch, CtxDone
    <3>2. CASE FailLaunch(p)
      BY <3>2 DEF FailLaunch
    <3>3. CASE Drain(p)
      <4>1. pc[p] = "running" /\ \E v \in Outcomes(p) : result' = [result EXCEPT ![p] = v]
        BY <3>3 DEF Drain
      <4>2. pc' = [pc EXCEPT ![p] = "respond"] \/ pc' = [pc EXCEPT ![p] = "cache"]
        BY <3>3, Zenon DEF Drain
      <4>3. \A v \in Outcomes(p) : /\ v \in {"end_turn", "cancelled", "failed"}
                                   /\ v = "cancelled" => p \in cancelled \union aborted
        BY DEF Outcomes
      <4> QED BY <4>1, <4>2, <4>3
    <3> QED BY <1>1, <3>1, <3>2, <3>3
  <2>2. UNCHANGED <<turns, sess, srv, cancelled, aborted>> BY <1>1 DEF SkipLaunch, FailLaunch, Drain
  <2>3. l \in Registered \ {"choosing", "launch"} BY DEF Registered
  <2>4. pc[p] \in Registered \ {"choosing", "unregister"} BY <2>1 DEF Registered
  <2> QED BY <1>0, <2>1, <2>2, <2>3, <2>4, Goes
<1>2. CASE Launch(p)
  <2>1. result' = [result EXCEPT ![p] = result[p]] BY <1>0, <1>2 DEF Launch, PromptTypes
  <2>2. pc' = [pc EXCEPT ![p] = "running"] /\ UNCHANGED <<turns, sess, srv, cancelled, aborted>>
        /\ pc[p] = "launch"
    BY <1>2 DEF Launch
  <2> QED BY <1>0, <2>1, <2>2, Goes DEF Registered, Finished
<1>3. CASE CacheRow(p) \/ PersistRow(p) \/ Respond(p)
  <2>1. result' = [result EXCEPT ![p] = result[p]]
    BY <1>0, <1>3 DEF CacheRow, PersistRow, Respond, PromptTypes
  <2>2. PICK l \in {"persist", "respond", "unregister"} :
           /\ pc' = [pc EXCEPT ![p] = l] /\ UNCHANGED <<turns, sess, srv, cancelled, aborted>>
           /\ pc[p] \in {"cache", "persist", "respond"}
    BY <1>3 DEF CacheRow, PersistRow, Respond
  <2>3. result[p] \in {"end_turn", "cancelled", "failed"}
        /\ (result[p] = "cancelled" => p \in cancelled \union aborted)
    BY <1>0, <2>2 DEF VerdictInv, Finished
  <2> QED BY <1>0, <2>1, <2>2, <2>3, Goes DEF Registered
<1>4. CASE Unregister(p)
  <2>1. /\ pc[p] = "unregister" /\ pc' = [pc EXCEPT ![p] = "answered"]
        /\ UNCHANGED <<sess, srv, cancelled, aborted, result>>
    BY <1>4 DEF Unregister
  <2>2. turns[sess[p]] = p BY <1>0, <2>1 DEF RegistryInv, Registered
  <2>3. turns' = [turns EXCEPT ![sess[p]] = NoPrompt] BY <1>0, <1>4, <2>2 DEF Unregister, PromptTypes
  <2>4. result[p] \in {"end_turn", "cancelled", "failed"}
        /\ (result[p] = "cancelled" => p \in cancelled \union aborted)
    BY <1>0, <2>1 DEF VerdictInv, Finished
  <2>5. result' = [result EXCEPT ![p] = result[p]] BY <1>0, <2>1 DEF PromptTypes
  <2> QED BY <1>0, <2>1, <2>3, <2>4, <2>5, Ends
<1>5. CASE Poll(p) \/ AgyCreates(p) \/ AgyWrites(p) \/ AgyExits(p)
  BY <1>0, <1>5, Quiet DEF Poll, AgyCreates, AgyWrites, AgyExits
<1>6. QED BY <1>1, <1>2, <1>3, <1>4, <1>5 DEF TurnStep

\* Steps of Serve.
LEMMA ServeMaps ==
    ASSUME Types, RegInv, ServeStep
    PROVE  RegInv' /\ GateStep
<1>0. RowTypes /\ PromptTypes /\ RegistryInv /\ VerdictInv BY DEF RegInv, Types
<1>1. CASE Resolve
  <2>1. /\ srv.at = "resolve" /\ UNCHANGED <<turns, pc, sess, result, cancelled, aborted>>
        /\ srv'.at \in {"resolved", "read"} /\ srv'.op = srv.op /\ srv'.p = srv.p /\ srv'.s = srv.s
    BY <1>0, <1>1 DEF Resolve, RowTypes, Serving
  <2> QED BY <1>0, <2>1, Quiet DEF Resolving
<1>2. CASE ReadStore
  <2>1. CASE store[srv.s] # NoRow
    <3>1. srv' = [srv EXCEPT !.at = "restore", !.row = store[srv.s]] /\ UNCHANGED <<pc, result>>
      BY <1>2, <2>1, Zenon DEF ReadStore
    <3>2. srv.at = "read" /\ UNCHANGED <<turns, sess, cancelled, aborted>> BY <1>2 DEF ReadStore
    <3>3. srv'.at = "restore" /\ srv'.op = srv.op /\ srv'.p = srv.p /\ srv'.s = srv.s
      BY <1>0, <3>1 DEF RowTypes, Serving
    <3> QED BY <1>0, <3>1, <3>2, <3>3, Quiet DEF Resolving
  <2>2. CASE store[srv.s] = NoRow
    <3>1. /\ srv' = Idle
          /\ pc' = [p \in Prompts |-> IF p = srv.p THEN "answered" ELSE pc[p]]
          /\ result' = [p \in Prompts |-> IF p = srv.p THEN "invalid" ELSE result[p]]
      BY <1>2, <2>2, Zenon DEF ReadStore
    <3>2. srv.at = "read" /\ UNCHANGED <<turns, sess, cancelled, aborted>> BY <1>2 DEF ReadStore
    <3>3. CASE srv.p = NoPrompt
      <4>1. pc' = pc /\ result' = result BY <1>0, <3>1, <3>3 DEF PromptTypes
      <4>2. srv'.p = NoPrompt /\ srv'.op = "load" /\ srv'.at = "idle" BY <3>1, RowFacts
      <4> QED BY <1>0, <3>2, <3>3, <4>1, <4>2, RowFacts, Quiet DEF Choosing
    <3>4. CASE srv.p # NoPrompt
      <4>1. PICK p \in Prompts : p = srv.p BY <1>0, <3>4 DEF RowTypes, Serving
      <4>2. srv.at \in Resolving BY <3>2 DEF Resolving
      <4>3. PICK v \in {"invalid", "busy"} : v = "invalid" OBVIOUS
      <4>4. v = "busy" => turns[srv.s] # NoPrompt BY <4>3
      <4>5. /\ pc' = [q \in Prompts |-> IF q = p THEN "answered" ELSE pc[q]]
            /\ result' = [q \in Prompts |-> IF q = p THEN v ELSE result[q]]
        BY <3>1, <4>1, <4>3
      <4> QED BY <1>0, <3>1, <3>2, <4>1, <4>2, <4>4, <4>5, Refused
    <3> QED BY <3>3, <3>4
  <2> QED BY <2>1, <2>2
<1>3. CASE Restore
  <2>1. /\ srv.at = "restore" /\ UNCHANGED <<turns, pc, sess, result, cancelled, aborted>>
        /\ srv'.at = "resolved" /\ srv'.op = srv.op /\ srv'.p = srv.p /\ srv'.s = srv.s
    BY <1>0, <1>3 DEF Restore, RowTypes, Serving
  <2> QED BY <1>0, <2>1, Quiet DEF Resolving
<1>4. CASE ReplyLoad
  <2>1. /\ srv.op = "load" /\ UNCHANGED <<turns, pc, sess, result, cancelled, aborted>> /\ srv' = Idle
    BY <1>4 DEF ReplyLoad
  <2>2. srv.p = NoPrompt BY <1>0, <2>1 DEF RegistryInv
  <2> QED BY <1>0, <2>1, <2>2, RowFacts, Quiet DEF Choosing
<1>5. CASE Register BY <1>0, <1>5, Registers
<1>6. CASE RefuseTurn
  <2>1. /\ srv.at = "resolved" /\ srv.op \in {"prompt", "model"} /\ turns[srv.s] # NoPrompt
        /\ pc' = [pc EXCEPT ![srv.p] = "answered"] /\ result' = [result EXCEPT ![srv.p] = "busy"]
        /\ srv' = Idle /\ UNCHANGED <<turns, sess, cancelled, aborted>>
    BY <1>6 DEF RefuseTurn
  <2>2. PICK p \in Prompts : p = srv.p BY <1>0, <2>1 DEF RegistryInv, RowTypes, Serving
  <2>3. PICK v \in {"invalid", "busy"} : v = "busy" OBVIOUS
  <2>4. /\ pc' = [q \in Prompts |-> IF q = p THEN "answered" ELSE pc[q]]
        /\ result' = [q \in Prompts |-> IF q = p THEN v ELSE result[q]]
    BY <1>0, <2>1, <2>2, <2>3 DEF PromptTypes
  <2>5. srv.at \in Resolving BY <2>1 DEF Resolving
  <2>6. turns[srv.s] # NoPrompt /\ srv' = Idle /\ UNCHANGED <<turns, sess, cancelled, aborted>>
    BY <2>1
  <2> QED BY <1>0, <2>2, <2>4, <2>5, <2>6, Refused
<1>7. CASE ChooseModel
  <2>1. /\ srv.at = "lookup" \/ (srv.at = "resolved" /\ srv.op = "configure")
        /\ UNCHANGED <<turns, pc, sess, result, cancelled, aborted>>
        /\ (\E r \in Rows : Chosen(r)) \/ NotChosen
    BY <1>7, ModelChosen
  <2>2. \/ /\ srv'.at \in {"persist", "reply"}
           /\ srv'.op = srv.op /\ srv'.p = srv.p /\ srv'.s = srv.s
        \/ srv' = Idle /\ srv.op # "model"
    <3>1. ASSUME NEW r \in Rows, Chosen(r)
          PROVE  srv'.at = "persist" /\ srv'.op = srv.op /\ srv'.p = srv.p /\ srv'.s = srv.s
      BY <1>0, <3>1 DEF Chosen, RowTypes, Serving
    <3>2. CASE NotChosen BY <1>0, <3>2 DEF NotChosen, RowTypes, Serving
    <3> QED BY <2>1, <3>1, <3>2
  <2>3. srv.op \in {"model", "configure"} /\ (srv.op = "configure" => srv.p = NoPrompt)
        /\ (srv.op = "model" => srv.at = "lookup")
    BY <1>0, <2>1 DEF RegistryInv, Choosing
  <2> QED BY <1>0, <2>1, <2>2, <2>3, RowFacts, Quiet DEF Choosing
<1>8. CASE PersistModel
  <2>1. /\ srv.at = "persist" /\ UNCHANGED <<turns, pc, sess, result, cancelled, aborted>>
        /\ srv'.at = "reply" /\ srv'.op = srv.op /\ srv'.p = srv.p /\ srv'.s = srv.s
    BY <1>0, <1>8 DEF PersistModel, RowTypes, Serving
  <2> QED BY <1>0, <2>1, Quiet DEF Choosing
<1>9. CASE ReplyModel
  <2>1. srv.at = "reply" /\ srv' = Idle /\ UNCHANGED <<sess, cancelled, aborted>>
    BY <1>9 DEF ReplyModel
  <2>2. srv.op \in {"model", "configure"} BY <1>0, <2>1 DEF RegistryInv, Choosing
  <2>3. CASE srv.op = "configure"
    <3>1. UNCHANGED <<turns, pc, result>> BY <1>9, <2>3, Zenon DEF ReplyModel
    <3>2. srv.p = NoPrompt BY <1>0, <2>3 DEF RegistryInv
    <3> QED BY <1>0, <2>1, <3>1, <3>2, RowFacts, Quiet DEF Choosing
  <2>4. CASE srv.op = "model"
    <3>1. /\ turns' = [turns EXCEPT ![srv.s] = NoPrompt] /\ pc' = [pc EXCEPT ![srv.p] = "answered"]
          /\ result' = [result EXCEPT ![srv.p] = "end_turn"]
      BY <1>9, <2>4, Zenon DEF ReplyModel
    <3>2. srv.p \in Prompts /\ pc[srv.p] = "choosing" /\ sess[srv.p] = srv.s
      BY <1>0, <2>1, <2>4 DEF RegistryInv, RowTypes, Serving, Choosing
    <3> QED BY <1>0, <2>1, <3>1, <3>2, Ends
  <2> QED BY <2>2, <2>3, <2>4
<1>10. QED BY <1>1, <1>2, <1>3, <1>4, <1>5, <1>6, <1>7, <1>8, <1>9 DEF ServeStep

LEMMA StepMaps ==
    ASSUME Types, RegInv, [Next]_vars
    PROVE  RegInv' /\ GateStep
<1>0. RowTypes /\ PromptTypes /\ RegistryInv /\ VerdictInv BY DEF RegInv, Types
<1>1. ASSUME NEW s \in Sessions, NEW p \in Prompts, NEW op \in {"prompt", "model"}, SendPrompt(op, p, s)
      PROVE  RegInv' /\ GateStep
  BY <1>0, <1>1, Sends
<1>2. ASSUME NEW s \in Sessions, NEW r \in Requests, NEW op \in {"load", "configure"},
             SendRequest(op, r, s)
      PROVE  RegInv' /\ GateStep
  <2>1. /\ srv.at = "idle" /\ srv'.p = NoPrompt /\ srv'.op = op /\ srv'.at = "resolve"
        /\ UNCHANGED <<turns, pc, sess, result, cancelled, aborted>>
    BY <1>2 DEF SendRequest, MaySend
  <2>2. srv.p = NoPrompt BY <1>0, <2>1 DEF RegistryInv
  <2> QED BY <1>0, <2>1, <2>2, Quiet DEF Choosing
<1>3. ASSUME NEW s \in Sessions, CancelTurn(s) PROVE RegInv' /\ GateStep
  <2>1. /\ turns[s] # NoPrompt /\ cancelled' = cancelled \union {turns[s]}
        /\ UNCHANGED <<turns, pc, sess, result, srv, aborted>>
    BY <1>3 DEF CancelTurn
  <2> DEFINE A == {turns[s]}
  <2>2. /\ A \subseteq {turns[u] : u \in Sessions} \ {NoPrompt}
        /\ cancelled' \union aborted' = (cancelled \union aborted) \union A
    BY <2>1
  <2> HIDE DEF A
  <2> QED BY <1>0, <2>1, <2>2, Asks
<1>4. CASE Eof
  <2> DEFINE A == {turns[u] : u \in Sessions} \ {NoPrompt}
  <2>1. /\ aborted' = aborted \union A
        /\ UNCHANGED <<turns, pc, sess, result, srv, cancelled>>
    BY <1>4 DEF Eof
  <2>2. cancelled' \union aborted' = (cancelled \union aborted) \union A BY <2>1
  <2>3. A \subseteq {turns[u] : u \in Sessions} \ {NoPrompt} OBVIOUS
  <2> HIDE DEF A
  <2> QED BY <1>0, <2>1, <2>2, <2>3, Asks
<1>5. CASE Crash BY <1>0, <1>5, Crashes
<1>6. CASE ServeStep BY <1>6, ServeMaps
<1>7. ASSUME NEW p \in Prompts,
             TurnStep(p) \/ Poll(p) \/ AgyCreates(p) \/ AgyWrites(p) \/ AgyExits(p)
      PROVE  RegInv' /\ GateStep
  BY <1>7, TurnMaps
<1>8. CASE ServeReturns \/ Restart \/ (\E s \in Sessions : NewSession(s)) \/ UNCHANGED vars
  BY <1>0, <1>8, Quiet DEF ServeReturns, Restart, NewSession, vars
<1>9. QED BY <1>1, <1>2, <1>3, <1>4, <1>5, <1>6, <1>7, <1>8 DEF Next

LEMMA InitReg == Init => RegInv
BY RowFacts
DEF Init, RegInv, PromptTypes, Places, RegistryInv, VerdictInv, Registered, Finished, Resolving,
    Choosing

LEMMA NextAgyTypes ==
    ASSUME Types, KnownInv, [Next]_vars
    PROVE  AgyTypes'
<1>0. RowTypes /\ PromptTypes /\ AgyTypes BY DEF Types
<1>1. convs' \in Seq(Nat) BY ConversationsGrow
<1>2. writes' \in [Prompts -> Nat]
  <2>1. CASE UNCHANGED writes BY <1>0, <2>1 DEF AgyTypes
  <2>2. ASSUME NEW p \in Prompts, Launch(p) PROVE writes' \in [Prompts -> Nat]
    BY <1>0, <2>2 DEF Launch, AgyTypes, RowTypes, Rows
  <2>3. ASSUME NEW p \in Prompts, AgyCreates(p) PROVE writes' \in [Prompts -> Nat]
    <3>1. Len(convs') \in Nat BY <1>1
    <3> QED BY <1>0, <2>3, <3>1 DEF AgyCreates, AgyTypes
  <2>4. CASE ChooseModel BY <2>1, <2>4, ModelChosen
  <2>5. CASE ~(ChooseModel \/ \E p \in Prompts : Launch(p) \/ AgyCreates(p))
    <3>1. UNCHANGED writes
      BY <2>5
      DEF Next, vars, NewSession, CancelTurn, SendPrompt, SendRequest, ServeStep, Resolve, ReadStore,
          Restore, ReplyLoad, Register, RefuseTurn, PersistModel, ReplyModel, TurnStep, SkipLaunch,
          FailLaunch, Poll, Drain, CacheRow, PersistRow, Respond, Unregister, AgyWrites,
          AgyExits, Eof, ServeReturns, Crash, Restart
    <3> QED BY <2>1, <3>1
  <2> QED BY <2>2, <2>3, <2>4, <2>5
<1>3. born' \in SUBSET Sessions
  <2>1. CASE ChooseModel BY <1>0, <2>1, ModelChosen DEF AgyTypes
  <2>2. ASSUME NEW s \in Sessions, NewSession(s) PROVE born' \in SUBSET Sessions
    BY <1>0, <2>2 DEF NewSession, AgyTypes
  <2>3. CASE ~(ChooseModel \/ \E s \in Sessions : NewSession(s))
    <3>1. UNCHANGED born
      BY <2>3
      DEF Next, vars, CancelTurn, SendPrompt, SendRequest, ServeStep, Resolve, ReadStore,
          Restore, ReplyLoad, Register, RefuseTurn, PersistModel, ReplyModel, TurnStep, SkipLaunch,
          FailLaunch, Launch, Poll, Drain, CacheRow, PersistRow, Respond, Unregister, AgyCreates,
          AgyWrites, AgyExits, Eof, ServeReturns, Crash, Restart
    <3> QED BY <1>0, <3>1 DEF AgyTypes
  <2> QED BY <2>1, <2>2, <2>3
<1>4. QED BY <1>1, <1>2, <1>3 DEF AgyTypes

\* What any behaviour keeps: types, known rows, the registry and the verdicts.
Base == Types /\ KnownInv /\ RegInv

LEMMA BaseNext == Base /\ [Next]_vars => Base' /\ GateStep
<1>1. SUFFICES ASSUME Base, [Next]_vars PROVE Base' /\ GateStep OBVIOUS
<1>2. Types /\ KnownInv /\ RegInv BY <1>1 DEF Base
<1>3. RowTypes' /\ AgyTypes' /\ KnownInv' BY <1>1, <1>2, NextRowTypes, NextAgyTypes, NextKnown
<1>4. RegInv' /\ GateStep BY <1>1, <1>2, StepMaps
<1>5. QED BY <1>3, <1>4 DEF Base, Types, RegInv

LEMMA BaseInvariance == Spec => []Base
<1>1. Init => Base BY InitTypes, InitKnown, InitReg DEF Base
<1>2. Base /\ [Next]_vars => Base' BY BaseNext
<1>3. QED BY <1>1, <1>2, PTL DEF Spec

(***************************************************************************)
(* Each session's turns go through a gate like that of serve mode, also    *)
(* when the bridge is killed in the middle of them: one turn at a time,    *)
(* "already in progress" only while there is one, and "cancelled" only of  *)
(* a turn that session/cancel or the end of stdin had reached.             *)
(***************************************************************************)
THEOREM SessionsHaveGates == Spec => ImplementsGates
<1>1. Init => \A s \in Sessions : Gate(s)!GateInit BY GateInitMaps
<1>2. Base /\ [Next]_vars => [GateStep]_vars BY BaseNext
<1>3. Spec => (\A s \in Sessions : Gate(s)!GateInit) /\ [][GateStep]_vars
  BY <1>1, <1>2, BaseInvariance, PTL DEF Spec
<1>4. QED BY <1>3 DEF ImplementsGates, GateStep

-----------------------------------------------------------------------------
(* The rows: what is stored, cached, resolved by Serve and carried by a    *)
(* turn, against what the client was told.                                 *)

InTurn == {"launch", "running", "cache", "persist", "respond"}
Holding == {"restore", "resolved", "lookup", "persist", "reply"}

Covers(r, t) == t.conv # 0 => r.conv = t.conv /\ r.idx >= t.idx
Same(r, t) == r.conv = t.conv /\ r.idx = t.idx
Agrees(r, t) == t.model # "unsure" => r.model = t.model

Serves(s, places) == srv.at \in places /\ srv.s = s

\* The client has nothing to do with a session it was not given.
BornInv ==
    /\ \A s \in Sessions : s \notin born => store[s] = NoRow /\ told[s] = NewRow
    /\ \A s \in Sessions : told[s].conv = 0 => told[s].idx = 0
    /\ \A p \in Prompts : pc[p] # "unsent" => sess[p] \in born
    /\ srv.at # "idle" => srv.s \in born

\* Serve handles no request of a session in which a turn is under way.
Alone == \A p \in Prompts : pc[p] \in InTurn => srv.at = "idle" \/ srv.s # sess[p]

\* Wherever the next turn finds its row, it goes at least as far as the client was told.
Kept(s) ==
    /\ Covers(store[s], told[s])
    /\ sessions[s] # NoRow => Covers(sessions[s], told[s])
    /\ Serves(s, Holding) => Covers(srv.row, told[s])

Durable(s) ==
    /\ Kept(s)
    /\ \A p \in Prompts : sess[p] = s =>
          /\ pc[p] \in InTurn => Covers(row[p], told[s])
          /\ pc[p] = "respond" => Covers(store[s], row[p])
          /\ pc[p] \in {"persist", "respond"} /\ sessions[s] # NoRow => Covers(sessions[s], row[p])

\* Where no turn was cut off, it goes exactly that far.
Exact(s) ==
    /\ (\A p \in Prompts : sess[p] = s => pc[p] # "respond") => Same(store[s], told[s])
    /\ sessions[s] # NoRow /\ (\A p \in Prompts : sess[p] = s => pc[p] \notin {"persist", "respond"})
          => Same(sessions[s], told[s])
    /\ Serves(s, Holding) => Same(srv.row, told[s])
    /\ \A p \in Prompts : sess[p] = s =>
          /\ pc[p] = "launch" => Same(row[p], told[s])
          /\ pc[p] = "respond" => Same(store[s], row[p])
          /\ pc[p] \in {"persist", "respond"} /\ sessions[s] # NoRow => Same(sessions[s], row[p])

\* The model is the one the client was last told, but for a change on its way to it.
Tuned(s) ==
    /\ sessions[s] # NoRow => Agrees(sessions[s], told[s]) \/ Serves(s, {"persist", "reply"})
    /\ store[s] # NoRow => Agrees(store[s], told[s]) \/ Serves(s, {"reply"})
    /\ store[s] # NoRow /\ sessions[s] # NoRow =>
          sessions[s].model = store[s].model \/ Serves(s, {"persist"})
    /\ Serves(s, Holding) /\ sessions[s] # NoRow => sessions[s].model = srv.row.model
    /\ Serves(s, Holding \ {"persist"}) /\ store[s] # NoRow => store[s].model = srv.row.model
    /\ Serves(s, {"restore", "resolved", "lookup"}) => Agrees(srv.row, told[s])

Steady(s) ==
    /\ Tuned(s)
    /\ \A p \in Prompts : sess[p] = s /\ pc[p] \in InTurn =>
          /\ Agrees(row[p], told[s])
          /\ sessions[s] # NoRow => sessions[s].model = row[p].model
          /\ store[s] # NoRow => store[s].model = row[p].model

Sound(s) == Durable(s) /\ (CutOff(s) \/ Exact(s)) /\ Steady(s)

RowsInv == BornInv /\ Alone /\ \A s \in Sessions : Sound(s)

\* Nothing of session s changes, but that its row may be evicted.
Apart(s) ==
    /\ store'[s] = store[s] /\ told'[s] = told[s]
    /\ sessions'[s] \in {NoRow, sessions[s]}
    /\ \/ UNCHANGED srv
       \/ ~Serves(s, Holding) /\ ~Serves(s, Holding)'
    /\ \A p \in Prompts : sess[p] = s \/ sess'[p] = s =>
          \/ sess[p] = s /\ sess'[p] = s /\ pc'[p] = pc[p] /\ row'[p] = row[p]
          \/ pc[p] \notin InTurn \union {"lost"} /\ pc'[p] \notin InTurn \union {"lost"}

LEMMA ApartSound ==
    ASSUME NEW s \in Sessions, Sound(s), Apart(s)
    PROVE  Sound(s)'
<1>1. \/ UNCHANGED srv
      \/ \A H \in SUBSET Holding : ~Serves(s, H) /\ ~Serves(s, H)'
  BY DEF Apart, Serves
<1>2. \A p \in Prompts : sess'[p] = s /\ pc'[p] \in InTurn \union {"lost"} =>
          sess[p] = s /\ pc'[p] = pc[p] /\ row'[p] = row[p]
  BY DEF Apart
<1>3. \A p \in Prompts : sess[p] = s /\ pc[p] \in InTurn \union {"lost"} =>
          sess'[p] = s /\ pc'[p] = pc[p] /\ row'[p] = row[p]
  BY DEF Apart
<1>4. store'[s] = store[s] /\ told'[s] = told[s] /\ sessions'[s] \in {NoRow, sessions[s]}
  BY DEF Apart
<1>5. ASSUME NEW H \in SUBSET Holding
      PROVE  Serves(s, H)' => Serves(s, H) /\ srv' = srv
  BY <1>1, <1>5 DEF Serves
<1>6. ASSUME NEW H \in SUBSET Holding
      PROVE  Serves(s, H) => Serves(s, H)'
  BY <1>1, <1>6 DEF Serves
<1>7. Durable(s)'
  <2>1. Serves(s, Holding)' => Serves(s, Holding) /\ srv' = srv BY <1>5 DEF Holding
  <2> QED BY <1>2, <1>4, <2>1 DEF Sound, Durable, Kept, InTurn
<1>8. CutOff(s) => CutOff(s)' BY <1>3 DEF CutOff
<1>9. Exact(s) => Exact(s)'
  <2>1. Serves(s, Holding)' => Serves(s, Holding) /\ srv' = srv BY <1>5 DEF Holding
  <2> QED BY <1>2, <1>3, <1>4, <2>1 DEF Exact, InTurn
<1>10. Steady(s)'
  <2>1. /\ Serves(s, Holding)' => Serves(s, Holding) /\ srv' = srv
        /\ Serves(s, Holding \ {"persist"})' => Serves(s, Holding \ {"persist"}) /\ srv' = srv
        /\ Serves(s, {"restore", "resolved", "lookup"})' =>
              Serves(s, {"restore", "resolved", "lookup"}) /\ srv' = srv
    BY <1>5 DEF Holding
  <2>2. /\ Serves(s, {"persist", "reply"}) => Serves(s, {"persist", "reply"})'
        /\ Serves(s, {"reply"}) => Serves(s, {"reply"})'
        /\ Serves(s, {"persist"}) => Serves(s, {"persist"})'
    BY <1>6 DEF Holding
  <2> QED BY <1>2, <1>4, <2>1, <2>2 DEF Sound, Steady, Tuned
<1>11. QED BY <1>7, <1>8, <1>9, <1>10 DEF Sound

\* The same, for a session without a turn under way.
Level(s) ==
    /\ Same(store[s], told[s])
    /\ sessions[s] # NoRow => Same(sessions[s], told[s])
    /\ Serves(s, Holding) => Same(srv.row, told[s])

Rest(s) ==
    /\ \A p \in Prompts : sess[p] = s => pc[p] \notin InTurn
    /\ Kept(s) /\ (CutOff(s) \/ Level(s)) /\ Tuned(s)

LEMMA RestOfSound ==
    ASSUME NEW s \in Sessions, Sound(s), \A p \in Prompts : sess[p] = s => pc[p] \notin InTurn
    PROVE  Rest(s)
BY DEF Sound, Rest, Durable, Exact, Steady, Level, InTurn

LEMMA SoundOfRest ==
    ASSUME NEW s \in Sessions, Rest(s)'
    PROVE  Sound(s)'
<1>1. \A p \in Prompts : sess'[p] = s => pc'[p] \notin InTurn BY DEF Rest
<1>2. Durable(s)' BY <1>1 DEF Rest, Durable, InTurn
<1>3. Level(s)' => Exact(s)' BY <1>1 DEF Exact, Level, InTurn
<1>4. Steady(s)' BY <1>1 DEF Rest, Steady
<1>5. QED BY <1>2, <1>3, <1>4 DEF Rest, Sound

\* Serve handles a request of session u.
LEMMA ServeRows ==
    ASSUME Base, RowsInv, ServeStep, NEW u \in Sessions, u = srv.s
    PROVE  /\ Alone' /\ Sound(u)'
           /\ \A s \in Sessions \ {u} : Apart(s)
<1>0. RowTypes /\ PromptTypes /\ RegistryInv BY DEF Base, Types, RegInv
<1>1. BornInv /\ Alone /\ Sound(u) BY DEF RowsInv
<1> DEFINE Done == Alone' /\ Sound(u)' /\ \A s \in Sessions \ {u} : Apart(s)
<1>2. /\ srv.at # "idle" /\ srv.row \in Rows
      /\ \A p \in Prompts : sess[p] = u => pc[p] \notin InTurn
  <2>1. srv.at # "idle"
    BY ModelChosen DEF ServeStep, Resolve, ReadStore, Restore, ReplyLoad, Register, RefuseTurn,
       PersistModel, ReplyModel, Base
  <2> QED BY <1>0, <1>1, <2>1 DEF Alone, RowTypes, Serving
<1>3. Rest(u) BY <1>1, <1>2, RestOfSound
\* The steps that register no turn.
<1>4. ASSUME \A p \in Prompts : \/ pc'[p] = pc[p]
                                \/ sess[p] = u /\ pc[p] \notin InTurn \union {"lost"}
                                               /\ pc'[p] \notin InTurn \union {"lost"},
             UNCHANGED <<sess, row>>, srv' = Idle \/ srv'.s = u,
             \A s \in Sessions \ {u} : /\ store'[s] = store[s] /\ told'[s] = told[s]
                                       /\ sessions'[s] \in {NoRow, sessions[s]},
             Kept(u)', CutOff(u) \/ Level(u) => CutOff(u) \/ Level(u)', Tuned(u)'
      PROVE  Done
  <2>1. ASSUME NEW s \in Sessions \ {u} PROVE Apart(s) BY <1>2, <1>4, <2>1, RowFacts DEF Apart, Serves, Holding
  <2>2. Alone' BY <1>1, <1>2, <1>4, RowFacts DEF Alone
  <2>3. CutOff(u) => CutOff(u)' BY <1>4 DEF CutOff
  <2>4. Rest(u)' BY <1>2, <1>3, <1>4, <2>3 DEF Rest
  <2> QED BY <2>1, <2>2, <2>4, SoundOfRest
<1>r. /\ Kept(u) /\ (CutOff(u) \/ Level(u)) /\ Tuned(u)
      /\ \A p \in Prompts : sess[p] = u => pc[p] \notin InTurn
  BY <1>3 DEF Rest
<1>5. CASE Resolve
  <2>1. /\ srv.at = "resolve" /\ UNCHANGED <<sessions, store, told, pc, sess, row>>
        /\ srv'.s = u
        /\ \/ srv'.at = "resolved" /\ srv'.row = sessions[u] /\ sessions[u] # NoRow
           \/ srv'.at = "read"
    BY <1>0, <1>5 DEF Resolve, RowTypes, Serving
  <2>2. Kept(u)' BY <1>r, <2>1 DEF Kept, Serves, Holding
  <2>3. Level(u) => Level(u)' BY <2>1 DEF Level, Serves, Holding
  <2>4. Tuned(u)' BY <1>r, <2>1 DEF Tuned, Serves, Holding
  <2> QED BY <1>4, <2>1, <2>2, <2>3, <2>4
<1>6. CASE ReadStore
  <2>1. srv.at = "read" /\ UNCHANGED <<sessions, store, told, sess, row>> BY <1>6 DEF ReadStore
  <2>2. CASE store[u] # NoRow
    <3>1. srv' = [srv EXCEPT !.at = "restore", !.row = store[u]] /\ UNCHANGED pc
      BY <1>6, <2>2, Zenon DEF ReadStore
    <3>2. srv'.s = u /\ srv'.at = "restore" /\ srv'.row = store[u] BY <1>0, <3>1 DEF RowTypes, Serving
    <3>3. Kept(u)' BY <1>r, <2>1, <3>2 DEF Kept, Serves, Holding
    <3>4. Level(u) => Level(u)' BY <2>1, <3>2 DEF Level, Serves, Holding
    <3>5. Tuned(u)' BY <1>r, <2>1, <2>2, <3>2 DEF Tuned, Serves, Holding
    <3> QED BY <1>4, <2>1, <3>1, <3>2, <3>3, <3>4, <3>5
  <2>3. CASE store[u] = NoRow
    <3>1. srv' = Idle /\ pc' = [p \in Prompts |-> IF p = srv.p THEN "answered" ELSE pc[p]]
      BY <1>6, <2>3, Zenon DEF ReadStore
    <3>2. \A p \in Prompts : p = srv.p => pc[p] = "resolving" /\ sess[p] = u
      BY <1>0, <2>1 DEF RegistryInv, Resolving
    <3>3. \A p \in Prompts : \/ pc'[p] = pc[p]
                             \/ sess[p] = u /\ pc[p] \notin InTurn \union {"lost"}
                                            /\ pc'[p] \notin InTurn \union {"lost"}
      BY <3>1, <3>2 DEF InTurn
    <3>4. srv'.at = "idle" BY <3>1, RowFacts
    <3>5. Kept(u)' BY <1>r, <2>1, <3>4 DEF Kept, Serves, Holding
    <3>6. Level(u) => Level(u)' BY <2>1, <3>4 DEF Level, Serves, Holding
    <3>7. Tuned(u)' BY <1>r, <2>1, <2>3, <3>4 DEF Tuned, Serves, Holding
    <3> QED BY <1>4, <2>1, <3>1, <3>3, <3>5, <3>6, <3>7
  <2> QED BY <2>2, <2>3
<1>7. CASE Restore
  <2>1. /\ srv.at = "restore" /\ UNCHANGED <<store, told, pc, sess, row>> /\ SetSession(u, srv.row)
        /\ srv'.s = u /\ srv'.at = "resolved" /\ srv'.row = srv.row
    BY <1>0, <1>7 DEF Restore, RowTypes, Serving
  <2>2. \A s \in Sessions : sessions'[s] \in {NoRow, IF s = u THEN srv.row ELSE sessions[s]}
    BY <1>0, <1>2, <2>1, Cached
  <2>3. Kept(u)' BY <1>r, <2>1, <2>2 DEF Kept, Serves, Holding
  <2>4. Level(u) => Level(u)' BY <2>1, <2>2 DEF Level, Serves, Holding
  <2>5. Tuned(u)' BY <1>r, <2>1, <2>2 DEF Tuned, Serves, Holding
  <2> QED BY <1>4, <2>1, <2>2, <2>3, <2>4, <2>5
\* The client is told the row's model.
<1>8. ASSUME told' = [told EXCEPT ![u].model = srv.row.model], srv' = Idle,
             srv.at \in Holding \ {"persist"}, UNCHANGED <<sessions, store>>
      PROVE  /\ \A s \in Sessions \ {u} : told'[s] = told[s]
             /\ Kept(u)' /\ (CutOff(u) \/ Level(u) => CutOff(u) \/ Level(u)') /\ Tuned(u)'
  <2>1. /\ told'[u].conv = told[u].conv /\ told'[u].idx = told[u].idx /\ told'[u].model = srv.row.model
        /\ \A s \in Sessions \ {u} : told'[s] = told[s]
    BY <1>0, <1>8 DEF RowTypes, Told
  <2>2. srv'.at = "idle" BY <1>8, RowFacts
  <2>3. Kept(u)' BY <1>r, <1>8, <2>1, <2>2 DEF Kept, Serves, Holding, Covers
  <2>4. Level(u) => Level(u)' BY <1>8, <2>1, <2>2 DEF Level, Serves, Holding, Same
  <2>5. Tuned(u)' BY <1>r, <1>8, <2>1, <2>2 DEF Tuned, Serves, Holding, Agrees
  <2> QED BY <2>1, <2>3, <2>4, <2>5
<1>9. CASE ReplyLoad
  <2>1. /\ told' = [told EXCEPT ![u].model = srv.row.model] /\ srv' = Idle /\ srv.at = "resolved"
        /\ UNCHANGED <<sessions, store, pc, sess, row>>
    BY <1>9 DEF ReplyLoad
  <2> QED BY <1>4, <1>8, <2>1 DEF Holding
<1>10. CASE ReplyModel
  <2>1. /\ told' = [told EXCEPT ![u].model = srv.row.model] /\ srv' = Idle /\ srv.at = "reply"
        /\ UNCHANGED <<sessions, store, sess, row>>
    BY <1>10 DEF ReplyModel
  <2>2. \A p \in Prompts : \/ pc'[p] = pc[p]
                           \/ sess[p] = u /\ pc[p] \notin InTurn \union {"lost"}
                                          /\ pc'[p] \notin InTurn \union {"lost"}
    <3>1. UNCHANGED pc \/ (srv.op = "model" /\ pc' = [pc EXCEPT ![srv.p] = "answered"])
      BY <1>10, Zenon DEF ReplyModel
    <3>2. srv.op = "model" => srv.p \in Prompts /\ pc[srv.p] = "choosing" /\ sess[srv.p] = u
      BY <1>0, <2>1 DEF RegistryInv, RowTypes, Serving, Choosing
    <3> QED BY <1>0, <3>1, <3>2 DEF InTurn, PromptTypes
  <2> QED BY <1>4, <1>8, <2>1, <2>2 DEF Holding
<1>11. CASE Register
  <2>1. /\ srv.at = "resolved" /\ srv.op \in {"prompt", "model"} /\ UNCHANGED <<sessions, store, told, sess>>
        /\ row' = [row EXCEPT ![srv.p] = srv.row]
    BY <1>11 DEF Register
  <2>2. \/ pc' = [pc EXCEPT ![srv.p] = "launch"] /\ srv' = Idle
        \/ pc' = [pc EXCEPT ![srv.p] = "choosing"] /\ srv' = [srv EXCEPT !.at = "lookup"]
    BY <1>11, Zenon DEF Register
  <2>3. PICK p \in Prompts : p = srv.p /\ pc[p] = "resolving" /\ sess[p] = u
    BY <1>0, <2>1 DEF RegistryInv, RowTypes, Serving, Resolving
  <2>4. /\ row'[p] = srv.row /\ \A q \in Prompts : q # p => row'[q] = row[q] /\ pc'[q] = pc[q]
        /\ \/ pc'[p] = "launch" /\ srv'.at = "idle"
           \/ pc'[p] = "choosing" /\ srv'.at = "lookup" /\ srv'.s = u /\ srv'.row = srv.row
    BY <1>0, <2>1, <2>2, <2>3, RowFacts DEF PromptTypes, RowTypes, Serving
  <2>5. ASSUME NEW s \in Sessions \ {u} PROVE Apart(s)
    BY <1>2, <2>1, <2>3, <2>4, <2>5, RowFacts DEF Apart, Serves, Holding
  <2>6. Alone' BY <1>1, <1>2, <2>1, <2>3, <2>4 DEF Alone, InTurn
  <2>7. CutOff(u) => CutOff(u)' BY <2>1, <2>3, <2>4 DEF CutOff
  <2>8. Kept(u)' BY <1>r, <2>1, <2>4 DEF Kept, Serves, Holding
  <2>9. Level(u) => Level(u)' BY <2>1, <2>4 DEF Level, Serves, Holding
  <2>10. Tuned(u)' BY <1>r, <2>1, <2>4 DEF Tuned, Serves, Holding
  <2>11. CASE pc'[p] = "choosing"
    <3>1. \A q \in Prompts : sess'[q] = u => pc'[q] \notin InTurn BY <1>r, <2>1, <2>4, <2>11 DEF InTurn
    <3>2. Rest(u)' BY <1>r, <2>7, <2>8, <2>9, <2>10, <3>1 DEF Rest
    <3> QED BY <2>5, <2>6, <3>2, SoundOfRest
  <2>12. CASE pc'[p] = "launch"
    <3>1. \A q \in Prompts : sess'[q] = u /\ pc'[q] \in InTurn => q = p /\ row'[q] = srv.row
      BY <1>r, <2>1, <2>4
    <3>2. Serves(u, Holding) /\ Serves(u, Holding \ {"persist"}) /\ Serves(u, {"restore", "resolved", "lookup"})
      BY <2>1 DEF Serves, Holding
    <3>3. Durable(u)' BY <1>r, <2>1, <2>8, <2>12, <3>1, <3>2 DEF Durable, Kept, InTurn
    <3>4. Level(u) => Exact(u)'
      BY <2>1, <2>4, <2>9, <2>12, <3>1, <3>2 DEF Level, Exact, InTurn
    <3>5. Steady(u)' BY <1>r, <2>1, <2>10, <3>1, <3>2 DEF Steady, Tuned
    <3> QED BY <1>r, <2>5, <2>6, <2>7, <3>3, <3>4, <3>5 DEF Sound
  <2> QED BY <2>4, <2>11, <2>12
<1>12. CASE RefuseTurn
  <2>1. /\ srv.at = "resolved" /\ srv.op \in {"prompt", "model"} /\ srv' = Idle
        /\ UNCHANGED <<sessions, store, told, sess, row>> /\ pc' = [pc EXCEPT ![srv.p] = "answered"]
    BY <1>12 DEF RefuseTurn
  <2>2. \A p \in Prompts : p = srv.p => pc[p] = "resolving" /\ sess[p] = u
    BY <1>0, <2>1 DEF RegistryInv, Resolving
  <2>3. \A p \in Prompts : \/ pc'[p] = pc[p]
                           \/ sess[p] = u /\ pc[p] \notin InTurn \union {"lost"}
                                          /\ pc'[p] \notin InTurn \union {"lost"}
    BY <1>0, <2>1, <2>2 DEF InTurn, PromptTypes
  <2>4. srv'.at = "idle" BY <2>1, RowFacts
  <2>5. Kept(u)' BY <1>r, <2>1, <2>4 DEF Kept, Serves, Holding
  <2>6. Level(u) => Level(u)' BY <2>1, <2>4 DEF Level, Serves, Holding
  <2>7. Tuned(u)' BY <1>r, <2>1, <2>4 DEF Tuned, Serves, Holding
  <2> QED BY <1>4, <2>1, <2>3, <2>5, <2>6, <2>7
<1>13. CASE ChooseModel
  <2>1. /\ srv.at \in {"lookup", "resolved"} /\ UNCHANGED <<store, told, pc, sess, row>>
        /\ (\E r \in Rows : Chosen(r)) \/ NotChosen
        /\ srv.op \in {"model", "configure"} /\ (srv.op = "model" => srv.at = "lookup")
    BY <1>0, <1>13, ModelChosen DEF Base, RegistryInv, Choosing
  <2>2. CASE NotChosen
    <3>1. /\ UNCHANGED sessions
          /\ \/ srv'.at = "reply" /\ srv'.s = u /\ srv'.row = srv.row
             \/ srv' = Idle
      BY <1>0, <2>2 DEF NotChosen, RowTypes, Serving
    <3>2. Kept(u)' BY <1>r, <2>1, <3>1, RowFacts DEF Kept, Serves, Holding
    <3>3. Level(u) => Level(u)' BY <2>1, <3>1, RowFacts DEF Level, Serves, Holding
    <3>4. Tuned(u)' BY <1>r, <2>1, <3>1, RowFacts DEF Tuned, Serves, Holding
    <3> QED BY <1>4, <2>1, <3>1, <3>2, <3>3, <3>4
  <2>3. ASSUME NEW r \in Rows, Chosen(r) PROVE Done
    <3>1. /\ r.conv = srv.row.conv /\ r.idx = srv.row.idx
          /\ \A s \in Sessions : sessions'[s] \in {NoRow, IF s = u THEN r ELSE sessions[s]}
      BY <2>3 DEF Chosen
    <3>2. srv'.at = "persist" /\ srv'.s = u /\ srv'.row = r
      BY <1>0, <2>3 DEF Chosen, RowTypes, Serving
    <3>3. Kept(u)' BY <1>r, <2>1, <3>1, <3>2 DEF Kept, Serves, Holding, Covers
    <3>4. Level(u) => Level(u)' BY <2>1, <3>1, <3>2 DEF Level, Serves, Holding, Same
    <3>5. Tuned(u)' BY <1>r, <2>1, <3>1, <3>2 DEF Tuned, Serves, Holding
    <3> QED BY <1>4, <2>1, <3>1, <3>2, <3>3, <3>4, <3>5
  <2> QED BY <2>1, <2>2, <2>3
<1>14. CASE PersistModel
  <2>1. /\ srv.at = "persist" /\ UNCHANGED <<sessions, told, pc, sess, row>>
        /\ srv'.at = "reply" /\ srv'.s = u /\ srv'.row = srv.row
        /\ store'[u] = srv.row /\ \A s \in Sessions \ {u} : store'[s] = store[s]
    BY <1>0, <1>14 DEF PersistModel, RowTypes, Serving
  <2>2. Kept(u)' BY <1>r, <2>1 DEF Kept, Serves, Holding
  <2>3. Level(u) => Level(u)' BY <2>1 DEF Level, Serves, Holding
  <2>4. Tuned(u)' BY <1>r, <2>1 DEF Tuned, Serves, Holding
  <2> QED BY <1>4, <2>1, <2>2, <2>3, <2>4
<1>15. QED BY <1>5, <1>6, <1>7, <1>9, <1>10, <1>11, <1>12, <1>13, <1>14 DEF ServeStep

\* The turn of prompt p goes on, in session s.
LEMMA TurnRows ==
    ASSUME Base, RowsInv, NEW p \in Prompts, NEW s \in Sessions, s = sess[p], TurnStep(p) \/ Poll(p)
    PROVE  /\ Alone' /\ Sound(s)'
           /\ \A u \in Sessions \ {s} : Apart(u)
<1>0. RowTypes /\ PromptTypes /\ RegistryInv /\ AgyTypes /\ KnownInv BY DEF Base, Types, RegInv
<1>1. BornInv /\ Alone /\ Sound(s) BY DEF RowsInv
<1> DEFINE Done == Alone' /\ Sound(s)' /\ \A u \in Sessions \ {s} : Apart(u)
<1>2. CASE Unregister(p)
  <2>1. /\ UNCHANGED <<sessions, store, told, srv, sess, row>>
        /\ pc[p] = "unregister" /\ pc' = [pc EXCEPT ![p] = "answered"]
    BY <1>2 DEF Unregister
  <2>2. pc'[p] = "answered" /\ \A q \in Prompts : q # p => pc'[q] = pc[q]
    BY <1>0, <2>1 DEF PromptTypes
  <2>3. \A u \in Sessions : Apart(u) BY <2>1, <2>2 DEF Apart, InTurn
  <2>4. Alone' BY <1>1, <2>1, <2>2 DEF Alone, InTurn
  <2> QED BY <1>1, <2>3, <2>4, ApartSound
<1>3. SUFFICES ASSUME ~Unregister(p) PROVE Done BY <1>2
<1>4. /\ pc[p] \in InTurn /\ UNCHANGED <<srv, sess>>
      /\ \A q \in Prompts : q # p => pc'[q] = pc[q]
      /\ pc'[p] \in Places
  BY <1>0, <1>3 DEF TurnStep, SkipLaunch, FailLaunch, Launch, Poll, Drain, CacheRow, PersistRow, Respond,
                    InTurn, PromptTypes, Places
<1>5. \A q \in Prompts : sess[q] = s /\ (pc[q] \in InTurn \/ pc'[q] \in InTurn) => q = p
  BY <1>0, <1>4 DEF RegistryInv, InTurn, Registered
<1>6. \A H : "idle" \notin H => ~Serves(s, H) /\ ~Serves(s, H)'
  BY <1>1, <1>4 DEF Alone, Serves
<1>7. ~Serves(s, Holding) /\ ~Serves(s, Holding)' /\ ~Serves(s, {"persist", "reply"})
      /\ ~Serves(s, {"reply"}) /\ ~Serves(s, {"persist"}) /\ ~Serves(s, Holding \ {"persist"})'
      /\ ~Serves(s, {"restore", "resolved", "lookup"})'
  BY <1>6 DEF Holding
<1>8. Alone' BY <1>1, <1>4 DEF Alone
<1>9. CutOff(s) => CutOff(s)' BY <1>4 DEF CutOff, InTurn
<1>10. ASSUME \A u \in Sessions \ {s} : /\ store'[u] = store[u] /\ told'[u] = told[u]
                                        /\ sessions'[u] \in {NoRow, sessions[u]},
              \A q \in Prompts : q # p => row'[q] = row[q],
              Durable(s)', Exact(s) \/ CutOff(s) => Exact(s)' \/ CutOff(s), Steady(s)'
       PROVE  Done
  <2>1. \A u \in Sessions \ {s} : Apart(u) BY <1>4, <1>10 DEF Apart
  <2>2. Sound(s)' BY <1>1, <1>9, <1>10 DEF Sound
  <2> QED BY <1>8, <2>1, <2>2
<1>11. /\ Durable(s) /\ (Exact(s) \/ CutOff(s)) /\ Steady(s) BY <1>1 DEF Sound
<1>12. row[p] \in Rows /\ Known(row[p], convs) /\ convs \in Seq(Nat)
  BY <1>0 DEF RowTypes, KnownInv, AgyTypes
\* The row stays as it was launched.
<1>13. CASE SkipLaunch(p) \/ FailLaunch(p) \/ Launch(p)
  <2>1. /\ UNCHANGED <<sessions, store, told, row>> /\ pc[p] = "launch"
        /\ pc'[p] = "running" \/ pc'[p] = "cache" \/ (pc'[p] = "respond" /\ row[p].conv = 0)
    BY <1>0, <1>13 DEF SkipLaunch, FailLaunch, Launch, PromptTypes
  <2>2. Durable(s)' BY <1>4, <1>5, <1>7, <1>11, <2>1 DEF Durable, Kept, Covers, InTurn
  <2>3. Exact(s) => Exact(s)'
    <3>1. ASSUME Exact(s) PROVE Same(store[s], told[s]) /\ Same(row[p], told[s])
                                /\ (sessions[s] # NoRow => Same(sessions[s], told[s]))
      BY <1>4, <1>5, <2>1, <3>1 DEF Exact, InTurn
    <3> QED BY <1>4, <1>5, <1>7, <2>1, <3>1 DEF Exact, Same, InTurn
  <2>4. Steady(s)' BY <1>4, <1>5, <1>7, <1>11, <2>1 DEF Steady, Tuned, InTurn
  <2> QED BY <1>10, <2>1, <2>2, <2>3, <2>4
\* It moves on with the conversation.
<1>14. ASSUME Bound(p) # 0, NEW n \in Nat, n >= row[p].idx, ReadRows(p, n),
              UNCHANGED <<sessions, store, told>>, pc[p] = "running", pc'[p] \in {"running", "cache"}
       PROVE  Done
  <2>1. /\ row'[p].conv = Bound(p) /\ row'[p].idx = n /\ row'[p].model = row[p].model
        /\ \A q \in Prompts : q # p => row'[q] = row[q]
    BY <1>0, <1>14 DEF ReadRows, RowTypes, Rows
  <2>2. Covers(row'[p], told[s])
    <3>1. Covers(row[p], told[s]) BY <1>4, <1>11 DEF Durable
    <3>2. told[s].idx \in Nat /\ row[p].idx \in Nat BY <1>0, <1>12 DEF RowTypes, Told, Rows
    <3>3. row[p].conv # 0 => Bound(p) = row[p].conv BY DEF Bound
    <3> QED BY <1>14, <2>1, <3>1, <3>2, <3>3 DEF Covers
  <2>3. Durable(s)' BY <1>4, <1>5, <1>7, <1>11, <1>14, <2>1, <2>2 DEF Durable, Kept, InTurn
  <2>4. Exact(s) => Exact(s)'
    <3>1. ASSUME Exact(s) PROVE Same(store[s], told[s])
                                /\ (sessions[s] # NoRow => Same(sessions[s], told[s]))
      BY <1>4, <1>5, <1>14, <3>1 DEF Exact, InTurn
    <3> QED BY <1>4, <1>5, <1>7, <1>14, <3>1 DEF Exact, InTurn
  <2>5. Steady(s)' BY <1>4, <1>5, <1>7, <1>11, <1>14, <2>1 DEF Steady, Tuned, InTurn, Agrees
  <2> QED BY <1>10, <1>14, <2>1, <2>3, <2>4, <2>5
<1>15. ASSUME Bound(p) # 0 PROVE Bound(p) \in DOMAIN convs /\ convs[Bound(p)] \in Nat
                                 /\ convs[Bound(p)] >= row[p].idx
  <2>1. CASE row[p].conv # 0
    <3>1. Bound(p) = row[p].conv BY <2>1 DEF Bound
    <3> QED BY <1>12, <2>1, <3>1 DEF Known, Rows
  <2>2. CASE row[p].conv = 0
    <3>1. Bound(p) = Len(convs) BY <1>15, <2>2 DEF Bound
    <3>2. row[p].idx = 0 BY <1>12, <2>2 DEF Known
    <3> QED BY <1>12, <1>15, <3>1, <3>2
  <2> QED BY <2>1, <2>2
<1>16. CASE Poll(p)
  <2>1. /\ Bound(p) # 0 /\ ReadRows(p, convs[Bound(p)]) /\ pc[p] = "running" /\ pc'[p] = "running"
        /\ UNCHANGED <<sessions, store, told>>
    BY <1>16 DEF Poll
  <2> QED BY <1>14, <1>15, <2>1
<1>17. CASE Drain(p)
  <2>1. pc[p] = "running" /\ UNCHANGED <<sessions, store, told>> BY <1>17 DEF Drain
  <2>2. CASE Bound(p) # 0
    <3>1. pc'[p] = "cache" /\ \E n \in row[p].idx..convs[Bound(p)] : ReadRows(p, n)
      BY <1>0, <1>17, <2>2 DEF Drain, PromptTypes
    <3>2. PICK n \in row[p].idx..convs[Bound(p)] : ReadRows(p, n) BY <3>1
    <3>3. n \in Nat /\ n >= row[p].idx BY <1>12, <1>15, <2>2, <3>2 DEF Rows
    <3> QED BY <1>14, <2>1, <2>2, <3>1, <3>2, <3>3
  <2>3. CASE Bound(p) = 0
    <3>1. pc'[p] = "respond" /\ UNCHANGED row BY <1>0, <1>17, <2>3 DEF Drain, PromptTypes
    <3>2. row[p].conv = 0 /\ row[p].idx = 0 BY <1>12, <2>3 DEF Bound, Known
    <3>3. Covers(row[p], told[s]) BY <1>4, <1>11 DEF Durable
    <3>4. Same(row[p], told[s]) BY <1>1, <3>2, <3>3 DEF Covers, Same, BornInv
    <3>5. Durable(s)' BY <1>4, <1>5, <1>7, <1>11, <2>1, <3>1, <3>2 DEF Durable, Kept, Covers, InTurn
    <3>6. Exact(s) => Exact(s)'
      <4>1. ASSUME Exact(s) PROVE Same(store[s], told[s])
                                  /\ (sessions[s] # NoRow => Same(sessions[s], told[s]))
        BY <1>4, <1>5, <2>1, <4>1 DEF Exact, InTurn
      <4> QED BY <1>4, <1>5, <1>7, <2>1, <3>1, <3>4, <4>1 DEF Exact, Same, InTurn
    <3>7. Steady(s)' BY <1>4, <1>5, <1>7, <1>11, <2>1, <3>1 DEF Steady, Tuned, InTurn
    <3> QED BY <1>10, <2>1, <3>1, <3>5, <3>6, <3>7
  <2> QED BY <2>2, <2>3
\* It is written to the cache, and then to the store.
<1>18. CASE CacheRow(p)
  <2>1. /\ pc[p] = "cache" /\ pc'[p] = "persist" /\ UNCHANGED <<store, told, row>> /\ SetSession(s, row[p])
    BY <1>0, <1>18 DEF CacheRow, PromptTypes
  <2>2. \A u \in Sessions : sessions'[u] \in {NoRow, IF u = s THEN row[p] ELSE sessions[u]}
    BY <1>0, <1>12, <2>1, Cached
  <2>3. Covers(row[p], row[p]) /\ Same(row[p], row[p]) BY <1>12 DEF Covers, Same, Rows
  <2>4. Durable(s)' BY <1>4, <1>5, <1>7, <1>11, <2>1, <2>2, <2>3 DEF Durable, Kept, InTurn
  <2>5. Exact(s) => Exact(s)'
    <3>1. ASSUME Exact(s) PROVE Same(store[s], told[s]) BY <1>4, <1>5, <2>1, <3>1 DEF Exact, InTurn
    <3> QED BY <1>4, <1>5, <1>7, <2>1, <2>2, <2>3, <3>1 DEF Exact, InTurn
  <2>6. Steady(s)' BY <1>4, <1>5, <1>7, <1>11, <2>1, <2>2 DEF Steady, Tuned, InTurn
  <2> QED BY <1>10, <2>1, <2>2, <2>4, <2>5, <2>6
<1>19. CASE PersistRow(p)
  <2>1. /\ pc[p] = "persist" /\ pc'[p] = "respond" /\ UNCHANGED <<sessions, told, row>>
        /\ store'[s] = row[p] /\ \A u \in Sessions \ {s} : store'[u] = store[u]
    BY <1>0, <1>19 DEF PersistRow, PromptTypes, RowTypes
  <2>2. Covers(row[p], row[p]) /\ Same(row[p], row[p]) BY <1>12 DEF Covers, Same, Rows
  <2>3. Durable(s)' BY <1>4, <1>5, <1>7, <1>11, <2>1, <2>2 DEF Durable, Kept, InTurn
  <2>4. Exact(s) => Exact(s)' BY <1>4, <1>5, <1>7, <2>1, <2>2 DEF Exact, InTurn
  <2>5. Steady(s)' BY <1>4, <1>5, <1>7, <1>11, <2>1 DEF Steady, Tuned, InTurn
  <2> QED BY <1>10, <2>1, <2>3, <2>4, <2>5
\* The client is told it.
<1>20. CASE Respond(p)
  <2>1. /\ pc[p] = "respond" /\ pc'[p] = "unregister" /\ UNCHANGED <<sessions, store, row>>
        /\ told' = [told EXCEPT ![s].conv = row[p].conv, ![s].idx = row[p].idx]
    BY <1>0, <1>20 DEF Respond, PromptTypes
  <2>2. /\ told'[s].conv = row[p].conv /\ told'[s].idx = row[p].idx /\ told'[s].model = told[s].model
        /\ \A u \in Sessions \ {s} : told'[u] = told[u]
    BY <1>0, <2>1 DEF RowTypes, Told
  <2>3. \A q \in Prompts : sess'[q] = s => pc'[q] \notin InTurn BY <1>4, <1>5, <2>1 DEF InTurn
  <2>4. Kept(s)' BY <1>4, <1>7, <1>11, <2>1, <2>2 DEF Durable, Kept, Covers
  <2>5. Level(s)' \/ CutOff(s)
    <3>1. ASSUME Exact(s) PROVE Same(store[s], row[p]) /\ (sessions[s] # NoRow => Same(sessions[s], row[p]))
      BY <1>4, <2>1, <3>1 DEF Exact
    <3> QED BY <1>4, <1>7, <1>11, <2>1, <2>2, <3>1 DEF Level, Same
  <2>6. Tuned(s)' BY <1>7, <1>11, <2>1, <2>2 DEF Steady, Tuned, Agrees
  <2>7. Rest(s)' BY <1>9, <2>3, <2>4, <2>5, <2>6 DEF Rest
  <2>8. \A u \in Sessions \ {s} : Apart(u) BY <1>4, <2>1, <2>2 DEF Apart
  <2> QED BY <1>8, <2>7, <2>8, SoundOfRest
<1>21. QED BY <1>3, <1>13, <1>16, <1>17, <1>18, <1>19, <1>20 DEF TurnStep

\* A new session starts without turn or conversation.
LEMMA NewRows ==
    ASSUME Base, RowsInv, NEW s \in Sessions, NewSession(s)
    PROVE  /\ Alone' /\ Sound(s)'
           /\ \A u \in Sessions \ {s} : Apart(u)
<1>0. RowTypes /\ PromptTypes BY DEF Base, Types, RegInv
<1>1. BornInv /\ Alone BY DEF RowsInv
<1>2. /\ srv.at = "idle" /\ s \notin born /\ SetSession(s, NewRow)
      /\ UNCHANGED <<store, told, srv, pc, sess, row>>
  BY DEF NewSession
<1>3. \A u \in Sessions : sessions'[u] \in {NoRow, IF u = s THEN NewRow ELSE sessions[u]}
  BY <1>0, <1>2, RowFacts, Cached
<1>4. /\ store[s] = NoRow /\ told[s] = NewRow
      /\ \A p \in Prompts : sess[p] = s => pc[p] = "unsent"
  BY <1>1, <1>2 DEF BornInv
<1>5. Rest(s)'
  <2>1. \A p \in Prompts : sess'[p] = s => pc'[p] \notin InTurn BY <1>2, <1>4 DEF InTurn
  <2>2. \A H \in SUBSET Holding : ~Serves(s, H)' BY <1>2 DEF Serves, Holding
  <2>3. Kept(s)' BY <1>2, <1>4, <2>2 DEF Kept, Covers, NewRow, Holding
  <2>4. Level(s)'
    <3>1. Same(NoRow, NewRow) /\ Same(NewRow, NewRow) BY DEF Same, NoRow, NewRow
    <3> QED BY <1>2, <1>3, <1>4, <2>2, <3>1 DEF Level
  <2>5. Tuned(s)'
    <3>1. Agrees(NewRow, NewRow) BY DEF Agrees
    <3>2. ~Serves(s, Holding)' /\ ~Serves(s, Holding \ {"persist"})'
          /\ ~Serves(s, {"restore", "resolved", "lookup"})'
      BY <2>2 DEF Holding
    <3> QED BY <1>2, <1>3, <1>4, <3>1, <3>2 DEF Tuned
  <2> QED BY <2>1, <2>3, <2>4, <2>5 DEF Rest
<1>6. \A u \in Sessions \ {s} : Apart(u) BY <1>2, <1>3 DEF Apart
<1>7. Alone' BY <1>1, <1>2 DEF Alone
<1>8. QED BY <1>5, <1>6, <1>7, SoundOfRest

\* A request is sent in a session without an open prompt.
LEMMA SendRows ==
    ASSUME Overlap = {}, Base, RowsInv, NEW s \in Sessions, NEW op,
           \/ \E p \in Prompts : SendPrompt(op, p, s)
           \/ \E r \in Requests : SendRequest(op, r, s)
    PROVE  Alone' /\ \A u \in Sessions : Apart(u)
<1>0. RowTypes /\ PromptTypes BY DEF Base, Types, RegInv
<1>1. /\ srv.at = "idle" /\ ~Open(s) /\ srv'.at = "resolve" /\ srv'.s = s
      /\ UNCHANGED <<sessions, store, told, row>>
  BY DEF SendPrompt, SendRequest, MaySend
<1>2. \A q \in Prompts : \/ sess'[q] = sess[q] /\ pc'[q] = pc[q]
                         \/ pc[q] = "unsent" /\ pc'[q] = "resolving"
  BY <1>0 DEF SendPrompt, SendRequest, PromptTypes
<1>3. \A q \in Prompts : sess[q] = s => pc[q] \notin InTurn BY <1>1 DEF Open, InTurn
<1>4. Alone' BY <1>1, <1>2, <1>3 DEF Alone, InTurn
<1>5. ASSUME NEW u \in Sessions PROVE Apart(u)
  BY <1>1, <1>2 DEF Apart, Serves, Holding, InTurn
<1>6. QED BY <1>4, <1>5

\* The bridge is killed: the turns under way are cut off, and an answer about the
\* model may have been on its way.
LEMMA CrashRows ==
    ASSUME Base, RowsInv, Crash
    PROVE  Alone' /\ \A s \in Sessions : Sound(s)'
<1>0. RowTypes /\ PromptTypes /\ RegistryInv BY DEF Base, Types, RegInv
<1>1. /\ sessions' = [s \in Sessions |-> NoRow] /\ srv' = Idle /\ UNCHANGED <<store, sess, row>>
      /\ pc' = [p \in Prompts |-> IF \E s \in Sessions : turns[s] = p THEN "lost"
                                  ELSE IF pc[p] = "resolving" THEN "dropped" ELSE pc[p]]
  BY DEF Crash
<1>2. \A p \in Prompts : pc'[p] = IF pc[p] \in Registered THEN "lost"
                                  ELSE IF pc[p] = "resolving" THEN "dropped" ELSE pc[p]
  BY <1>0, <1>1 DEF RegistryInv, Registered, PromptTypes
<1>3. \A p \in Prompts : /\ pc'[p] \notin InTurn
                         /\ pc[p] \in InTurn \union {"lost"} => pc'[p] = "lost"
  BY <1>2 DEF InTurn, Registered
<1>4. srv'.at = "idle" BY <1>1, RowFacts
<1>5. ASSUME NEW s \in Sessions
      PROVE  /\ told'[s].conv = told[s].conv /\ told'[s].idx = told[s].idx
             /\ told'[s].model = IF Serves(s, {"reply"}) THEN "unsure" ELSE told[s].model
  <2>1. told' = IF srv.at = "reply" THEN [told EXCEPT ![srv.s].model = "unsure"] ELSE told
    BY DEF Crash
  <2> QED BY <1>0, <2>1 DEF RowTypes, Told, Serves
<1>6. ASSUME NEW s \in Sessions PROVE Rest(s)'
  <2>1. Durable(s) /\ (CutOff(s) \/ Exact(s)) /\ Steady(s) BY DEF RowsInv, Sound
  <2>2. sessions'[s] = NoRow BY <1>1
  <2>3. ~Serves(s, Holding)' /\ ~Serves(s, Holding \ {"persist"})'
        /\ ~Serves(s, {"restore", "resolved", "lookup"})'
    BY <1>4 DEF Serves, Holding
  <2>4. Kept(s)' BY <1>1, <1>5, <2>1, <2>2, <2>3 DEF Durable, Kept, Covers
  <2>5. Tuned(s)' BY <1>1, <1>5, <2>1, <2>2, <2>3 DEF Steady, Tuned, Agrees
  <2>6. CutOff(s)' \/ Level(s)'
    <3>1. CutOff(s) => CutOff(s)' BY <1>1, <1>3 DEF CutOff
    <3>2. CASE Exact(s) /\ ~CutOff(s)'
      <4>1. \A p \in Prompts : sess[p] = s => pc[p] \notin InTurn BY <1>1, <1>3, <3>2 DEF CutOff
      <4>2. Same(store[s], told[s]) BY <3>2, <4>1 DEF Exact, InTurn
      <4> QED BY <1>1, <1>5, <2>2, <2>3, <4>2 DEF Level, Same
    <3> QED BY <2>1, <3>1, <3>2
  <2> QED BY <1>1, <1>3, <2>4, <2>5, <2>6 DEF Rest
<1>7. Alone' BY <1>3 DEF Alone
<1>8. QED BY <1>6, <1>7, SoundOfRest

LEMMA SoundNext ==
    ASSUME Overlap = {}, Base, RowsInv, [Next]_vars
    PROVE  Alone' /\ \A s \in Sessions : Sound(s)'
<1>0. RowTypes /\ PromptTypes /\ RegistryInv BY DEF Base, Types, RegInv
<1>1. Alone /\ \A s \in Sessions : Sound(s) BY DEF RowsInv
<1>2. ASSUME NEW s \in Sessions, NewSession(s) PROVE Alone' /\ \A u \in Sessions : Sound(u)'
  BY <1>1, <1>2, NewRows, ApartSound
<1>3. ASSUME NEW s \in Sessions, NEW op,
             \/ \E p \in Prompts : SendPrompt(op, p, s)
             \/ \E r \in Requests : SendRequest(op, r, s)
      PROVE  Alone' /\ \A u \in Sessions : Sound(u)'
  BY <1>1, <1>3, SendRows, ApartSound
<1>4. CASE ServeStep
  <2>1. srv.s \in Sessions
    BY <1>0, <1>4, ModelChosen
    DEF ServeStep, Resolve, ReadStore, Restore, ReplyLoad, Register, RefuseTurn,
        PersistModel, ReplyModel, Base, RowTypes
  <2> QED BY <1>1, <1>4, <2>1, ServeRows, ApartSound
<1>5. ASSUME NEW p \in Prompts, TurnStep(p) \/ Poll(p) PROVE Alone' /\ \A u \in Sessions : Sound(u)'
  <2>1. sess[p] \in Sessions
    BY <1>0, <1>5
    DEF TurnStep, SkipLaunch, FailLaunch, Launch, Poll, Drain, CacheRow, PersistRow, Respond, Unregister,
        PromptTypes
  <2> QED BY <1>1, <1>5, <2>1, TurnRows, ApartSound
<1>6. CASE Crash BY <1>6, CrashRows
<1>7. ASSUME UNCHANGED <<store, told, srv, pc, sess, row>>,
             \A u \in Sessions : sessions'[u] \in {NoRow, sessions[u]}
      PROVE  Alone' /\ \A u \in Sessions : Sound(u)'
  <2>1. \A u \in Sessions : Apart(u) BY <1>7 DEF Apart
  <2>2. Alone' BY <1>1, <1>7 DEF Alone
  <2> QED BY <1>1, <2>1, <2>2, ApartSound
<1>8. CASE \/ \E s \in Sessions : CancelTurn(s)
           \/ \E p \in Prompts : AgyCreates(p) \/ AgyWrites(p) \/ AgyExits(p)
           \/ Eof \/ ServeReturns \/ Restart \/ UNCHANGED vars
  BY <1>7, <1>8 DEF CancelTurn, AgyCreates, AgyWrites, AgyExits, Eof, ServeReturns, Restart, vars
<1>9. QED BY <1>2, <1>3, <1>4, <1>5, <1>6, <1>8 DEF Next

\* Rows are written only for sessions the client was given.
LEMMA BornNext ==
    ASSUME Base, RowsInv, [Next]_vars
    PROVE  BornInv'
<1>0. RowTypes /\ PromptTypes /\ RegistryInv /\ KnownInv BY DEF Base, Types, RegInv
<1>1. BornInv BY DEF RowsInv
<1>2. ASSUME born \subseteq born',
             \A s \in Sessions : s \notin born => store'[s] = store[s] /\ told'[s] = told[s],
             \A s \in Sessions : told'[s].conv = 0 => told'[s].idx = 0,
             \A p \in Prompts : pc'[p] # "unsent" => sess'[p] = sess[p] /\ pc[p] # "unsent",
             srv'.at # "idle" => srv'.s = srv.s /\ srv.at # "idle"
      PROVE  BornInv'
  BY <1>1, <1>2 DEF BornInv
<1>3. ASSUME NEW s \in Sessions, NewSession(s) PROVE BornInv'
  BY <1>1, <1>2, <1>3 DEF NewSession, BornInv
<1>4. ASSUME NEW s \in Sessions, NEW op,
             \/ \E p \in Prompts : SendPrompt(op, p, s)
             \/ \E r \in Requests : SendRequest(op, r, s)
      PROVE  BornInv'
  <2>1. /\ s \in born /\ srv'.s = s /\ UNCHANGED <<born, store, told>>
    BY <1>4 DEF SendPrompt, SendRequest, MaySend
  <2>2. \A q \in Prompts : pc'[q] # "unsent" => sess'[q] = s \/ (sess'[q] = sess[q] /\ pc[q] # "unsent")
    BY <1>0, <1>4 DEF SendPrompt, SendRequest, PromptTypes
  <2> QED BY <1>1, <2>1, <2>2 DEF BornInv
<1>5. CASE ServeStep
  <2>1. /\ srv.at # "idle" /\ srv.s \in Sessions /\ UNCHANGED <<born, sess>>
    BY <1>0, <1>5, ModelChosen
    DEF ServeStep, Resolve, ReadStore, Restore, ReplyLoad, Register, RefuseTurn,
        PersistModel, ReplyModel, Base, RowTypes
  <2>2. srv.s \in born BY <1>1, <2>1 DEF BornInv
  <2>3. \A s \in Sessions \ {srv.s} : Apart(s) BY <1>5, <2>1, ServeRows
  <2>4. \A s \in Sessions : s \notin born => store'[s] = store[s] /\ told'[s] = told[s]
    BY <2>2, <2>3 DEF Apart
  <2>5. \A s \in Sessions : told'[s].conv = 0 => told'[s].idx = 0
    <3>1. UNCHANGED told \/ told' = [told EXCEPT ![srv.s].model = srv.row.model]
      BY <1>5, ModelChosen
      DEF ServeStep, Resolve, ReadStore, Restore, ReplyLoad, Register, RefuseTurn,
          PersistModel, ReplyModel, Base
    <3>2. \A s \in Sessions : told'[s].conv = told[s].conv /\ told'[s].idx = told[s].idx
      BY <1>0, <3>1 DEF RowTypes, Told
    <3> QED BY <1>1, <3>2 DEF BornInv
  <2>6. srv'.at # "idle" => srv'.s = srv.s
    <3>1. CASE ChooseModel
      <4>1. (\E r \in Rows : Chosen(r)) \/ NotChosen BY <3>1, ModelChosen DEF Base
      <4>2. ASSUME NEW r \in Rows, Chosen(r) PROVE srv'.s = srv.s
        BY <1>0, <4>2 DEF Chosen, RowTypes, Serving
      <4>3. CASE NotChosen BY <1>0, <4>3, RowFacts DEF NotChosen, RowTypes, Serving
      <4> QED BY <4>1, <4>2, <4>3
    <3>2. CASE ReadStore
      <4>1. srv' = Idle \/ srv' = [srv EXCEPT !.at = "restore", !.row = store[srv.s]]
        BY <3>2, Zenon DEF ReadStore
      <4> QED BY <1>0, <4>1, RowFacts DEF RowTypes, Serving
    <3>3. CASE Register
      <4>1. srv' = Idle \/ srv' = [srv EXCEPT !.at = "lookup"] BY <3>3, Zenon DEF Register
      <4> QED BY <1>0, <4>1, RowFacts DEF RowTypes, Serving
    <3>4. CASE Resolve BY <1>0, <3>4 DEF Resolve, RowTypes, Serving
    <3>5. CASE Restore \/ PersistModel BY <1>0, <3>5 DEF Restore, PersistModel, RowTypes, Serving
    <3>6. CASE ReplyLoad \/ RefuseTurn \/ ReplyModel
      BY <3>6, RowFacts DEF ReplyLoad, RefuseTurn, ReplyModel
    <3> QED BY <1>5, <3>1, <3>2, <3>3, <3>4, <3>5, <3>6 DEF ServeStep
  <2>7. \A p \in Prompts : pc'[p] # "unsent" => pc[p] # "unsent"
    <3>1. UNCHANGED pc \/ \A p \in Prompts : pc'[p] = pc[p] \/ p = srv.p
      <4>1. CASE ReadStore
        <5>1. UNCHANGED pc \/ pc' = [p \in Prompts |-> IF p = srv.p THEN "answered" ELSE pc[p]]
          BY <4>1, Zenon DEF ReadStore
        <5> QED BY <5>1
      <4>2. CASE ~ReadStore
        BY <1>0, <1>5, <4>2, ModelChosen
        DEF ServeStep, Resolve, Restore, ReplyLoad, Register, RefuseTurn, PersistModel, ReplyModel, Base,
            PromptTypes
      <4> QED BY <4>1, <4>2
    <3>2. UNCHANGED pc \/ \A p \in Prompts : p = srv.p => pc[p] # "unsent"
      BY <1>0, <2>1 DEF RegistryInv, RowTypes, Serving, Resolving, Choosing
    <3> QED BY <3>1, <3>2
  <2> QED BY <1>2, <2>1, <2>4, <2>5, <2>6, <2>7
<1>6. ASSUME NEW p \in Prompts, TurnStep(p) \/ Poll(p) PROVE BornInv'
  <2>1. /\ pc[p] # "unsent" /\ sess[p] \in Sessions /\ UNCHANGED <<born, sess, srv>>
        /\ \A q \in Prompts : q # p => pc'[q] = pc[q]
    BY <1>0, <1>6
    DEF TurnStep, SkipLaunch, FailLaunch, Launch, Poll, Drain, CacheRow, PersistRow, Respond, Unregister,
        PromptTypes
  <2>2. sess[p] \in born BY <1>1, <2>1 DEF BornInv
  <2>3. \A s \in Sessions \ {sess[p]} : Apart(s) BY <1>6, <2>1, TurnRows
  <2>4. \A s \in Sessions : s \notin born => store'[s] = store[s] /\ told'[s] = told[s]
    BY <2>2, <2>3 DEF Apart
  <2>5. \A s \in Sessions : told'[s].conv = 0 => told'[s].idx = 0
    <3>1. CASE UNCHANGED told BY <1>1, <3>1 DEF BornInv
    <3>2. CASE Respond(p)
      <4>1. told'[sess[p]].conv = row[p].conv /\ told'[sess[p]].idx = row[p].idx
        BY <1>0, <2>1, <3>2 DEF Respond, RowTypes, Told
      <4>2. row[p].conv = 0 => row[p].idx = 0 BY <1>0 DEF KnownInv, Known
      <4> QED BY <1>1, <2>3, <4>1, <4>2 DEF BornInv, Apart
    <3> QED
      BY <1>6, <3>1, <3>2
      DEF TurnStep, SkipLaunch, FailLaunch, Launch, Poll, Drain, CacheRow, PersistRow, Unregister
  <2> QED BY <1>2, <2>1, <2>4, <2>5
<1>7. CASE Crash
  <2>1. /\ UNCHANGED <<born, store, sess>> /\ srv'.at = "idle"
        /\ pc' = [p \in Prompts |-> IF \E s \in Sessions : turns[s] = p THEN "lost"
                                    ELSE IF pc[p] = "resolving" THEN "dropped" ELSE pc[p]]
        /\ told' = IF srv.at = "reply" THEN [told EXCEPT ![srv.s].model = "unsure"] ELSE told
    BY <1>7, RowFacts DEF Crash
  <2>2. \A s \in Sessions : /\ s # srv.s \/ srv.at = "idle" => told'[s] = told[s]
                            /\ told'[s].conv = told[s].conv /\ told'[s].idx = told[s].idx
    BY <1>0, <2>1 DEF RowTypes, Told
  <2>3. \A p \in Prompts : pc[p] = "unsent" => \A s \in Sessions : turns[s] # p
    BY <1>0 DEF RegistryInv, Registered, PromptTypes
  <2>4. \A p \in Prompts : pc'[p] # "unsent" => pc[p] # "unsent" BY <2>1, <2>3
  <2>5. srv.at # "idle" => srv.s \in born BY <1>1 DEF BornInv
  <2>6. \A s \in Sessions : s \notin born => told'[s] = told[s] BY <2>2, <2>5
  <2>7. \A s \in Sessions : told'[s].conv = 0 => told'[s].idx = 0 BY <1>1, <2>2 DEF BornInv
  <2> QED BY <1>2, <2>1, <2>4, <2>6, <2>7
<1>8. CASE \/ \E s \in Sessions : CancelTurn(s)
           \/ \E p \in Prompts : AgyCreates(p) \/ AgyWrites(p) \/ AgyExits(p)
           \/ Eof \/ ServeReturns \/ Restart \/ UNCHANGED vars
  BY <1>1, <1>8
  DEF BornInv, CancelTurn, AgyCreates, AgyWrites, AgyExits, Eof, ServeReturns, Restart, vars
<1>9. QED BY <1>3, <1>4, <1>5, <1>6, <1>7, <1>8 DEF Next

LEMMA InitRows == Init => RowsInv
<1> SUFFICES ASSUME Init PROVE RowsInv OBVIOUS
<1>1. /\ \A s \in Sessions : sessions[s] = NoRow /\ store[s] = NoRow /\ told[s] = NewRow
      /\ \A p \in Prompts : pc[p] = "unsent"
      /\ srv.at = "idle"
  BY RowFacts DEF Init
<1>2. BornInv BY <1>1 DEF BornInv, NewRow
<1>3. Alone BY <1>1 DEF Alone
<1>4. \A H : "idle" \notin H => \A s \in Sessions : ~Serves(s, H) BY <1>1 DEF Serves
<1>5. Covers(NoRow, NewRow) /\ Same(NoRow, NewRow) BY DEF Covers, Same, NoRow, NewRow
<1>6. ASSUME NEW s \in Sessions PROVE Sound(s)
  <2>1. ~Serves(s, Holding) /\ ~Serves(s, Holding \ {"persist"})
        /\ ~Serves(s, {"restore", "resolved", "lookup"})
    BY <1>4 DEF Holding
  <2>2. Durable(s) BY <1>1, <1>5, <2>1 DEF Durable, Kept, InTurn
  <2>3. Exact(s) BY <1>1, <1>5, <2>1 DEF Exact
  <2>4. Steady(s) BY <1>1, <2>1 DEF Steady, Tuned, InTurn
  <2> QED BY <2>2, <2>3, <2>4 DEF Sound
<1>7. QED BY <1>2, <1>3, <1>6 DEF RowsInv

LEMMA RowsInvariance == ASSUME Overlap = {} PROVE Spec => [](Base /\ RowsInv)
<1>1. Init => RowsInv BY InitRows
<1>2. Base /\ RowsInv /\ [Next]_vars => RowsInv' BY SoundNext, BornNext DEF RowsInv
<1>3. QED BY <1>1, <1>2, BaseInvariance, PTL DEF Spec

(***************************************************************************)
(* When the client waits for the answer to a prompt before it asks for     *)
(* anything else of that session, what it was told is on disk: no          *)
(* eviction, restart or kill of the bridge loses rows it has seen          *)
(* answered.                                                               *)
(***************************************************************************)
THEOREM ToldIsDurableHolds == ASSUME Overlap = {} PROVE Spec => []ToldIsDurable
<1>1. RowsInv => ToldIsDurable BY DEF RowsInv, Sound, Durable, Kept, Covers, ToldIsDurable
<1>2. QED BY <1>1, RowsInvariance, PTL

\* A step that starts a turn: the action of TurnResumes.
Resumption ==
    \A p \in Prompts :
      pc[p] # "launch" /\ pc'[p] = "launch" =>
         LET r == row'[p]
             t == told[sess[p]]
         IN  /\ t.conv # 0 => r.conv = t.conv /\ r.idx >= t.idx
             /\ <<r.conv, r.idx>> # <<t.conv, t.idx>> => CutOff(sess[p])
             /\ t.model # "unsure" => r.model = t.model

LEMMA StepResumes == ASSUME Base, RowsInv, [Next]_vars PROVE Resumption
<1>0. RowTypes /\ PromptTypes /\ RegistryInv BY DEF Base, Types, RegInv
<1>1. SUFFICES ASSUME NEW p \in Prompts, pc[p] # "launch", pc'[p] = "launch"
               PROVE  LET r == row'[p]
                          t == told[sess[p]]
                      IN  /\ t.conv # 0 => r.conv = t.conv /\ r.idx >= t.idx
                          /\ <<r.conv, r.idx>> # <<t.conv, t.idx>> => CutOff(sess[p])
                          /\ t.model # "unsure" => r.model = t.model
  BY DEF Resumption
<1>2. Register /\ srv.p = p
  <2>1. CASE Register BY <1>0, <1>1, <2>1 DEF Register, PromptTypes
  <2>2. CASE ReadStore
    <3>1. UNCHANGED pc \/ pc' = [q \in Prompts |-> IF q = srv.p THEN "answered" ELSE pc[q]]
      BY <2>2, Zenon DEF ReadStore
    <3> QED BY <1>1, <3>1
  <2>3. CASE Crash BY <1>1, <2>3 DEF Crash
  <2>4. CASE ~(Register \/ ReadStore \/ Crash)
    <3>1. CASE ChooseModel BY <1>1, <3>1, ModelChosen DEF Base
    <3>2. ASSUME NEW q \in Prompts, TurnStep(q) \/ Poll(q) PROVE FALSE
      BY <1>0, <1>1, <3>2
      DEF TurnStep, SkipLaunch, FailLaunch, Launch, Poll, Drain, CacheRow, PersistRow, Respond,
          Unregister, PromptTypes
    <3>3. ASSUME NEW s \in Sessions, NEW op, NEW q \in Prompts, SendPrompt(op, q, s) PROVE FALSE
      BY <1>0, <1>1, <3>3 DEF SendPrompt, PromptTypes
    <3> QED
      BY <1>0, <1>1, <2>4, <3>1, <3>2, <3>3
      DEF Next, vars, NewSession, CancelTurn, SendRequest, ServeStep, Resolve, Restore, ReplyLoad, RefuseTurn,
          PersistModel, ReplyModel, AgyCreates, AgyWrites, AgyExits, Eof, ServeReturns, Restart, PromptTypes
  <2> QED BY <2>1, <2>2, <2>3, <2>4
<1>3. /\ srv.at = "resolved" /\ srv.op \in {"prompt", "model"} /\ row'[p] = srv.row
      /\ srv.s \in Sessions /\ sess[p] = srv.s
  BY <1>0, <1>2 DEF Register, RegistryInv, RowTypes
<1>4. /\ Serves(srv.s, Holding) /\ Serves(srv.s, {"restore", "resolved", "lookup"})
      /\ Sound(srv.s)
  BY <1>3 DEF Serves, Holding, RowsInv
<1>5. /\ Covers(srv.row, told[srv.s]) /\ Agrees(srv.row, told[srv.s])
      /\ CutOff(srv.s) \/ Same(srv.row, told[srv.s])
  BY <1>4 DEF Sound, Durable, Kept, Exact, Steady, Tuned
<1>6. QED BY <1>3, <1>5 DEF Covers, Agrees, Same

(***************************************************************************)
(* Then every turn starts in the conversation, at the row and with the      *)
(* model the client was last told of, whether its row was found in the     *)
(* cache or restored from disk; unless a turn was cut off unanswered, or   *)
(* the answer about a model.                                               *)
(***************************************************************************)
THEOREM TurnResumesHolds == ASSUME Overlap = {} PROVE Spec => TurnResumes
<1>1. Base /\ RowsInv /\ [Next]_vars => [Resumption]_vars BY StepResumes
<1>2. Spec => [][Resumption]_vars BY <1>1, RowsInvariance, PTL DEF Spec
<1>3. QED BY <1>2 DEF Resumption, TurnResumes
=============================================================================
