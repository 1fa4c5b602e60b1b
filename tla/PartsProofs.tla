------------------------------ MODULE PartsProofs ------------------------------
(***************************************************************************)
(* Proofs about three of the parts around the turns, for any number of     *)
(* dials, connections, skills and calls: ServeProcess's children,          *)
(* SkillSync's mirror and Replay's pairs.                                  *)
(***************************************************************************)
EXTENDS ServeProcess, SkillSync, Replay, TLAPS, SequenceTheorems

--------------------------------------------------------------------------------
(***************************************************************************)
(* ServeProcess.  That no child is orphaned needs that a dial is past its  *)
(* LockDialer exactly while it holds the dialer's mutex, and that there is *)
(* no active child in that time.                                           *)
(***************************************************************************)
DialStates == [pc : {"idle", "locking", "spawning", "spawned", "failed", "ready", "dropped"},
               expired : BOOLEAN]

Mains == [pc : {"serving", "closing client", "closing dialer", "exited"}, listening : BOOLEAN]
Dialers == [holder : Dials \union {NoDial}, closed : BOOLEAN, active : Dials \union {NoDial}]
ChildStates == {"none", "live", "told", "gone"}

ServeTypeOK ==
    /\ main \in Mains
    /\ dial \in [Dials -> DialStates]
    /\ dialer \in Dialers
    /\ child \in [Dials -> ChildStates]

\* The mutex: who holds it is tearing down, spawning or about to publish.
MutexInv ==
    /\ \A d \in Dials : dial[d].pc \in {"spawning", "spawned"} <=> dialer.holder = d
    /\ dialer.holder # NoDial => dialer.active = NoDial

\* A child's stdin is open only while it is the active one or its dial is under way.
Attended ==
    \A d \in Dials :
        child[d] = "live" =>
            /\ ~Exited
            /\ dialer.active = d \/ (dialer.holder = d /\ dial[d].pc = "spawned")

ServeInv == ServeTypeOK /\ MutexInv /\ Attended

\* The variables the invariant speaks of.
dialVars == <<main, dial, dialer, child>>

LEMMA ServeInitInv == ServeInit => ServeInv
<1> SUFFICES ASSUME ServeInit PROVE ServeInv OBVIOUS
<1>1. ServeTypeOK
  BY DEF ServeInit, ServeTypeOK, Mains, DialStates, Dialers, ChildStates
<1>2. MutexInv BY ServeAssumption DEF ServeInit, MutexInv
<1>3. Attended BY DEF ServeInit, Attended
<1> QED BY <1>1, <1>2, <1>3 DEF ServeInv

LEMMA ServeStutter == ServeInv /\ UNCHANGED dialVars => ServeInv'
BY DEF dialVars, ServeInv, ServeTypeOK, MutexInv, Attended, Exited

\* A dial that moves on leaves the others where they are.
LEMMA DialMoves ==
    ASSUME ServeInv, NEW d \in Dials, NEW s \in DialStates, dial' = [dial EXCEPT ![d] = s]
    PROVE  /\ dial' \in [Dials -> DialStates]
           /\ dial'[d] = s
           /\ \A e \in Dials : e # d => dial'[e] = dial[e]
BY DEF ServeInv, ServeTypeOK

LEMMA DialGoes ==
    ASSUME ServeInv, NEW d \in Dials,
           NEW pc \in {"locking", "spawning", "spawned", "failed", "ready", "dropped"},
           dial' = [dial EXCEPT ![d].pc = pc]
    PROVE  /\ dial' \in [Dials -> DialStates]
           /\ dial'[d].pc = pc
           /\ \A e \in Dials : e # d => dial'[e] = dial[e]
<1> DEFINE s == [dial[d] EXCEPT !.pc = pc]
<1>1. dial[d] \in DialStates BY DEF ServeInv, ServeTypeOK
<1>2. s \in DialStates /\ s.pc = pc BY <1>1 DEF DialStates
<1>3. dial' = [dial EXCEPT ![d] = s] OBVIOUS
<1> HIDE DEF s
<1> QED BY <1>2, <1>3, DialMoves

\* What the closing of a connection leaves of the children.
LEMMA Closing ==
    ASSUME ServeInv, NEW d \in Dials \union {NoDial}
    PROVE  /\ CloseConn(d) \in [Dials -> ChildStates]
           /\ \A e \in Dials : CloseConn(d)[e] = "live" <=> child[e] = "live" /\ e # d
<1>1. child \in [Dials -> ChildStates] /\ NoDial \notin Dials
  BY ServeAssumption DEF ServeInv, ServeTypeOK
<1> QED BY <1>1 DEF CloseConn, ChildStates

\* The listener, the connections and the signal touch no child, and neither they
\* nor the end of the client let the process exit.
LEMMA ListenerInv ==
    ASSUME ServeInv,
           \/ \E s \in Sockets : Accept(s) \/ ListSocket(s) \/ SocketCloses(s)
           \/ Sigterm \/ CloseListener \/ CloseSockets \/ ServingEnds \/ CloseClient
    PROVE  ServeInv'
<1>1. CASE \/ \E s \in Sockets : Accept(s) \/ ListSocket(s) \/ SocketCloses(s)
           \/ Sigterm \/ CloseSockets
  <2>1. UNCHANGED dialVars
    BY <1>1 DEF Accept, ListSocket, SocketCloses, Sigterm, CloseSockets, dialVars
  <2> QED BY <2>1, ServeStutter
<1>2. CASE CloseListener \/ ServingEnds
  <2>1. main \in Mains BY DEF ServeInv, ServeTypeOK
  <2>2. main' \in Mains /\ (main'.pc = "exited" => main.pc = "exited")
        /\ UNCHANGED <<dial, dialer, child>>
    BY <1>2, <2>1 DEF CloseListener, ServingEnds, Mains
  <2> QED BY <2>2 DEF ServeInv, ServeTypeOK, MutexInv, Attended, Exited
<1>3. CASE CloseClient
  <2>1. main \in Mains /\ \A d \in Dials : dial[d] \in DialStates
    BY DEF ServeInv, ServeTypeOK
  <2>2. main' \in Mains /\ main'.pc # "exited" /\ UNCHANGED <<dialer, child>>
    BY <1>3, <2>1 DEF CloseClient, Mains
  <2>3. \A d \in Dials :
          /\ [dial[d] EXCEPT !.expired = TRUE] \in DialStates
          /\ [dial[d] EXCEPT !.expired = TRUE].pc = dial[d].pc
    BY <2>1 DEF DialStates
  <2>4. dial' = [d \in Dials |-> [dial[d] EXCEPT !.expired = TRUE]] BY <1>3 DEF CloseClient
  <2>5. /\ dial' \in [Dials -> DialStates]
        /\ \A d \in Dials : dial'[d].pc = dial[d].pc
    BY <2>3, <2>4
  <2> QED BY <2>2, <2>5 DEF ServeInv, ServeTypeOK, MutexInv, Attended, Exited
<1> QED BY <1>1, <1>2, <1>3

\* Dialer.Close takes the mutex, so that no dial is under way, and the active child.
LEMMA CloseDialerInv ==
    ASSUME ServeInv, CloseDialer
    PROVE  ServeInv'
<1>1. ServeTypeOK /\ MutexInv /\ Attended /\ NoDial \notin Dials
  BY ServeAssumption DEF ServeInv
<1>2. main' \in Mains /\ dialer' \in Dialers /\ UNCHANGED dial
  BY <1>1 DEF CloseDialer, ServeTypeOK, Mains, Dialers
<1>3. dialer.holder = NoDial /\ dialer'.holder = NoDial /\ dialer'.active = NoDial
  BY <1>1 DEF CloseDialer, ServeTypeOK, Dialers
<1>4. dialer.active \in Dials \union {NoDial} BY <1>1 DEF ServeTypeOK, Dialers
<1>5. /\ child' \in [Dials -> ChildStates]
      /\ \A e \in Dials : child'[e] = "live" <=> child[e] = "live" /\ e # dialer.active
  BY <1>4, Closing DEF CloseDialer
<1>6. \A e \in Dials : child'[e] # "live"
  BY <1>1, <1>3, <1>5 DEF Attended
<1>7. ServeTypeOK' BY <1>1, <1>2, <1>5 DEF ServeTypeOK
<1>8. MutexInv' BY <1>1, <1>2, <1>3 DEF MutexInv
<1>9. Attended' BY <1>6 DEF Attended
<1> QED BY <1>7, <1>8, <1>9 DEF ServeInv

\* A dial that waits for the mutex, or whose context expires.
LEMMA DialsWaitInv ==
    ASSUME ServeInv, NEW d \in Dials, BeginDial(d) \/ DialExpires(d)
    PROVE  ServeInv'
<1>1. UNCHANGED <<main, dialer, child>> BY DEF BeginDial, DialExpires
<1>2. dial[d] \in DialStates BY DEF ServeInv, ServeTypeOK
<1>3. /\ dial' \in [Dials -> DialStates]
      /\ \A e \in Dials : e # d => dial'[e] = dial[e]
      /\ \A pc \in {"spawning", "spawned"} : dial'[d].pc = pc <=> dial[d].pc = pc
  <2>1. CASE BeginDial(d)
    <3>1. dial[d].pc = "idle" /\ dial' = [dial EXCEPT ![d].pc = "locking"]
      BY <2>1 DEF BeginDial
    <3> QED BY <3>1, DialGoes
  <2>2. CASE DialExpires(d)
    <3> DEFINE s == [dial[d] EXCEPT !.expired = TRUE]
    <3>1. s \in DialStates /\ s.pc = dial[d].pc BY <1>2 DEF DialStates
    <3>2. dial' = [dial EXCEPT ![d] = s] BY <2>2 DEF DialExpires
    <3> HIDE DEF s
    <3> QED BY <3>1, <3>2, DialMoves
  <2> QED BY <2>1, <2>2
<1> QED BY <1>1, <1>3 DEF ServeInv, ServeTypeOK, MutexInv, Attended, Exited

\* A dial that takes the mutex tears the active child down.
LEMMA LockInv ==
    ASSUME ServeInv, NEW d \in Dials, LockDialer(d)
    PROVE  ServeInv'
<1>1. ServeTypeOK /\ MutexInv /\ Attended /\ NoDial \notin Dials
  BY ServeAssumption DEF ServeInv
<1>2. dialer.holder = NoDial /\ dial[d].pc = "locking" /\ UNCHANGED main BY DEF LockDialer
<1>3. CASE /\ dial' = [dial EXCEPT ![d].pc = "failed"]
           /\ UNCHANGED <<dialer, child>>
  <2>1. /\ dial' \in [Dials -> DialStates] /\ dial'[d].pc = "failed"
        /\ \A e \in Dials : e # d => dial'[e] = dial[e]
    BY <1>3, DialGoes
  <2> QED BY <1>1, <1>2, <1>3, <2>1 DEF ServeInv, ServeTypeOK, MutexInv, Attended, Exited
<1>4. CASE /\ dial' = [dial EXCEPT ![d].pc = "spawning"]
           /\ dialer' = [dialer EXCEPT !.holder = d, !.active = NoDial]
           /\ child' = TearDown
  <2>1. /\ dial' \in [Dials -> DialStates] /\ dial'[d].pc = "spawning"
        /\ \A e \in Dials : e # d => dial'[e] = dial[e]
    BY <1>4, DialGoes
  <2>2. dialer.active \in Dials \union {NoDial} BY <1>1 DEF ServeTypeOK, Dialers
  <2>3. /\ child' \in [Dials -> ChildStates]
        /\ \A e \in Dials : child'[e] = "live" <=> child[e] = "live" /\ e # dialer.active
    BY <1>4, <2>2, Closing DEF TearDown
  <2>4. \A e \in Dials : child'[e] # "live" BY <1>1, <1>2, <2>3 DEF Attended
  <2>5. dialer' \in Dialers /\ dialer'.holder = d /\ dialer'.active = NoDial
    BY <1>1, <1>4 DEF ServeTypeOK, Dialers
  <2>6. ServeTypeOK' BY <1>1, <1>2, <2>1, <2>3, <2>5 DEF ServeTypeOK
  <2>7. MutexInv' BY <1>1, <1>2, <2>1, <2>5 DEF MutexInv
  <2>8. Attended' BY <2>4 DEF Attended
  <2> QED BY <2>6, <2>7, <2>8 DEF ServeInv
<1> QED BY <1>3, <1>4 DEF LockDialer

\* The spawn happens under the mutex, when no child is live.
LEMMA SpawnInv ==
    ASSUME ServeInv, NEW d \in Dials, Spawn(d)
    PROVE  ServeInv'
<1>1. ServeTypeOK /\ MutexInv /\ Attended /\ NoDial \notin Dials
  BY ServeAssumption DEF ServeInv
<1>2. dial[d].pc = "spawning" /\ ~Exited /\ UNCHANGED main BY DEF Spawn
<1>3. dialer.holder = d /\ dialer.active = NoDial BY <1>1, <1>2 DEF MutexInv
<1>4. \A e \in Dials : child[e] # "live" BY <1>1, <1>2, <1>3 DEF Attended
<1>5. CASE /\ child' = [child EXCEPT ![d] = "live"]
           /\ dial' = [dial EXCEPT ![d].pc = "spawned"]
           /\ UNCHANGED dialer
  <2>1. /\ dial' \in [Dials -> DialStates] /\ dial'[d].pc = "spawned"
        /\ \A e \in Dials : e # d => dial'[e] = dial[e]
    BY <1>5, DialGoes
  <2>2. child' \in [Dials -> ChildStates] /\ \A e \in Dials : child'[e] = "live" => e = d
    BY <1>1, <1>4, <1>5 DEF ServeTypeOK, ChildStates
  <2>3. ServeTypeOK' BY <1>1, <1>2, <1>5, <2>1, <2>2 DEF ServeTypeOK
  <2>4. MutexInv' BY <1>1, <1>3, <1>5, <2>1 DEF MutexInv
  <2>5. Attended' BY <1>2, <1>3, <1>5, <2>1, <2>2 DEF Attended, Exited
  <2> QED BY <2>3, <2>4, <2>5 DEF ServeInv
<1>6. CASE /\ dial' = [dial EXCEPT ![d].pc = "failed"]
           /\ dialer' = [dialer EXCEPT !.holder = NoDial]
           /\ UNCHANGED child
  <2>1. /\ dial' \in [Dials -> DialStates] /\ dial'[d].pc = "failed"
        /\ \A e \in Dials : e # d => dial'[e] = dial[e]
    BY <1>6, DialGoes
  <2>2. dialer' \in Dialers /\ dialer'.holder = NoDial
    BY <1>1, <1>6 DEF ServeTypeOK, Dialers
  <2>3. ServeTypeOK' BY <1>1, <1>2, <1>6, <2>1, <2>2 DEF ServeTypeOK
  <2>4. MutexInv' BY <1>1, <1>3, <2>1, <2>2 DEF MutexInv
  <2>5. Attended' BY <1>4, <1>6 DEF Attended
  <2> QED BY <2>3, <2>4, <2>5 DEF ServeInv
<1> QED BY <1>5, <1>6 DEF Spawn

\* The dial publishes its child, or closes it when its context has expired.
LEMMA FinishInv ==
    ASSUME ServeInv, NEW d \in Dials, FinishDial(d)
    PROVE  ServeInv'
<1>1. ServeTypeOK /\ MutexInv /\ Attended /\ NoDial \notin Dials
  BY ServeAssumption DEF ServeInv
<1>2. dial[d].pc = "spawned" /\ ~Exited /\ UNCHANGED main BY DEF FinishDial
<1>3. dialer.holder = d /\ dialer.active = NoDial BY <1>1, <1>2 DEF MutexInv
<1>4. \A e \in Dials : child[e] = "live" => e = d BY <1>1, <1>3 DEF Attended
<1>5. /\ dial' \in [Dials -> DialStates] /\ dial'[d].pc \in {"failed", "ready"}
      /\ \A e \in Dials : e # d => dial'[e] = dial[e]
  BY DialGoes DEF FinishDial
<1>6. /\ dialer' \in Dialers /\ dialer'.holder = NoDial
      /\ dialer'.active = IF dial[d].expired THEN NoDial ELSE d
  BY <1>1 DEF FinishDial, ServeTypeOK, Dialers
<1>7. /\ child' \in [Dials -> ChildStates]
      /\ \A e \in Dials : child'[e] = "live" => e = d /\ ~dial[d].expired
  <2>1. CASE dial[d].expired BY <1>4, <2>1, Closing DEF FinishDial
  <2>2. CASE ~dial[d].expired BY <1>1, <1>4, <2>2 DEF FinishDial, ServeTypeOK
  <2> QED BY <2>1, <2>2
<1>8. ServeTypeOK' BY <1>1, <1>2, <1>5, <1>6, <1>7 DEF ServeTypeOK
<1>9. MutexInv' BY <1>1, <1>3, <1>5, <1>6 DEF MutexInv
<1>10. Attended' BY <1>2, <1>6, <1>7 DEF Attended, Exited
<1> QED BY <1>8, <1>9, <1>10 DEF ServeInv

\* The transport drops, or the child exits.
LEMMA DropInv ==
    ASSUME ServeInv, NEW d \in Dials, TransportDrops(d) \/ ChildExits(d)
    PROVE  ServeInv'
<1>1. ServeTypeOK /\ MutexInv /\ Attended BY DEF ServeInv
<1>2. /\ child' \in [Dials -> ChildStates]
      /\ \A e \in Dials : child'[e] = "live" => child[e] = "live"
  <2>1. CASE TransportDrops(d) BY <2>1, Closing DEF TransportDrops
  <2>2. CASE ChildExits(d) BY <1>1, <2>2 DEF ChildExits, ServeTypeOK, ChildStates
  <2> QED BY <2>1, <2>2
<1>3. /\ dial' \in [Dials -> DialStates]
      /\ \A e \in Dials : \A pc \in {"spawning", "spawned"} : dial'[e].pc = pc <=> dial[e].pc = pc
  <2>1. CASE TransportDrops(d)
    <3>1. dial[d].pc = "ready" /\ dial' = [dial EXCEPT ![d].pc = "dropped"]
      BY <2>1 DEF TransportDrops
    <3>2. /\ dial' \in [Dials -> DialStates] /\ dial'[d].pc = "dropped"
          /\ \A e \in Dials : e # d => dial'[e] = dial[e]
      BY <3>1, DialGoes
    <3> QED BY <3>1, <3>2
  <2>2. CASE ChildExits(d) BY <1>1, <2>2 DEF ChildExits, ServeTypeOK
  <2> QED BY <2>1, <2>2
<1>4. UNCHANGED <<main, dialer>> BY DEF TransportDrops, ChildExits
<1>5. ServeTypeOK' BY <1>1, <1>2, <1>3, <1>4 DEF ServeTypeOK
<1>6. MutexInv' BY <1>1, <1>3, <1>4 DEF MutexInv
<1>7. Attended' BY <1>1, <1>2, <1>3, <1>4 DEF Attended, Exited
<1> QED BY <1>5, <1>6, <1>7 DEF ServeInv

LEMMA ServeNextInv == ServeInv /\ [ServeNext]_serveVars => ServeInv'
<1>1. UNCHANGED serveVars => UNCHANGED dialVars BY DEF serveVars, dialVars
<1> QED
  BY <1>1, ServeStutter, ListenerInv, CloseDialerInv, DialsWaitInv, LockInv, SpawnInv,
     FinishInv, DropInv DEF ServeNext

\* No wackypub child is left with an open stdin that nobody will close, and at most
\* one has its stdin open: it is the active one, or its dial still holds the mutex
\* (Dial and Close in internal/serve/dialer.go).
THEOREM NoOrphanHolds == ServeSpec => []NoOrphan
<1>1. ServeInv => NoOrphan
  BY ServeAssumption DEF ServeInv, MutexInv, Attended, NoOrphan
<1> QED BY <1>1, ServeInitInv, ServeNextInv, PTL DEF ServeSpec

--------------------------------------------------------------------------------
(***************************************************************************)
(* SkillSync.  A link may be left at rest only when the manifest names it; *)
(* this is what a later sync relies on when its skill has been retired in  *)
(* between.                                                                *)
(***************************************************************************)
SlotValues == Sources \union {"absent", "dir", "elsewhere"}
SyncStates == [pc : {"idle", "link", "prune", "write"}, todo : SUBSET Skills,
               keep : SUBSET Skills, linked : SUBSET Skills, prune : SUBSET Skills]

SkillTypeOK ==
    /\ slots \in [Skills -> SlotValues]
    /\ manifest \in SUBSET Skills
    /\ sources \in [Skills -> Sources \union {"none"}]
    /\ sync \in SyncStates
    /\ broken \in BOOLEAN

\* The names kept are those of the skills of the tree, which does not change meanwhile.
Kept == sync.pc # "idle" => \A k \in Skills : k \in sync.keep <=> sources[k] # "none"

Right(k) == slots[k] \in {sources[k], "dir"}

\* Every skill that was looked at has its link or is occupied.
Linked ==
    /\ sync.pc = "link" =>
          sync.todo \subseteq sync.keep /\ \A k \in sync.keep : k \in sync.todo \/ Right(k)
    /\ sync.pc \in {"prune", "write"} => \A k \in sync.keep : Right(k)

\* A link that no skill of the tree accounts for is in the manifest, or is about
\* to be pruned.
Accounted ==
    \A k \in Skills :
        slots[k] \in Sources =>
            \/ broken
            \/ sync.pc \in {"idle", "link"} /\ k \in manifest
            \/ sync.pc # "idle" /\ k \in sync.keep
            \/ sync.pc = "prune" /\ k \in sync.prune

PruneApart == sync.pc = "prune" => sync.prune \intersect sync.keep = {}

SkillInv == SkillTypeOK /\ Kept /\ Linked /\ Accounted /\ PruneApart

LEMMA SkillInitInv == SkillInit => SkillInv
<1> SUFFICES ASSUME SkillInit PROVE SkillInv OBVIOUS
<1>1. SkillTypeOK BY DEF SkillInit, SkillTypeOK, SlotValues, NoSync, SyncStates
<1>2. Kept /\ Linked /\ PruneApart BY DEF SkillInit, NoSync, Kept, Linked, PruneApart
<1>3. Accounted BY DEF SkillInit, Accounted, Sources
<1> QED BY <1>1, <1>2, <1>3 DEF SkillInv

\* Between two syncs the tree and the slots change freely, but nobody makes a link
\* to a skill by hand.
LEMMA BetweenSyncs ==
    ASSUME SkillInv, NEW k \in Skills, TreeChanges(k) \/ HandMade(k)
    PROVE  SkillInv'
<1>1. SkillTypeOK /\ Accounted /\ sync.pc = "idle" BY DEF SkillInv, TreeChanges, HandMade
<1>2. UNCHANGED <<manifest, sync, broken>> BY DEF TreeChanges, HandMade
<1>3. /\ slots' \in [Skills -> SlotValues] /\ sources' \in [Skills -> Sources \union {"none"}]
      /\ \A j \in Skills : slots'[j] \in Sources => slots[j] \in Sources
  <2>1. CASE TreeChanges(k) BY <1>1, <2>1 DEF TreeChanges, SkillTypeOK
  <2>2. CASE HandMade(k)
    <3>1. PICK what \in {"absent", "dir", "elsewhere"} : slots' = [slots EXCEPT ![k] = what]
      BY <2>2 DEF HandMade
    <3>2. UNCHANGED sources BY <2>2 DEF HandMade
    <3> QED BY <1>1, <3>1, <3>2 DEF SkillTypeOK, SlotValues, Sources
  <2> QED BY <2>1, <2>2
<1>4. SkillTypeOK' BY <1>1, <1>2, <1>3 DEF SkillTypeOK
<1>5. Kept' /\ Linked' /\ PruneApart' BY <1>1, <1>2 DEF Kept, Linked, PruneApart
<1>6. Accounted' BY <1>1, <1>2, <1>3 DEF Accounted
<1> QED BY <1>4, <1>5, <1>6 DEF SkillInv

LEMMA StartSyncInv == SkillInv /\ StartSync => SkillInv'
<1> SUFFICES ASSUME SkillInv, StartSync PROVE SkillInv' OBVIOUS
<1>1. SkillTypeOK /\ Accounted /\ sync.pc = "idle" BY DEF SkillInv, StartSync
<1> DEFINE found == {k \in Skills : sources[k] # "none"}
<1>2. /\ sync' = [pc |-> "link", todo |-> found, keep |-> found, linked |-> {}, prune |-> {}]
      /\ UNCHANGED <<slots, manifest, sources, broken>>
  BY DEF StartSync
<1>3. SkillTypeOK' BY <1>1, <1>2 DEF SkillTypeOK, SyncStates
<1>4. Kept' /\ Linked' /\ PruneApart' BY <1>2 DEF Kept, Linked, PruneApart
<1>5. Accounted' BY <1>1, <1>2 DEF Accounted
<1> QED BY <1>3, <1>4, <1>5 DEF SkillInv

\* A slot that is looked at: passed over, linked, or emptied to be linked next.
LEMMA LinkInv ==
    ASSUME SkillInv, NEW k \in Skills, LinkSkill(k) \/ UnlinkSkill(k)
    PROVE  SkillInv'
<1>1. /\ SkillTypeOK /\ Kept /\ Linked /\ Accounted
      /\ sync.pc = "link" /\ k \in sync.todo
      /\ UNCHANGED <<manifest, sources, broken>>
  BY DEF SkillInv, LinkSkill, UnlinkSkill
<1>2. CASE LinkSkill(k)
  <2>1. /\ sync' \in SyncStates /\ sync'.pc = "link" /\ sync'.keep = sync.keep
        /\ sync'.todo = sync.todo \ {k}
    BY <1>1, <1>2 DEF LinkSkill, SkillTypeOK, SyncStates
  <2>2. /\ slots' \in [Skills -> SlotValues \union {"none"}]
        /\ slots'[k] \in {sources[k], "dir"}
        /\ \A j \in Skills : j # k => slots'[j] = slots[j]
    BY <1>1, <1>2 DEF LinkSkill, SkillTypeOK, SlotValues, Occupied
  <2>3. SkillTypeOK' /\ Kept'
    <3>1. Kept' BY <1>1, <2>1 DEF Kept
    <3>2. sources[k] # "none" BY <1>1 DEF Kept, Linked
    <3>3. slots' \in [Skills -> SlotValues]
      BY <1>1, <2>2, <3>2 DEF SkillTypeOK, SlotValues
    <3> QED BY <1>1, <2>1, <3>1, <3>3, <1>2 DEF SkillTypeOK, LinkSkill
  <2>4. Linked'
    BY <1>1, <2>1, <2>2 DEF Linked, Right, SkillTypeOK, SyncStates
  <2>5. Accounted'
    BY <1>1, <2>1, <2>2 DEF Accounted, Linked
  <2>6. PruneApart' BY <2>1 DEF PruneApart
  <2> QED BY <2>3, <2>4, <2>5, <2>6 DEF SkillInv
<1>3. CASE UnlinkSkill(k)
  <2>1. /\ slots' \in [Skills -> SlotValues] /\ slots'[k] = "absent"
        /\ \A j \in Skills : j # k => slots'[j] = slots[j]
        /\ UNCHANGED sync
    BY <1>1, <1>3 DEF UnlinkSkill, SkillTypeOK, SlotValues
  <2>2. SkillTypeOK' BY <1>1, <2>1 DEF SkillTypeOK
  <2>3. Kept' /\ Linked' /\ PruneApart'
    BY <1>1, <2>1 DEF Kept, Linked, Right, PruneApart, SkillTypeOK, SyncStates
  <2>4. Accounted' BY <1>1, <2>1 DEF Accounted, Sources
  <2> QED BY <2>2, <2>3, <2>4 DEF SkillInv
<1> QED BY <1>2, <1>3

LEMMA ReadManifestInv == SkillInv /\ ReadManifest => SkillInv'
<1> SUFFICES ASSUME SkillInv, ReadManifest PROVE SkillInv' OBVIOUS
<1>1. /\ SkillTypeOK /\ Kept /\ Linked /\ Accounted
      /\ sync.pc = "link" /\ sync.todo = {}
      /\ UNCHANGED <<slots, manifest, sources>>
  BY DEF SkillInv, ReadManifest
<1> PICK read \in {manifest, {}} :
      /\ sync' = [sync EXCEPT !.pc = "prune", !.prune = read \ sync.keep]
      /\ broken' = (broken \/ read # manifest)
  BY DEF ReadManifest
<1>2. /\ sync' \in SyncStates /\ sync'.pc = "prune" /\ sync'.keep = sync.keep
      /\ sync'.prune = read \ sync.keep
  BY <1>1 DEF SkillTypeOK, SyncStates
<1>3. broken' \in BOOLEAN /\ (~broken' => ~broken /\ read = manifest)
  BY <1>1 DEF SkillTypeOK
<1>4. SkillTypeOK' BY <1>1, <1>2, <1>3 DEF SkillTypeOK
<1>5. Kept' /\ Linked' /\ PruneApart' BY <1>1, <1>2 DEF Kept, Linked, Right, PruneApart
<1>6. Accounted' BY <1>1, <1>2, <1>3 DEF Accounted
<1> QED BY <1>4, <1>5, <1>6 DEF SkillInv

\* A retired skill's link goes, or the failure to remove it is noted.
LEMMA PruneInv ==
    ASSUME SkillInv, NEW k \in Skills, Prune(k) \/ PruneFails(k)
    PROVE  SkillInv'
<1>1. /\ SkillTypeOK /\ Kept /\ Linked /\ Accounted /\ PruneApart
      /\ sync.pc = "prune" /\ k \in sync.prune
      /\ UNCHANGED <<manifest, sources>>
  BY DEF SkillInv, Prune, PruneFails
<1>2. k \notin sync.keep BY <1>1 DEF PruneApart
<1>3. /\ sync' \in SyncStates /\ sync'.pc = "prune" /\ sync'.keep = sync.keep
      /\ sync'.prune = sync.prune \ {k}
  BY <1>1 DEF Prune, PruneFails, SkillTypeOK, SyncStates
<1>4. /\ slots' \in [Skills -> SlotValues]
      /\ \A j \in Skills : j # k => slots'[j] = slots[j]
      /\ broken' \in BOOLEAN /\ (broken => broken')
      /\ broken' \/ slots'[k] \notin Sources
  <2>1. CASE Prune(k) BY <1>1, <2>1 DEF Prune, SkillTypeOK, SlotValues, Sources
  <2>2. CASE PruneFails(k) BY <1>1, <2>2 DEF PruneFails, SkillTypeOK
  <2> QED BY <2>1, <2>2
<1>5. SkillTypeOK' BY <1>1, <1>3, <1>4 DEF SkillTypeOK
<1>6. Kept' /\ PruneApart' BY <1>1, <1>3 DEF Kept, PruneApart
<1>7. Linked' BY <1>1, <1>2, <1>3, <1>4 DEF Linked, Right, SkillTypeOK, SyncStates
<1>8. Accounted' BY <1>1, <1>3, <1>4 DEF Accounted
<1> QED BY <1>5, <1>6, <1>7, <1>8 DEF SkillInv

\* The manifest goes away and comes back with the names kept; or the sync ends early.
LEMMA ManifestInv ==
    ASSUME SkillInv, Truncate \/ WriteManifest \/ SyncBreaks
    PROVE  SkillInv'
<1>1. /\ SkillTypeOK /\ Kept /\ Linked /\ Accounted
      /\ UNCHANGED <<slots, sources>>
  BY DEF SkillInv, Truncate, WriteManifest, SyncBreaks
<1>2. CASE Truncate
  <2>1. /\ sync.pc = "prune" /\ sync.prune = {} /\ UNCHANGED broken
        /\ manifest' \in SUBSET Skills
        /\ sync' \in SyncStates /\ sync'.pc = "write" /\ sync'.keep = sync.keep
    BY <1>1, <1>2 DEF Truncate, SkillTypeOK, SyncStates
  <2>2. SkillTypeOK' BY <1>1, <2>1 DEF SkillTypeOK
  <2>3. Kept' /\ Linked' /\ PruneApart' BY <1>1, <2>1 DEF Kept, Linked, Right, PruneApart
  <2>4. Accounted' BY <1>1, <2>1 DEF Accounted
  <2> QED BY <2>2, <2>3, <2>4 DEF SkillInv
<1>3. CASE WriteManifest
  <2>1. /\ sync.pc = "write" /\ UNCHANGED broken /\ manifest' = sync.keep
        /\ manifest' \in SUBSET Skills
        /\ sync' \in SyncStates /\ sync'.pc = "idle"
    BY <1>1, <1>3 DEF WriteManifest, Managed, NoSync, SkillTypeOK, SyncStates
  <2>2. SkillTypeOK' BY <1>1, <2>1 DEF SkillTypeOK
  <2>3. Kept' /\ Linked' /\ PruneApart' BY <2>1 DEF Kept, Linked, PruneApart
  <2>4. Accounted' BY <1>1, <2>1 DEF Accounted
  <2> QED BY <2>2, <2>3, <2>4 DEF SkillInv
<1>4. CASE SyncBreaks
  <2>1. broken' = TRUE /\ sync' \in SyncStates /\ sync'.pc = "idle" /\ UNCHANGED manifest
    BY <1>4 DEF SyncBreaks, NoSync, SyncStates
  <2>2. SkillTypeOK' BY <1>1, <2>1 DEF SkillTypeOK
  <2>3. Kept' /\ Linked' /\ PruneApart' BY <2>1 DEF Kept, Linked, PruneApart
  <2>4. Accounted' BY <2>1 DEF Accounted
  <2> QED BY <2>2, <2>3, <2>4 DEF SkillInv
<1> QED BY <1>2, <1>3, <1>4

LEMMA SkillNextInv == SkillInv /\ [SkillNext]_skillVars => SkillInv'
<1>1. SkillInv /\ UNCHANGED skillVars => SkillInv'
  BY DEF skillVars, SkillInv, SkillTypeOK, Kept, Linked, Right, Accounted, PruneApart
<1> QED
  BY <1>1, BetweenSyncs, StartSyncInv, LinkInv, ReadManifestInv, PruneInv, ManifestInv
  DEF SkillNext

\* Whatever people, the tree and broken syncs do, a sync that writes its manifest has
\* linked every on-demand skill that it could, and no link to a retired skill is left
\* unless a sync was broken or could not read its manifest or prune (SyncOnDemandSkills in internal/claudesdk/skillsync.go).
THEOREM MirrorsHolds == SkillSpec => []Mirrors
<1>1. SkillInv => Mirrors
  BY DEF SkillInv, SkillTypeOK, SyncStates, Linked, Right, Accounted, Mirrors
<1> QED BY <1>1, SkillInitInv, SkillNextInv, PTL DEF SkillSpec

\* No step of a sync touches a directory that somebody made by hand (ensureSymlink
\* and pruneStaleLinks in internal/claudesdk/skillsync.go).
THEOREM HandMadeIsKept == SkillSpec => HandMadeKept
<1>1. SkillInv /\ [SkillNext]_skillVars
      => [\A k \in Skills : sync.pc # "idle" /\ slots[k] = "dir" => slots'[k] = "dir"]_skillVars
  <2> SUFFICES ASSUME SkillInv, SkillNext, NEW k \in Skills, sync.pc # "idle", slots[k] = "dir"
               PROVE  slots'[k] = "dir"
    OBVIOUS
  <2>1. slots \in [Skills -> SlotValues] BY DEF SkillInv, SkillTypeOK
  <2>2. ASSUME NEW j \in Skills,
               \/ LinkSkill(j) \/ UnlinkSkill(j) \/ Prune(j) \/ PruneFails(j)
        PROVE  slots'[k] = "dir"
    BY <2>1, <2>2 DEF LinkSkill, UnlinkSkill, Prune, PruneFails, Occupied
  <2>3. ASSUME StartSync \/ ReadManifest \/ Truncate \/ WriteManifest \/ SyncBreaks
        PROVE  slots'[k] = "dir"
    BY <2>3 DEF StartSync, ReadManifest, Truncate, WriteManifest, SyncBreaks
  <2> QED BY <2>2, <2>3 DEF SkillNext, TreeChanges, HandMade
<1> QED BY <1>1, SkillInitInv, SkillNextInv, PTL DEF SkillSpec, HandMadeKept

--------------------------------------------------------------------------------
(***************************************************************************)
(* Replay.  The history is made first and then gone through, so that the   *)
(* invariant has two halves: where the parts of a call lie in the history, *)
(* and what of them the replay has open at its place in it.                *)
(***************************************************************************)
HistoryParts == [kind : {"call", "response"}, call : Nat, shown : BOOLEAN]

\* Calls up to this one have been answered, or passed over for good.
Settled == Len(nameOf) - Len(waiting)

IsCall(i, c) == i \in DOMAIN history /\ history[i].kind = "call" /\ history[i].call = c
IsResponse(i, c) == i \in DOMAIN history /\ history[i].kind = "response" /\ history[i].call = c

ReplayTypeOK ==
    /\ history \in Seq(HistoryParts)
    /\ nameOf \in Seq(CallNames)
    /\ withIds \in BOOLEAN
    /\ waiting \in Seq(Nat)
    /\ replayed \in 0 .. Len(history)
    /\ openByName \in [CallNames -> Seq(Nat)]

\* The calls to be answered next are the last ones made.
WaitingInv ==
    /\ Len(waiting) <= Len(nameOf)
    /\ \A k \in 1 .. Len(waiting) : waiting[k] = Settled + k

\* Calls and responses lie in the order of the calls, each response behind its call.
CallOrder ==
    /\ \A i \in DOMAIN history : history[i].call \in 1 .. Len(nameOf)
    /\ \A i, j \in DOMAIN history :
          i < j /\ history[i].kind = history[j].kind => history[i].call < history[j].call
    /\ \A c \in 1 .. Len(nameOf) : \E i \in DOMAIN history : IsCall(i, c)
    /\ \A j \in DOMAIN history : \A c \in Nat :
          IsResponse(j, c) => c <= Settled /\ \E i \in DOMAIN history : i < j /\ IsCall(i, c)

\* The calls of one turn are shown or not together.
SameTurn ==
    \A i, j \in DOMAIN history : \A c, d \in Nat :
        IsCall(i, c) /\ IsCall(j, d) /\ Settled < c /\ Settled < d
            => history[i].shown = history[j].shown

\* A call that comes before a response to an earlier call, or to itself, is of the turn
\* that the response answers.
InTurn ==
    \A i, j, k \in DOMAIN history : \A c, d \in Nat :
        IsCall(i, d) /\ IsCall(k, c) /\ IsResponse(j, c) /\ i < j /\ c <= d
            => history[i].shown = history[k].shown

HistoryInv == WaitingInv /\ CallOrder /\ SameTurn /\ InTurn

\* A call the frontend has been shown, and no response yet.
Shows(i) == i <= replayed /\ history[i].shown
Open(c) ==
    /\ \E i \in DOMAIN history : IsCall(i, c) /\ Shows(i)
    /\ ~\E j \in DOMAIN history : IsResponse(j, c) /\ Shows(j)

Ascending(s) == \A k, l \in DOMAIN s : k < l => s[k] < s[l]
InQueue(n, c) == \E k \in DOMAIN openByName[n] : openByName[n][k] = c

\* Every response of that name shown so far was to a call in step, and so took its own.
SoFarInStep(n) ==
    \A j \in DOMAIN history : \A c \in Nat :
        IsResponse(j, c) /\ Shows(j) /\ nameOf[c] = n => InStep(c)

OpenInv ==
    /\ withIds => \A c \in Nat : c \in openByID <=> Open(c)
    /\ ~withIds => \A n \in CallNames : SoFarInStep(n) =>
          /\ Ascending(openByName[n])
          /\ \A c \in Nat : InQueue(n, c) <=> Open(c) /\ nameOf[c] = n

PairsInv == PairedRight /\ (replayed = 0 => pairs = {})

ReplayInv == ReplayTypeOK /\ HistoryInv /\ OpenInv /\ PairsInv

--------------------------------------------------------------------------------
LEMMA ReplayInitInv == ReplayInit => ReplayInv
<1> SUFFICES ASSUME ReplayInit PROVE ReplayInv OBVIOUS
<1> USE DEF ReplayInit
<1>1. ReplayTypeOK BY DEF ReplayTypeOK
<1>2. HistoryInv
  BY DEF HistoryInv, WaitingInv, CallOrder, SameTurn, InTurn, IsCall, IsResponse, Settled
<1>3. OpenInv BY DEF OpenInv, Ascending, InQueue, Open, IsCall, Shows
<1>4. PairsInv BY DEF PairsInv, PairedRight
<1> QED BY <1>1, <1>2, <1>3, <1>4 DEF ReplayInv

LEMMA ReplayStutter == ReplayInv /\ UNCHANGED replayVars => ReplayInv'
<1> SUFFICES ASSUME ReplayInv, UNCHANGED replayVars PROVE ReplayInv' OBVIOUS
<1> USE DEF replayVars, ReplayInv
<1>1. ReplayTypeOK' BY DEF ReplayTypeOK
<1>2. HistoryInv'
  BY DEF HistoryInv, WaitingInv, CallOrder, SameTurn, InTurn, IsCall, IsResponse, Settled
<1>3. OpenInv'
  <2>1. \A n : SoFarInStep(n)' <=> SoFarInStep(n)
    BY DEF SoFarInStep, IsResponse, Shows, InStep, ShownCalls, ShownResponses, Shown
  <2>2. \A c : Open(c)' <=> Open(c) BY DEF Open, IsCall, IsResponse, Shows
  <2>3. \A n, c : InQueue(n, c)' <=> InQueue(n, c) BY DEF InQueue
  <2> QED BY <2>1, <2>2, <2>3 DEF OpenInv, Ascending
<1>4. PairsInv'
  BY DEF PairsInv, PairedRight, InStep, ShownCalls, ShownResponses, Shown
<1> QED BY <1>1, <1>2, <1>3, <1>4

\* What a turn adds to the history.
Adds(kind, calls, shown) ==
    /\ history' \in Seq(HistoryParts)
    /\ Len(history') = Len(history) + Len(calls)
    /\ \A i \in DOMAIN history : i \in DOMAIN history' /\ history'[i] = history[i]
    /\ \A k \in 1 .. Len(calls) :
          /\ Len(history) + k \in DOMAIN history'
          /\ history'[Len(history) + k].kind = kind
          /\ history'[Len(history) + k].call = calls[k]
          /\ history'[Len(history) + k].shown = shown
    /\ \A i \in DOMAIN history' :
          i \in DOMAIN history \/ \E k \in 1 .. Len(calls) : i = Len(history) + k

LEMMA TurnAdds ==
    ASSUME history \in Seq(HistoryParts), NEW kind \in {"call", "response"},
           NEW calls \in Seq(Nat), NEW shown \in BOOLEAN,
           history' = history \o Parts(kind, calls, shown)
    PROVE  Adds(kind, calls, shown)
<1> DEFINE new == Parts(kind, calls, shown)
<1>1. /\ DOMAIN new = 1 .. Len(calls)
      /\ \A k \in 1 .. Len(calls) : new[k] = [kind |-> kind, call |-> calls[k], shown |-> shown]
  BY DEF Parts
<1>2. \A k \in 1 .. Len(calls) : new[k] \in HistoryParts BY <1>1 DEF HistoryParts
<1>3. new \in Seq(HistoryParts) /\ Len(new) = Len(calls)
  <2>1. new = [k \in 1 .. Len(calls) |-> new[k]] BY <1>1 DEF Parts
  <2> HIDE DEF new
  <2> QED BY <1>1, <1>2, <2>1
<1> HIDE DEF new
<1>4. history' = history \o new BY DEF new
<1>5. /\ history \o new \in Seq(HistoryParts)
      /\ Len(history \o new) = Len(history) + Len(new)
      /\ \A i \in 1 .. Len(history) + Len(new) :
            (history \o new)[i] = IF i <= Len(history) THEN history[i] ELSE new[i - Len(history)]
  BY <1>3, ConcatProperties
<1>6. Len(history) \in Nat /\ Len(calls) \in Nat /\ DOMAIN history = 1 .. Len(history) OBVIOUS
<1>7. history' \in Seq(HistoryParts) /\ Len(history') = Len(history) + Len(calls)
  BY <1>3, <1>4, <1>5
<1>8. DOMAIN history' = 1 .. Len(history) + Len(calls) BY <1>7
<1>9. \A i \in 1 .. Len(history) : history'[i] = history[i] BY <1>3, <1>4, <1>5, <1>6
<1>10. \A k \in 1 .. Len(calls) : history'[Len(history) + k] = new[k]
  <2> SUFFICES ASSUME NEW k \in 1 .. Len(calls) PROVE history'[Len(history) + k] = new[k]
    OBVIOUS
  <2>1. /\ Len(history) + k \in 1 .. Len(history) + Len(new)
        /\ ~(Len(history) + k <= Len(history))
        /\ Len(history) + k - Len(history) = k
    BY <1>3, <1>6
  <2> QED BY <1>4, <1>5, <2>1
<1>11. \A i \in 1 .. Len(history) + Len(calls) :
          i \in 1 .. Len(history) \/ \E k \in 1 .. Len(calls) : i = Len(history) + k
  <2> SUFFICES ASSUME NEW i \in 1 .. Len(history) + Len(calls), i \notin 1 .. Len(history)
               PROVE  \E k \in 1 .. Len(calls) : i = Len(history) + k
    OBVIOUS
  <2>1. i - Len(history) \in 1 .. Len(calls) /\ i = Len(history) + (i - Len(history)) BY <1>6
  <2> QED BY <2>1
<1>12. \A k \in 1 .. Len(calls) : Len(history) + k \in 1 .. Len(history) + Len(calls) BY <1>6
<1>13. \A k \in 1 .. Len(calls) :
          new[k].kind = kind /\ new[k].call = calls[k] /\ new[k].shown = shown
  BY <1>1
<1>14. ASSUME NEW k \in 1 .. Len(calls)
       PROVE  /\ Len(history) + k \in DOMAIN history'
              /\ history'[Len(history) + k].kind = kind
              /\ history'[Len(history) + k].call = calls[k]
              /\ history'[Len(history) + k].shown = shown
  BY <1>8, <1>10, <1>12, <1>13
<1>15. \A i \in DOMAIN history : i \in DOMAIN history' /\ history'[i] = history[i]
  BY <1>6, <1>8, <1>9
<1>16. \A i \in DOMAIN history' :
          i \in DOMAIN history \/ \E k \in 1 .. Len(calls) : i = Len(history) + k
  BY <1>6, <1>8, <1>11
<1> QED BY <1>7, <1>14, <1>15, <1>16, Zenon DEF Adds

\* A call is shown when its part is, and so is its response.
LEMMA ShownAre ==
    ASSUME NEW c
    PROVE  /\ c \in ShownCalls <=> \E i \in DOMAIN history : IsCall(i, c) /\ history[i].shown
           /\ c \in ShownResponses <=>
                \E i \in DOMAIN history : IsResponse(i, c) /\ history[i].shown
BY DEF ShownCalls, ShownResponses, Shown, ToSet, IsCall, IsResponse

LEMMA AgentCallsHistory == ReplayInv /\ AgentCalls => (ReplayTypeOK /\ HistoryInv)'
<1> SUFFICES ASSUME ReplayInv, AgentCalls PROVE (ReplayTypeOK /\ HistoryInv)' OBVIOUS
<1> DEFINE L == Len(nameOf)
           H == Len(history)
<1>1. ReplayTypeOK /\ WaitingInv /\ CallOrder /\ SameTurn /\ InTurn BY DEF ReplayInv, HistoryInv
<1> USE DEF ReplayTypeOK
<1>2. L \in Nat /\ H \in Nat /\ Len(waiting) \in Nat /\ DOMAIN history = 1 .. H BY <1>1
<1>0. PICK count \in 1 .. MaxParallel :
         \E names \in [1 .. count -> CallNames], shown \in BOOLEAN :
            /\ nameOf' = nameOf \o names
            /\ waiting' = [i \in 1 .. count |-> L + i]
            /\ history' = history \o Parts("call", waiting', shown)
  BY DEF AgentCalls
<1>3. PICK names \in [1 .. count -> CallNames], shown \in BOOLEAN :
         /\ nameOf' = nameOf \o names
         /\ waiting' = [i \in 1 .. count |-> L + i]
         /\ history' = history \o Parts("call", waiting', shown)
  BY <1>0
<1>4. count \in Nat /\ count >= 1 BY ReplayAssumption
<1>5. names \in Seq(CallNames) /\ Len(names) = count BY <1>4
<1>6. nameOf' \in Seq(CallNames) /\ Len(nameOf') = L + count
  BY <1>1, <1>3, <1>5, ConcatProperties
<1>7. \A k \in 1 .. count : L + k \in Nat BY <1>2, <1>4
<1>8. waiting' \in Seq(Nat) /\ Len(waiting') = count
  <2> DEFINE w == [i \in 1 .. count |-> L + i]
  <2>1. w \in [1 .. count -> Nat] BY <1>7
  <2> HIDE DEF w
  <2>2. w \in Seq(Nat) /\ Len(w) = count BY <1>4, <2>1
  <2> QED BY <1>3, <2>2 DEF w
<1>9. \A k \in 1 .. count : waiting'[k] = L + k BY <1>3
<1> DEFINE w == waiting'
<1>10. history \in Seq(HistoryParts) /\ w \in Seq(Nat)
       /\ history' = history \o Parts("call", w, shown)
  BY <1>1, <1>3, <1>8
<1> HIDE DEF w
<1>11. Adds("call", w, shown) BY <1>10, TurnAdds
<1>12. Len(w) = count /\ \A k \in 1 .. count : w[k] = L + k BY <1>8, <1>9 DEF w
<1>13. /\ history' \in Seq(HistoryParts)
       /\ \A i \in DOMAIN history : i \in DOMAIN history' /\ history'[i] = history[i]
       /\ \A k \in 1 .. count : \A i \in Nat : i = H + k =>
             /\ i \in DOMAIN history'
             /\ history'[i].kind = "call" /\ history'[i].call = L + k /\ history'[i].shown = shown
       /\ \A i \in DOMAIN history' : i \in DOMAIN history \/ \E k \in 1 .. count : i = H + k
  BY <1>11, <1>12, Zenon DEF Adds
<1>24. DOMAIN history' \subseteq Nat BY <1>13
<1>14. ReplayTypeOK'
  <2>1. replayed' = replayed /\ openByName' = openByName /\ withIds' = withIds BY DEF AgentCalls
  <2>2. replayed = 0 BY DEF AgentCalls
  <2>3. 0 \in 0 .. Len(history') BY <1>13
  <2> QED BY <1>1, <1>6, <1>8, <1>13, <2>1, <2>2, <2>3
<1>15. Settled' = L /\ Settled <= L
  <2>1. Settled' = L BY <1>2, <1>4, <1>6, <1>8 DEF Settled
  <2>2. Settled <= L BY <1>2 DEF Settled
  <2> QED BY <2>1, <2>2
\* New parts are calls of a higher number; whatever else is found was there before.
<1>16. \A i \in DOMAIN history' : \A c \in Nat :
          IsCall(i, c)' => \/ i \in DOMAIN history /\ IsCall(i, c) /\ c <= L
                           \/ history'[i].shown = shown /\ L < c
  <2> SUFFICES ASSUME NEW i \in DOMAIN history', NEW c \in Nat, IsCall(i, c)'
               PROVE  \/ i \in DOMAIN history /\ IsCall(i, c) /\ c <= L
                      \/ history'[i].shown = shown /\ L < c
    OBVIOUS
  <2>1. CASE i \in DOMAIN history BY <1>1, <1>2, <1>13, <2>1 DEF IsCall, CallOrder
  <2>2. CASE i \notin DOMAIN history
    <3>1. PICK k \in 1 .. count : i = H + k BY <1>13, <2>2
    <3>2. history'[i].call = L + k /\ history'[i].shown = shown BY <1>13, <3>1
    <3>3. c = L + k BY <3>2 DEF IsCall
    <3> QED BY <1>2, <1>4, <3>2, <3>3
  <2> QED BY <2>1, <2>2
<1>17. \A i \in DOMAIN history' : \A c \in Nat :
          IsResponse(i, c)' => i \in DOMAIN history /\ IsResponse(i, c)
  <2> SUFFICES ASSUME NEW i \in DOMAIN history', NEW c \in Nat, IsResponse(i, c)'
               PROVE  i \in DOMAIN history /\ IsResponse(i, c)
    OBVIOUS
  <2>1. i \in DOMAIN history
    <3> SUFFICES ASSUME NEW k \in 1 .. count, i = H + k PROVE FALSE BY <1>13
    <3>1. history'[i].kind = "call" BY <1>13, <1>24
    <3> QED BY <3>1 DEF IsResponse
  <2> QED BY <1>13, <2>1 DEF IsResponse
<1>18. \A i \in DOMAIN history : \A c : IsCall(i, c) => IsCall(i, c)' BY <1>13 DEF IsCall
<1>19. \A i \in DOMAIN history : \A c : IsResponse(i, c) => IsResponse(i, c)' BY <1>13 DEF IsResponse
<1>20. WaitingInv' BY <1>2, <1>4, <1>6, <1>8, <1>9, <1>15 DEF WaitingInv
<1>21. CallOrder'
  <2>1. \A i \in DOMAIN history' : history'[i].call \in 1 .. Len(nameOf')
    <3> SUFFICES ASSUME NEW i \in DOMAIN history' PROVE history'[i].call \in 1 .. L + count BY <1>6
    <3>1. CASE i \in DOMAIN history BY <1>1, <1>2, <1>4, <1>13, <3>1 DEF CallOrder
    <3>2. ASSUME NEW k \in 1 .. count, i = H + k PROVE history'[i].call \in 1 .. L + count
      <4>1. history'[i].call = L + k BY <1>13, <1>24, <3>2
      <4> QED BY <1>2, <1>4, <4>1
    <3> QED BY <1>13, <3>1, <3>2
  <2>2. ASSUME NEW i \in DOMAIN history', NEW j \in DOMAIN history', i < j,
               history'[i].kind = history'[j].kind
        PROVE  history'[i].call < history'[j].call
    <3>1. CASE i \in DOMAIN history /\ j \in DOMAIN history
      BY <1>1, <1>13, <2>2, <3>1 DEF CallOrder
    <3>2. ASSUME i \in DOMAIN history, NEW k \in 1 .. count, j = H + k
          PROVE  history'[i].call < history'[j].call
      <4>1. history'[i].call \in 1 .. L BY <1>1, <1>13, <3>2 DEF CallOrder
      <4>2. history'[j].call = L + k BY <1>13, <1>24, <3>2
      <4> QED BY <1>2, <1>4, <4>1, <4>2
    <3>3. ASSUME NEW k \in 1 .. count, i = H + k PROVE history'[i].call < history'[j].call
      <4>1. j \notin DOMAIN history BY <1>2, <2>2, <3>3
      <4>2. PICK m \in 1 .. count : j = H + m BY <1>13, <4>1
      <4>3. history'[i].call = L + k /\ history'[j].call = L + m BY <1>13, <1>24, <3>3, <4>2
      <4>4. k < m BY <1>2, <1>4, <2>2, <3>3, <4>2
      <4> QED BY <1>2, <1>4, <4>3, <4>4
    <3> QED BY <1>13, <3>1, <3>2, <3>3
  <2>3. ASSUME NEW c \in 1 .. Len(nameOf') PROVE \E i \in DOMAIN history' : IsCall(i, c)'
    <3>1. CASE c \in 1 .. L BY <1>1, <1>13, <1>18, <3>1 DEF CallOrder
    <3>2. CASE c \notin 1 .. L
      <4> DEFINE k == c - L
      <4>1. k \in 1 .. count /\ L + k = c BY <1>2, <1>4, <1>6, <3>2
      <4> HIDE DEF k
      <4>2. H + k \in DOMAIN history' /\ history'[H + k].kind = "call" /\ history'[H + k].call = c
        <5>1. H + k \in Nat BY <1>2, <1>4, <4>1
        <5> QED BY <1>13, <4>1, <5>1
      <4> QED BY <4>2 DEF IsCall
    <3> QED BY <3>1, <3>2
  <2>4. ASSUME NEW j \in DOMAIN history', NEW c \in Nat, IsResponse(j, c)'
        PROVE  c <= Settled' /\ \E i \in DOMAIN history' : i < j /\ IsCall(i, c)'
    <3>1. j \in DOMAIN history /\ IsResponse(j, c) BY <1>17, <2>4
    <3>2. c <= Settled /\ \E i \in DOMAIN history : i < j /\ IsCall(i, c) BY <1>1, <3>1 DEF CallOrder
    <3>3. Settled \in Int BY <1>2 DEF Settled
    <3> QED BY <1>2, <1>13, <1>15, <1>18, <3>2, <3>3
  <2> QED BY <2>1, <2>2, <2>3, <2>4 DEF CallOrder
<1>22. SameTurn'
  <2> SUFFICES ASSUME NEW i \in DOMAIN history', NEW j \in DOMAIN history', NEW c \in Nat, NEW d \in Nat,
                      IsCall(i, c)', IsCall(j, d)', L < c, L < d
               PROVE  history'[i].shown = history'[j].shown
    BY <1>15 DEF SameTurn
  <2> QED BY <1>2, <1>16
<1>23. InTurn'
  <2> SUFFICES ASSUME NEW i \in DOMAIN history', NEW j \in DOMAIN history', NEW k \in DOMAIN history',
                      NEW c \in Nat, NEW d \in Nat,
                      IsCall(i, d)', IsCall(k, c)', IsResponse(j, c)', i < j, c <= d
               PROVE  history'[i].shown = history'[k].shown
    BY DEF InTurn
  <2>1. j \in DOMAIN history /\ IsResponse(j, c) BY <1>17
  <2>2. c <= L BY <1>1, <1>2, <1>15, <2>1 DEF CallOrder, Settled
  <2>3. k \in DOMAIN history /\ IsCall(k, c) BY <1>2, <1>16, <2>2
  <2>4. i \in DOMAIN history /\ IsCall(i, d)
    <3>1. i \in DOMAIN history
      <4> SUFFICES ASSUME NEW m \in 1 .. count, i = H + m PROVE FALSE BY <1>13
      <4> QED BY <1>2, <1>4, <2>1
    <3> QED BY <1>13, <3>1 DEF IsCall
  <2> QED BY <1>1, <1>13, <2>1, <2>3, <2>4 DEF InTurn
<1> QED BY <1>14, <1>20, <1>21, <1>22, <1>23 DEF HistoryInv
LEMMA AgentRespondsHistory == ReplayInv /\ AgentResponds => (ReplayTypeOK /\ HistoryInv)'
<1> SUFFICES ASSUME ReplayInv, AgentResponds PROVE (ReplayTypeOK /\ HistoryInv)' OBVIOUS
<1> DEFINE L == Len(nameOf)
           H == Len(history)
           count == Len(waiting)
<1>1. ReplayTypeOK /\ WaitingInv /\ CallOrder /\ SameTurn /\ InTurn BY DEF ReplayInv, HistoryInv
<1>2. L \in Nat /\ H \in Nat /\ count \in Nat /\ DOMAIN history = 1 .. H BY <1>1 DEF ReplayTypeOK
<1>3. PICK shown \in BOOLEAN : history' = history \o Parts("response", waiting, shown)
  BY DEF AgentResponds
<1>4. Adds("response", waiting, shown) BY <1>1, <1>3, TurnAdds DEF ReplayTypeOK
<1>5. /\ waiting' = <<>> /\ nameOf' = nameOf /\ withIds' = withIds
      /\ replayed' = replayed /\ replayed = 0 /\ openByName' = openByName
  BY DEF AgentResponds
<1>6. /\ Settled \in Nat /\ Settled + count = L
      /\ \A k \in 1 .. count : waiting[k] = Settled + k
  BY <1>1, <1>2 DEF WaitingInv, Settled
<1>7. Settled' = L BY <1>2, <1>5 DEF Settled
<1>8. /\ history' \in Seq(HistoryParts)
      /\ \A i \in DOMAIN history : i \in DOMAIN history' /\ history'[i] = history[i]
      /\ \A k \in 1 .. count : \A i \in Nat : i = H + k =>
            /\ i \in DOMAIN history'
            /\ history'[i].kind = "response"
            /\ history'[i].call = Settled + k
            /\ history'[i].shown = shown
      /\ \A i \in DOMAIN history' : i \in DOMAIN history \/ \E k \in 1 .. count : i = H + k
  BY <1>4, <1>6, Zenon DEF Adds
<1>9. DOMAIN history' \subseteq Nat BY <1>8
<1>10. ReplayTypeOK'
  <2>1. 0 \in 0 .. Len(history') BY <1>8
  <2>2. <<>> \in Seq(Nat) OBVIOUS
  <2> QED BY <1>1, <1>5, <1>8, <2>1, <2>2 DEF ReplayTypeOK
\* New parts are the responses that were due.
<1>11. \A i \in DOMAIN history' : \A c \in Nat :
          IsCall(i, c)' => i \in DOMAIN history /\ IsCall(i, c) /\ c <= L
  <2> SUFFICES ASSUME NEW i \in DOMAIN history', NEW c \in Nat, IsCall(i, c)'
               PROVE  i \in DOMAIN history /\ IsCall(i, c) /\ c <= L
    OBVIOUS
  <2>1. i \in DOMAIN history
    <3> SUFFICES ASSUME NEW k \in 1 .. count, i = H + k PROVE FALSE BY <1>8
    <3>1. history'[i].kind = "response" BY <1>8, <1>9
    <3> QED BY <3>1 DEF IsCall
  <2>2. IsCall(i, c) BY <1>8, <2>1 DEF IsCall
  <2> QED BY <1>1, <1>2, <2>1, <2>2 DEF CallOrder, IsCall
<1>12. \A i \in DOMAIN history' : \A c \in Nat :
          IsResponse(i, c)' => \/ i \in DOMAIN history /\ IsResponse(i, c)
                               \/ /\ i \notin DOMAIN history
                                  /\ c \in Settled + 1 .. L
                                  /\ history'[i].shown = shown
  <2> SUFFICES ASSUME NEW i \in DOMAIN history', NEW c \in Nat, IsResponse(i, c)',
                      i \notin DOMAIN history
               PROVE  c \in Settled + 1 .. L /\ history'[i].shown = shown
    BY <1>8 DEF IsResponse
  <2>1. PICK k \in 1 .. count : i = H + k BY <1>8
  <2>2. history'[i].call = Settled + k /\ history'[i].shown = shown BY <1>8, <1>9, <2>1
  <2>3. c = Settled + k BY <2>2 DEF IsResponse
  <2> QED BY <1>2, <1>6, <2>2, <2>3
<1>13. \A i \in DOMAIN history : \A c :
          (IsCall(i, c) => IsCall(i, c)') /\ (IsResponse(i, c) => IsResponse(i, c)')
  BY <1>8 DEF IsCall, IsResponse
<1>14. WaitingInv' BY <1>2, <1>5 DEF WaitingInv
<1>15. CallOrder'
  <2>1. \A i \in DOMAIN history' : history'[i].call \in 1 .. Len(nameOf')
    <3> SUFFICES ASSUME NEW i \in DOMAIN history' PROVE history'[i].call \in 1 .. L BY <1>5
    <3>1. CASE i \in DOMAIN history BY <1>1, <1>8, <3>1 DEF CallOrder
    <3>2. ASSUME NEW k \in 1 .. count, i = H + k PROVE history'[i].call \in 1 .. L
      <4>1. history'[i].call = Settled + k BY <1>8, <1>9, <3>2
      <4> QED BY <1>2, <1>6, <4>1
    <3> QED BY <1>8, <3>1, <3>2
  <2>2. ASSUME NEW i \in DOMAIN history', NEW j \in DOMAIN history', i < j,
               history'[i].kind = history'[j].kind
        PROVE  history'[i].call < history'[j].call
    <3>1. CASE i \in DOMAIN history /\ j \in DOMAIN history
      BY <1>1, <1>8, <2>2, <3>1 DEF CallOrder
    <3>2. ASSUME i \in DOMAIN history, NEW k \in 1 .. count, j = H + k
          PROVE  history'[i].call < history'[j].call
      <4>1. history'[j].call = Settled + k /\ history'[j].kind = "response" BY <1>8, <1>9, <3>2
      <4>2. history'[i] = history[i] /\ history[i].call \in 1 .. L BY <1>1, <1>8, <3>2 DEF CallOrder
      <4>3. IsResponse(i, history[i].call) BY <2>2, <3>2, <4>1, <4>2 DEF IsResponse
      <4>4. history[i].call <= Settled BY <1>1, <3>2, <4>2, <4>3 DEF CallOrder
      <4> QED BY <1>2, <1>6, <4>1, <4>2, <4>4
    <3>3. ASSUME NEW k \in 1 .. count, i = H + k PROVE history'[i].call < history'[j].call
      <4>1. j \notin DOMAIN history BY <1>2, <2>2, <3>3
      <4>2. PICK m \in 1 .. count : j = H + m BY <1>8, <4>1
      <4>3. history'[i].call = Settled + k /\ history'[j].call = Settled + m
        BY <1>8, <1>9, <3>3, <4>2
      <4>4. k < m BY <1>2, <2>2, <3>3, <4>2
      <4> QED BY <1>2, <1>6, <4>3, <4>4
    <3> QED BY <1>8, <3>1, <3>2, <3>3
  <2>3. ASSUME NEW c \in 1 .. Len(nameOf') PROVE \E i \in DOMAIN history' : IsCall(i, c)'
    BY <1>1, <1>5, <1>8, <1>13, <2>3 DEF CallOrder
  <2>4. ASSUME NEW j \in DOMAIN history', NEW c \in Nat, IsResponse(j, c)'
        PROVE  c <= Settled' /\ \E i \in DOMAIN history' : i < j /\ IsCall(i, c)'
    <3>1. CASE j \in DOMAIN history /\ IsResponse(j, c)
      <4>1. c <= Settled /\ \E i \in DOMAIN history : i < j /\ IsCall(i, c)
        BY <1>1, <3>1 DEF CallOrder
      <4> QED BY <1>2, <1>6, <1>7, <1>8, <1>13, <4>1
    <3>2. CASE j \notin DOMAIN history /\ c \in Settled + 1 .. L
      <4>1. c \in 1 .. L BY <1>2, <1>6, <3>2
      <4>2. PICK i \in DOMAIN history : IsCall(i, c) BY <1>1, <4>1 DEF CallOrder
      <4>3. i < j BY <1>2, <1>9, <3>2
      <4> QED BY <1>7, <1>8, <1>13, <4>1, <4>2, <4>3
    <3> QED BY <1>12, <2>4, <3>1, <3>2
  <2> QED BY <2>1, <2>2, <2>3, <2>4 DEF CallOrder
<1>16. SameTurn'
  <2> SUFFICES ASSUME NEW i \in DOMAIN history', NEW c \in Nat, IsCall(i, c)', L < c PROVE FALSE
    BY <1>7 DEF SameTurn
  <2> QED BY <1>2, <1>11
<1>17. InTurn'
  <2> SUFFICES ASSUME NEW i \in DOMAIN history', NEW j \in DOMAIN history', NEW k \in DOMAIN history',
                      NEW c \in Nat, NEW d \in Nat,
                      IsCall(i, d)', IsCall(k, c)', IsResponse(j, c)', i < j, c <= d
               PROVE  history'[i].shown = history'[k].shown
    BY DEF InTurn
  <2>1. /\ i \in DOMAIN history /\ IsCall(i, d) /\ history'[i] = history[i]
        /\ k \in DOMAIN history /\ IsCall(k, c) /\ history'[k] = history[k]
    BY <1>8, <1>11
  <2>2. CASE j \in DOMAIN history /\ IsResponse(j, c) BY <1>1, <2>1, <2>2 DEF InTurn
  <2>3. CASE c \in Settled + 1 .. L
    <3>1. Settled < c /\ Settled < d BY <1>2, <1>6, <2>3
    <3> QED BY <1>1, <2>1, <3>1 DEF SameTurn
  <2> QED BY <1>12, <2>2, <2>3
<1> QED BY <1>10, <1>14, <1>15, <1>16, <1>17 DEF HistoryInv
\* The agent's history grows only before the replay: nothing is open, or paired.
LEMMA AgentInv == ReplayInv /\ (AgentCalls \/ AgentResponds) => ReplayInv'
<1> SUFFICES ASSUME ReplayInv, AgentCalls \/ AgentResponds PROVE ReplayInv' OBVIOUS
<1>1. (ReplayTypeOK /\ HistoryInv)' BY AgentCallsHistory, AgentRespondsHistory
<1>2. /\ replayed = 0 /\ replayed' = 0
      /\ withIds' = withIds /\ openByID' = openByID /\ openByName' = openByName /\ pairs' = pairs
  BY DEF AgentCalls, AgentResponds
<1>3. (\A c : ~Open(c)) /\ (\A c : ~Open(c)') /\ (\A n : SoFarInStep(n))
  <2>1. DOMAIN history \subseteq Nat \ {0} /\ DOMAIN history' \subseteq Nat \ {0}
    BY <1>1 DEF ReplayInv, ReplayTypeOK
  <2>2. (\A i \in DOMAIN history : ~Shows(i)) /\ (\A i \in DOMAIN history' : ~Shows(i)')
    BY <1>2, <2>1 DEF Shows
  <2> QED BY <2>2 DEF Open, SoFarInStep
<1>4. OpenInv'
  <2>1. ASSUME withIds, NEW c \in Nat PROVE c \in openByID' <=> Open(c)'
    BY <1>2, <1>3, <2>1 DEF ReplayInv, OpenInv
  <2>2. ASSUME ~withIds, NEW n \in CallNames
        PROVE  Ascending(openByName'[n]) /\ \A c \in Nat : ~InQueue(n, c)'
    BY <1>2, <1>3, <2>2 DEF ReplayInv, OpenInv, InQueue
  <2> QED BY <1>2, <1>3, <2>1, <2>2 DEF OpenInv
<1>5. PairsInv' BY <1>2 DEF ReplayInv, PairsInv, PairedRight
<1> QED BY <1>1, <1>4, <1>5 DEF ReplayInv

--------------------------------------------------------------------------------
\* A call has one part and at most one response, which lies behind it.
LEMMA PartOnce ==
    ASSUME ReplayInv
    PROVE  /\ \A i, j \in DOMAIN history : \A c \in Nat :
                 \/ IsCall(i, c) /\ IsCall(j, c)
                 \/ IsResponse(i, c) /\ IsResponse(j, c)
                 => i = j
           /\ \A i, j \in DOMAIN history : \A c \in Nat : IsCall(i, c) /\ IsResponse(j, c) => i < j
<1>1. ReplayTypeOK /\ CallOrder BY DEF ReplayInv, HistoryInv
<1>2. DOMAIN history \subseteq Nat BY <1>1 DEF ReplayTypeOK
<1>3. ASSUME NEW i \in DOMAIN history, NEW j \in DOMAIN history, NEW c \in Nat,
             \/ IsCall(i, c) /\ IsCall(j, c)
             \/ IsResponse(i, c) /\ IsResponse(j, c)
      PROVE  i = j
  <2>1. history[i].kind = history[j].kind /\ history[i].call = c /\ history[j].call = c
    BY <1>3 DEF IsCall, IsResponse
  <2>2. ~(i < j) /\ ~(j < i)
    <3>1. ~(c < c) OBVIOUS
    <3> QED BY <1>1, <2>1, <3>1 DEF CallOrder
  <2> QED BY <1>2, <2>2
<1>4. ASSUME NEW i \in DOMAIN history, NEW j \in DOMAIN history, NEW c \in Nat,
             IsCall(i, c), IsResponse(j, c)
      PROVE  i < j
  <2>1. PICK k \in DOMAIN history : k < j /\ IsCall(k, c) BY <1>1, <1>4 DEF CallOrder
  <2> QED BY <1>3, <1>4, <2>1
<1> QED BY <1>3, <1>4

\* The steps of Replay leave the history alone and take it up part by part.
LEMMA ReplayGoes ==
    ASSUME ReplayInv, More, UNCHANGED agentVars, replayed' = replayed + 1
    PROVE  /\ replayed + 1 \in DOMAIN history
           /\ replayed' \in 0 .. Len(history') /\ replayed' # 0
           /\ HistoryInv' /\ ShownCalls' = ShownCalls
           /\ \A i, c : (IsCall(i, c)' <=> IsCall(i, c)) /\ (IsResponse(i, c)' <=> IsResponse(i, c))
           /\ \A i \in DOMAIN history : Shows(i)' <=> Shows(i) \/ (i = replayed + 1 /\ Part.shown)
           /\ ~Shows(replayed + 1)
           /\ \A c : InStep(c)' <=> InStep(c)
           /\ \A n : SoFarInStep(n)' => SoFarInStep(n)
<1>1. ReplayTypeOK /\ HistoryInv BY DEF ReplayInv
<1>2. replayed \in Nat /\ Len(history) \in Nat /\ DOMAIN history = 1 .. Len(history)
  BY <1>1 DEF ReplayTypeOK
<1>3. replayed + 1 \in DOMAIN history BY <1>2 DEF More
<1>4. history' = history /\ nameOf' = nameOf /\ waiting' = waiting /\ withIds' = withIds
  BY DEF agentVars
<1>5. replayed' \in 0 .. Len(history') /\ replayed' # 0 BY <1>2, <1>4 DEF More
<1>6. HistoryInv'
  BY <1>1, <1>4 DEF HistoryInv, WaitingInv, CallOrder, SameTurn, InTurn, IsCall, IsResponse, Settled
<1>7. ShownCalls' = ShownCalls /\ ShownResponses' = ShownResponses
  BY <1>4 DEF ShownCalls, ShownResponses, Shown
<1>8. \A i, c : (IsCall(i, c)' <=> IsCall(i, c)) /\ (IsResponse(i, c)' <=> IsResponse(i, c))
  BY <1>4 DEF IsCall, IsResponse
<1>9. ASSUME NEW i \in DOMAIN history
      PROVE  Shows(i)' <=> Shows(i) \/ (i = replayed + 1 /\ Part.shown)
  <2>1. i <= replayed' <=> i <= replayed \/ i = replayed + 1 BY <1>2
  <2> QED BY <1>4, <2>1 DEF Shows, Part
<1>10. ~Shows(replayed + 1) BY <1>2 DEF Shows
<1>11. \A c : InStep(c)' <=> InStep(c) BY <1>4, <1>7 DEF InStep
<1>12. ASSUME NEW n, SoFarInStep(n)' PROVE SoFarInStep(n)
  BY <1>4, <1>8, <1>9, <1>11, <1>12 DEF SoFarInStep
<1> QED BY <1>3, <1>5, <1>6, <1>7, <1>8, <1>9, <1>10, <1>11, <1>12

LEMMA ReplaySkipsInv == ReplayInv /\ ReplaySkips => ReplayInv'
<1> SUFFICES ASSUME ReplayInv, ReplaySkips PROVE ReplayInv' OBVIOUS
<1>1. /\ More /\ ~Part.shown /\ replayed' = replayed + 1
      /\ UNCHANGED <<agentVars, openByID, openByName, pairs>>
  BY DEF ReplaySkips
<1>2. /\ replayed' \in 0 .. Len(history') /\ replayed' # 0 /\ HistoryInv'
      /\ ShownCalls' = ShownCalls
      /\ \A i, c : (IsCall(i, c)' <=> IsCall(i, c)) /\ (IsResponse(i, c)' <=> IsResponse(i, c))
      /\ \A i \in DOMAIN history : Shows(i)' <=> Shows(i)
      /\ (\A c : InStep(c)' <=> InStep(c)) /\ (\A n : SoFarInStep(n)' => SoFarInStep(n))
  BY <1>1, ReplayGoes
<1>3. history' = history /\ nameOf' = nameOf /\ waiting' = waiting /\ withIds' = withIds
  BY <1>1 DEF agentVars
<1>4. ReplayTypeOK' BY <1>1, <1>2, <1>3 DEF ReplayInv, ReplayTypeOK
<1>5. \A c : Open(c)' <=> Open(c) BY <1>2, <1>3 DEF Open
<1>6. OpenInv' BY <1>1, <1>2, <1>3, <1>5 DEF ReplayInv, OpenInv, InQueue, Ascending
<1>7. PairsInv' BY <1>1, <1>2 DEF ReplayInv, PairsInv, PairedRight
<1> QED BY <1>2, <1>4, <1>6, <1>7 DEF ReplayInv

\* A call that is shown is open from then on, and the last of its queue.
LEMMA ReplayCallInv == ReplayInv /\ ReplayCall => ReplayInv'
<1> SUFFICES ASSUME ReplayInv, ReplayCall PROVE ReplayInv' OBVIOUS
<1> DEFINE r == replayed + 1
           c == Part.call
           n == nameOf[c]
<1>1. /\ More /\ Part.shown /\ Part.kind = "call" /\ replayed' = r
      /\ openByID' = openByID \union {c}
      /\ openByName' = [openByName EXCEPT ![n] = Append(@, c)]
      /\ UNCHANGED agentVars /\ UNCHANGED pairs
  BY DEF ReplayCall
<1>2. /\ r \in DOMAIN history
      /\ replayed' \in 0 .. Len(history') /\ replayed' # 0 /\ HistoryInv'
      /\ ShownCalls' = ShownCalls
      /\ \A i, d : (IsCall(i, d)' <=> IsCall(i, d)) /\ (IsResponse(i, d)' <=> IsResponse(i, d))
      /\ \A i \in DOMAIN history : Shows(i)' <=> Shows(i) \/ i = r
      /\ ~Shows(r)
      /\ (\A d : InStep(d)' <=> InStep(d)) /\ (\A m : SoFarInStep(m)' => SoFarInStep(m))
  BY <1>1, ReplayGoes
<1>3. history' = history /\ nameOf' = nameOf /\ waiting' = waiting /\ withIds' = withIds
  BY <1>1 DEF agentVars
<1>4. ReplayTypeOK /\ CallOrder BY DEF ReplayInv, HistoryInv
<1>5. IsCall(r, c) /\ c \in 1 .. Len(nameOf) BY <1>1, <1>2, <1>4 DEF IsCall, Part, CallOrder
<1>6. c \in Nat /\ n \in CallNames BY <1>4, <1>5 DEF ReplayTypeOK
<1> HIDE DEF c, n
<1>7. \A d \in Nat : Open(d)' <=> Open(d) \/ d = c
  <2> SUFFICES ASSUME NEW d \in Nat PROVE Open(d)' <=> Open(d) \/ d = c OBVIOUS
  <2>1. Open(d)' <=> /\ \E i \in DOMAIN history : IsCall(i, d) /\ (Shows(i) \/ i = r)
                     /\ ~\E j \in DOMAIN history : IsResponse(j, d) /\ (Shows(j) \/ j = r)
    BY <1>2, <1>3 DEF Open
  <2>2. ~IsResponse(r, d) BY <1>5 DEF IsCall, IsResponse
  <2>3. IsCall(r, d) <=> d = c BY <1>5 DEF IsCall
  <2>4. d = c => ~\E j \in DOMAIN history : IsResponse(j, d) /\ Shows(j)
    <3> SUFFICES ASSUME NEW j \in DOMAIN history, IsResponse(j, c), Shows(j) PROVE FALSE OBVIOUS
    <3>1. r < j BY <1>2, <1>5, <1>6, PartOnce
    <3>2. j \in Nat /\ replayed \in Nat BY <1>4 DEF ReplayTypeOK
    <3> QED BY <3>1, <3>2 DEF Shows
  <2> QED BY <1>2, <2>1, <2>2, <2>3, <2>4 DEF Open
<1>8. ReplayTypeOK'
  <2>1. Append(openByName[n], c) \in Seq(Nat) BY <1>4, <1>6 DEF ReplayTypeOK
  <2> QED BY <1>1, <1>2, <1>3, <1>4, <1>6, <2>1 DEF ReplayTypeOK
<1>9. OpenInv'
  <2>1. ASSUME withIds, NEW d \in Nat PROVE d \in openByID' <=> Open(d)'
    BY <1>1, <1>7, <2>1 DEF ReplayInv, OpenInv
  <2>2. ASSUME ~withIds, NEW m \in CallNames, SoFarInStep(m)'
        PROVE  /\ Ascending(openByName'[m])
               /\ \A d \in Nat : InQueue(m, d)' <=> Open(d)' /\ nameOf[d] = m
    <3>1. /\ Ascending(openByName[m])
          /\ \A d \in Nat : InQueue(m, d) <=> Open(d) /\ nameOf[d] = m
      BY <1>2, <2>2 DEF ReplayInv, OpenInv
    <3>2. CASE m # n
      <4>1. openByName'[m] = openByName[m] BY <1>1, <1>4, <3>2 DEF ReplayTypeOK
      <4> QED BY <1>7, <3>1, <3>2, <4>1 DEF InQueue, n
    <3>3. CASE m = n
      <4> DEFINE q == openByName[m]
                 s == Append(q, c)
      <4>1. openByName'[m] = s BY <1>1, <1>4, <3>3 DEF ReplayTypeOK
      <4>2. q \in Seq(Nat) BY <1>4 DEF ReplayTypeOK
      <4> HIDE DEF q
      <4>3. /\ DOMAIN q = 1 .. Len(q) /\ Len(q) \in Nat
            /\ DOMAIN s = 1 .. Len(q) + 1
            /\ \A k \in 1 .. Len(q) : s[k] = q[k]
            /\ s[Len(q) + 1] = c
        BY <1>6, <4>2
      <4> HIDE DEF s
      <4>4. \A k \in DOMAIN q : q[k] < c
        <5> SUFFICES ASSUME NEW k \in DOMAIN q PROVE q[k] < c OBVIOUS
        <5>1. q[k] \in Nat BY <4>2
        <5>2. Open(q[k]) BY <3>1, <5>1 DEF InQueue, q
        <5>3. PICK i \in DOMAIN history : IsCall(i, q[k]) /\ Shows(i) BY <5>2 DEF Open
        <5>4. i < r BY <1>4, <5>3 DEF Shows, ReplayTypeOK
        <5> QED BY <1>2, <1>4, <1>5, <5>3, <5>4 DEF CallOrder, IsCall
      <4>5. Ascending(s)
        <5> SUFFICES ASSUME NEW k \in DOMAIN s, NEW l \in DOMAIN s, k < l PROVE s[k] < s[l]
          BY DEF Ascending
        <5>1. k \in DOMAIN q BY <4>3
        <5>2. CASE l \in DOMAIN q BY <3>1, <4>3, <5>1, <5>2 DEF Ascending, q
        <5>3. CASE l = Len(q) + 1 BY <4>3, <4>4, <5>1, <5>3
        <5> QED BY <4>3, <5>2, <5>3
      <4>6. \A d \in Nat : InQueue(m, d)' <=> InQueue(m, d) \/ d = c
        <5> SUFFICES ASSUME NEW d \in Nat
                     PROVE  (\E k \in DOMAIN s : s[k] = d) <=> (\E k \in DOMAIN q : q[k] = d) \/ d = c
          BY <4>1 DEF InQueue, q
        <5>1. ASSUME NEW k \in DOMAIN s, s[k] = d PROVE (\E l \in DOMAIN q : q[l] = d) \/ d = c
          BY <4>3, <5>1
        <5>2. ASSUME NEW k \in DOMAIN q, q[k] = d PROVE \E l \in DOMAIN s : s[l] = d
          BY <4>3, <5>2
        <5>3. Len(q) + 1 \in DOMAIN s BY <4>3
        <5> QED BY <4>3, <5>1, <5>2, <5>3
      <4> QED BY <1>7, <3>1, <3>3, <4>1, <4>5, <4>6 DEF n
    <3> QED BY <3>2, <3>3
  <2> QED BY <1>3, <2>1, <2>2 DEF OpenInv
<1>10. PairsInv' BY <1>1, <1>2 DEF ReplayInv, PairsInv, PairedRight
<1> QED BY <1>2, <1>8, <1>9, <1>10 DEF ReplayInv
\* When its response comes, a call is open if it is shown at all.
LEMMA ResponseOpens ==
    ASSUME ReplayInv, More, Part.shown, Part.kind = "response"
    PROVE  /\ Part.call \in 1 .. Len(nameOf) /\ IsResponse(replayed + 1, Part.call)
           /\ Open(Part.call) <=> Part.call \in ShownCalls
<1> DEFINE r == replayed + 1
           c == Part.call
<1>1. ReplayTypeOK /\ CallOrder BY DEF ReplayInv, HistoryInv
<1>2. replayed \in Nat /\ r \in DOMAIN history /\ DOMAIN history \subseteq Nat
  BY <1>1 DEF More, ReplayTypeOK
<1>3. IsResponse(r, c) /\ c \in 1 .. Len(nameOf) BY <1>1, <1>2 DEF IsResponse, Part, CallOrder
<1> HIDE DEF c
<1>4. c \in Nat BY <1>3
<1>5. ASSUME Open(c) PROVE c \in ShownCalls BY <1>5, ShownAre DEF Open, Shows
<1>6. ASSUME c \in ShownCalls PROVE Open(c)
  <2>1. PICK i \in DOMAIN history : IsCall(i, c) /\ history[i].shown BY <1>6, ShownAre
  <2>2. i < r BY <1>2, <1>3, <1>4, <2>1, PartOnce
  <2>3. Shows(i) BY <1>2, <2>1, <2>2 DEF Shows
  <2>4. ASSUME NEW j \in DOMAIN history, IsResponse(j, c), Shows(j) PROVE FALSE
    <3>1. j = r BY <1>2, <1>3, <1>4, <2>4, PartOnce
    <3> QED BY <1>2, <2>4, <3>1 DEF Shows
  <2> QED BY <2>1, <2>3, <2>4 DEF Open
<1> QED BY <1>3, <1>5, <1>6 DEF c

\* Without ids, the responses before one to a call in step were to calls in step.
LEMMA InStepSoFar ==
    ASSUME ReplayInv, More, Part.shown, Part.kind = "response", ~withIds, InStep(Part.call)
    PROVE  SoFarInStep(nameOf[Part.call])
<1> DEFINE r == replayed + 1
           c == Part.call
<1>1. ReplayTypeOK /\ CallOrder BY DEF ReplayInv, HistoryInv
<1>2. replayed \in Nat /\ r \in DOMAIN history /\ DOMAIN history \subseteq Nat
  BY <1>1 DEF More, ReplayTypeOK
<1>3. IsResponse(r, c) /\ c \in 1 .. Len(nameOf) BY ResponseOpens
<1>4. InStep(c) BY Zenon
<1> HIDE DEF c
<1>5. SUFFICES ASSUME NEW j \in DOMAIN history, NEW b \in Nat,
                      IsResponse(j, b), Shows(j), nameOf[b] = nameOf[c]
               PROVE  InStep(b)
  BY DEF SoFarInStep, c
<1>6. j < r BY <1>2, <1>5 DEF Shows
<1>7. b < c BY <1>1, <1>2, <1>3, <1>5, <1>6 DEF CallOrder, IsResponse
<1>8. ASSUME NEW d \in ShownCalls, d < b, nameOf[d] = nameOf[b] PROVE d \in ShownResponses
  <2>1. d \in Nat
    <3>1. PICK i \in DOMAIN history : IsCall(i, d) BY <1>8, ShownAre
    <3> QED BY <1>1, <3>1 DEF CallOrder, IsCall
  <2>2. d < c BY <1>3, <1>7, <1>8, <2>1
  <2> QED BY <1>4, <1>5, <1>8, <2>2 DEF InStep
<1> QED BY <1>8 DEF InStep

\* Without ids, what is open of its name when a response to a call in step comes is not
\* before that call, and of the turn the response answers.
LEMMA NoneBefore ==
    ASSUME ReplayInv, More, Part.shown, Part.kind = "response", ~withIds, InStep(Part.call),
           NEW d \in Nat, Open(d), nameOf[d] = nameOf[Part.call]
    PROVE  Part.call <= d /\ Part.call \in ShownCalls
<1> DEFINE r == replayed + 1
           c == Part.call
<1>1. ReplayTypeOK /\ CallOrder /\ InTurn BY DEF ReplayInv, HistoryInv
<1>2. replayed \in Nat /\ r \in DOMAIN history /\ DOMAIN history \subseteq Nat
  BY <1>1 DEF More, ReplayTypeOK
<1>3. IsResponse(r, c) /\ c \in 1 .. Len(nameOf) BY ResponseOpens
<1>4. InStep(c) /\ nameOf[d] = nameOf[c] BY Zenon
<1> HIDE DEF c
<1>5. c \in Nat BY <1>3
<1>6. PICK i \in DOMAIN history : IsCall(i, d) /\ Shows(i) BY DEF Open
<1>7. ~(d < c)
  <2> SUFFICES ASSUME d < c PROVE FALSE OBVIOUS
  <2>1. d \in ShownCalls BY <1>6, ShownAre DEF Shows
  <2>2. d \in ShownResponses BY <1>4, <2>1 DEF InStep
  <2>3. PICK j \in DOMAIN history : IsResponse(j, d) /\ history[j].shown BY <2>2, ShownAre
  <2>4. ~(j <= replayed) BY <2>3 DEF Open, Shows
  <2>5. history[j].kind = history[r].kind /\ history[j].call = d /\ history[r].call = c
    BY <1>3, <2>3 DEF IsResponse
  <2>6. j # r BY <1>5, <2>5
  <2>7. r < j BY <1>2, <2>4, <2>6
  <2>8. c < d BY <1>1, <1>2, <2>5, <2>7 DEF CallOrder
  <2> QED BY <1>5, <2>8
<1>8. c \in ShownCalls
  <2>1. PICK k \in DOMAIN history : IsCall(k, c) BY <1>1, <1>3 DEF CallOrder
  <2>2. i < r BY <1>2, <1>6 DEF Shows
  <2>3. c <= d BY <1>5, <1>7
  <2>4. history[i].shown = history[k].shown
    BY <1>1, <1>2, <1>3, <1>5, <1>6, <2>1, <2>2, <2>3 DEF InTurn
  <2> QED BY <1>6, <2>1, <2>4, ShownAre DEF Shows
<1> QED BY <1>5, <1>7, <1>8 DEF c

\* A response to a call in step finds its own call, open by its id or the first of its queue.
LEMMA MatchIsOwn ==
    ASSUME ReplayInv, More, Part.shown, Part.kind = "response", InStep(Part.call)
    PROVE  /\ Match = IF Part.call \in ShownCalls THEN Part.call ELSE Unmatched
           /\ ~withIds => IF Part.call \in ShownCalls THEN Queue # <<>> /\ Queue[1] = Part.call
                          ELSE Queue = <<>>
<1> DEFINE c == Part.call
           n == nameOf[c]
           q == openByName[n]
<1>1. ReplayTypeOK /\ OpenInv BY DEF ReplayInv
<1>2. c \in 1 .. Len(nameOf) /\ c \in Nat /\ (Open(c) <=> c \in ShownCalls) BY ResponseOpens
<1>3. n \in CallNames BY <1>1, <1>2 DEF ReplayTypeOK
<1>4. q \in Seq(Nat) BY <1>1, <1>3 DEF ReplayTypeOK
<1>5. Queue = q BY DEF Queue
<1>8. ~withIds => SoFarInStep(n) BY InStepSoFar
<1>9. InStep(c) BY Zenon
<1> HIDE DEF c, n, q
<1>6. CASE withIds
  <2>1. c \in openByID <=> c \in ShownCalls BY <1>1, <1>2, <1>6 DEF OpenInv
  <2> QED BY <1>6, <2>1 DEF Match, c
<1>7. CASE ~withIds
  <2>1. Ascending(q) /\ \A d \in Nat : InQueue(n, d) <=> Open(d) /\ nameOf[d] = n
    BY <1>1, <1>3, <1>7, <1>8 DEF OpenInv, q
  <2>2. ASSUME NEW k \in DOMAIN q PROVE q[k] \in Nat /\ Open(q[k]) /\ nameOf[q[k]] = n
    <3>1. q[k] \in Nat BY <1>4
    <3> QED BY <2>1, <3>1 DEF InQueue, q
  <2>3. CASE c \in ShownCalls
    <3>1. InQueue(n, c) BY <1>2, <2>1, <2>3 DEF n
    <3>2. PICK k \in DOMAIN q : q[k] = c BY <3>1 DEF InQueue, q
    <3>3. q # <<>> /\ 1 \in DOMAIN q /\ k \in Nat /\ 1 <= k /\ Head(q) = q[1] BY <1>4, <3>2
    <3>4. q[1] \in Nat /\ Open(q[1]) /\ nameOf[q[1]] = n BY <2>2, <3>3
    <3>5. c <= q[1] BY <1>7, <1>9, <3>4, NoneBefore DEF c, n
    <3>6. q[1] <= q[k]
      <4>1. CASE k = 1 BY <3>4, <4>1
      <4>2. CASE 1 < k BY <2>1, <3>2, <3>3, <3>4, <1>2, <4>2 DEF Ascending
      <4> QED BY <3>3, <4>1, <4>2
    <3>7. q[1] = c BY <1>2, <3>2, <3>4, <3>5, <3>6
    <3> QED BY <1>5, <1>7, <2>3, <3>3, <3>7 DEF Match, c
  <2>4. CASE c \notin ShownCalls
    <3>1. q = <<>>
      <4> SUFFICES ASSUME q # <<>> PROVE FALSE OBVIOUS
      <4>1. 1 \in DOMAIN q BY <1>4
      <4>2. q[1] \in Nat /\ Open(q[1]) /\ nameOf[q[1]] = n BY <2>2, <4>1
      <4> QED BY <1>7, <1>9, <2>4, <4>2, NoneBefore DEF c, n
    <3> QED BY <1>5, <1>7, <2>4, <3>1 DEF Match, c
  <2> QED BY <2>3, <2>4
<1> QED BY <1>6, <1>7

\* A response closes its call and no other, or is the first one out of step.
LEMMA ReplayResponseInv == ReplayInv /\ ReplayResponse => ReplayInv'
<1> SUFFICES ASSUME ReplayInv, ReplayResponse PROVE ReplayInv' OBVIOUS
<1> DEFINE r == replayed + 1
           c == Part.call
           n == nameOf[c]
<1>1. /\ More /\ Part.shown /\ Part.kind = "response" /\ replayed' = r
      /\ pairs' = pairs \union {<<c, Match>>}
      /\ UNCHANGED agentVars
  BY DEF ReplayResponse
<1>2. /\ withIds => openByID' = openByID \ {c} /\ openByName' = openByName
      /\ ~withIds => openByName' = [openByName EXCEPT ![n] = IF @ = <<>> THEN @ ELSE Tail(@)]
  BY DEF ReplayResponse
<1>3. /\ r \in DOMAIN history
      /\ replayed' \in 0 .. Len(history') /\ replayed' # 0 /\ HistoryInv'
      /\ ShownCalls' = ShownCalls
      /\ \A i, d : (IsCall(i, d)' <=> IsCall(i, d)) /\ (IsResponse(i, d)' <=> IsResponse(i, d))
      /\ \A i \in DOMAIN history : Shows(i)' <=> Shows(i) \/ i = r
      /\ ~Shows(r)
      /\ (\A d : InStep(d)' <=> InStep(d)) /\ (\A m : SoFarInStep(m)' => SoFarInStep(m))
  BY <1>1, ReplayGoes
<1>4. history' = history /\ nameOf' = nameOf /\ waiting' = waiting /\ withIds' = withIds
  BY <1>1 DEF agentVars
<1>5. ReplayTypeOK /\ OpenInv /\ PairsInv BY DEF ReplayInv
<1>6. /\ c \in 1 .. Len(nameOf) /\ IsResponse(r, c) /\ (Open(c) <=> c \in ShownCalls)
      /\ InStep(c) =>
            /\ Match = IF c \in ShownCalls THEN c ELSE Unmatched
            /\ ~withIds => IF c \in ShownCalls THEN openByName[n] # <<>> /\ openByName[n][1] = c
                           ELSE openByName[n] = <<>>
  BY <1>1, ResponseOpens, MatchIsOwn DEF Queue
<1>7. c \in Nat /\ n \in CallNames BY <1>5, <1>6 DEF ReplayTypeOK
<1> HIDE DEF c, n
<1>8. ASSUME NEW d \in Nat PROVE Open(d)' <=> Open(d) /\ d # c
  <2>1. Open(d)' <=> /\ \E i \in DOMAIN history : IsCall(i, d) /\ (Shows(i) \/ i = r)
                     /\ ~\E j \in DOMAIN history : IsResponse(j, d) /\ (Shows(j) \/ j = r)
    BY <1>3, <1>4 DEF Open
  <2>2. ~IsCall(r, d) /\ (IsResponse(r, d) <=> d = c) BY <1>6 DEF IsCall, IsResponse
  <2> QED BY <1>3, <2>1, <2>2 DEF Open
<1>9. ReplayTypeOK'
  <2>1. openByName' \in [CallNames -> Seq(Nat)]
    <3>1. openByName[n] \in Seq(Nat) BY <1>5, <1>7 DEF ReplayTypeOK
    <3>2. openByName[n] # <<>> => Tail(openByName[n]) \in Seq(Nat) BY <3>1
    <3>3. (IF openByName[n] = <<>> THEN openByName[n] ELSE Tail(openByName[n])) \in Seq(Nat)
      BY <3>1, <3>2
    <3> QED BY <1>2, <1>5, <3>3 DEF ReplayTypeOK
  <2> QED BY <1>3, <1>4, <1>5, <2>1 DEF ReplayTypeOK
<1>10. OpenInv'
  <2>1. ASSUME withIds, NEW d \in Nat PROVE d \in openByID' <=> Open(d)'
    BY <1>2, <1>5, <1>8, <2>1 DEF OpenInv
  <2>2. ASSUME ~withIds, NEW m \in CallNames, SoFarInStep(m)'
        PROVE  /\ Ascending(openByName'[m])
               /\ \A d \in Nat : InQueue(m, d)' <=> Open(d)' /\ nameOf[d] = m
    <3>1. /\ Ascending(openByName[m])
          /\ \A d \in Nat : InQueue(m, d) <=> Open(d) /\ nameOf[d] = m
      BY <1>3, <1>5, <2>2 DEF OpenInv
    <3>2. CASE m # n
      <4>1. openByName'[m] = openByName[m] BY <1>2, <1>5, <2>2, <3>2 DEF ReplayTypeOK
      <4> QED BY <1>8, <3>1, <3>2, <4>1 DEF InQueue, n
    <3>3. ASSUME m = n PROVE InStep(c)
      <4>1. SUFFICES ASSUME NEW i \in DOMAIN history, NEW b \in Nat, i = r, b = c PROVE InStep(b)
        BY <1>3, <1>7
      <4>2. IsResponse(i, b)' /\ Shows(i)' BY <1>3, <1>6, <4>1
      <4>3. nameOf'[b] = m BY <1>4, <3>3, <4>1 DEF n
      <4>4. InStep(b)' BY <1>4, <2>2, <4>2, <4>3 DEF SoFarInStep
      <4> QED BY <1>3, <4>4
    <3>4. CASE m = n /\ c \notin ShownCalls
      <4>1. openByName'[m] = openByName[m] BY <1>2, <1>5, <1>6, <2>2, <3>3, <3>4 DEF ReplayTypeOK
      <4> QED BY <1>6, <1>8, <3>1, <3>4, <4>1 DEF InQueue
    <3>5. CASE m = n /\ c \in ShownCalls
      <4> DEFINE q == openByName[m]
                 s == Tail(q)
      <4>1. openByName'[m] = s BY <1>2, <1>5, <1>6, <2>2, <3>3, <3>5 DEF ReplayTypeOK
      <4>2. q \in Seq(Nat) /\ q # <<>> /\ q[1] = c BY <1>5, <1>6, <2>2, <3>3, <3>5 DEF ReplayTypeOK
      <4> HIDE DEF q
      <4>3. /\ DOMAIN q = 1 .. Len(q) /\ Len(q) \in Nat /\ Len(q) >= 1
            /\ DOMAIN s = 1 .. Len(q) - 1
            /\ \A k \in 1 .. Len(q) - 1 : s[k] = q[k + 1]
        BY <4>2, HeadTailProperties
      <4> HIDE DEF s
      <4>4. \A k \in DOMAIN s : k \in Nat /\ k + 1 \in DOMAIN q /\ 1 < k + 1 BY <4>3
      <4>5. 1 \in DOMAIN q /\ Ascending(q) BY <3>1, <4>3 DEF q
      <4>6. Ascending(s)
        <5> SUFFICES ASSUME NEW k \in DOMAIN s, NEW l \in DOMAIN s, k < l PROVE s[k] < s[l]
          BY DEF Ascending
        <5>1. k + 1 < l + 1 BY <4>4
        <5>2. q[k + 1] < q[l + 1] BY <4>4, <4>5, <5>1 DEF Ascending
        <5> QED BY <4>3, <5>2
      <4>7. \A d \in Nat : InQueue(m, d)' <=> InQueue(m, d) /\ d # c
        <5> SUFFICES ASSUME NEW d \in Nat
                     PROVE  (\E k \in DOMAIN s : s[k] = d) <=> (\E k \in DOMAIN q : q[k] = d) /\ d # c
          BY <4>1 DEF InQueue, q
        <5>1. ASSUME NEW k \in DOMAIN s, s[k] = d PROVE (\E l \in DOMAIN q : q[l] = d) /\ d # c
          <6>1. q[k + 1] = d BY <4>3, <5>1
          <6>2. q[1] < q[k + 1] BY <4>4, <4>5 DEF Ascending
          <6> QED BY <4>2, <4>4, <6>1, <6>2
        <5>2. ASSUME NEW k \in DOMAIN q, q[k] = d, d # c PROVE \E l \in DOMAIN s : s[l] = d
          <6>1. k # 1 BY <4>2, <5>2
          <6>2. k - 1 \in DOMAIN s /\ k - 1 + 1 = k BY <4>3, <6>1
          <6> QED BY <4>3, <5>2, <6>2
        <5> QED BY <5>1, <5>2
      <4> QED BY <1>8, <3>1, <4>1, <4>6, <4>7
    <3> QED BY <3>2, <3>4, <3>5
  <2> QED BY <1>4, <2>1, <2>2 DEF OpenInv
<1>11. PairsInv'
  <2>1. InStep(c) =>
           <<c, Match>>[2] = IF <<c, Match>>[1] \in ShownCalls THEN <<c, Match>>[1] ELSE Unmatched
    BY <1>6
  <2> QED BY <1>1, <1>3, <1>5, <2>1 DEF PairsInv, PairedRight, Unmatched
<1> QED BY <1>3, <1>9, <1>10, <1>11 DEF ReplayInv

LEMMA ReplayNextInv == ReplayInv /\ [ReplayNext]_replayVars => ReplayInv'
BY ReplayStutter, AgentInv, ReplaySkipsInv, ReplayCallInv, ReplayResponseInv DEF ReplayNext

\* A frontend that loads a session sees a response complete its own call, and none when
\* that call is not shown (Backend.Replay in internal/serve/replay.go): with ids whatever
\* is missing from the history; without them for a call before which no shown call of its
\* name was left without a response.
THEOREM PairedRightHolds == ReplaySpec => []PairedRight
<1>1. ReplayInv => PairedRight BY DEF ReplayInv, PairsInv
<1> QED BY <1>1, ReplayInitInv, ReplayNextInv, PTL DEF ReplaySpec
================================================================================
