------------------------------ MODULE OAuthProofs ------------------------------
(***************************************************************************)
(* Proof that the recovery of OAuth locks tells the living from the dead,  *)
(* for any number of other processes and locks.                            *)
(*                                                                         *)
(* The argument follows one lock at a time.  What the recovery saw of it   *)
(* is still true of it as long as the lock is one to keep or to clear:     *)
(* whatever else happens to a lock takes it out of both sets.              *)
(***************************************************************************)
EXTENDS OAuthLock, TLAPS

Files == [id : Nat \ {0}, beat : Nat, old : BOOLEAN, pid : SUBSET Holders]

Recoveries ==
    [candidate : {"none", "main", "legacy"},
     pc : {"idle", "stat", "read", "judge", "restat", "unlink", "unlink owner",
           "unlink legacy", "done"},
     seen : Files \union {NoLock}, pid : SUBSET Holders]

OAuthTypeOK ==
    /\ lockFiles \in [Locks -> Files \union {NoLock}]
    /\ owner \in SUBSET Holders
    /\ living \in SUBSET Holders
    /\ holds \in [Holders -> Nat]
    /\ created \in Nat
    /\ recovery \in Recoveries
    /\ steady \in SUBSET (Nat \ {0})
    /\ doomed \in SUBSET (Nat \ {0})

\* A lock file is created once, at one place, by one process.
IdInv ==
    /\ \A l \in Locks : lockFiles[l].id <= created
    /\ \A l, m \in Locks : lockFiles[l].id = lockFiles[m].id /\ lockFiles[l].id # 0 => l = m
    /\ \A h \in Holders : holds[h] <= created
    /\ \A g, h \in Holders : holds[g] = holds[h] /\ holds[g] # 0 => g = h
    /\ \A id \in steady \union doomed : id <= created

RecoveryInv ==
    /\ RecoveryAt("idle") => steady = {} /\ doomed = {}
    /\ Candidate = "none" <=> recovery.pc \in {"idle", "done"}

\* The lock's holder is the one on record, or there is none and the one on record is dead.
OnRecord(l) == \E h \in Holder(l) : h \in HolderPID(l)
Abandoned(l) ==
    /\ l = "main"
    /\ \A h \in living : holds[h] # lockFiles[l].id
    /\ \E h \in HolderPID(l) : TRUE
    /\ \A h \in HolderPID(l) : h \notin living

\* What the recovery saw of a lock is not later than what the lock is now.
NoNewer(l) == recovery.seen.beat <= lockFiles[l].beat

\* A lock to be kept: the recovery finds nothing against it but the age of what it
\* saw, and then the lock has been kept fresh since; it is never in the course of
\* removing it.
Keeps(l) ==
    lockFiles[l].id \in steady =>
        /\ ~lockFiles[l].old
        /\ \E h \in Holder(l) : TRUE
        /\ Candidate # "none" => l = "main"
        /\ Candidate = "main" =>
              /\ recovery.pc \in {"stat", "read", "judge", "restat"}
              /\ OnRecord(l)
              /\ ~RecoveryAt("stat") => recovery.seen.id = lockFiles[l].id /\ NoNewer(l)
              /\ RecoveryAt("judge") => \E h \in Holder(l) : h \in recovery.pid
              /\ RecoveryAt("restat") => recovery.seen.beat # lockFiles[l].beat

\* A lock to be cleared: its turn is yet to come, or the recovery is about to find
\* it stale, and then to find it unchanged.
Clears(l) ==
    lockFiles[l].id \in doomed =>
        \/ Candidate = "main" /\ l = "legacy" /\ lockFiles[l].old
        \/ /\ Candidate = l
           /\ recovery.pc \in {"stat", "read", "judge", "restat", "unlink"}
           /\ RecoveryAt("stat") \/ RecoveryAt("read") => lockFiles[l].old \/ Abandoned(l)
           /\ RecoveryAt("judge") => lockFiles[l].old \/ HolderDead
           /\ ~RecoveryAt("stat") => Unchanged

LockInv == \A l \in Locks : Keeps(l) /\ Clears(l)

OAuthInv == OAuthTypeOK /\ IdInv /\ RecoveryInv /\ SteadyKept /\ LockInv

LEMMA OAuthInitInv == OAuthInit => OAuthInv
<1> SUFFICES ASSUME OAuthInit PROVE OAuthInv OBVIOUS
<1>1. OAuthTypeOK
  BY DEF OAuthInit, OAuthTypeOK, Locks, NoLock, NoPid, Recoveries
<1>2. IdInv BY DEF OAuthInit, IdInv, NoLock
<1>3. RecoveryInv BY DEF OAuthInit, RecoveryInv, RecoveryAt, Candidate
<1>4. SteadyKept /\ LockInv BY DEF OAuthInit, SteadyKept, LockInv, Keeps, Clears
<1> QED BY <1>1, <1>2, <1>3, <1>4 DEF OAuthInv

\* A path without a lock is one whose lock has the identity 0.
LEMMA Identities ==
    ASSUME OAuthTypeOK, NEW l \in Locks
    PROVE  /\ lockFiles[l].id \in Nat
           /\ Present(l) <=> lockFiles[l].id # 0
           /\ Present(l) => lockFiles[l] \in Files
<1>1. lockFiles[l] \in Files \union {NoLock} BY DEF OAuthTypeOK
<1>2. NoLock.id = 0 BY DEF NoLock
<1>3. CASE lockFiles[l] = NoLock BY <1>2, <1>3 DEF Present
<1>4. CASE lockFiles[l] \in Files
  <2>1. lockFiles[l].id \in Nat \ {0} BY <1>4 DEF Files
  <2> QED BY <1>2, <1>4, <2>1 DEF Present
<1> QED BY <1>1, <1>3, <1>4

\* What the others do to a lock that stays in steady, or in doomed.
KeptStep(l) ==
    lockFiles'[l].id \in steady' =>
        /\ lockFiles[l].id = lockFiles'[l].id
        /\ lockFiles[l].id \in steady
        /\ ~lockFiles[l].old => ~lockFiles'[l].old
        /\ lockFiles[l].beat <= lockFiles'[l].beat
        /\ \A h \in Holder(l) : h \in Holder(l)'
        /\ l = "main" /\ OnRecord(l) => OnRecord(l)'

DoomedStep(l) ==
    lockFiles'[l].id \in doomed' =>
        /\ lockFiles[l].id = lockFiles'[l].id
        /\ lockFiles[l].id \in doomed
        /\ lockFiles[l].beat = lockFiles'[l].beat
        /\ lockFiles[l].old => lockFiles'[l].old
        /\ Abandoned(l) => Abandoned(l)'

\* A lock to be kept has beats, and so has what was seen of it.
LEMMA SteadyBeats ==
    ASSUME OAuthTypeOK, OAuthTypeOK', UNCHANGED recovery, NEW l \in Locks,
           lockFiles[l].id \in steady, lockFiles'[l].id \in steady',
           recovery.seen.id = lockFiles[l].id
    PROVE  lockFiles[l].beat \in Nat /\ lockFiles'[l].beat \in Nat /\ recovery.seen.beat \in Nat
<1>1. lockFiles[l].id # 0 /\ lockFiles'[l].id # 0 BY DEF OAuthTypeOK
<1>2. lockFiles[l] \in Files /\ lockFiles'[l] \in Files /\ recovery.seen \in Files
  <2>1. /\ lockFiles[l] \in Files \union {NoLock} /\ lockFiles'[l] \in Files \union {NoLock}
        /\ recovery.seen \in Files \union {NoLock}
    BY DEF OAuthTypeOK, Recoveries
  <2>2. NoLock.id = 0 BY DEF NoLock
  <2> QED BY <1>1, <2>1, <2>2
<1> QED BY <1>2 DEF Files

\* The steps of the others leave the recovery's picture of these locks right.
LEMMA OthersKeep ==
    ASSUME OAuthInv, UNCHANGED recovery, living' \subseteq living,
           steady' \subseteq steady, doomed' \subseteq doomed, OAuthTypeOK',
           NEW l \in Locks, KeptStep(l), DoomedStep(l)
    PROVE  Keeps(l)' /\ Clears(l)'
<1>1. Keeps(l) /\ Clears(l) BY DEF OAuthInv, LockInv
<1>2. Keeps(l)'
  <2>1. SUFFICES ASSUME lockFiles'[l].id \in steady' PROVE Keeps(l)' BY DEF Keeps
  <2>2. /\ lockFiles[l].id = lockFiles'[l].id /\ lockFiles[l].id \in steady
        /\ ~lockFiles[l].old => ~lockFiles'[l].old
        /\ \A h \in Holder(l) : h \in Holder(l)'
        /\ l = "main" /\ OnRecord(l) => OnRecord(l)'
    BY <2>1 DEF KeptStep
  <2>3. ASSUME Candidate = "main", ~RecoveryAt("stat")
        PROVE  /\ NoNewer(l)'
               /\ RecoveryAt("restat") => recovery.seen.beat # lockFiles'[l].beat
    <3>1. /\ recovery.seen.id = lockFiles[l].id /\ recovery.seen.beat <= lockFiles[l].beat
          /\ RecoveryAt("restat") => recovery.seen.beat # lockFiles[l].beat
      BY <1>1, <2>2, <2>3 DEF Keeps, NoNewer
    <3>2. lockFiles[l].beat <= lockFiles'[l].beat BY <2>1 DEF KeptStep
    <3>3. lockFiles[l].beat \in Nat /\ lockFiles'[l].beat \in Nat /\ recovery.seen.beat \in Nat
      BY <2>1, <2>2, <3>1, SteadyBeats DEF OAuthInv
    <3> QED BY <3>1, <3>2, <3>3 DEF NoNewer
  <2> QED BY <1>1, <2>2, <2>3 DEF Keeps, RecoveryAt, Candidate
<1>3. Clears(l)'
  <2>1. HolderDead => HolderDead' BY DEF HolderDead, NoPid
  <2> QED BY <1>1, <2>1 DEF Clears, DoomedStep, RecoveryAt, Candidate, Unchanged
<1> QED BY <1>2, <1>3

\* When the lock itself stays as it is, nobody takes or drops it, and the owner on
\* record is the same.
LEMMA LockStays ==
    ASSUME OAuthInv, NEW l \in Locks, lockFiles'[l] = lockFiles[l],
           steady' \subseteq steady, doomed' \subseteq doomed,
           living' = living, UNCHANGED owner,
           \A h \in living : holds'[h] = lockFiles[l].id <=> holds[h] = lockFiles[l].id
    PROVE  KeptStep(l) /\ DoomedStep(l)
<1>1. Holder(l)' = Holder(l) BY DEF Holder, Present
<1>2. HolderPID(l)' = HolderPID(l) BY DEF HolderPID
<1>3. KeptStep(l)
  <2>1. lockFiles[l].id \in steady => lockFiles[l].beat \in Nat
    BY Identities DEF OAuthInv, OAuthTypeOK, Files
  <2> QED BY <1>1, <1>2, <2>1 DEF KeptStep, OnRecord
<1>4. DoomedStep(l) BY <1>2 DEF DoomedStep, Abandoned
<1> QED BY <1>3, <1>4

LEMMA OthersInv ==
    ASSUME OAuthInv, UNCHANGED recovery, living' \subseteq living,
           steady' \subseteq steady, doomed' \subseteq doomed,
           OAuthTypeOK', IdInv', SteadyKept',
           \A l \in Locks : KeptStep(l) /\ DoomedStep(l)
    PROVE  OAuthInv'
<1>1. RecoveryInv' BY DEF OAuthInv, RecoveryInv, RecoveryAt, Candidate
<1>2. LockInv' BY OthersKeep DEF LockInv
<1> QED BY <1>1, <1>2 DEF OAuthInv

--------------------------------------------------------------------------------
\* A lock that is taken has a new identity, which nothing refers to yet.
LEMMA AcquireInv ==
    ASSUME OAuthInv, NEW h \in Holders, NEW l \in Locks, Acquire(h, l)
    PROVE  OAuthInv'
<1>1. OAuthTypeOK /\ IdInv /\ SteadyKept BY DEF OAuthInv
<1>2. /\ h \in living /\ holds[h] = 0 /\ ~Present(l)
      /\ created' = created + 1 /\ holds' = [holds EXCEPT ![h] = created + 1]
      /\ UNCHANGED <<owner, living, recovery, steady, doomed>>
  BY DEF Acquire
<1>3. PICK pid \in {NoPid, {h}} :
        lockFiles' = [lockFiles EXCEPT
            ![l] = [id |-> created + 1, beat |-> 0, old |-> FALSE, pid |-> pid]]
  BY DEF Acquire
<1> DEFINE file == [id |-> created + 1, beat |-> 0, old |-> FALSE, pid |-> pid]
<1>4. created \in Nat /\ file \in Files /\ file.id = created + 1
  BY <1>1, <1>2 DEF OAuthTypeOK, Files, NoPid
<1>5. lockFiles' = [lockFiles EXCEPT ![l] = file] BY <1>3
<1> HIDE DEF file
<1>6. /\ lockFiles' \in [Locks -> Files \union {NoLock}]
      /\ lockFiles'[l] = file
      /\ \A m \in Locks : m # l => lockFiles'[m] = lockFiles[m]
  BY <1>1, <1>4, <1>5 DEF OAuthTypeOK
<1>7. /\ holds' \in [Holders -> Nat]
      /\ holds'[h] = created + 1
      /\ \A g \in Holders : g # h => holds'[g] = holds[g]
  BY <1>1, <1>2, <1>4 DEF OAuthTypeOK
<1>8. OAuthTypeOK' BY <1>1, <1>2, <1>4, <1>6, <1>7 DEF OAuthTypeOK
<1>9. \A m \in Locks : lockFiles[m].id \in Nat /\ lockFiles[m].id <= created
  BY <1>1, Identities DEF IdInv
<1>10. \A g \in Holders : holds[g] \in Nat /\ holds[g] <= created
  BY <1>1 DEF IdInv, OAuthTypeOK
<1>11. lockFiles[l].id = 0 BY <1>1, <1>2, Identities
<1>12. \A id \in steady \union doomed : id \in Nat /\ id # 0 /\ id <= created
  BY <1>1 DEF IdInv, OAuthTypeOK
<1>13. IdInv'
  <2>1. \A m \in Locks : lockFiles'[m].id <= created'
    BY <1>2, <1>4, <1>6, <1>9
  <2>2. \A m, n \in Locks : lockFiles'[m].id = lockFiles'[n].id /\ lockFiles'[m].id # 0 => m = n
    BY <1>1, <1>4, <1>6, <1>9 DEF IdInv
  <2>3. \A g \in Holders : holds'[g] <= created' BY <1>2, <1>4, <1>7, <1>10
  <2>4. \A f, g \in Holders : holds'[f] = holds'[g] /\ holds'[f] # 0 => f = g
    BY <1>1, <1>4, <1>7, <1>10 DEF IdInv
  <2>5. \A id \in steady' \union doomed' : id <= created' BY <1>2, <1>4, <1>12
  <2> QED BY <2>1, <2>2, <2>3, <2>4, <2>5 DEF IdInv
<1>14. SteadyKept' BY <1>1, <1>2, <1>6, <1>11, <1>12 DEF SteadyKept
<1>15. ASSUME NEW m \in Locks PROVE KeptStep(m) /\ DoomedStep(m)
  <2>1. CASE m = l BY <1>2, <1>4, <1>6, <1>12, <2>1 DEF KeptStep, DoomedStep
  <2>2. CASE m # l /\ ~(lockFiles'[m].id \in steady' \union doomed')
    BY <2>2 DEF KeptStep, DoomedStep
  <2>3. CASE m # l /\ lockFiles'[m].id \in steady' \union doomed'
    <3>1. lockFiles'[m] = lockFiles[m] /\ lockFiles[m].id # 0
      BY <1>2, <1>6, <1>12, <2>3
    <3>2. \A g \in living : holds'[g] = lockFiles[m].id <=> holds[g] = lockFiles[m].id
      BY <1>1, <1>2, <1>4, <1>7, <1>9, <3>1 DEF OAuthTypeOK
    <3> QED BY <1>2, <3>1, <3>2, LockStays
  <2> QED BY <2>1, <2>2, <2>3
<1> QED BY <1>2, <1>8, <1>13, <1>14, <1>15, OthersInv

\* The owner file is written by the main lock's holder.
LEMMA WriteOwnerInv ==
    ASSUME OAuthInv, NEW h \in Holders, WriteOwner(h)
    PROVE  OAuthInv'
<1>1. OAuthTypeOK /\ IdInv /\ SteadyKept BY DEF OAuthInv
<1>2. /\ h \in living /\ Present("main") /\ holds[h] = lockFiles["main"].id
      /\ owner' = {h}
      /\ UNCHANGED <<lockFiles, living, holds, created, recovery, steady, doomed>>
  BY DEF WriteOwner
<1>3. OAuthTypeOK' /\ IdInv' /\ SteadyKept' BY <1>1, <1>2 DEF OAuthTypeOK, IdInv, SteadyKept
<1>4. \A m \in Locks : Holder(m)' = Holder(m) BY <1>2 DEF Holder, Present
<1>5. ASSUME NEW m \in Locks PROVE KeptStep(m)
  <2>1. h \in Holder("main") /\ HolderPID("main")' = {h}
    BY <1>2 DEF Holder, HolderPID, NoPid
  <2>2. OnRecord("main")' BY <1>4, <2>1 DEF OnRecord, Locks
  <2>3. lockFiles[m].id \in steady => lockFiles[m].beat \in Nat
    BY <1>1, Identities DEF OAuthTypeOK, Files
  <2> QED BY <1>2, <1>4, <2>2, <2>3 DEF KeptStep
<1>6. ASSUME NEW m \in Locks PROVE DoomedStep(m)
  <2>1. ~Abandoned(m) BY <1>2 DEF Abandoned
  <2> QED BY <1>2, <2>1 DEF DoomedStep
<1> QED BY <1>2, <1>3, <1>5, <1>6, OthersInv

\* A heartbeat takes the lock off the list of those to be cleared.
LEMMA HeartbeatInv ==
    ASSUME OAuthInv, NEW h \in Holders, NEW l \in Locks, Heartbeat(h, l)
    PROVE  OAuthInv'
<1>1. OAuthTypeOK /\ IdInv /\ SteadyKept BY DEF OAuthInv
<1>2. /\ h \in living /\ Present(l) /\ holds[h] = lockFiles[l].id
      /\ doomed' = doomed \ {holds[h]}
      /\ UNCHANGED <<owner, living, holds, created, recovery, steady>>
  BY DEF Heartbeat
<1> DEFINE file == [lockFiles[l] EXCEPT !.beat = @ + 1, !.old = FALSE]
<1>3. lockFiles[l] \in Files BY <1>1, <1>2, Identities
<1>4. /\ file \in Files /\ file.id = lockFiles[l].id /\ file.pid = lockFiles[l].pid
      /\ file.old = FALSE /\ lockFiles[l].beat <= file.beat
  <2> DEFINE beaten == [lockFiles[l] EXCEPT !.beat = @ + 1]
  <2>1. /\ beaten \in Files /\ beaten.id = lockFiles[l].id /\ beaten.pid = lockFiles[l].pid
        /\ lockFiles[l].beat <= beaten.beat
    BY <1>3 DEF Files
  <2>2. file = [beaten EXCEPT !.old = FALSE] OBVIOUS
  <2> HIDE DEF beaten, file
  <2> QED BY <2>1, <2>2 DEF Files
<1>5. lockFiles' = [lockFiles EXCEPT ![l] = file]
  BY <1>1, <1>3 DEF Heartbeat, OAuthTypeOK, Files
<1> HIDE DEF file
<1>6. /\ lockFiles' \in [Locks -> Files \union {NoLock}]
      /\ lockFiles'[l] = file
      /\ \A m \in Locks : m # l => lockFiles'[m] = lockFiles[m]
  BY <1>1, <1>4, <1>5 DEF OAuthTypeOK
<1>7. \A m \in Locks : lockFiles'[m].id = lockFiles[m].id /\ lockFiles'[m].pid = lockFiles[m].pid
  BY <1>4, <1>6
<1>8. OAuthTypeOK' BY <1>1, <1>2, <1>6 DEF OAuthTypeOK
<1>9. IdInv' BY <1>1, <1>2, <1>7 DEF IdInv
<1>10. SteadyKept' BY <1>1, <1>2, <1>7 DEF SteadyKept
<1>11. ASSUME NEW m \in Locks PROVE KeptStep(m) /\ DoomedStep(m)
  <2>1. CASE m = l
    <3>1. \A g \in Holder(l) : g \in Holder(l)'
      BY <1>1, <1>2, <1>7, <1>8, Identities DEF Holder, Present, NoLock
    <3>2. HolderPID(l)' = HolderPID(l) BY <1>2, <1>7 DEF HolderPID
    <3>3. KeptStep(l) BY <1>2, <1>4, <1>6, <3>1, <3>2 DEF KeptStep, OnRecord
    <3>4. DoomedStep(l) BY <1>2, <1>7 DEF DoomedStep
    <3> QED BY <2>1, <3>3, <3>4
  <2>2. CASE m # l
    <3>1. lockFiles'[m] = lockFiles[m] BY <1>6, <2>2
    <3> QED BY <1>2, <3>1, LockStays
  <2> QED BY <2>1, <2>2
<1> QED BY <1>2, <1>8, <1>9, <1>10, <1>11, OthersInv

\* A lock that grows old is no longer one to keep.
LEMMA GrowsOldInv ==
    ASSUME OAuthInv, NEW l \in Locks, GrowsOld(l)
    PROVE  OAuthInv'
<1>1. OAuthTypeOK /\ IdInv /\ SteadyKept BY DEF OAuthInv
<1>2. /\ Present(l)
      /\ steady' = steady \ {lockFiles[l].id}
      /\ UNCHANGED <<owner, living, holds, created, recovery, doomed>>
  BY DEF GrowsOld
<1> DEFINE file == [lockFiles[l] EXCEPT !.old = TRUE]
<1>3. lockFiles[l] \in Files BY <1>1, <1>2, Identities
<1>4. /\ file \in Files /\ file.id = lockFiles[l].id /\ file.pid = lockFiles[l].pid
      /\ file.old = TRUE /\ file.beat = lockFiles[l].beat
  BY <1>3 DEF Files
<1>5. lockFiles' = [lockFiles EXCEPT ![l] = file]
  BY DEF GrowsOld
<1> HIDE DEF file
<1>6. /\ lockFiles' \in [Locks -> Files \union {NoLock}]
      /\ lockFiles'[l] = file
      /\ \A m \in Locks : m # l => lockFiles'[m] = lockFiles[m]
  BY <1>1, <1>4, <1>5 DEF OAuthTypeOK
<1>7. \A m \in Locks : lockFiles'[m].id = lockFiles[m].id /\ lockFiles'[m].pid = lockFiles[m].pid
  BY <1>4, <1>6
<1>8. OAuthTypeOK' BY <1>1, <1>2, <1>6 DEF OAuthTypeOK
<1>9. IdInv' BY <1>1, <1>2, <1>7 DEF IdInv
<1>10. SteadyKept' BY <1>1, <1>2, <1>7 DEF SteadyKept
<1>11. ASSUME NEW m \in Locks PROVE KeptStep(m) /\ DoomedStep(m)
  <2>1. CASE m = l
    <3>1. HolderPID(l)' = HolderPID(l) BY <1>2, <1>7 DEF HolderPID
    <3>2. KeptStep(l) BY <1>2, <1>7 DEF KeptStep
    <3>3. DoomedStep(l) BY <1>2, <1>4, <1>6, <3>1 DEF DoomedStep, Abandoned
    <3> QED BY <2>1, <3>2, <3>3
  <2>2. CASE m # l
    <3>1. lockFiles'[m] = lockFiles[m] BY <1>6, <2>2
    <3> QED BY <1>2, <3>1, LockStays
  <2> QED BY <2>1, <2>2
<1> QED BY <1>2, <1>8, <1>9, <1>10, <1>11, OthersInv

\* A lock that its holder or another process removes.
LEMMA LockGoes ==
    ASSUME OAuthInv, NEW l \in Locks, Present(l),
           lockFiles' = [lockFiles EXCEPT ![l] = NoLock],
           steady' = steady \ {lockFiles[l].id},
           UNCHANGED <<living, created, recovery, doomed>>,
           OAuthTypeOK', \A h \in Holders : holds'[h] \in {0, holds[h]},
           \A m \in Locks \ {l} : KeptStep(m) /\ DoomedStep(m)
    PROVE  OAuthInv'
<1>1. OAuthTypeOK /\ IdInv /\ SteadyKept BY DEF OAuthInv
<1>2. NoLock.id = 0 /\ 0 \notin steady' /\ 0 \notin doomed'
  BY DEF OAuthTypeOK, NoLock
<1>3. lockFiles'[l] = NoLock /\ \A m \in Locks : m # l => lockFiles'[m] = lockFiles[m]
  BY <1>1 DEF OAuthTypeOK
<1>4. IdInv'
  <2>1. \A m \in Locks : lockFiles'[m].id <= created' BY <1>1, <1>2, <1>3 DEF IdInv, OAuthTypeOK
  <2>2. \A m, n \in Locks : lockFiles'[m].id = lockFiles'[n].id /\ lockFiles'[m].id # 0 => m = n
    BY <1>1, <1>2, <1>3 DEF IdInv
  <2>3. \A g \in Holders : holds'[g] <= created' BY <1>1 DEF IdInv, OAuthTypeOK
  <2>4. \A f, g \in Holders : holds'[f] = holds'[g] /\ holds'[f] # 0 => f = g
    BY <1>1 DEF IdInv
  <2>5. \A id \in steady' \union doomed' : id <= created' BY <1>1 DEF IdInv
  <2> QED BY <2>1, <2>2, <2>3, <2>4, <2>5 DEF IdInv
<1>5. SteadyKept' BY <1>1, <1>3 DEF SteadyKept
<1>6. KeptStep(l) /\ DoomedStep(l) BY <1>2, <1>3 DEF KeptStep, DoomedStep
<1> QED BY <1>4, <1>5, <1>6, OthersInv

LEMMA OtherClearsInv ==
    ASSUME OAuthInv, NEW l \in Locks, OtherClears(l)
    PROVE  OAuthInv'
<1>1. OAuthTypeOK BY DEF OAuthInv
<1>2. /\ Present(l) /\ lockFiles' = [lockFiles EXCEPT ![l] = NoLock]
      /\ steady' = steady \ {lockFiles[l].id}
      /\ UNCHANGED <<owner, living, holds, created, recovery, doomed>>
  BY DEF OtherClears
<1>3. OAuthTypeOK' BY <1>1, <1>2 DEF OAuthTypeOK
<1>4. \A m \in Locks \ {l} : lockFiles'[m] = lockFiles[m] BY <1>1, <1>2 DEF OAuthTypeOK
<1>5. \A m \in Locks \ {l} : KeptStep(m) /\ DoomedStep(m) BY <1>2, <1>4, LockStays
<1> QED BY <1>2, <1>3, <1>5, LockGoes

\* The holder that gives up a lock holds no other one, so that the record of the
\* main lock's holder stays when it is the legacy lock that goes.
LEMMA GiveUpInv ==
    ASSUME OAuthInv, NEW h \in Holders, NEW l \in Locks, GiveUp(h, l)
    PROVE  OAuthInv'
<1>1. OAuthTypeOK /\ IdInv BY DEF OAuthInv
<1>2. /\ h \in living /\ Present(l) /\ holds[h] = lockFiles[l].id
      /\ lockFiles' = [lockFiles EXCEPT ![l] = NoLock]
      /\ owner' = owner \ {h} /\ holds' = [holds EXCEPT ![h] = 0]
      /\ steady' = steady \ {lockFiles[l].id}
      /\ UNCHANGED <<living, created, recovery, doomed>>
  BY DEF GiveUp
<1>3. OAuthTypeOK' BY <1>1, <1>2 DEF OAuthTypeOK
<1>4. \A m \in Locks \ {l} : lockFiles'[m] = lockFiles[m] BY <1>1, <1>2 DEF OAuthTypeOK
<1>5. \A g \in Holders : holds'[g] = IF g = h THEN 0 ELSE holds[g]
  BY <1>1, <1>2 DEF OAuthTypeOK
<1>6. ASSUME NEW m \in Locks \ {l}, lockFiles[m].id # 0 PROVE KeptStep(m) /\ DoomedStep(m)
  <2>1. lockFiles[m].id # holds[h] BY <1>1, <1>2, <1>6 DEF IdInv
  <2>2. Holder(m)' = Holder(m)
    BY <1>1, <1>2, <1>4, <1>5, <1>6, <2>1 DEF Holder, Present, OAuthTypeOK
  <2>3. h \notin Holder(m) BY <2>1 DEF Holder
  <2>4. OnRecord(m) => OnRecord(m)'
    BY <1>2, <1>4, <2>2, <2>3 DEF OnRecord, HolderPID, NoPid
  <2>5. Abandoned(m) => Abandoned(m)'
    <3>1. SUFFICES ASSUME Abandoned(m) PROVE Abandoned(m)' OBVIOUS
    <3>2. h \notin HolderPID(m) BY <1>2, <3>1 DEF Abandoned
    <3>3. HolderPID(m)' = HolderPID(m) BY <1>2, <1>4, <3>2 DEF HolderPID, NoPid
    <3> QED BY <1>1, <1>2, <1>4, <1>5, <1>6, <3>1, <3>3 DEF Abandoned, OAuthTypeOK
  <2>6. lockFiles[m].beat \in Nat
    BY <1>1, <1>6, Identities DEF Files
  <2> QED BY <1>2, <1>4, <2>2, <2>4, <2>5, <2>6 DEF KeptStep, DoomedStep
<1>7. ASSUME NEW m \in Locks \ {l}, lockFiles[m].id = 0 PROVE KeptStep(m) /\ DoomedStep(m)
  BY <1>3, <1>4, <1>7 DEF KeptStep, DoomedStep, OAuthTypeOK
<1> QED BY <1>2, <1>3, <1>5, <1>6, <1>7, LockGoes

\* A lock whose holder dies is no longer one to keep.
LEMMA HolderDiesInv ==
    ASSUME OAuthInv, NEW h \in Holders, HolderDies(h)
    PROVE  OAuthInv'
<1>1. OAuthTypeOK /\ IdInv /\ SteadyKept BY DEF OAuthInv
<1>2. /\ living' = living \ {h} /\ steady' = steady \ {holds[h]}
      /\ UNCHANGED <<lockFiles, owner, holds, created, recovery, doomed>>
  BY DEF HolderDies
<1>3. OAuthTypeOK' /\ IdInv' /\ SteadyKept' BY <1>1, <1>2 DEF OAuthTypeOK, IdInv, SteadyKept
<1>4. ASSUME NEW m \in Locks PROVE KeptStep(m)
  <2>1. lockFiles[m].id \in steady' => h \notin Holder(m) BY <1>2 DEF Holder
  <2>2. Holder(m)' = Holder(m) \ {h} /\ HolderPID(m)' = HolderPID(m)
    BY <1>2 DEF Holder, Present, HolderPID
  <2>3. lockFiles[m].id \in steady => lockFiles[m].beat \in Nat
    BY <1>1, Identities DEF OAuthTypeOK, Files
  <2> QED BY <1>2, <2>1, <2>2, <2>3 DEF KeptStep, OnRecord
<1>5. ASSUME NEW m \in Locks PROVE DoomedStep(m)
  BY <1>2 DEF DoomedStep, Abandoned, HolderPID
<1> QED BY <1>2, <1>3, <1>4, <1>5, OthersInv

--------------------------------------------------------------------------------
(***************************************************************************)
(* The steps of the recovery.                                              *)
(***************************************************************************)
\* What it picks out at its start.
LEMMA StartRecoveryInv == OAuthInv /\ StartRecovery => OAuthInv'
<1> SUFFICES ASSUME OAuthInv, StartRecovery PROVE OAuthInv' OBVIOUS
<1>1. OAuthTypeOK /\ IdInv BY DEF OAuthInv
<1>2. /\ recovery' = [recovery EXCEPT !.candidate = "main", !.pc = "stat"]
      /\ steady' = {lockFiles[l].id : l \in {m \in Locks : MustKeep(m)}}
      /\ doomed' = {lockFiles[l].id : l \in {m \in Locks : MustClear(m)}}
      /\ UNCHANGED <<lockFiles, owner, living, holds, created>>
  BY DEF StartRecovery
<1>3. recovery' \in Recoveries /\ recovery'.candidate = "main" /\ recovery'.pc = "stat"
  BY <1>1, <1>2 DEF OAuthTypeOK, Recoveries
<1>4. \A l \in Locks : MustKeep(l) \/ MustClear(l) => lockFiles[l].id \in Nat \ {0}
  BY <1>1, Identities DEF MustKeep, MustClear, Holder
<1>5. OAuthTypeOK' BY <1>1, <1>2, <1>3, <1>4 DEF OAuthTypeOK
<1>6. IdInv' BY <1>1, <1>2 DEF IdInv
<1>7. RecoveryInv' BY <1>3 DEF RecoveryInv, RecoveryAt, Candidate
<1>8. SteadyKept' BY <1>2 DEF SteadyKept
<1>9. ASSUME NEW l \in Locks PROVE Keeps(l)' /\ Clears(l)'
  <2>1. lockFiles'[l].id \in steady' => MustKeep(l)
    BY <1>1, <1>2, <1>4 DEF IdInv
  <2>2. lockFiles'[l].id \in doomed' => MustClear(l)
    BY <1>1, <1>2, <1>4 DEF IdInv
  <2>3. Holder(l)' = Holder(l) /\ HolderPID(l)' = HolderPID(l)
    BY <1>2 DEF Holder, Present, HolderPID
  <2>4. Keeps(l)'
    BY <1>2, <1>3, <2>1, <2>3 DEF Keeps, MustKeep, OnRecord, RecoveryAt, Candidate
  <2>5. MustClear(l) => \/ l = "legacy" /\ lockFiles[l].old
                        \/ l = "main" /\ (lockFiles[l].old \/ Abandoned(l))
    BY DEF MustClear, Abandoned, Locks, Holder, NoPid
  <2>6. Abandoned(l) => Abandoned(l)' BY <1>2, <2>3 DEF Abandoned
  <2>7. Clears(l)'
    BY <1>2, <1>3, <2>2, <2>5, <2>6 DEF Clears, RecoveryAt, Candidate
  <2> QED BY <2>4, <2>7
<1>10. LockInv' BY <1>9 DEF LockInv
<1> QED BY <1>5, <1>6, <1>7, <1>8, <1>10 DEF OAuthInv

\* A step of the recovery that only looks.
LEMMA LooksInv ==
    ASSUME OAuthInv, Candidate # "none",
           UNCHANGED lockFiles, UNCHANGED owner, UNCHANGED living, UNCHANGED holds,
           UNCHANGED created, doomed' \subseteq doomed,
           recovery' \in Recoveries,
           recovery'.candidate = "none" <=> recovery'.pc = "done",
           recovery'.pc # "idle",
           \A id \in steady' : id \in steady \/ (Present(Candidate) /\ id = lockFiles[Candidate].id),
           \A l \in Locks : Keeps(l)' /\ Clears(l)'
    PROVE  OAuthInv'
<1>1. OAuthTypeOK /\ IdInv /\ SteadyKept BY DEF OAuthInv
<1>2. Candidate \in Locks BY <1>1 DEF OAuthTypeOK, Recoveries, Candidate, Locks
<1>4. \A id \in steady' : id \in Nat \ {0}
  BY <1>1, <1>2, Identities DEF OAuthTypeOK
<1>5. OAuthTypeOK' BY <1>1, <1>4 DEF OAuthTypeOK
<1>6. IdInv' BY <1>1, <1>2 DEF IdInv
<1>7. RecoveryInv' BY DEF RecoveryInv, RecoveryAt, Candidate
<1>8. SteadyKept' BY <1>1, <1>2 DEF SteadyKept
<1> QED BY <1>5, <1>6, <1>7, <1>8 DEF OAuthInv, LockInv

\* Where the recovery goes when it leaves a lock alone.
LEMMA NextCandidates ==
    ASSUME OAuthTypeOK, Candidate # "none"
    PROVE  /\ NextCandidate \in Recoveries
           /\ IF Candidate = "main"
              THEN NextCandidate.candidate = "legacy" /\ NextCandidate.pc = "stat"
              ELSE NextCandidate.candidate = "none" /\ NextCandidate.pc = "done"
BY DEF NextCandidate, Recoveries, NoPid

\* Where it goes on from a lock that it leaves: such a lock is none to clear.
LEMMA LeavesInv ==
    ASSUME OAuthInv, Candidate # "none", recovery' = NextCandidate,
           UNCHANGED lockFiles, UNCHANGED owner, UNCHANGED living, UNCHANGED holds,
           UNCHANGED created, doomed' \subseteq doomed,
           lockFiles[Candidate].id \notin doomed',
           \A id \in steady' : id \in steady \/ (Present(Candidate) /\ id = lockFiles[Candidate].id),
           \A l \in Locks : lockFiles[l].id \in steady' => ~lockFiles[l].old /\ \E h \in Holder(l) : TRUE
    PROVE  OAuthInv'
<1>1. OAuthTypeOK /\ IdInv /\ LockInv BY DEF OAuthInv
<1>2. Candidate \in Locks BY <1>1 DEF OAuthTypeOK, Recoveries, Candidate, Locks
<1>3. /\ recovery' \in Recoveries /\ recovery'.pc # "idle"
      /\ recovery'.candidate = "none" <=> recovery'.pc = "done"
      /\ recovery'.candidate # "main"
      /\ recovery'.candidate = "legacy" => Candidate = "main" /\ recovery'.pc = "stat"
  BY <1>1, NextCandidates
<1>4. ASSUME NEW l \in Locks PROVE Keeps(l)' /\ Clears(l)'
  <2>1. Keeps(l) /\ Clears(l) BY <1>1 DEF LockInv
  <2>2. Holder(l)' = Holder(l) BY DEF Holder, Present
  <2>3. ASSUME recovery'.candidate # "none", lockFiles[l].id \in steady'
        PROVE  l = "main"
    <3>1. Candidate = "main" BY <1>3, <2>3 DEF Recoveries
    <3>2. CASE lockFiles[l].id \in steady BY <2>1, <3>1, <3>2 DEF Keeps
    <3>3. CASE Present("main") /\ lockFiles[l].id = lockFiles["main"].id
      BY <1>1, <3>3, Identities DEF IdInv, Locks
    <3> QED BY <2>3, <3>1, <3>2, <3>3
  <2>4. Keeps(l)' BY <1>3, <2>2, <2>3 DEF Keeps, Candidate
  <2>5. lockFiles[l].id \in doomed' => Candidate = "main" /\ l = "legacy" /\ lockFiles[l].old
    BY <2>1 DEF Clears
  <2>6. Candidate = "main" => recovery'.candidate = "legacy"
    BY <1>1, NextCandidates
  <2>7. Clears(l)' BY <1>3, <2>5, <2>6 DEF Clears, RecoveryAt, Candidate
  <2> QED BY <2>4, <2>7
<1> QED BY <1>3, <1>4, LooksInv

LEMMA StatInv == OAuthInv /\ StatLock => OAuthInv'
<1> SUFFICES ASSUME OAuthInv, StatLock PROVE OAuthInv' OBVIOUS
<1>1. OAuthTypeOK /\ RecoveryInv /\ LockInv BY DEF OAuthInv
<1>2. /\ recovery.pc = "stat"
      /\ UNCHANGED <<lockFiles, owner, living, holds, created, steady, doomed>>
  BY DEF StatLock, RecoveryAt
<1>3. Candidate \in Locks
  BY <1>1, <1>2 DEF OAuthTypeOK, Recoveries, Candidate, Locks, RecoveryInv
<1>4. \A l \in Locks : /\ Holder(l)' = Holder(l) /\ HolderPID(l)' = HolderPID(l)
                       /\ Abandoned(l)' <=> Abandoned(l)
  BY <1>2 DEF Holder, Present, HolderPID, Abandoned
<1>5. CASE Present(Candidate)
  <2>1. lockFiles[Candidate] \in Files BY <1>1, <1>3, <1>5, Identities
  <2>2. /\ recovery' \in Recoveries /\ recovery'.candidate = Candidate
        /\ recovery'.pc = "read" /\ recovery'.seen = lockFiles[Candidate]
    BY <1>1, <1>5, <2>1 DEF StatLock, OAuthTypeOK, Recoveries, Candidate
  <2>3. ASSUME NEW l \in Locks PROVE Keeps(l)' /\ Clears(l)'
    <3>1. Keeps(l) /\ Clears(l) BY <1>1 DEF LockInv
    <3>2. Keeps(l)'
      <4>1. lockFiles[Candidate].beat <= lockFiles[Candidate].beat BY <2>1 DEF Files
      <4> QED BY <1>2, <1>4, <2>2, <3>1, <4>1 DEF Keeps, NoNewer, OnRecord, RecoveryAt, Candidate
    <3>3. Clears(l)'
      BY <1>2, <1>4, <2>2, <3>1 DEF Clears, RecoveryAt, Candidate, Unchanged
    <3> QED BY <3>2, <3>3
  <2>4. Candidate # "none" BY <1>3 DEF Locks
  <2>5. recovery'.candidate = "none" <=> recovery'.pc = "done" BY <2>2, <2>4
  <2> QED BY <1>2, <2>2, <2>3, <2>4, <2>5, LooksInv
<1>6. CASE ~Present(Candidate)
  <2>1. recovery' = NextCandidate BY <1>6 DEF StatLock
  <2>2. lockFiles[Candidate].id \notin doomed
    BY <1>1, <1>3, <1>6, Identities DEF OAuthTypeOK
  <2>3. Candidate # "none" BY <1>3 DEF Locks
  <2>4. \A l \in Locks :
          lockFiles[l].id \in steady => ~lockFiles[l].old /\ \E h \in Holder(l) : TRUE
    BY <1>1 DEF LockInv, Keeps
  <2> QED BY <1>2, <2>1, <2>2, <2>3, <2>4, LeavesInv
<1> QED BY <1>5, <1>6

LEMMA ReadInv == OAuthInv /\ ReadHolderPID => OAuthInv'
<1> SUFFICES ASSUME OAuthInv, ReadHolderPID PROVE OAuthInv' OBVIOUS
<1>1. OAuthTypeOK /\ RecoveryInv /\ LockInv BY DEF OAuthInv
<1>2. /\ recovery.pc = "read"
      /\ UNCHANGED <<lockFiles, owner, living, holds, created, steady, doomed>>
  BY DEF ReadHolderPID, RecoveryAt
<1>3. Candidate \in Locks
  BY <1>1, <1>2 DEF OAuthTypeOK, Recoveries, Candidate, Locks, RecoveryInv
<1> DEFINE pid == IF owner # NoPid THEN owner
                  ELSE IF Present(Candidate) THEN lockFiles[Candidate].pid ELSE NoPid
<1>4. pid \in SUBSET Holders BY <1>1, <1>3, Identities DEF OAuthTypeOK, Files, NoPid
<1>5. Present(Candidate) => pid = HolderPID(Candidate) BY DEF HolderPID
<1>6. recovery' = [recovery EXCEPT !.pc = "judge", !.pid = pid] BY DEF ReadHolderPID
<1> HIDE DEF pid
<1>7. /\ recovery' \in Recoveries /\ recovery'.candidate = Candidate
      /\ recovery'.pc = "judge" /\ recovery'.seen = recovery.seen /\ recovery'.pid = pid
  <2> DEFINE judging == [recovery EXCEPT !.pc = "judge"]
  <2>1. /\ judging \in Recoveries /\ judging.candidate = Candidate
        /\ judging.pc = "judge" /\ judging.seen = recovery.seen
    BY <1>1 DEF OAuthTypeOK, Recoveries, Candidate
  <2>2. recovery' = [judging EXCEPT !.pid = pid] BY <1>6
  <2> HIDE DEF judging
  <2> QED BY <1>4, <2>1, <2>2 DEF Recoveries
<1>8. ASSUME NEW l \in Locks PROVE Keeps(l)' /\ Clears(l)'
  <2>1. Keeps(l) /\ Clears(l) BY <1>1 DEF LockInv
  <2>2. /\ Holder(l)' = Holder(l) /\ HolderPID(l)' = HolderPID(l)
        /\ Unchanged' <=> Unchanged
    BY <1>2, <1>7 DEF Holder, Present, HolderPID, Unchanged, Candidate
  <2>3. lockFiles[l].id \in steady \union doomed => Present(l)
    BY <1>1, Identities DEF OAuthTypeOK
  <2>4. Keeps(l)'
    <3>1. SUFFICES ASSUME lockFiles[l].id \in steady, Candidate = "main"
                   PROVE  \E h \in Holder(l) : h \in pid
      BY <1>2, <1>7, <2>1, <2>2, <3>1 DEF Keeps, NoNewer, OnRecord, RecoveryAt, Candidate
    <3>2. OnRecord("main") /\ l = "main" BY <2>1, <3>1 DEF Keeps
    <3> QED BY <1>5, <2>3, <3>1, <3>2 DEF OnRecord
  <2>5. Clears(l)'
    <3>1. SUFFICES ASSUME lockFiles[l].id \in doomed, Candidate = l, ~lockFiles[l].old
                   PROVE  HolderDead'
      BY <1>2, <1>7, <2>1, <2>2, <3>1 DEF Clears, RecoveryAt, Candidate
    <3>2. Abandoned(l)
      BY <1>2, <2>1, <3>1 DEF Clears, RecoveryAt
    <3> QED BY <1>2, <1>5, <1>7, <2>3, <3>1, <3>2 DEF Abandoned, HolderDead, NoPid
  <2> QED BY <2>4, <2>5
<1>9. Candidate # "none" BY <1>3 DEF Locks
<1> QED BY <1>2, <1>7, <1>8, <1>9, LooksInv

\* A lock to be kept is judged stale only by an age that it no longer has, and one
\* to be cleared is always judged so.
LEMMA JudgeInv == OAuthInv /\ Judge => OAuthInv'
<1> SUFFICES ASSUME OAuthInv, Judge PROVE OAuthInv' OBVIOUS
<1>1. OAuthTypeOK /\ RecoveryInv /\ LockInv BY DEF OAuthInv
<1>2. /\ recovery.pc = "judge"
      /\ UNCHANGED <<lockFiles, owner, living, holds, created, steady, doomed>>
  BY DEF Judge, RecoveryAt
<1>3. Candidate \in Locks /\ Candidate # "none"
  BY <1>1, <1>2 DEF OAuthTypeOK, Recoveries, Candidate, Locks, RecoveryInv
<1>4. \A l \in Locks : Keeps(l) /\ Clears(l) BY <1>1 DEF LockInv
<1> PICK aged \in Aged :
      recovery' = IF aged \/ HolderDead THEN [recovery EXCEPT !.pc = "restat"]
                  ELSE NextCandidate
  BY DEF Judge
<1>5. CASE aged \/ HolderDead
  <2>1. /\ recovery' \in Recoveries /\ recovery'.candidate = Candidate
        /\ recovery'.pc = "restat" /\ recovery'.seen = recovery.seen
    BY <1>1, <1>5 DEF OAuthTypeOK, Recoveries, Candidate
  <2>2. ASSUME NEW l \in Locks PROVE Keeps(l)' /\ Clears(l)'
    <3>1. Holder(l)' = Holder(l) /\ (Unchanged' <=> Unchanged)
      BY <1>2, <2>1 DEF Holder, Present, Unchanged, Candidate
    <3>2. ASSUME lockFiles[l].id \in steady, Candidate = "main"
          PROVE  recovery.seen.beat # lockFiles[l].beat
      <4>1. ~HolderDead BY <1>2, <1>4, <3>2 DEF Keeps, RecoveryAt, HolderDead, Holder
      <4>2. l = "main" /\ ~lockFiles[l].old /\ recovery.seen.id = lockFiles[l].id
        BY <1>2, <1>4, <3>2 DEF Keeps, RecoveryAt
      <4>3. ~Unchanged BY <1>5, <3>2, <4>1, <4>2 DEF Aged
      <4> QED BY <3>2, <4>2, <4>3 DEF Unchanged
    <3>3. Keeps(l)'
      <4>1. OnRecord(l) => OnRecord(l)' BY <1>2, <3>1 DEF OnRecord, HolderPID
      <4> QED BY <1>2, <1>4, <2>1, <3>1, <3>2, <4>1 DEF Keeps, NoNewer, RecoveryAt, Candidate
    <3>4. Clears(l)' BY <1>2, <1>4, <2>1, <3>1 DEF Clears, RecoveryAt, Candidate
    <3> QED BY <3>3, <3>4
  <2>3. recovery'.candidate = "none" <=> recovery'.pc = "done" BY <1>3, <2>1
  <2>4. recovery'.pc # "idle" BY <2>1
  <2> QED BY <1>2, <1>3, <2>1, <2>2, <2>3, <2>4, LooksInv
<1>6. CASE ~(aged \/ HolderDead)
  <2>1. recovery' = NextCandidate BY <1>6
  <2>2. lockFiles[Candidate].id \notin doomed
    BY <1>2, <1>3, <1>4, <1>6 DEF Clears, RecoveryAt, Aged
  <2>3. \A l \in Locks :
          lockFiles[l].id \in steady => ~lockFiles[l].old /\ \E h \in Holder(l) : TRUE
    BY <1>4 DEF Keeps
  <2> QED BY <1>2, <1>3, <2>1, <2>2, <2>3, LeavesInv
<1> QED BY <1>5, <1>6

\* A lock that was taken or kept fresh meanwhile is one to keep; it is no longer as
\* it was seen, so that the recovery leaves it.
LEMMA RestatInv == OAuthInv /\ Restat => OAuthInv'
<1> SUFFICES ASSUME OAuthInv, Restat PROVE OAuthInv' OBVIOUS
<1>1. OAuthTypeOK /\ RecoveryInv /\ LockInv BY DEF OAuthInv
<1>2. /\ recovery.pc = "restat"
      /\ UNCHANGED <<lockFiles, owner, living, holds, created, doomed>>
  BY DEF Restat, RecoveryAt
<1>3. Candidate \in Locks /\ Candidate # "none"
  BY <1>1, <1>2 DEF OAuthTypeOK, Recoveries, Candidate, Locks, RecoveryInv
<1>4. \A l \in Locks : Keeps(l) /\ Clears(l) BY <1>1 DEF LockInv
<1>5. CASE Present(Candidate) /\ Unchanged
  <2>1. /\ recovery' \in Recoveries /\ recovery'.candidate = Candidate
        /\ recovery'.pc = "unlink" /\ recovery'.seen = recovery.seen
    BY <1>1, <1>5 DEF Restat, OAuthTypeOK, Recoveries, Candidate
  <2>2. UNCHANGED steady BY <1>5 DEF Restat, Unchanged
  <2>3. ASSUME NEW l \in Locks PROVE Keeps(l)' /\ Clears(l)'
    <3>1. Holder(l)' = Holder(l) /\ (Unchanged' <=> Unchanged)
      BY <1>2, <2>1 DEF Holder, Present, Unchanged, Candidate
    <3>2. Keeps(l)'
      <4>1. lockFiles[l].id \in steady => Candidate # "main"
        BY <1>2, <1>4, <1>5 DEF Keeps, RecoveryAt, Unchanged
      <4> QED BY <1>2, <1>4, <2>1, <2>2, <3>1, <4>1 DEF Keeps, Candidate
    <3>3. Clears(l)' BY <1>2, <1>4, <2>1, <3>1 DEF Clears, RecoveryAt, Candidate
    <3> QED BY <3>2, <3>3
  <2>4. recovery'.candidate = "none" <=> recovery'.pc = "done" BY <1>3, <2>1
  <2>5. recovery'.pc # "idle" BY <2>1
  <2> QED BY <1>2, <1>3, <2>1, <2>2, <2>3, <2>4, <2>5, LooksInv
<1>6. CASE ~(Present(Candidate) /\ Unchanged)
  <2>1. recovery' = NextCandidate BY <1>6 DEF Restat
  <2>2. lockFiles[Candidate].id \notin doomed
    BY <1>1, <1>2, <1>3, <1>4, <1>6, Identities DEF Clears, RecoveryAt, OAuthTypeOK
  <2>3. CASE UNCHANGED steady
    <3>1. \A l \in Locks :
            lockFiles[l].id \in steady => ~lockFiles[l].old /\ \E h \in Holder(l) : TRUE
      BY <1>4 DEF Keeps
    <3> QED BY <1>2, <1>3, <2>1, <2>2, <2>3, <3>1, LeavesInv
  <2>4. CASE /\ Holder(Candidate) # {} /\ ~lockFiles[Candidate].old
             /\ steady' = steady \union {lockFiles[Candidate].id}
    <3>1. Present(Candidate) /\ \E h \in Holder(Candidate) : TRUE BY <2>4 DEF Holder
    <3>2. \A l \in Locks :
            lockFiles[l].id \in steady' => ~lockFiles[l].old /\ \E h \in Holder(l) : TRUE
      <4>1. \A l \in Locks : lockFiles[l].id = lockFiles[Candidate].id => l = Candidate
        BY <1>1, <1>3, <3>1, Identities DEF OAuthInv, IdInv
      <4> QED BY <1>4, <2>4, <3>1, <4>1 DEF Keeps
    <3>3. \A id \in steady' :
            id \in steady \/ (Present(Candidate) /\ id = lockFiles[Candidate].id)
      BY <2>4, <3>1
    <3> QED BY <1>2, <1>3, <2>1, <2>2, <3>2, <3>3, LeavesInv
  <2> QED BY <2>3, <2>4 DEF Restat
<1> QED BY <1>5, <1>6

\* A lock whose stat fails is no longer one to clear.
LEMMA StatFailsInv == OAuthInv /\ StatFails => OAuthInv'
<1> SUFFICES ASSUME OAuthInv, StatFails PROVE OAuthInv' OBVIOUS
<1>1. /\ recovery.pc \in {"stat", "restat"} /\ recovery' = NextCandidate
      /\ doomed' = doomed \ {lockFiles[Candidate].id}
      /\ UNCHANGED <<lockFiles, owner, living, holds, created, steady>>
  BY DEF StatFails
<1>2. Candidate # "none" BY <1>1 DEF OAuthInv, RecoveryInv
<1>3. \A l \in Locks :
        lockFiles[l].id \in steady => ~lockFiles[l].old /\ \E h \in Holder(l) : TRUE
  BY DEF OAuthInv, LockInv, Keeps
<1> QED BY <1>1, <1>2, <1>3, LeavesInv

\* Nor is one whose removal fails; it was none to keep.
LEMMA UnlinkFailsInv == OAuthInv /\ UnlinkFails => OAuthInv'
<1> SUFFICES ASSUME OAuthInv, UnlinkFails PROVE OAuthInv' OBVIOUS
<1>1. OAuthTypeOK /\ IdInv /\ RecoveryInv /\ SteadyKept /\ LockInv BY DEF OAuthInv
<1>2. /\ recovery.pc = "unlink" /\ Present(Candidate)
      /\ recovery' = [recovery EXCEPT !.pc = "unlink owner"]
      /\ doomed' = doomed \ {lockFiles[Candidate].id}
      /\ UNCHANGED <<owner, living, holds, created, steady>>
  BY DEF UnlinkFails, RecoveryAt
<1>3. Candidate \in Locks /\ Candidate # "none"
  BY <1>1, <1>2 DEF OAuthTypeOK, Recoveries, Candidate, Locks, RecoveryInv
<1>4. PICK pid \in {NoPid, lockFiles[Candidate].pid} :
        lockFiles' = [lockFiles EXCEPT ![Candidate].pid = pid]
  BY DEF UnlinkFails
<1> DEFINE file == [lockFiles[Candidate] EXCEPT !.pid = pid]
<1>5. lockFiles[Candidate] \in Files BY <1>1, <1>2, <1>3, Identities
<1>6. file \in Files /\ file.id = lockFiles[Candidate].id
  BY <1>5 DEF Files, NoPid
<1>7. lockFiles' = [lockFiles EXCEPT ![Candidate] = file] BY <1>4
<1> HIDE DEF file
<1>8. /\ lockFiles' \in [Locks -> Files \union {NoLock}]
      /\ lockFiles'[Candidate] = file
      /\ \A l \in Locks : l # Candidate => lockFiles'[l] = lockFiles[l]
  BY <1>1, <1>3, <1>6, <1>7 DEF OAuthTypeOK
<1>9. \A l \in Locks : lockFiles'[l].id = lockFiles[l].id BY <1>6, <1>8
<1>10. /\ recovery' \in Recoveries /\ recovery'.candidate = Candidate
       /\ recovery'.pc = "unlink owner"
  BY <1>1, <1>2 DEF OAuthTypeOK, Recoveries, Candidate
<1>11. OAuthTypeOK' BY <1>1, <1>2, <1>8, <1>10 DEF OAuthTypeOK
<1>12. IdInv' BY <1>1, <1>2, <1>9 DEF IdInv
<1>13. RecoveryInv' BY <1>3, <1>10 DEF RecoveryInv, RecoveryAt, Candidate
<1>14. SteadyKept' BY <1>1, <1>2, <1>9 DEF SteadyKept
<1>15. lockFiles[Candidate].id \notin steady
  BY <1>1, <1>2, <1>3 DEF LockInv, Keeps, Locks
<1>16. ASSUME NEW l \in Locks PROVE Keeps(l)' /\ Clears(l)'
  <2>1. Keeps(l) /\ Clears(l) BY <1>1 DEF LockInv
  <2>2. CASE l = Candidate BY <1>2, <1>9, <1>15, <2>2 DEF Keeps, Clears
  <2>3. CASE l # Candidate
    <3>1. lockFiles'[l] = lockFiles[l] BY <1>8, <2>3
    <3>2. Holder(l)' = Holder(l) BY <1>2, <3>1 DEF Holder, Present
    <3>3. Keeps(l)' BY <1>2, <1>10, <2>1, <3>1, <3>2 DEF Keeps, Candidate
    <3>4. Clears(l)' BY <1>2, <1>10, <2>1, <2>3, <3>1 DEF Clears, RecoveryAt, Candidate
    <3> QED BY <3>3, <3>4
  <2> QED BY <2>2, <2>3
<1> QED BY <1>11, <1>12, <1>13, <1>14, <1>16 DEF OAuthInv, LockInv

\* The unlinking of the lock: it is none to keep.
LEMMA UnlinkLockInv == OAuthInv /\ UnlinkLock => OAuthInv'
<1> SUFFICES ASSUME OAuthInv, UnlinkLock PROVE OAuthInv' OBVIOUS
<1>1. OAuthTypeOK /\ IdInv /\ RecoveryInv /\ SteadyKept /\ LockInv BY DEF OAuthInv
<1>2. /\ recovery.pc = "unlink"
      /\ lockFiles' = [lockFiles EXCEPT ![Candidate] = NoLock]
      /\ recovery' = [recovery EXCEPT !.pc = "unlink owner"]
      /\ UNCHANGED <<owner, living, holds, created, steady, doomed>>
  BY DEF UnlinkLock, RecoveryAt
<1>3. recovery.pc = "unlink" BY <1>2
<1>4. UNCHANGED <<living, holds, created, steady, doomed>> BY <1>2
<1>5. Candidate \in Locks /\ Candidate # "none"
  BY <1>1, <1>2 DEF OAuthTypeOK, Recoveries, Candidate, Locks, RecoveryInv
<1>6. /\ recovery' \in Recoveries /\ recovery'.candidate = Candidate
      /\ recovery'.pc = "unlink owner"
  BY <1>1, <1>2 DEF OAuthTypeOK, Recoveries, Candidate
<1>7. /\ lockFiles' \in [Locks -> Files \union {NoLock}]
      /\ lockFiles'[Candidate] = NoLock
      /\ \A l \in Locks : l # Candidate => lockFiles'[l] = lockFiles[l]
  BY <1>1, <1>2, <1>5 DEF OAuthTypeOK
<1>8. NoLock.id = 0 /\ 0 \notin steady /\ 0 \notin doomed
  BY <1>1 DEF NoLock, OAuthTypeOK
<1>9. OAuthTypeOK' BY <1>1, <1>2, <1>6, <1>7 DEF OAuthTypeOK
<1>10. RecoveryInv' BY <1>5, <1>6 DEF RecoveryInv, RecoveryAt, Candidate
<1>11. IdInv'
  <2>1. \A l \in Locks : lockFiles'[l].id <= created'
    <3>1. 0 <= created BY <1>1 DEF OAuthTypeOK
    <3> QED BY <1>1, <1>7, <1>8, <1>4, <3>1 DEF IdInv
  <2>2. \A l, m \in Locks : lockFiles'[l].id = lockFiles'[m].id /\ lockFiles'[l].id # 0 => l = m
    BY <1>1, <1>7, <1>8 DEF IdInv
  <2> QED BY <1>1, <1>2, <2>1, <2>2 DEF IdInv
<1>12. lockFiles[Candidate].id \notin steady
  BY <1>1, <1>2, <1>5 DEF LockInv, Keeps, Locks
<1>13. SteadyKept' BY <1>1, <1>2, <1>7, <1>12 DEF SteadyKept
<1>14. ASSUME NEW l \in Locks PROVE Keeps(l)' /\ Clears(l)'
  <2>1. Keeps(l) /\ Clears(l) BY <1>1 DEF LockInv
  <2>2. CASE l = Candidate BY <1>2, <1>7, <1>8, <2>2 DEF Keeps, Clears
  <2>3. CASE l # Candidate
    <3>1. lockFiles'[l] = lockFiles[l] BY <1>7, <2>3
    <3>2. Holder(l)' = Holder(l) BY <1>2, <3>1 DEF Holder, Present
    <3>3. Keeps(l)'
      BY <1>6, <1>3, <1>4, <2>1, <2>3, <3>1, <3>2 DEF Keeps, Candidate
    <3>4. Clears(l)'
      BY <1>6, <1>3, <1>4, <2>1, <2>3, <3>1 DEF Clears, RecoveryAt, Candidate
    <3> QED BY <3>3, <3>4
  <2> QED BY <2>2, <2>3
<1> QED BY <1>9, <1>10, <1>11, <1>13, <1>14 DEF OAuthInv, LockInv

\* With the main lock go its record and its legacy lock, of which none was to be kept.
LEMMA UnlinkRestInv == OAuthInv /\ (UnlinkOwner \/ UnlinkLegacy) => OAuthInv'
<1> SUFFICES ASSUME OAuthInv, UnlinkOwner \/ UnlinkLegacy PROVE OAuthInv' OBVIOUS
<1>1. OAuthTypeOK /\ IdInv /\ RecoveryInv /\ SteadyKept /\ LockInv BY DEF OAuthInv
<1>2. /\ recovery.pc \in {"unlink owner", "unlink legacy"}
      /\ UNCHANGED <<living, holds, created, steady, doomed>>
  BY DEF UnlinkOwner, UnlinkLegacy, RecoveryAt
<1>3. Candidate \in Locks /\ Candidate # "none"
  BY <1>1, <1>2 DEF OAuthTypeOK, Recoveries, Candidate, Locks, RecoveryInv
<1>4. \A l \in Locks : Keeps(l) /\ Clears(l) BY <1>1 DEF LockInv
<1>5. Candidate = "main" => steady = {}
  BY <1>1, <1>2, <1>4 DEF SteadyKept, Keeps
<1>6. lockFiles["main"].id \notin doomed
      /\ (Candidate # "main" => lockFiles["legacy"].id \notin doomed)
  BY <1>2, <1>3, <1>4 DEF Clears, Locks
<1>7. CASE UnlinkOwner
  <2>1. /\ recovery' \in Recoveries /\ recovery'.candidate = Candidate
        /\ recovery'.pc = "unlink legacy"
    BY <1>1, <1>7 DEF UnlinkOwner, OAuthTypeOK, Recoveries, Candidate
  <2>2. UNCHANGED lockFiles /\ owner' \in SUBSET Holders
    BY <1>1, <1>7 DEF UnlinkOwner, OAuthTypeOK, NoPid
  <2>3. OAuthTypeOK' BY <1>1, <1>2, <2>1, <2>2 DEF OAuthTypeOK
  <2>4. IdInv' /\ SteadyKept' BY <1>1, <1>2, <2>2 DEF IdInv, SteadyKept
  <2>5. RecoveryInv' BY <1>3, <2>1 DEF RecoveryInv, RecoveryAt, Candidate
  <2>6. ASSUME NEW l \in Locks PROVE Keeps(l)' /\ Clears(l)'
    <3>1. Holder(l)' = Holder(l) BY <1>2, <2>2 DEF Holder, Present
    <3>2. Keeps(l)' BY <1>2, <1>4, <1>5, <2>1, <2>2, <3>1 DEF Keeps, Candidate
    <3>3. Clears(l)' BY <1>2, <1>4, <2>1, <2>2 DEF Clears, RecoveryAt, Candidate
    <3> QED BY <3>2, <3>3
  <2> QED BY <2>3, <2>4, <2>5, <2>6 DEF OAuthInv, LockInv
<1>8. CASE UnlinkLegacy
  <2>1. /\ \/ UNCHANGED lockFiles
           \/ Candidate = "main" /\ lockFiles' = [lockFiles EXCEPT !["legacy"] = NoLock]
        /\ recovery' = NextCandidate /\ UNCHANGED owner
    BY <1>8 DEF UnlinkLegacy
  <2>2. /\ recovery' \in Recoveries /\ recovery'.pc # "idle"
        /\ recovery'.candidate = "none" <=> recovery'.pc = "done"
        /\ recovery'.candidate = "none" <=> Candidate = "legacy"
        /\ recovery'.candidate # "main"
    BY <1>1, <1>3, <2>1, NextCandidates DEF Locks
  <2>3. NoLock.id = 0 /\ 0 \notin doomed BY <1>1 DEF NoLock, OAuthTypeOK
  <2>4. /\ lockFiles' \in [Locks -> Files \union {NoLock}]
        /\ \A l \in Locks :
              \/ lockFiles'[l] = lockFiles[l]
              \/ lockFiles'[l] = NoLock /\ l = "legacy" /\ Candidate = "main"
    BY <1>1, <2>1 DEF OAuthTypeOK
  <2>5. OAuthTypeOK' BY <1>1, <1>2, <2>1, <2>2, <2>4 DEF OAuthTypeOK
  <2>6. IdInv'
    <3>1. \A l \in Locks : lockFiles'[l].id <= created'
      <4>1. 0 <= created BY <1>1 DEF OAuthTypeOK
      <4> QED BY <1>1, <1>2, <2>3, <2>4, <4>1 DEF IdInv
    <3>2. \A l, m \in Locks : lockFiles'[l].id = lockFiles'[m].id /\ lockFiles'[l].id # 0 => l = m
      BY <1>1, <2>3, <2>4 DEF IdInv
    <3> QED BY <1>1, <1>2, <3>1, <3>2 DEF IdInv
  <2>7. RecoveryInv' BY <2>2 DEF RecoveryInv, RecoveryAt, Candidate
  <2>8. SteadyKept' BY <1>1, <1>2, <1>3, <1>5, <2>1 DEF SteadyKept, Locks
  <2>9. Candidate = "main" => recovery'.candidate = "legacy" /\ recovery'.pc = "stat"
    BY <1>1, <1>3, <2>1, NextCandidates
  <2>10. ASSUME NEW l \in Locks PROVE Keeps(l)' /\ Clears(l)'
    <3>1. Clears(l)'
      <4>1. SUFFICES ASSUME lockFiles'[l].id \in doomed PROVE Clears(l)'
        BY <1>2 DEF Clears
      <4>2. lockFiles'[l] = lockFiles[l] /\ l = "legacy" /\ Candidate = "main"
        BY <1>3, <1>6, <2>3, <2>4, <4>1 DEF Locks
      <4>3. lockFiles[l].old BY <1>2, <1>4, <4>1, <4>2 DEF Clears
      <4> QED BY <2>9, <4>2, <4>3 DEF Clears, RecoveryAt, Candidate
    <3>2. CASE Candidate = "main" BY <1>2, <1>5, <3>1, <3>2 DEF Keeps
    <3>3. CASE Candidate = "legacy"
      <4>1. UNCHANGED lockFiles BY <2>1, <3>3
      <4>2. Holder(l)' = Holder(l) BY <1>2, <4>1 DEF Holder, Present
      <4>3. Keeps(l)' BY <1>2, <1>4, <2>2, <3>3, <4>1, <4>2 DEF Keeps, Candidate
      <4> QED BY <3>1, <4>3
    <3> QED BY <1>3, <3>2, <3>3 DEF Locks
  <2> QED BY <2>5, <2>6, <2>7, <2>8, <2>10 DEF OAuthInv, LockInv
<1> QED BY <1>7, <1>8

LEMMA OAuthStutter == OAuthInv /\ UNCHANGED oauthVars => OAuthInv'
<1> SUFFICES ASSUME OAuthInv, UNCHANGED oauthVars PROVE OAuthInv' OBVIOUS
<1>1. UNCHANGED <<lockFiles, owner, living, holds, created, recovery, steady, doomed>>
  BY DEF oauthVars
<1>2. OAuthTypeOK' /\ IdInv' /\ SteadyKept'
  BY <1>1 DEF OAuthInv, OAuthTypeOK, IdInv, SteadyKept
<1>3. \A l \in Locks : KeptStep(l) /\ DoomedStep(l) BY <1>1, LockStays
<1> QED BY <1>1, <1>2, <1>3, OthersInv

LEMMA OAuthNextInv == OAuthInv /\ [OAuthNext]_oauthVars => OAuthInv'
BY OAuthStutter, AcquireInv, WriteOwnerInv, HeartbeatInv, GrowsOldInv, OtherClearsInv,
   GiveUpInv, HolderDiesInv, StartRecoveryInv, StatInv, ReadInv, JudgeInv, RestatInv,
   StatFailsInv, UnlinkLockInv, UnlinkFailsInv, UnlinkRestInv DEF OAuthNext

\* The recovery takes no living claude's lock away that was kept fresh and on record,
\* and leaves none of the stale ones, save one on which a call has failed, whatever the
\* other processes do between its steps (recoverSingleLock and RecoverStaleOAuthLockInDir in
\* internal/harness/oauth_lock.go).
THEOREM RecoveryExactHolds == OAuthSpec => []RecoveryExact
<1>1. OAuthInv => RecoveryExact
  <2> SUFFICES ASSUME OAuthInv PROVE RecoveryExact OBVIOUS
  <2>1. SteadyKept BY DEF OAuthInv
  <2>2. DoomedGone
    <3> SUFFICES ASSUME recovery.pc = "done", NEW l \in Locks, lockFiles[l].id \in doomed
                 PROVE  FALSE
      BY DEF DoomedGone, RecoveryAt
    <3>1. Candidate = "none" BY DEF OAuthInv, RecoveryInv
    <3> QED BY <3>1 DEF OAuthInv, LockInv, Clears
  <2> QED BY <2>1, <2>2 DEF RecoveryExact
<1> QED BY <1>1, OAuthInitInv, OAuthNextInv, PTL DEF OAuthSpec

================================================================================
