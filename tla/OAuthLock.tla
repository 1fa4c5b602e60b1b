------------------------------- MODULE OAuthLock -------------------------------
(***************************************************************************)
(* How a bridge clears away the locks that a dead claude left behind       *)
(* (internal/harness/oauth_lock.go), while other processes take, keep      *)
(* fresh and give up the same locks.  Of a directory's candidates this is  *)
(* the main one and the legacy one beside it, in the order of the code:    *)
(* the legacy lock is the main one's legacyPath, and its holder is looked  *)
(* up in the main lock's owner file.                                       *)
(*                                                                         *)
(* A lock file is known by its identity (the inode) and its modification   *)
(* time, counted in beats; "old" is an age beyond the threshold.           *)
(***************************************************************************)
EXTENDS Naturals, FiniteSets

CONSTANTS
    Holders,    \* other processes that use the locks
    MaxLocks,   \* lock files created in all
    MaxBeats    \* heartbeats of one lock

ASSUME OAuthAssumption == MaxLocks \in Nat \ {0} /\ MaxBeats \in Nat

Locks == {"main", "legacy"}
NoLock == [id |-> 0]
NoPid == {}

VARIABLES
    lockFiles,  \* per candidate: NoLock, or [id, beat, old, pid], pid a set of at most one
    owner,      \* the owner file: the recorded holder, if any
    living,     \* holders that run
    holds,      \* per holder: the identity of the lock it took, or 0
    created,    \* lock files so far
    recovery,   \* RecoverStaleOAuthLockInDir: candidate, step and what it saw
    steady,     \* locks that the recovery has to leave alone
    doomed      \* locks that the recovery has to remove, unless a call on them fails

oauthVars == <<lockFiles, owner, living, holds, created, recovery, steady, doomed>>

Present(l) == lockFiles[l] # NoLock
Holder(l) == {h \in living : Present(l) /\ holds[h] = lockFiles[l].id}

OAuthInit ==
    /\ lockFiles = [l \in Locks |-> NoLock]
    /\ owner = NoPid
    /\ living = Holders
    /\ holds = [h \in Holders |-> 0]
    /\ created = 0
    /\ recovery = [candidate |-> "none", pc |-> "idle", seen |-> NoLock, pid |-> NoPid]
    /\ steady = {}
    /\ doomed = {}

--------------------------------------------------------------------------------
(***************************************************************************)
(* The other processes.                                                    *)
(***************************************************************************)
\* A lock may name its holder itself, as a directory with a pid file does.
Acquire(h, l) ==
    /\ h \in living /\ holds[h] = 0 /\ ~Present(l)
    /\ created < MaxLocks
    /\ created' = created + 1
    /\ holds' = [holds EXCEPT ![h] = created + 1]
    /\ \E pid \in {NoPid, {h}} :
          lockFiles' = [lockFiles EXCEPT
              ![l] = [id |-> created + 1, beat |-> 0, old |-> FALSE, pid |-> pid]]
    /\ UNCHANGED <<owner, living, recovery, steady, doomed>>

WriteOwner(h) ==
    /\ h \in living /\ Present("main") /\ holds[h] = lockFiles["main"].id
    /\ owner # {h}
    /\ owner' = {h}
    /\ UNCHANGED <<lockFiles, living, holds, created, recovery, steady, doomed>>

Heartbeat(h, l) ==
    /\ h \in living /\ Present(l) /\ holds[h] = lockFiles[l].id
    /\ lockFiles[l].beat < MaxBeats
    /\ lockFiles' = [lockFiles EXCEPT ![l].beat = @ + 1, ![l].old = FALSE]
    /\ doomed' = doomed \ {holds[h]}
    /\ UNCHANGED <<owner, living, holds, created, recovery, steady>>

\* No heartbeat for longer than the threshold: the holder is dead, or stuck.
GrowsOld(l) ==
    /\ Present(l) /\ ~lockFiles[l].old
    /\ lockFiles' = [lockFiles EXCEPT ![l].old = TRUE]
    /\ steady' = steady \ {lockFiles[l].id}
    /\ UNCHANGED <<owner, living, holds, created, recovery, doomed>>

\* The holder gives its lock up, with its owner record when it has one.
GiveUp(h, l) ==
    /\ h \in living /\ Present(l) /\ holds[h] = lockFiles[l].id
    /\ lockFiles' = [lockFiles EXCEPT ![l] = NoLock]
    /\ owner' = owner \ {h}
    /\ holds' = [holds EXCEPT ![h] = 0]
    /\ steady' = steady \ {holds[h]}
    /\ UNCHANGED <<living, created, recovery, doomed>>

\* A holder dies: gone, a zombie, or another process in its place.
HolderDies(h) ==
    /\ h \in living
    /\ living' = living \ {h}
    /\ steady' = steady \ {holds[h]}
    /\ UNCHANGED <<lockFiles, owner, holds, created, recovery, doomed>>

\* Another process, a bridge of another agent for one, clears a stale lock.
OtherClears(l) ==
    /\ Present(l)
    /\ lockFiles[l].old \/ Holder(l) = {}
    /\ lockFiles' = [lockFiles EXCEPT ![l] = NoLock]
    /\ steady' = steady \ {lockFiles[l].id}
    /\ UNCHANGED <<owner, living, holds, created, recovery, doomed>>

--------------------------------------------------------------------------------
(***************************************************************************)
(* recoverSingleLock.                                                      *)
(***************************************************************************)
RecoveryAt(pc) == recovery.pc = pc
Candidate == recovery.candidate

\* On to the next candidate, after the last one to the end.
NextCandidate ==
    IF Candidate = "main"
    THEN [candidate |-> "legacy", pc |-> "stat", seen |-> NoLock, pid |-> NoPid]
    ELSE [candidate |-> "none", pc |-> "done", seen |-> NoLock, pid |-> NoPid]

\* The holder that the records name: the owner file, then the lock itself.
HolderPID(l) == IF owner # NoPid THEN owner ELSE lockFiles[l].pid

\* What a recovery that starts now must keep: a main lock whose holder lives,
\* beats and is the one on record; and what it must clear: old locks, and a main
\* lock that is nobody's and whose recorded holder is dead.
MustKeep(l) == /\ l = "main" /\ Holder(l) # {} /\ ~lockFiles[l].old
               /\ HolderPID(l) = Holder(l)
MustClear(l) == /\ Present(l)
                /\ \/ lockFiles[l].old
                   \/ /\ l = "main" /\ Holder(l) = {}
                      /\ HolderPID(l) # NoPid /\ HolderPID(l) \intersect living = {}

StartRecovery ==
    /\ RecoveryAt("idle")
    /\ recovery' = [recovery EXCEPT !.candidate = "main", !.pc = "stat"]
    /\ steady' = {lockFiles[l].id : l \in {m \in Locks : MustKeep(m)}}
    /\ doomed' = {lockFiles[l].id : l \in {m \in Locks : MustClear(m)}}
    /\ UNCHANGED <<lockFiles, owner, living, holds, created>>

StatLock ==
    /\ RecoveryAt("stat")
    /\ recovery' = IF Present(Candidate)
                   THEN [recovery EXCEPT !.pc = "read", !.seen = lockFiles[Candidate]]
                   ELSE NextCandidate
    /\ UNCHANGED <<lockFiles, owner, living, holds, created, steady, doomed>>

\* readHolderPID; the lock may be gone by now.
ReadHolderPID ==
    /\ RecoveryAt("read")
    /\ recovery' = [recovery EXCEPT
          !.pc = "judge",
          !.pid = IF owner # NoPid THEN owner
                  ELSE IF Present(Candidate) THEN lockFiles[Candidate].pid ELSE NoPid]
    /\ UNCHANGED <<lockFiles, owner, living, holds, created, steady, doomed>>

\* A bug: the modification time is not compared.
Unchanged_sameFile == lockFiles[Candidate].id = recovery.seen.id

\* The same file with the same modification time.
Unchanged ==
    /\ lockFiles[Candidate].id = recovery.seen.id
    /\ lockFiles[Candidate].beat = recovery.seen.beat

\* The age, by now, of the modification time that was seen: that of the lock itself,
\* unless it was replaced or kept fresh since.
Aged == IF Unchanged THEN {lockFiles[Candidate].old} ELSE {recovery.seen.old, TRUE}

\* A recorded holder that is dead makes the lock stale; else its age does.
HolderDead == recovery.pid # NoPid /\ recovery.pid \intersect living = {}

Judge ==
    /\ RecoveryAt("judge")
    /\ \E aged \in Aged :
          recovery' = IF aged \/ HolderDead THEN [recovery EXCEPT !.pc = "restat"]
                      ELSE NextCandidate
    /\ UNCHANGED <<lockFiles, owner, living, holds, created, steady, doomed>>

\* The second stat.  From here on, a lock that was taken or kept fresh during
\* the analysis is to be left alone.
Restat ==
    /\ RecoveryAt("restat")
    /\ recovery' = IF Present(Candidate) /\ Unchanged
                   THEN [recovery EXCEPT !.pc = "unlink"] ELSE NextCandidate
    /\ steady' = IF /\ Holder(Candidate) # {}
                    /\ ~lockFiles[Candidate].old
                    /\ \/ lockFiles[Candidate].id # recovery.seen.id
                       \/ lockFiles[Candidate].beat # recovery.seen.beat
                 THEN steady \union {lockFiles[Candidate].id} ELSE steady
    /\ UNCHANGED <<lockFiles, owner, living, holds, created, doomed>>

\* Either stat may fail: the error is told, and the lock left.
StatFails ==
    /\ recovery.pc \in {"stat", "restat"}
    /\ recovery' = NextCandidate
    /\ doomed' = doomed \ {lockFiles[Candidate].id}
    /\ UNCHANGED <<lockFiles, owner, living, holds, created, steady>>

\* Removes the path, whatever file is there by now.
UnlinkLock ==
    /\ RecoveryAt("unlink")
    /\ lockFiles' = [lockFiles EXCEPT ![Candidate] = NoLock]
    /\ recovery' = [recovery EXCEPT !.pc = "unlink owner"]
    /\ UNCHANGED <<owner, living, holds, created, steady, doomed>>

\* The removal fails, perhaps after that of the pid file within: this too is told.
UnlinkFails ==
    /\ RecoveryAt("unlink") /\ Present(Candidate)
    /\ \E pid \in {NoPid, lockFiles[Candidate].pid} :
          lockFiles' = [lockFiles EXCEPT ![Candidate].pid = pid]
    /\ recovery' = [recovery EXCEPT !.pc = "unlink owner"]
    /\ doomed' = doomed \ {lockFiles[Candidate].id}
    /\ UNCHANGED <<owner, living, holds, created, steady>>

\* The legacy lock's own owner file is never written.
UnlinkOwner ==
    /\ RecoveryAt("unlink owner")
    /\ owner' \in IF Candidate = "main" THEN {NoPid, owner} ELSE {owner}
    /\ recovery' = [recovery EXCEPT !.pc = "unlink legacy"]
    /\ UNCHANGED <<lockFiles, living, holds, created, steady, doomed>>

\* The main lock's legacy path is removed unseen, or stays for its own turn.
UnlinkLegacy ==
    /\ RecoveryAt("unlink legacy")
    /\ \/ UNCHANGED lockFiles
       \/ Candidate = "main" /\ lockFiles' = [lockFiles EXCEPT !["legacy"] = NoLock]
    /\ recovery' = NextCandidate
    /\ UNCHANGED <<owner, living, holds, created, steady, doomed>>

OAuthNext ==
    \/ \E h \in Holders : WriteOwner(h) \/ HolderDies(h)
    \/ \E h \in Holders, l \in Locks : Acquire(h, l) \/ Heartbeat(h, l) \/ GiveUp(h, l)
    \/ \E l \in Locks : GrowsOld(l) \/ OtherClears(l)
    \/ StartRecovery \/ StatLock \/ ReadHolderPID \/ Judge
    \/ Restat \/ StatFails \/ UnlinkLock \/ UnlinkFails \/ UnlinkOwner \/ UnlinkLegacy

OAuthSpec == OAuthInit /\ [][OAuthNext]_oauthVars

--------------------------------------------------------------------------------
\* A main lock whose holder lived, kept it fresh and was on record before the
\* recovery began, and any lock that was taken or kept fresh while the recovery
\* made up its mind about it, are still there for as long as their holder keeps
\* them so: the recovery takes no living claude's lock away.
SteadyKept == \A id \in steady : \E l \in Locks : lockFiles[l].id = id

\* Of the locks that were stale when the recovery began none is left at its end, save
\* one on which a call has failed, so that the next claude does not wait for a dead one.
DoomedGone == RecoveryAt("done") => \A id \in doomed : \A l \in Locks : lockFiles[l].id # id

\* The recovery tells the living from the dead, both ways.
RecoveryExact == SteadyKept /\ DoomedGone
================================================================================
