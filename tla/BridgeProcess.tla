----------------------------- MODULE BridgeProcess -----------------------------
(***************************************************************************)
(* The processes that serve one agent folder, one per turn or per "model"  *)
(* command (cmd/wackyacp/main.go, model.go): each takes the flock on       *)
(* acp-session.lock, reads the session record, spawns a harness, has it    *)
(* resume, load or create the session, serves, closes the harness and      *)
(* releases the lock (internal/session/session.go, harness/process.go,     *)
(* EstablishSession in acp/client.go).  A process may be killed between    *)
(* any two of these steps; its harness, in a session of its own, is not.   *)
(*                                                                         *)
(* Names are distinct from the other parts that MCParts checks beside it.  *)
(***************************************************************************)
EXTENDS Naturals, FiniteSets

CONSTANTS
    Bridges,       \* runs of "wackyacp" (run)
    Models,        \* runs of "wackyacp model" (runModel)
    MaxSessions    \* sessions the harness may create

ASSUME BridgeAssumption ==
    /\ IsFiniteSet(Bridges) /\ IsFiniteSet(Models) /\ Bridges \intersect Models = {}
    /\ MaxSessions \in Nat \ {0}

Processes == Bridges \union Models
NoSession == 0

VARIABLES
    process,    \* per process: its step, the session it read, the one it serves
    holders,    \* who holds the flock on acp-session.lock
    record,     \* acp-session.json: absent, unreadable (damaged, or another
                \* folder's) or whole, and the session it names
    harness,    \* per process, its harness: none, live, told to stop or gone
    caps,       \* what the harness advertises: session/resume, session/load
    minted      \* sessions created so far

bridgeVars == <<process, holders, record, harness, caps, minted>>

BridgeInit ==
    /\ process = [p \in Processes |->
                    [pc |-> "idle", saved |-> NoSession, session |-> NoSession,
                     signalled |-> FALSE, eof |-> FALSE, refused |-> FALSE, unread |-> FALSE]]
    /\ holders = {}
    /\ record \in [state : {"absent", "unreadable"}, session : {NoSession}]
                   \union [state : {"whole"}, session : {1}]
    /\ harness = [p \in Processes |-> "none"]
    /\ caps \in [resume : BOOLEAN, load : BOOLEAN]
    /\ minted = IF record.state = "whole" THEN 1 ELSE 0

At(p, pc) == process[p].pc = pc
Goto(p, pc) == process' = [process EXCEPT ![p].pc = pc]
\* A deferred Close of the harness comes before the deferred Release.
Fail(p) == Goto(p, IF harness[p] = "none" THEN "releasing" ELSE "closing")

--------------------------------------------------------------------------------
(***************************************************************************)
(* Lock, record and spawn.                                                 *)
(***************************************************************************)
\* A bug: the lock is a shared one.
Free_shared(p) == TRUE

\* Flock with LOCK_EX and LOCK_NB.
Free(p) == holders = {}

\* AcquireLock polls until the flock is free or its context has ended; the lock file
\* may not open, or the flock fail for another reason.
AcquireLock(p) ==
    \/ /\ At(p, "idle")
       /\ Goto(p, "locking")
       /\ UNCHANGED <<holders, record, harness, caps, minted>>
    \/ /\ At(p, "locking")
       /\ Free(p)
       /\ holders' = holders \union {p}
       /\ Goto(p, "reading")
       /\ UNCHANGED <<record, harness, caps, minted>>
    \/ /\ At(p, "locking")
       /\ Goto(p, "gone")
       /\ UNCHANGED <<holders, record, harness, caps, minted>>

\* ReadSession: a file that is missing, damaged, another folder's or not to be read
\* is no session.
ReadSession(p) ==
    /\ At(p, "reading")
    /\ \/ process' = [process EXCEPT
             ![p].pc = "spawning",
             ![p].saved = IF record.state = "whole" THEN record.session ELSE NoSession]
       \/ /\ record.state = "whole"
          /\ process' = [process EXCEPT
                ![p].pc = "spawning", ![p].saved = NoSession, ![p].unread = TRUE]
    /\ UNCHANGED <<holders, record, harness, caps, minted>>

\* harness.Start, which fails at once under an ended context.
StartHarness(p) ==
    /\ At(p, "spawning")
    /\ \/ /\ ~process[p].signalled
          /\ Goto(p, "init")
          /\ harness' = [harness EXCEPT ![p] = "live"]
       \/ /\ Goto(p, "releasing")
          /\ UNCHANGED harness
    /\ UNCHANGED <<holders, record, caps, minted>>

--------------------------------------------------------------------------------
(***************************************************************************)
(* The handshake.  A request ends with the harness's answer, with its      *)
(* death, or with the end of the process's context; when several are due   *)
(* select takes any.                                                       *)
(***************************************************************************)
Answers(p) == harness[p] \in {"live", "told"}
Breaks(p) == harness[p] = "gone" \/ process[p].signalled

Initialize(p) ==
    /\ At(p, "init")
    /\ \/ Answers(p) /\ Goto(p, IF process[p].saved = NoSession THEN "new" ELSE "resume")
       \/ Fail(p)
    /\ UNCHANGED <<holders, record, harness, caps, minted>>

\* session/resume and session/load, where advertised.  Any error leads on to the
\* next method; only an answer of the harness says that the session is not there.
Reopen(p, method, advertised, next) ==
    /\ At(p, method)
    /\ \/ /\ ~advertised
          /\ Goto(p, next)
       \/ /\ advertised /\ Answers(p)
          /\ process' = [process EXCEPT ![p].pc = "serving", ![p].session = process[p].saved]
       \/ /\ advertised /\ Answers(p)
          /\ process' = [process EXCEPT ![p].pc = next, ![p].refused = TRUE]
       \/ /\ advertised /\ Breaks(p)
          /\ Goto(p, next)
    /\ UNCHANGED <<holders, record, harness, caps, minted>>

NewSession(p) ==
    /\ At(p, "new")
    /\ \/ /\ Answers(p)
          /\ minted < MaxSessions
          /\ minted' = minted + 1
          /\ process' = [process EXCEPT ![p].pc = "writing", ![p].session = minted + 1]
       \/ /\ Fail(p)
          /\ UNCHANGED minted
    /\ UNCHANGED <<holders, record, harness, caps>>

\* The temporary file of this process; the record is as it was.
WriteTemp(p) ==
    /\ At(p, "writing")
    /\ Goto(p, "renaming")
    /\ UNCHANGED <<holders, record, harness, caps, minted>>

\* A bug: a record that cannot be written is logged, and the session served.
WriteFails_logged(p) ==
    /\ process[p].pc \in {"writing", "renaming"}
    /\ Goto(p, "serving")
    /\ UNCHANGED <<holders, record, harness, caps, minted>>

\* Any step of WriteSession may fail.
WriteFails(p) ==
    /\ process[p].pc \in {"writing", "renaming"}
    /\ Fail(p)
    /\ UNCHANGED <<holders, record, harness, caps, minted>>

Rename(p) ==
    /\ At(p, "renaming")
    /\ record' = [state |-> "whole", session |-> process[p].session]
    /\ Goto(p, "serving")
    /\ UNCHANGED <<holders, harness, caps, minted>>

EstablishSession(p) ==
    \/ Reopen(p, "resume", caps.resume, "load")
    \/ Reopen(p, "load", caps.load, "new")
    \/ NewSession(p)
    \/ WriteTemp(p) \/ WriteFails(p) \/ Rename(p)

\* A bridge serves until its stdin ends or its context does; the model command
\* asks the harness once more, or not at all, and is done.
Serve(p) ==
    /\ At(p, "serving")
    /\ \/ p \in Models
       \/ process[p].eof \/ process[p].signalled
    /\ Goto(p, "closing")
    /\ UNCHANGED <<holders, record, harness, caps, minted>>

--------------------------------------------------------------------------------
(***************************************************************************)
(* The end.                                                                *)
(***************************************************************************)
\* A bug: a harness that ignores the SIGTERM is waited for.
Escalate_termOnly(p) ==
    /\ harness[p] = "live"
    /\ ~At(p, "killed")
    /\ At(p, "closing") \/ process[p].signalled
    /\ harness' = [harness EXCEPT ![p] = "told"]
    /\ UNCHANGED <<process, holders, record, caps, minted>>

\* The end of the context, or Close after its grace period, sends a SIGTERM to
\* the harness's group; WaitDelay later, a SIGKILL.
Escalate(p) ==
    /\ harness[p] \in {"live", "told"}
    /\ ~At(p, "killed")
    /\ At(p, "closing") \/ process[p].signalled
    /\ harness' = [harness EXCEPT ![p] = IF @ = "live" THEN "told" ELSE "gone"]
    /\ UNCHANGED <<process, holders, record, caps, minted>>

\* A bug: the lock is released while the harness ends.
Reaped_early(p) == TRUE

Reaped(p) == harness[p] = "gone"

\* Close waits for the harness.
CloseHarness(p) ==
    /\ At(p, "closing")
    /\ Reaped(p)
    /\ Goto(p, "releasing")
    /\ UNCHANGED <<holders, record, harness, caps, minted>>

Release(p) ==
    /\ At(p, "releasing")
    /\ Goto(p, "gone")
    /\ holders' = holders \ {p}
    /\ UNCHANGED <<record, harness, caps, minted>>

Running(p) == process[p].pc \notin {"idle", "gone", "killed"}

\* The harness exits, at the end of its stdin, at the signal, or by itself.
HarnessExits(p) ==
    /\ harness[p] \in {"live", "told"}
    /\ harness' = [harness EXCEPT ![p] = "gone"]
    /\ UNCHANGED <<process, holders, record, caps, minted>>

Signal(p) ==
    /\ Running(p)
    /\ ~process[p].signalled
    /\ process' = [process EXCEPT ![p].signalled = TRUE]
    /\ UNCHANGED <<holders, record, harness, caps, minted>>

StdinEnds(p) ==
    /\ p \in Bridges
    /\ Running(p)
    /\ ~process[p].eof
    /\ process' = [process EXCEPT ![p].eof = TRUE]
    /\ UNCHANGED <<holders, record, harness, caps, minted>>

\* A SIGKILL: the flock is freed, deferred calls are not made.
Killed(p) ==
    /\ Running(p)
    /\ Goto(p, "killed")
    /\ holders' = holders \ {p}
    /\ UNCHANGED <<record, harness, caps, minted>>

ProcessStep(p) ==
    \/ AcquireLock(p) \/ ReadSession(p) \/ StartHarness(p)
    \/ Initialize(p) \/ EstablishSession(p) \/ Serve(p)
    \/ Escalate(p) \/ CloseHarness(p) \/ Release(p)

BridgeNext ==
    \E p \in Processes :
        ProcessStep(p) \/ HarnessExits(p) \/ Signal(p) \/ StdinEnds(p) \/ Killed(p)

BridgeSpec == BridgeInit /\ [][BridgeNext]_bridgeVars

\* A process waits for the harness's answer for as long as its context lives.
Waits(p) ==
    /\ ~Breaks(p)
    /\ process[p].pc \in {"init", "resume", "load", "new"} \/ (p \in Models /\ At(p, "serving"))

\* What a process does by itself; nothing is assumed of the harness, of the
\* signals or of the stdin.
GoesOn(p) == ~Waits(p) /\ ProcessStep(p)

BridgeFairness == \A p \in Processes : WF_bridgeVars(GoesOn(p))

--------------------------------------------------------------------------------
\* The flock is held from its acquisition to the end of the process.
BridgeTypeOK ==
    /\ process \in [Processes ->
          [pc : {"idle", "locking", "reading", "spawning", "init", "resume", "load", "new",
                 "writing", "renaming", "serving", "closing", "releasing", "gone", "killed"},
           saved : 0 .. MaxSessions, session : 0 .. MaxSessions,
           signalled : BOOLEAN, eof : BOOLEAN, refused : BOOLEAN, unread : BOOLEAN]]
    /\ holders = {p \in Processes : process[p].pc \notin {"idle", "locking", "gone", "killed"}}
    /\ record \in [state : {"absent", "unreadable", "whole"}, session : 0 .. MaxSessions]
    /\ harness \in [Processes -> {"none", "live", "told", "gone"}]
    /\ caps \in [resume : BOOLEAN, load : BOOLEAN]
    /\ minted \in 0 .. MaxSessions

\* At most one harness works on the folder, whoever is told to stop, fails or
\* waits for the lock: the next one starts after the last one was reaped.  Only
\* a process that is killed leaves its harness behind.
OneHarness ==
    \A p, q \in Processes :
        /\ p # q
        /\ harness[p] \in {"live", "told"} /\ harness[q] \in {"live", "told"}
        => At(p, "killed") \/ At(q, "killed")

\* While a process serves a session, the record names that session: whoever
\* comes next, after a crash too, resumes what was served last.
ServesRecord ==
    \A p \in Processes :
        At(p, "serving") => record = [state |-> "whole", session |-> process[p].session]

\* The folder's session is given up only by a process whose harness refused to
\* reopen that very session, or cannot reopen any; else by one whose context
\* ended while it asked, or that could not read the record.
Continuity ==
    [][record.state = "whole" /\ record' # record
        => \E p \in Processes :
              /\ At(p, "renaming")
              /\ \/ process[p].unread
                 \/ /\ process[p].saved = record.session
                    /\ \/ process[p].refused
                       \/ ~caps.resume /\ ~caps.load
                       \/ process[p].signalled]_bridgeVars

\* A process that is told to stop at any of its steps, or whose stdin ends while
\* it serves, is gone at last, whatever its harness does.
Leaves ==
    \A p \in Processes :
        process[p].signalled \/ (At(p, "serving") /\ process[p].eof)
            ~> process[p].pc \in {"gone", "killed"}
================================================================================
