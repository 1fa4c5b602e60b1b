------------------------------ MODULE ServeProcess ------------------------------
(***************************************************************************)
(* The "wackyacp serve" process around its connections (runServe and       *)
(* runServeTCP in cmd/wackyacp/serve.go) and its wackypub child, which     *)
(* every dial of the gRPC client spawns anew (internal/serve/dialer.go):   *)
(* accepting, shutting down, dialing and closing run at once.  What a      *)
(* connection does in between is ServeTurn.                                *)
(***************************************************************************)
EXTENDS Naturals, FiniteSets

CONSTANTS
    Sockets,        \* connections to the listener
    Dials,          \* calls of Dial by the gRPC client; each spawns at most one child
    NoDial          \* no call

ASSUME ServeAssumption == IsFiniteSet(Sockets) /\ IsFiniteSet(Dials) /\ NoDial \notin Dials

VARIABLES
    transport,  \* "tcp" or "stdio"
    main,       \* runServe: serving, then its deferred calls, then exited
    shutdown,   \* the context, and the goroutine that waits for its end
    socket,     \* per connection: none, accepted (not yet listed), listed, closed
    dial,       \* per call of Dial: its step, and whether its context has expired
    dialer,     \* its mutex, closed, and the call whose child is the active one
    child       \* per call, its child: none, live, told (stdin closed) or gone

serveVars == <<transport, main, shutdown, socket, dial, dialer, child>>

ServeInit ==
    /\ transport \in {"tcp", "stdio"}
    /\ main = [pc |-> "serving", listening |-> transport = "tcp"]
    /\ shutdown = [done |-> FALSE, step |-> "waiting"]
    /\ socket = [s \in Sockets |-> "none"]
    /\ dial = [d \in Dials |-> [pc |-> "idle", expired |-> FALSE]]
    /\ dialer = [holder |-> NoDial, closed |-> FALSE, active |-> NoDial]
    /\ child = [d \in Dials |-> "none"]

Exited == main.pc = "exited"

\* Conn.Close: the child's stdin ends.
CloseConn(d) == IF d # NoDial /\ child[d] = "live" THEN [child EXCEPT ![d] = "told"] ELSE child

--------------------------------------------------------------------------------
(***************************************************************************)
(* The listener, its connections and the shutdown.                         *)
(***************************************************************************)
Accept(s) ==
    /\ main.pc = "serving" /\ main.listening
    /\ socket[s] = "none"
    /\ \A t \in Sockets : socket[t] # "accepted"
    /\ socket' = [socket EXCEPT ![s] = "accepted"]
    /\ UNCHANGED <<transport, main, shutdown, dial, dialer, child>>

\* The accepted connection is listed, and served by a goroutine.
ListSocket(s) ==
    /\ main.pc = "serving"
    /\ socket[s] = "accepted"
    /\ socket' = [socket EXCEPT ![s] = "listed"]
    /\ UNCHANGED <<transport, main, shutdown, dial, dialer, child>>

\* The peer hangs up, or the connection's Serve has seen the end of the context.
SocketCloses(s) ==
    /\ ~Exited
    /\ socket[s] = "listed"
    /\ socket' = [socket EXCEPT ![s] = "closed"]
    /\ UNCHANGED <<transport, main, shutdown, dial, dialer, child>>

Sigterm ==
    /\ ~Exited /\ ~shutdown.done
    /\ shutdown' = [shutdown EXCEPT !.done = TRUE]
    /\ UNCHANGED <<transport, main, socket, dial, dialer, child>>

\* A bug: the listener is left to the deferred Close.
CloseListener_deferred ==
    /\ transport = "tcp" /\ shutdown.done /\ shutdown.step = "waiting"
    /\ shutdown' = [shutdown EXCEPT !.step = "listener closed"]
    /\ UNCHANGED <<transport, main, socket, dial, dialer, child>>

\* The end of the context closes the listener, so that Accept returns.
CloseListener ==
    /\ transport = "tcp" /\ shutdown.done /\ shutdown.step = "waiting"
    /\ shutdown' = [shutdown EXCEPT !.step = "listener closed"]
    /\ main' = [main EXCEPT !.listening = FALSE]
    /\ UNCHANGED <<transport, socket, dial, dialer, child>>

\* Then the connections that are listed by now.
CloseSockets ==
    /\ ~Exited
    /\ shutdown.step = "listener closed"
    /\ shutdown' = [shutdown EXCEPT !.step = "sockets closed"]
    /\ socket' = [s \in Sockets |-> IF socket[s] = "listed" THEN "closed" ELSE socket[s]]
    /\ UNCHANGED <<transport, main, dial, dialer, child>>

\* Accept fails on the closed listener; over stdio Serve returns at the end of
\* stdin or of the context.
ServingEnds ==
    /\ main.pc = "serving"
    /\ \/ /\ transport = "tcp" /\ ~main.listening /\ shutdown.done
          /\ \A s \in Sockets : socket[s] # "accepted"
       \/ transport = "stdio"
    /\ main' = [main EXCEPT !.pc = "closing client"]
    /\ UNCHANGED <<transport, shutdown, socket, dial, dialer, child>>

\* gc.Close: the contexts of running dials end, and no new ones begin.
CloseClient ==
    /\ main.pc = "closing client"
    /\ main' = [main EXCEPT !.pc = "closing dialer"]
    /\ dial' = [d \in Dials |-> [dial[d] EXCEPT !.expired = TRUE]]
    /\ UNCHANGED <<transport, shutdown, socket, dialer, child>>

\* A bug: Close does not take the mutex.
CloseDialer_unlocked ==
    /\ main.pc = "closing dialer"
    /\ dialer' = [dialer EXCEPT !.closed = TRUE, !.active = NoDial]
    /\ child' = CloseConn(dialer.active)
    /\ main' = [main EXCEPT !.pc = "exited"]
    /\ UNCHANGED <<transport, shutdown, socket, dial>>

\* Dialer.Close, under the mutex; then the process is gone.
CloseDialer ==
    /\ main.pc = "closing dialer"
    /\ dialer.holder = NoDial
    /\ dialer' = [dialer EXCEPT !.closed = TRUE, !.active = NoDial]
    /\ child' = CloseConn(dialer.active)
    /\ main' = [main EXCEPT !.pc = "exited"]
    /\ UNCHANGED <<transport, shutdown, socket, dial>>

--------------------------------------------------------------------------------
(***************************************************************************)
(* The dialer and its children.                                            *)
(***************************************************************************)
\* The gRPC client dials on first use, again after a drop, and at times again
\* while the old connection lives.
BeginDial(d) ==
    /\ main.pc \in {"serving", "closing client"}
    /\ dial[d].pc = "idle"
    /\ dial' = [dial EXCEPT ![d].pc = "locking"]
    /\ UNCHANGED <<transport, main, shutdown, socket, dialer, child>>

DialExpires(d) ==
    /\ dial[d].pc \in {"locking", "spawning", "spawned"}
    /\ ~dial[d].expired
    /\ dial' = [dial EXCEPT ![d].expired = TRUE]
    /\ UNCHANGED <<transport, main, shutdown, socket, dialer, child>>

\* The previous child loses its stdin.
TearDown == CloseConn(dialer.active)

\* A closed dialer, and an ended context, refuse; else the previous child goes.
LockDialer(d) ==
    /\ dial[d].pc = "locking" /\ ~Exited
    /\ dialer.holder = NoDial
    /\ IF dialer.closed \/ shutdown.done
       THEN /\ dial' = [dial EXCEPT ![d].pc = "failed"]
            /\ UNCHANGED <<dialer, child>>
       ELSE /\ dial' = [dial EXCEPT ![d].pc = "spawning"]
            /\ dialer' = [dialer EXCEPT !.holder = d, !.active = NoDial]
            /\ child' = TearDown
    /\ UNCHANGED <<transport, main, shutdown, socket>>

Spawn(d) ==
    /\ dial[d].pc = "spawning" /\ ~Exited
    /\ \/ /\ child' = [child EXCEPT ![d] = "live"]
          /\ dial' = [dial EXCEPT ![d].pc = "spawned"]
          /\ UNCHANGED dialer
       \/ /\ dial' = [dial EXCEPT ![d].pc = "failed"]
          /\ dialer' = [dialer EXCEPT !.holder = NoDial]
          /\ UNCHANGED child
    /\ UNCHANGED <<transport, main, shutdown, socket>>

\* A dial whose context expired while it spawned closes its child.
FinishDial(d) ==
    /\ dial[d].pc = "spawned" /\ ~Exited
    /\ dial' = [dial EXCEPT ![d].pc = IF dial[d].expired THEN "failed" ELSE "ready"]
    /\ dialer' = [dialer EXCEPT !.holder = NoDial,
                                !.active = IF dial[d].expired THEN NoDial ELSE d]
    /\ child' = IF dial[d].expired THEN CloseConn(d) ELSE child
    /\ UNCHANGED <<transport, main, shutdown, socket>>

\* The transport drops, which closes the connection.
TransportDrops(d) ==
    /\ dial[d].pc = "ready" /\ ~Exited
    /\ child' = CloseConn(d)
    /\ dial' = [dial EXCEPT ![d].pc = "dropped"]
    /\ UNCHANGED <<transport, main, shutdown, socket, dialer>>

\* A child exits by itself, or at the end of its stdin; one that does not is
\* killed after the grace period, for as long as the process lives.
ChildExits(d) ==
    /\ child[d] \in {"live", "told"}
    /\ child' = [child EXCEPT ![d] = "gone"]
    /\ UNCHANGED <<transport, main, shutdown, socket, dial, dialer>>

ServeNext ==
    \/ \E s \in Sockets : Accept(s) \/ ListSocket(s) \/ SocketCloses(s)
    \/ Sigterm \/ CloseListener \/ CloseSockets
    \/ ServingEnds \/ CloseClient \/ CloseDialer
    \/ \E d \in Dials :
          \/ BeginDial(d) \/ DialExpires(d) \/ LockDialer(d) \/ Spawn(d) \/ FinishDial(d)
          \/ TransportDrops(d) \/ ChildExits(d)

ServeSpec == ServeInit /\ [][ServeNext]_serveVars

\* The process's goroutines go on; nothing is assumed of peers and children.
ServeFairness ==
    /\ WF_serveVars(\E s \in Sockets : ListSocket(s))
    /\ WF_serveVars(CloseListener) /\ WF_serveVars(CloseSockets)
    /\ WF_serveVars(shutdown.done /\ ServingEnds)
    /\ WF_serveVars(CloseClient) /\ WF_serveVars(CloseDialer)
    /\ \A d \in Dials : WF_serveVars(Spawn(d) \/ FinishDial(d))

--------------------------------------------------------------------------------
\* A child with an open stdin is the active one, or its dial is under way: none
\* outlives the Close of the dialer, and none a failed dial.  And at most one has
\* its stdin open, however dials, drops and redials overlap: two would leave one
\* that nobody ends.
NoOrphan ==
    /\ \A d \in Dials :
          child[d] = "live" =>
              /\ ~Exited
              /\ dialer.active = d \/ (dialer.holder = d /\ dial[d].pc = "spawned")
    /\ \A d, e \in Dials : child[d] = "live" /\ child[e] = "live" => d = e

\* A SIGTERM ends the process, with its listener waiting for a connection, with
\* connections that are idle, and while dials are under way.
SigtermExits == shutdown.done ~> Exited
================================================================================
