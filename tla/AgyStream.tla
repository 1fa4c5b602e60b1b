------------------------------- MODULE AgyStream -------------------------------
(***************************************************************************)
(* How the agy bridge streams a turn (internal/agy/runner.go, poller.go):  *)
(* agy writes rows into the conversation's database, the last of which     *)
(* grows while the model streams; the bridge re-reads the rows above the   *)
(* session's watermark and sends what it has not sent, until agy has       *)
(* exited and a last read finds nothing new.  Successive turns of one      *)
(* bound session; AgySessions has the binding, the store and the rivals.   *)
(*                                                                         *)
(* A text row's content is the units 1 .. len.  Whether a text reads as    *)
(* narration ("I will ...") depends on how much of it is there, by its     *)
(* shape.                                                                  *)
(***************************************************************************)
EXTENDS Naturals, SequencesExt

CONSTANTS
    MaxTurns,      \* turns of the session
    MaxRows,       \* rows agy may write in all
    DrainAttempts, \* finalDrainAttempts
    MaxLocked,     \* reads of one drain that may find the database locked
    MayExpire      \* whether finalPollTimeout may pass before the drain has ended

ASSUME DrainAssumption ==
    /\ MaxTurns \in Nat \ {0}
    /\ MaxRows \in Nat \ {0}
    /\ DrainAttempts \in Nat \ {0}
    /\ MaxLocked \in Nat
    /\ MayExpire \in BOOLEAN

MaxUnits == 2
Idx == 1 .. MaxRows
Shapes == {"tool", "prose", "plan", "plan first", "plan later"}

VARIABLES
    rows,      \* the steps table: a sequence of [shape, len]
    agy,       \* the child: none, running, or how it exited
    poller,    \* TurnPoller: base, last, units consumed per row, hadUpdates
    runner,    \* runTurn: where it is, and what it and the log files know
    feed,      \* what the frontend was sent: pairs of row and unit, in order
    frontend   \* whether the frontend still reads

vars == <<rows, agy, poller, runner, feed, frontend>>

\* A tool row is one unit, and complete when it appears.
FullLen(shape) == IF shape = "tool" THEN 1 ELSE MaxUnits

\* isNarration of what the row holds now.
Narrates(row) == \/ row.shape = "plan"
                 \/ row.shape = "plan first" /\ row.len = 1
                 \/ row.shape = "plan later" /\ row.len = 2

NewTurnPoller(base) == [base |-> base, last |-> base,
                        consumed |-> [i \in Idx |-> 0], had |-> FALSE]

\* "stored" is the session's LastStepIdx, "first" the rows at the launch,
\* "swallowed" an error that agy wrote into its log during the turn.
Init ==
    /\ rows = <<>>
    /\ agy = "none"
    /\ poller = NewTurnPoller(0)
    /\ \E show \in BOOLEAN :
          runner = [turn |-> 0, phase |-> "idle", attempt |-> 0, locked |-> 0,
                    stored |-> 0, first |-> 0, cancelled |-> FALSE, aborted |-> FALSE,
                    swallowed |-> FALSE, quiet |-> TRUE, result |-> "none", show |-> show]
    /\ feed = <<>>
    /\ frontend = TRUE

--------------------------------------------------------------------------------
(***************************************************************************)
(* agy, the client and the frontend.                                       *)
(***************************************************************************)
Appends ==
    /\ agy = "running"
    /\ Len(rows) < MaxRows
    /\ \E shape \in Shapes : rows' = Append(rows, [shape |-> shape, len |-> 1])
    /\ UNCHANGED <<agy, poller, runner, feed, frontend>>

\* A text row grows in place, while it is the turn's last one.
Grows ==
    /\ agy = "running"
    /\ Len(rows) > runner.first
    /\ rows[Len(rows)].len < FullLen(rows[Len(rows)].shape)
    /\ rows' = [rows EXCEPT ![Len(rows)].len = @ + 1]
    /\ UNCHANGED <<agy, poller, runner, feed, frontend>>

\* agy exits, by itself or at the signal of its cancelled context.  It may have
\* hidden a backend failure: an exit status of 0, and the error in its log.
Exits ==
    /\ agy = "running"
    /\ \E status \in {"exited", "failed"}, hidden \in BOOLEAN :
          /\ hidden => status = "exited"
          /\ agy' = status
          /\ runner' = [runner EXCEPT !.swallowed = hidden]
    /\ UNCHANGED <<rows, poller, feed, frontend>>

\* session/cancel: the turn's context ends, which signals the child.
Cancel ==
    /\ runner.phase \in {"polling", "drain"}
    /\ ~runner.cancelled
    /\ runner' = [runner EXCEPT !.cancelled = TRUE]
    /\ UNCHANGED <<rows, agy, poller, feed, frontend>>

FrontendGone ==
    /\ frontend
    /\ runner.phase # "idle"
    /\ frontend' = FALSE
    /\ UNCHANGED <<rows, agy, poller, runner, feed>>

--------------------------------------------------------------------------------
(***************************************************************************)
(* The poller.                                                             *)
(***************************************************************************)
\* Transcript.Steps: the rows above the base.
Steps == {i \in DOMAIN rows : i > poller.base}

\* textUpdate and toolUpdates: the units of a row that a read sends.  A row
\* that reads as narration is consumed whole and sends none.
Suffix(i) ==
    IF ~runner.show /\ Narrates(rows[i]) THEN {} ELSE poller.consumed[i] + 1 .. rows[i].len

\* What one read finds to send: pairs of row and unit.
NewUnits == {p \in Steps \X (1 .. MaxUnits) : p[2] \in Suffix(p[1])}

\* The order of the conversation.
Before(p, q) == p[1] < q[1] \/ (p[1] = q[1] /\ p[2] < q[2])

\* The updates of one read, in the order of their rows.
Updates ==
    CHOOSE seq \in [1 .. Cardinality(NewUnits) -> NewUnits] :
        \A k, l \in DOMAIN seq : k < l => Before(seq[k], seq[l])

\* A bug: a text row counts as sent as soon as it was read once.
Consumed_byRow(i) == MaxUnits

\* What is sent or passed over of row i once it was read.
Consumed(i) == rows[i].len

\* A bug: hadUpdates is set by any row that was read.
Had_byRows == poller.had \/ Steps # {}

Had == poller.had \/ NewUnits # {}

\* Poll: every row read moves the watermark.
Poll ==
    poller' = [poller EXCEPT
                  !.last = IF Steps = {} THEN @ ELSE Max(Steps \union {@}),
                  !.consumed = [i \in Idx |-> IF i \in Steps THEN Consumed(i) ELSE @[i]],
                  !.had = Had]

--------------------------------------------------------------------------------
(***************************************************************************)
(* runTurn.                                                                *)
(***************************************************************************)
\* A bug: the poller starts from the beginning of the conversation.
Launch_fromStart ==
    /\ runner.phase = "idle"
    /\ runner.turn < MaxTurns
    /\ runner' = [runner EXCEPT !.turn = @ + 1, !.phase = "polling", !.attempt = 0,
                     !.locked = 0, !.first = Len(rows), !.cancelled = FALSE,
                     !.aborted = FALSE, !.swallowed = FALSE, !.result = "none"]
    /\ poller' = NewTurnPoller(0)
    /\ agy' = "running"
    /\ UNCHANGED <<rows, feed, frontend>>

\* runTurn spawns agy and starts to poll from the session's watermark.
Launch ==
    /\ runner.phase = "idle"
    /\ frontend
    /\ runner.turn < MaxTurns
    /\ runner' = [runner EXCEPT !.turn = @ + 1, !.phase = "polling", !.attempt = 0,
                     !.locked = 0, !.first = Len(rows), !.cancelled = FALSE,
                     !.aborted = FALSE, !.swallowed = FALSE, !.result = "none"]
    /\ poller' = NewTurnPoller(runner.stored)
    /\ agy' = "running"
    /\ UNCHANGED <<rows, feed, frontend>>

\* pollOnce sends the updates one after the other.  The first that fails ends
\* the child's context; the error itself is kept in a variable of pollOnce that
\* hides runTurn's, and no one reads it.
PollOnce ==
    /\ Poll
    /\ IF frontend THEN feed' = feed \o Updates ELSE UNCHANGED feed

EmitFails == ~frontend /\ NewUnits # {}

\* A tick, while the child's context is alive.  A read that fails changes
\* nothing until the next one.
Tick ==
    /\ runner.phase = "polling"
    /\ ~runner.cancelled
    /\ ~runner.aborted
    /\ PollOnce
    /\ runner' = [runner EXCEPT !.aborted = EmitFails]
    /\ UNCHANGED <<rows, agy, frontend>>

\* A bug: the ticker is not told to stop, so that only its context ends it.
Waited_noStop ==
    /\ runner.phase = "polling"
    /\ agy \in {"exited", "failed"}
    /\ runner.cancelled \/ runner.aborted
    /\ runner' = [runner EXCEPT !.phase = "drain"]
    /\ UNCHANGED <<rows, agy, poller, feed, frontend>>

\* The child was waited for: the ticker stops.
Waited ==
    /\ runner.phase = "polling"
    /\ agy \in {"exited", "failed"}
    /\ runner' = [runner EXCEPT !.phase = "drain"]
    /\ UNCHANGED <<rows, agy, poller, feed, frontend>>

\* drainFinal ends at a clean read without updates, and when nothing can be sent.
DrainEnds(ok) == ok /\ (NewUnits = {} \/ EmitFails)

\* One read of the drain; one that finds the database locked is tried again.
\* After finalDrainAttempts reads, or at its deadline, the drain gives up.
Drain ==
    /\ runner.phase = "drain"
    /\ \E ok, late \in BOOLEAN :
          /\ ok \/ runner.locked < MaxLocked
          /\ late => MayExpire
          /\ IF ok THEN PollOnce ELSE UNCHANGED <<poller, feed>>
          /\ LET done == DrainEnds(ok) \/ late \/ runner.attempt + 1 = DrainAttempts
             IN  runner' = [runner EXCEPT
                     !.attempt = @ + 1,
                     !.locked = IF ok THEN @ ELSE @ + 1,
                     !.phase = IF done THEN "map" ELSE @,
                     !.quiet = IF done THEN DrainEnds(ok) /\ ~EmitFails ELSE @]
    /\ UNCHANGED <<rows, agy, frontend>>

\* mapOutcome.
Outcome ==
    CASE runner.cancelled -> "cancelled"
      [] ~runner.cancelled /\ (agy = "failed" \/ (runner.swallowed /\ ~poller.had)) -> "error"
      [] OTHER -> "end_turn"

\* The turn ends, and the caller stores the watermark whatever the outcome.
Ends ==
    /\ runner.phase = "map"
    /\ runner' = [runner EXCEPT !.phase = "idle", !.result = Outcome, !.stored = poller.last]
    /\ agy' = "none"
    /\ UNCHANGED <<rows, poller, feed, frontend>>

Next ==
    \/ Appends \/ Grows \/ Exits
    \/ Cancel \/ FrontendGone
    \/ Launch \/ Tick \/ Waited \/ Drain \/ Ends

\* runTurn goes on once the child is gone, and a child whose context has ended
\* is killed when it does not leave by itself.
Fairness ==
    /\ WF_vars(Waited)
    /\ WF_vars(Drain)
    /\ WF_vars(Ends)
    /\ WF_vars((runner.cancelled \/ runner.aborted) /\ Exits)

Spec == Init /\ [][Next]_vars
FairSpec == Spec /\ Fairness

--------------------------------------------------------------------------------
TypeOK ==
    /\ rows \in Seq([shape : Shapes, len : 1 .. MaxUnits]) /\ Len(rows) <= MaxRows
    /\ agy \in {"none", "running", "exited", "failed"}
    /\ poller \in [base : 0 .. MaxRows, last : 0 .. MaxRows,
                   consumed : [Idx -> 0 .. MaxUnits], had : BOOLEAN]
    /\ runner \in [turn : 0 .. MaxTurns, phase : {"idle", "polling", "drain", "map"},
                   attempt : 0 .. DrainAttempts, locked : 0 .. MaxLocked,
                   stored : 0 .. MaxRows, first : 0 .. MaxRows,
                   cancelled : BOOLEAN, aborted : BOOLEAN, swallowed : BOOLEAN,
                   quiet : BOOLEAN, result : {"none", "cancelled", "error", "end_turn"},
                   show : BOOLEAN]
    /\ feed \in Seq(Idx \X (1 .. MaxUnits))
    /\ frontend \in BOOLEAN

Sent(i) == {p[2] : p \in {q \in ToSet(feed) : q[1] = i}}

\* The frontend is sent every unit of text and every tool call at most once and
\* in the order of the conversation, over all turns: the rows are read again and
\* again while they grow, and the next turn reads on from the watermark.
OnceInOrder == \A m, n \in DOMAIN feed : m < n => Before(feed[m], feed[n])

\* What has to have been sent of a row once its turn is over: all of it, but
\* nothing of a plan that is hidden.  A row whose text stops or starts to read
\* as a plan while it grows is sent from the unit, or to the unit, on which the
\* reads saw it.
Surfaced(i) ==
    IF runner.show \/ rows[i].shape \in {"tool", "prose"} THEN Sent(i) = 1 .. rows[i].len
    ELSE CASE rows[i].shape = "plan" -> Sent(i) = {}
           [] rows[i].shape = "plan first" -> rows[i].len = 2 => 2 \in Sent(i)
           [] OTHER -> rows[i].len = 1 => 1 \in Sent(i)

\* After a turn whose last read was clean and found nothing new, nothing of the
\* conversation is missing at the frontend: a row's tail that no tick has read,
\* or that the database's lock kept from a read of the drain, is read again.
NothingMissing ==
    runner.phase = "idle" /\ runner.quiet /\ frontend => \A i \in DOMAIN rows : Surfaced(i)

\* A backend failure that agy hides behind an exit status of 0 is an error for
\* the client, unless the turn has sent something: never an empty success.
SwallowedErrorTold ==
    [][runner.phase = "map" /\ runner'.phase = "idle" /\ runner.swallowed /\ frontend
            /\ runner'.result = "end_turn"
        => \E i \in runner.first + 1 .. Len(rows) : Sent(i) # {}]_vars

\* A turn ends once its child has exited, and a turn that is cancelled, or one of
\* whose updates could not be sent, ends although agy would go on.
Settles ==
    /\ agy \in {"exited", "failed"} ~> runner.phase = "idle"
    /\ runner.cancelled ~> runner.phase = "idle"
    /\ runner.aborted ~> runner.phase = "idle"
================================================================================
