------------------------------ MODULE TurnGate ------------------------------
(***************************************************************************)
(* What serve mode promises its frontends about prompt turns, whatever     *)
(* connection they come from (README.md, "Behavioral contract"): the agent *)
(* folder is one conversation, so at most one prompt holds the gate; a     *)
(* prompt that finds it held is refused, every other prompt is settled     *)
(* exactly once, and "cancelled" is said only of a turn somebody cancelled *)
(* or that the process shut down under.                                    *)
(***************************************************************************)
CONSTANTS Prompts,  \* session/prompt requests
          NoTurn    \* the value of holder when the gate is free

VARIABLES holder,   \* the prompt whose turn is in flight
          phase,    \* how far each prompt has come
          verdict,  \* how its turn was settled
          asked,    \* the turns somebody asked to cancel
          down      \* the process is shutting down

gateVars == <<holder, phase, verdict, asked, down>>

Phases == {"new", "running", "settled", "answered"}
Verdicts == {"none", "invalid", "busy", "end_turn", "cancelled", "failed"}

GateTypeOK ==
    /\ holder \in Prompts \union {NoTurn}
    /\ phase \in [Prompts -> Phases]
    /\ verdict \in [Prompts -> Verdicts]
    /\ asked \in SUBSET Prompts
    /\ down \in BOOLEAN

GateInit ==
    /\ holder = NoTurn
    /\ phase = [p \in Prompts |-> "new"]
    /\ verdict = [p \in Prompts |-> "none"]
    /\ asked = {}
    /\ down = FALSE

\* The gate is free and the prompt takes it.
Take(p) ==
    /\ phase[p] = "new"
    /\ holder = NoTurn
    /\ holder' = p
    /\ phase' = [phase EXCEPT ![p] = "running"]
    /\ UNCHANGED <<verdict, asked, down>>

\* The prompt never becomes a turn: it is malformed, or the gate is held.
Refuse(p) ==
    /\ phase[p] = "new"
    /\ \/ verdict' = [verdict EXCEPT ![p] = "invalid"]
       \/ holder # NoTurn /\ verdict' = [verdict EXCEPT ![p] = "busy"]
    /\ phase' = [phase EXCEPT ![p] = "settled"]
    /\ UNCHANGED <<holder, asked, down>>

\* The turn ends and gives the gate back.
Settle(p) ==
    /\ holder = p
    /\ phase[p] = "running"
    /\ holder' = NoTurn
    /\ phase' = [phase EXCEPT ![p] = "settled"]
    /\ \E v \in {"end_turn", "cancelled", "failed"} :
          /\ v = "cancelled" => p \in asked \/ down
          /\ verdict' = [verdict EXCEPT ![p] = v]
    /\ UNCHANGED <<asked, down>>

\* The frontend learns the verdict; a failure the shutdown provoked is told
\* as a cancellation.
Answer(p) ==
    /\ phase[p] = "settled"
    /\ phase' = [phase EXCEPT ![p] = "answered"]
    /\ \/ UNCHANGED verdict
       \/ /\ down
          /\ verdict[p] = "failed"
          /\ verdict' = [verdict EXCEPT ![p] = "cancelled"]
    /\ UNCHANGED <<holder, asked, down>>

\* Somebody cancels a turn that was admitted; it may have ended since.
Ask(p) ==
    /\ phase[p] # "new"
    /\ asked' = asked \union {p}
    /\ UNCHANGED <<holder, phase, verdict, down>>

GoDown ==
    /\ down' = TRUE
    /\ UNCHANGED <<holder, phase, verdict, asked>>

GateNext ==
    \/ \E p \in Prompts : Take(p) \/ Refuse(p) \/ Settle(p) \/ Answer(p) \/ Ask(p)
    \/ GoDown

GateSpec == GateInit /\ [][GateNext]_gateVars
=============================================================================
