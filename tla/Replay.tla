--------------------------------- MODULE Replay ---------------------------------
(***************************************************************************)
(* The replay of an agent's history to a frontend (Backend.Replay in       *)
(* internal/serve/replay.go): function calls and their responses lie in    *)
(* different turns, and are paired by the call's id where it has one, else *)
(* by name, first come first served.  Turns without content are passed     *)
(* over, and so is what lies before the window.                            *)
(*                                                                         *)
(* The agent answers the calls of a turn in the next one, in their order,  *)
(* or never, and any turn may be without content.  Without ids a response  *)
(* that is missing gives its place in the queue to the next one of that    *)
(* name, which then completes the wrong call.                              *)
(***************************************************************************)
EXTENDS Naturals, SequencesExt

CONSTANTS
    CallNames,      \* function names
    MaxCalls,       \* calls of the history
    MaxParallel     \* calls of one turn

ASSUME ReplayAssumption == MaxCalls \in Nat \ {0} /\ MaxParallel \in Nat \ {0}

Calls == 1 .. MaxCalls
Unmatched == 0

VARIABLES
    history,    \* the session's parts: calls and responses, each [kind, call, shown]
    nameOf,     \* the names of the calls made so far
    withIds,    \* whether this agent's calls carry ids
    waiting,    \* calls of the last turn, to be answered in the next or never
    replayed,   \* parts replayed so far, of a history that then is complete
    openByID,   \* calls shown that no response has named
    openByName, \* per name, the calls shown that no response has taken
    pairs       \* what the frontend saw: responses and the calls they complete

replayVars == <<history, nameOf, withIds, waiting, replayed, openByID, openByName, pairs>>
agentVars == <<history, nameOf, withIds, waiting>>

ReplayInit ==
    /\ history = <<>>
    /\ nameOf = <<>>
    /\ withIds \in BOOLEAN
    /\ waiting = <<>>
    /\ replayed = 0
    /\ openByID = {}
    /\ openByName = [n \in CallNames |-> <<>>]
    /\ pairs = {}

Parts(kind, calls, shown) ==
    [i \in DOMAIN calls |-> [kind |-> kind, call |-> calls[i], shown |-> shown]]

Shown(kind) == {part.call : part \in {p \in ToSet(history) : p.kind = kind /\ p.shown}}
ShownCalls == Shown("call")
ShownResponses == Shown("response")

\* A model turn with one or more calls.
AgentCalls ==
    /\ replayed = 0
    /\ \E count \in 1 .. MaxParallel : \E names \in [1 .. count -> CallNames], shown \in BOOLEAN :
          /\ Len(nameOf) + count <= MaxCalls
          /\ nameOf' = nameOf \o names
          /\ waiting' = [i \in 1 .. count |-> Len(nameOf) + i]
          /\ history' = history \o Parts("call", waiting', shown)
    /\ UNCHANGED <<withIds, replayed, openByID, openByName, pairs>>

\* The turn with their responses.
AgentResponds ==
    /\ replayed = 0
    /\ waiting # <<>>
    /\ \E shown \in BOOLEAN : history' = history \o Parts("response", waiting, shown)
    /\ waiting' = <<>>
    /\ UNCHANGED <<nameOf, withIds, replayed, openByID, openByName, pairs>>

Part == history[replayed + 1]
Queue == openByName[nameOf[Part.call]]

\* A bug: responses are matched by name, ids or not.
Match_byName == IF Queue # <<>> THEN Head(Queue) ELSE Unmatched

\* The call that a response completes.
Match ==
    IF withIds THEN IF Part.call \in openByID THEN Part.call ELSE Unmatched
    ELSE IF Queue # <<>> THEN Head(Queue) ELSE Unmatched

More == replayed < Len(history)

ReplaySkips ==
    /\ More /\ ~Part.shown
    /\ replayed' = replayed + 1
    /\ UNCHANGED <<agentVars, openByID, openByName, pairs>>

\* A call is shown as pending, and queued under its name also when it has an id.
ReplayCall ==
    /\ More /\ Part.shown /\ Part.kind = "call"
    /\ openByID' = openByID \union {Part.call}
    /\ openByName' = [openByName EXCEPT ![nameOf[Part.call]] = Append(@, Part.call)]
    /\ replayed' = replayed + 1
    /\ UNCHANGED <<agentVars, pairs>>

\* A response completes its call; one without a call is shown as text.
ReplayResponse ==
    /\ More /\ Part.shown /\ Part.kind = "response"
    /\ pairs' = pairs \union {<<Part.call, Match>>}
    /\ IF withIds
       THEN openByID' = openByID \ {Part.call} /\ UNCHANGED openByName
       ELSE /\ openByName' = [openByName EXCEPT
                   ![nameOf[Part.call]] = IF @ = <<>> THEN @ ELSE Tail(@)]
            /\ UNCHANGED openByID
    /\ replayed' = replayed + 1
    /\ UNCHANGED agentVars

ReplayNext == AgentCalls \/ AgentResponds \/ ReplaySkips \/ ReplayCall \/ ReplayResponse

ReplaySpec == ReplayInit /\ [][ReplayNext]_replayVars

--------------------------------------------------------------------------------
\* The place of a call in the queue of its name is its own: it has an id, or no call of
\* that name shown before it was left without a response.  One that was is "left in
\* pending status" (replay.go:24-25) only until the next response of its name.
InStep(c) ==
    withIds \/ \A d \in ShownCalls : d < c /\ nameOf[d] = nameOf[c] => d \in ShownResponses

\* A response completes its own call, and none when its call is not shown, however many
\* calls of one name are open at once and whatever turns are without content: with ids in
\* every history, without them as long as every earlier call of that name that is shown
\* has its response shown as well.
PairedRight ==
    \A pair \in pairs :
        InStep(pair[1]) => pair[2] = IF pair[1] \in ShownCalls THEN pair[1] ELSE Unmatched
================================================================================
