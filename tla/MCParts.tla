--------------------------------- MODULE MCParts ---------------------------------
(***************************************************************************)
(* The parts around the turns, checked by one run.  They share no state: a *)
(* behaviour is a behaviour of one part, chosen at the start, with the     *)
(* others at rest.                                                         *)
(***************************************************************************)
EXTENDS BridgeProcess, OAuthLock, SkillSync, Replay, ServeProcess

VARIABLE part

partVars == <<part, bridgeVars, oauthVars, skillVars, replayVars, serveVars>>

\* Of a part at rest one initial state is enough.
PartInit ==
    /\ part \in {"bridge", "oauth", "skills", "replay", "serve"}
    /\ BridgeInit /\ OAuthInit /\ SkillInit /\ ReplayInit /\ ServeInit
    /\ part = "bridge" \/ (record.state = "absent" /\ ~caps.resume /\ ~caps.load)
    /\ part = "skills" \/ \A k \in Skills : sources[k] = "none"
    /\ part = "replay" \/ withIds
    /\ part = "serve" \/ transport = "stdio"

PartNext ==
    \/ /\ part = "bridge" /\ BridgeNext
       /\ UNCHANGED <<part, oauthVars, skillVars, replayVars, serveVars>>
    \/ /\ part = "oauth" /\ OAuthNext
       /\ UNCHANGED <<part, bridgeVars, skillVars, replayVars, serveVars>>
    \/ /\ part = "skills" /\ SkillNext
       /\ UNCHANGED <<part, bridgeVars, oauthVars, replayVars, serveVars>>
    \/ /\ part = "replay" /\ ReplayNext
       /\ UNCHANGED <<part, bridgeVars, oauthVars, skillVars, serveVars>>
    \/ /\ part = "serve" /\ ServeNext
       /\ UNCHANGED <<part, bridgeVars, oauthVars, skillVars, replayVars>>

\* BridgeFairness and ServeFairness, each for its own part.
PartFairness ==
    /\ \A p \in Processes : WF_bridgeVars(part = "bridge" /\ GoesOn(p))
    /\ WF_serveVars(part = "serve" /\ \E s \in Sockets : ListSocket(s))
    /\ WF_serveVars(part = "serve" /\ CloseListener)
    /\ WF_serveVars(part = "serve" /\ CloseSockets)
    /\ WF_serveVars(part = "serve" /\ shutdown.done /\ ServingEnds)
    /\ WF_serveVars(part = "serve" /\ CloseClient)
    /\ WF_serveVars(part = "serve" /\ CloseDialer)
    /\ \A d \in Dials : WF_serveVars(part = "serve" /\ (Spawn(d) \/ FinishDial(d)))

PartSpec == PartInit /\ [][PartNext]_partVars /\ PartFairness
================================================================================
