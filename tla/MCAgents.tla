------------------------------ MODULE MCAgents ------------------------------
(***************************************************************************)
(* A campaign as its agents meet it, side by side: the pilot run that      *)
(* starts and ends them, the artifacts they publish, the board they read,  *)
(* the sessions of their harness, and the rehearsal of whole campaigns     *)
(* without them.  They share no state; a behaviour belongs to one of them  *)
(* and leaves the others where they begin.                                 *)
(***************************************************************************)
EXTENDS MCPublication, HarnessSessions, CollaborationBoard, PilotRun, StudyRehearsal

VARIABLE world

MCHiddenPhases == <<"correctness", "quality", "performance">>
MCConditionOrder == <<<<"peer_collab", "solo", "peer_isolated", "native_multiagent">>>>

worldVars == <<publicationVars, boardVars, sessVars, pilotVars, studyVars, world>>

WorldInit ==
    /\ world \in {"publication", "board", "sessions", "pilot", "rehearsal"}
    /\ PublicationInit /\ BoardInit /\ SessionsInit /\ PilotInit /\ StudyInit
    /\ world # "pilot" => live

WorldNext ==
    /\ UNCHANGED world
    /\ \/ /\ world = "publication" /\ PublicationNext
          /\ UNCHANGED <<boardVars, sessVars, pilotVars, studyVars>>
       \/ /\ world = "board" /\ BoardNext
          /\ UNCHANGED <<publicationVars, sessVars, pilotVars, studyVars>>
       \/ /\ world = "sessions" /\ SessionsNext
          /\ UNCHANGED <<publicationVars, boardVars, pilotVars, studyVars>>
       \/ /\ world = "pilot" /\ PilotNext
          /\ UNCHANGED <<publicationVars, boardVars, sessVars, studyVars>>
       \/ /\ world = "rehearsal" /\ StudyNext
          /\ UNCHANGED <<publicationVars, boardVars, sessVars, pilotVars>>

WorldSpec == WorldInit /\ [][WorldNext]_worldVars

=============================================================================
