----------------------------- MODULE MCPersistence -----------------------------
(***************************************************************************)
(* Small instances for TLC of what is on disk and in memory: the queue and *)
(* its save file (SmqRestart), the registry of the subscribers             *)
(* (SubscriberRegistry).  They share nothing; a behaviour is one of        *)
(* either.                                                                 *)
(***************************************************************************)
EXTENDS MCSmqRestart, SubscriberRegistry

CONSTANTS u1, u2

VARIABLE part

PersistenceInit ==
    /\ part \in {"queue", "registry"}
    /\ RestartInit
    /\ RegInit

PersistenceNext ==
    /\ UNCHANGED part
    /\ \/ part = "queue" /\ RestartNext /\ UNCHANGED regVars
       \/ part = "registry" /\ RegNext /\ UNCHANGED allVars

\* Where a part is not the one that runs, its process serves the queue, or is down, and its
\* fairness asks nothing.
PersistenceSpec ==
    /\ PersistenceInit
    /\ [][PersistenceNext]_<<part, allVars, regVars>>
    /\ WF_allVars(Load)
    /\ RegFairness

================================================================================
