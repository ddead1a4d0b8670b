------------------------------- MODULE MCPipeline -------------------------------
(***************************************************************************)
(* Small instances for TLC of how datagrams get into smqueue and out: the  *)
(* threads (SmqPipeline), which have a socket of their own, and the        *)
(* sockets of SMnet (SmqNetwork).  They share nothing; a behaviour is one  *)
(* of either.                                                              *)
(***************************************************************************)
EXTENDS SmqPipeline, SmqNetwork

VARIABLE part

BothFamilies == <<"inet", "inet6">>

\* A host without an address, with one, and with several of both families.
SomeHosts ==
    {<< >>, <<"inet">>, <<"inet6">>, <<"inet6", "inet">>, <<"inet", "inet", "inet6">>}

PipelineInit ==
    /\ part \in {"threads", "sockets"}
    /\ Init
    /\ NetInit

PipelineNext ==
    /\ UNCHANGED part
    /\ \/ part = "threads" /\ Next /\ UNCHANGED netVars
       \/ part = "sockets" /\ NetNext /\ UNCHANGED vars

allVars == <<part, vars, netVars>>

\* The fairness of FairSpec, where the threads are the part; NetFairness asks nothing before
\* there is a socket.
ThreadFairness ==
    /\ WF_vars(part = "threads" /\ Reader)
    /\ WF_vars(part = "threads" /\ Acker)
    /\ WF_vars(part = "threads" /\ Writer)
    /\ WF_vars(part = "threads" /\ pc["main"] # "loop" /\ Main)

PipelineSpec ==
    PipelineInit /\ [][PipelineNext]_allVars /\ ThreadFairness /\ NetFairness
================================================================================
