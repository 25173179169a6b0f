------------------------------- MODULE MCAgent -------------------------------
(***************************************************************************)
(* The two halves of an agent: the registry with the runs it is asked for, *)
(* whose executor returns at any time and with any outcome, and what that  *)
(* executor does, the scheduler of one run. Only one of the two moves, so  *)
(* that their state spaces add up: the registry beside a scheduler that    *)
(* was never used, or the scheduler beside a registry nothing was asked of.*)
(***************************************************************************)
EXTENDS MCAgentRegistry, MCSessionScheduler

(* The end of a run that launched nothing and gave no verdict, which no    *)
(* run of RunConfigJobs reaches.                                           *)
Unused ==
    /\ main = "returned" /\ pos = 1
    /\ worker = [j \in Jobs |-> "planned"]
    /\ attempt = [j \in Jobs |-> 0]
    /\ sess = [j \in Jobs |-> NoSession]
    /\ handles = <<>>
    /\ ctx = "cancelled" /\ stopper = "gone"
    /\ metrics = [attempts |-> 0, failures |-> 0, disconnects |-> 0]
    /\ errors = [start |-> 0, runtime |-> 0]
    /\ counts = [j \in Jobs |-> NoCounts]
    /\ verdict = "none"

AgentInit == RegistryInit /\ (Unused \/ Init)

Serving == Returned /\ verdict = "none" /\ RegistryNext /\ UNCHANGED vars

Executing == Next /\ UNCHANGED registryVars

AgentSpec ==
    /\ AgentInit /\ [][Serving \/ Executing]_<<registryVars, vars>>
    /\ RegistryFairness /\ Fairness
=============================================================================
