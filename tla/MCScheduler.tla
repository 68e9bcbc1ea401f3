------------------------------ MODULE MCScheduler ------------------------------
(* Small instances of Scheduler for TLC.                                      *)
EXTENDS Scheduler

(* Every action is targeted at all agents.                                    *)
AllAgents == [a \in Actions |-> Agents]
================================================================================
