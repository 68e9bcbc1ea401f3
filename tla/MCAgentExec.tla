------------------------------ MODULE MCAgentExec ------------------------------
(* Small instances of AgentExec for TLC.                                      *)
EXTENDS AgentExec

CONSTANTS c1, c2, c3

TwoOperations == [c \in Commands |-> 2]

(* An agent with all modules that runs all the time, one in checkin mode, and *)
(* one in checkin mode without the modules of c1.                             *)
ThreeAgents ==
  {[missing |-> {}, checkin |-> FALSE], [missing |-> {}, checkin |-> TRUE],
   [missing |-> {[cmd |-> c1, pos |-> i] : i \in 1..2}, checkin |-> TRUE]}
================================================================================
