---------------------------- MODULE MCAgentRegistry ----------------------------
(* Small instances of AgentRegistry for TLC.                                  *)
EXTENDS AgentRegistry

CONSTANTS p1, p2
================================================================================
