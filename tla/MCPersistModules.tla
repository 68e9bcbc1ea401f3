---------------------------- MODULE MCPersistModules ----------------------------
(* Small instances of PersistModules for TLC.                                 *)
EXTENDS PersistModules
================================================================================
