------------------------------- MODULE MCRunner -------------------------------
(* A small instance of Runner for TLC.                                        *)
EXTENDS Runner
================================================================================
