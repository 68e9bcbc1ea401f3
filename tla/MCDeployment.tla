------------------------------ MODULE MCDeployment ------------------------------
(* Small instances of Deployment for TLC: the second manifest has a new agent and *)
(* leaves the loader alone.                                                       *)
EXTENDS Deployment

MCBundle == <<"mig-agent", "mig-loader">>

MCContent ==
  <<[e \in {"mig-agent", "mig-loader"} |-> IF e = "mig-agent" THEN "agent 1" ELSE "loader 1"],
    [e \in {"mig-agent", "mig-loader"} |-> IF e = "mig-agent" THEN "agent 2" ELSE "no file"]>>
================================================================================
